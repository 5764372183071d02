---------------------------- MODULE StreamTiming ----------------------------
(***************************************************************************)
(* A file transfer against the clock: the sender's file mode, a path that  *)
(* may lose packets or hold them up, and the receiver's loop.  All their   *)
(* timeouts run on one clock, which stands still while either program has  *)
(* something to do.                                                        *)
(***************************************************************************)
EXTENDS FileSender, ReceiverLoop

CONSTANTS
  ShortPackets,   (* bound: datagrams without payload that arrive          *)
  PathCap         (* bound: packets under way, any beyond them are lost    *)

ASSUME StreamTimingAssumption ==
  /\ ShortPackets \in Nat
  /\ PathCap \in Nat \ {0}

VARIABLES
  net,      (* packets on the path                                         *)
  shorts,   (* datagrams without payload so far                            *)
  cut       (* history: the sender gave up on the encoder or was told to   *)

vars == <<fileSender, receiver, net, shorts, cut>>

Init == FileSenderInit /\ ReceiverInit /\ net = 0 /\ shorts = 0 /\ cut = FALSE

(* A unit of data is a packet. *)
SenderStep ==
  /\ sendStream
  /\ net' = Lesser(net + (sent' - sent), PathCap)
  /\ cut' = (cut \/ (spc \in {"top", "poll"} /\ spc' = "drain" /\ enc # "exited"))
  /\ UNCHANGED <<receiver, shorts>>

Interrupt ==
  /\ Signal
  /\ cut' = TRUE
  /\ UNCHANGED <<receiver, net, shorts>>

Encoder == EncoderStep /\ UNCHANGED <<receiver, net, shorts, cut>>

Deliver ==
  /\ net > 0 /\ net' = net - 1
  /\ Packet
  /\ UNCHANGED <<fileSender, shorts, cut>>

Lose ==
  /\ net > 0 /\ net' = net - 1
  /\ UNCHANGED <<fileSender, receiver, shorts, cut>>

Stray ==
  /\ shorts < ShortPackets /\ shorts' = shorts + 1
  /\ ShortPacket \/ EmptyPacket
  /\ UNCHANGED <<fileSender, net, cut>>

ReceiverStep == (startReceiving \/ signalHandler) /\ UNCHANGED <<fileSender, net, shorts, cut>>

Tick == SenderTick /\ ReceiverTick /\ UNCHANGED <<net, shorts, cut>>

Next ==
  \/ SenderStep \/ Interrupt \/ Encoder
  \/ Deliver \/ Lose \/ Stray \/ ReceiverStep
  \/ Tick

Spec == Init /\ [][Next]_vars

(* Both programs run and time passes; a running encoder goes on; the path  *)
(* delivers or loses.                                                      *)
FairSpec ==
  /\ Spec
  /\ WF_vars(SenderStep)
  /\ WF_vars(startReceiving /\ UNCHANGED <<fileSender, net, shorts, cut>>)
  /\ WF_vars(Tick)
  /\ WF_vars((EncoderWrites \/ EncoderExits) /\ UNCHANGED <<receiver, net, shorts, cut>>)
  /\ WF_vars(Deliver \/ Lose)

-----------------------------------------------------------------------------
TimingTypeOK ==
  /\ SenderTypeOK
  /\ ReceiverTypeOK
  /\ net \in 0 .. PathCap
  /\ shorts \in 0 .. ShortPackets
  /\ cut \in BOOLEAN

(* A transfer that ends by itself leaves less than one stdio buffer of the *)
(* encoder's output unsent, and nothing in the pipe.                       *)
TailBounded ==
  spc \in {"drain", "pclose", "done"} /\ ~cut
    => /\ pipe = 0
       /\ made - sent < StdioUnits

(* The rate the sender was last told is at most two seconds older than the *)
(* receiver's newest data: only silence delays a report.                   *)
ReportLagsOnlySilence == data_received_ever => since < ReportEvery + idle

(* The receiver takes at most one recvfrom() timeout beyond its limit to   *)
(* decide that the stream is over, and one more for each datagram without  *)
(* payload, which restarts the wait but not the idle clock.                *)
QuitsOnTime == rpc = "recv" => idle <= IdleLimit + (1 + shorts) * RecvTimeout

(* Once the encoder has exited, both programs come to an end.              *)
BothEnd ==
  /\ enc = "exited" ~> spc = "done"
  /\ (spc = "done" /\ data_received_ever) ~> rpc = "done"
-----------------------------------------------------------------------------
(* The inductive invariant behind the first three. *)

(* Nothing the encoder wrote is lost before it is sent. *)
Accounted == made = sent + stdio + pipe

(* The loop is left at a hang-up, unless the transfer is cut short; a      *)
(* signal cuts it short.                                                   *)
Sealed ==
  /\ spc \in {"drain", "pclose", "done"} /\ ~cut => enc = "exited" /\ pipe = 0
  /\ ~g_running => cut

(* A recvfrom() that times out finds the limit not yet exceeded or is the  *)
(* last; each datagram without payload adds one that ended early.          *)
IdleByWaits ==
  /\ rpc = "recv" => idle <= IdleLimit + shorts * RecvTimeout + wait
  /\ ~data_received_ever => idle = 0

TimingInv ==
  TimingTypeOK /\ Accounted /\ Sealed /\ IdleByWaits /\ ReportLagsOnlySilence
=============================================================================
