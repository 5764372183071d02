---------------------------- MODULE ReceiverLoop ----------------------------
(***************************************************************************)
(* startReceiving(): the receive loop with its three clocks (the timeout   *)
(* of recvfrom(), last_data_time, last_feedback) and its two ends.  The    *)
(* loss rate it reports is computed in SeqTracking; here a report is only  *)
(* an event.  A tick is one second.                                         *)
(***************************************************************************)
EXTENDS Integers

CONSTANTS
  ReportEvery,    (* 2 ticks                                               *)
  RecvTimeout,    (* SO_RCVTIMEO: 2 ticks                                  *)
  IdleLimit       (* 5 ticks                                               *)

ASSUME ReceiverAssumption ==
  /\ IdleLimit \in Nat
  /\ {ReportEvery, RecvTimeout} \subseteq Nat \ {0}

VARIABLES
  rpc,                  (* where the loop is                               *)
  running,              (* cleared by the signal handler                   *)
  data_received_ever,
  wait,                 (* ticks in this recvfrom()                        *)
  idle,                 (* ticks since last_data_time                      *)
  since                 (* ticks since last_feedback                       *)

receiver == <<rpc, running, data_received_ever, wait, idle, since>>

ReceiverInit ==
  /\ rpc = "recv" /\ running = TRUE /\ data_received_ever = FALSE
  /\ wait = 0 /\ idle = 0 /\ since = 0

(* SIGINT: a recvfrom() that is waiting returns EINTR, and the loop ends;  *)
(* one that is about to wait does so first.                                *)
signalHandler ==
  /\ running
  /\ running' = FALSE
  /\ \/ UNCHANGED <<rpc, wait>>
     \/ rpc = "recv" /\ rpc' = "final" /\ wait' = 0
  /\ UNCHANGED <<data_received_ever, idle, since>>

(* recvfrom() has returned; `while (running)` decides what comes next. *)
Again == /\ rpc = "recv"
         /\ rpc' = (IF running THEN "recv" ELSE "final")
         /\ wait' = 0
         /\ UNCHANGED running

(* A datagram too short for a payload is ignored: the idle clock runs on. *)
ShortPacket == Again /\ UNCHANGED <<data_received_ever, idle, since>>

(* Fault: a report waits for the interval to be exceeded. *)
PacketReportsLate ==
  /\ Again
  /\ data_received_ever' = TRUE
  /\ idle' = 0
  /\ since' = IF since > ReportEvery THEN 0 ELSE since

(* A packet is written and tracked; a report goes out if one is due. *)
Packet ==
  /\ Again
  /\ data_received_ever' = TRUE
  /\ idle' = 0
  /\ since' = IF since >= ReportEvery THEN 0 ELSE since

(* Fault: the idle limit is one timeout too long. *)
TimesOutPatiently ==
  /\ wait >= RecvTimeout
  /\ ~(data_received_ever /\ idle > IdleLimit + RecvTimeout)
  /\ Again
  /\ UNCHANGED <<data_received_ever, idle, since>>

(* Nothing came: wait on ... *)
WaitOn ==
  /\ ~(data_received_ever /\ idle > IdleLimit)
  /\ Again
  /\ UNCHANGED <<data_received_ever, idle, since>>

(* ... or take the transfer as complete. *)
TakeAsComplete ==
  /\ rpc = "recv"
  /\ data_received_ever /\ idle > IdleLimit
  /\ rpc' = "final"
  /\ UNCHANGED <<running, data_received_ever, wait, idle, since>>

RecvTimesOut == wait >= RecvTimeout /\ WaitOn

IdleExit == wait >= RecvTimeout /\ TakeAsComplete

(* An empty datagram is taken for a timeout, only sooner. *)
EmptyPacket == WaitOn \/ TakeAsComplete

(* The final report, if there was any data. *)
FinalReport ==
  /\ rpc = "final"
  /\ rpc' = "done"
  /\ UNCHANGED <<running, data_received_ever, wait, idle, since>>

startReceiving == RecvTimesOut \/ IdleExit \/ FinalReport

ReceiverWaits == rpc = "done" \/ (rpc = "recv" /\ wait < RecvTimeout)

(* Clocks are followed some way beyond what the loop compares them with. *)
IdleBound == IdleLimit + 2 * RecvTimeout

ReceiverTick ==
  /\ ReceiverWaits
  /\ IF rpc = "done" THEN UNCHANGED <<wait, idle, since>>
     ELSE /\ wait' = wait + 1
          /\ idle' = IF data_received_ever /\ idle <= IdleBound
                     THEN idle + 1 ELSE idle
          /\ since' = IF since < ReportEvery \/ (data_received_ever /\ since <= IdleLimit)
                      THEN since + 1 ELSE since
  /\ UNCHANGED <<rpc, running, data_received_ever>>

ReceiverFields ==
  /\ rpc \in {"recv", "final", "done"}
  /\ wait \in 0 .. RecvTimeout /\ idle \in Nat /\ since \in Nat

ReceiverTypeOK ==
  ReceiverFields /\ running \in BOOLEAN /\ data_received_ever \in BOOLEAN
=============================================================================
