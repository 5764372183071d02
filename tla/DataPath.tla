------------------------------ MODULE DataPath ------------------------------
(***************************************************************************)
(* The data path of the bridge: sender's datagrams, device bridge, tunnel, *)
(* host bridge, datagrams to the receiver.                                 *)
(***************************************************************************)
EXTENDS DeviceData, HostData

vars == <<tunnel, device, host>>

Init == TunnelInit /\ DeviceInit /\ HostInit

DeviceStep == data_channel /\ UNCHANGED host

HostReads  == (ReadHeader \/ ReadBody \/ StreamEnds) /\ UNCHANGED device
HostClosesOrConnects == (Connect \/ ReadTimesOut) /\ UNCHANGED device

Next ==
  \/ SenderEmits /\ UNCHANGED host
  \/ DeviceStep
  \/ HostReads
  \/ HostClosesOrConnects
  \/ Break /\ UNCHANGED <<device, host>>

Spec == Init /\ [][Next]_vars

(* Both bridges run, and the host bridge keeps connecting. *)
FairSpec ==
  /\ Spec
  /\ WF_vars(DeviceStep)
  /\ WF_vars(HostReads)
  /\ WF_vars(Connect /\ UNCHANGED device)

-----------------------------------------------------------------------------
DataTypeOK == TunnelTypeOK /\ DeviceTypeOK /\ HostTypeOK

(* Where a whole packet can be between the sender and the receiver.        *)
InWire(p) == [pkt |-> p, part |-> "body"] \in ToSet(wire)

Held(p) == \/ p \in ToSet(udp_rcv) \cup ToSet(udp_buffer) \cup ToSet(pending_queue)
           \/ InWire(p)

(* No reconnection, retry or flush makes the receiver see a packet twice.  *)
AtMostOnce == \A p \in Packets : delivered[p] <= 1

(* The receiver is sent something that is no packet only over a connection *)
(* on which a send stopped inside a frame: a cut stream, a timeout or a    *)
(* reconnection does not put the headers out of step.                      *)
GenuineUnlessTorn == garbage => torn

(* bridge_host.py:4 says that the bridge "extracts raw UDP" from the framed *)
(* stream: it sends on the sender's packets and nothing else.              *)
GenuineOnly == ~garbage

(* While an untorn connection lives, what was read over it is not lost,    *)
(* unless it was trimmed from a full queue: it waits, is under way, or has *)
(* arrived.                                                                *)
SteadyTunnelLosesNothing ==
  Live(tcp_conn) /\ ~torn =>
    \A p \in taken : \/ p \in ToSet(pending_queue) \/ InWire(p)
                     \/ delivered[p] > 0 \/ fate[p] = "trimmed"

RelayState ==
  [p \in Packets |-> IF delivered[p] > 0 THEN "delivered"
                     ELSE IF Held(p) THEN "held"
                     ELSE IF p <= sent THEN "lost"
                     ELSE "outside"]

Relay == INSTANCE PacketRelay WITH state <- RelayState

(* Each packet is taken in once and then delivered or lost for good: a     *)
(* packet given up by one connection never comes back on another.          *)
ImplementsRelay == Relay!RelaySpec

(* Once the sender pauses, all that was read over a connection that stays  *)
(* up and is not torn gets through, whatever has overtaken it: deferred    *)
(* packets are not forgotten when no new one makes the loop look again.    *)
(* (While it does not pause nothing is promised: every round sends the new *)
(* datagrams first, and they may take all the room there is.)              *)
DrainsOncePaused ==
  \A p \in Packets :
    (sent = MaxPkts /\ tcp_conn = MaxConns /\ p \in taken)
      ~> (delivered[p] > 0 \/ fate[p] = "trimmed" \/ torn)

(* After every break the bridges find each other again. *)
ComesBack == []<>Live(tcp_conn)

-----------------------------------------------------------------------------
(* The inductive invariants behind the safety properties. *)

(* A packet is in one place, once, and only if the sender has emitted it.  *)
BodiesOnce ==
  \A i, j \in DOMAIN wire : wire[i].part = "body" /\ wire[i] = wire[j] => i = j

OnePlace(p) ==
  /\ p \in ToSet(udp_rcv) =>
       p \notin ToSet(udp_buffer) /\ p \notin ToSet(pending_queue) /\ ~InWire(p)
  /\ p \in ToSet(udp_buffer) => p \notin ToSet(pending_queue) /\ ~InWire(p)
  /\ p \in ToSet(pending_queue) => ~InWire(p)
  /\ Held(p) => delivered[p] = 0
  /\ Held(p) \/ delivered[p] > 0 \/ p \in taken => p <= sent

Placement ==
  /\ IsInjective(udp_rcv) /\ IsInjective(udp_buffer) /\ IsInjective(pending_queue)
  /\ BodiesOnce
  /\ \A p \in Packets : OnePlace(p)

(* Short of a torn frame the host has before it whole frames, header first *)
(* (the last one perhaps cut by a break).                                  *)
Whole(s) ==
  \A i \in DOMAIN s : IF i % 2 = 1 THEN s[i].part = "len"
                      ELSE s[i] = [pkt |-> s[i - 1].pkt, part |-> "body"]

Framed ==
  /\ ~torn => Whole(hdr \o wire)
  /\ ~torn /\ open => (Len(hdr) + Len(wire)) % 2 = 0

(* No connection is newer than `conns`, and one that select() found        *)
(* waiting is still there for accept(), which starts a new account.        *)
ConnsKnown ==
  /\ tcp_conn <= conns /\ \A i \in DOMAIN backlog : backlog[i] <= conns
  /\ open => conns # None
  /\ phase = "accept" /\ server_ready => backlog # <<>>
  /\ phase = "flush" => taken = {}

DataInv ==
  /\ DataTypeOK /\ ConnsKnown /\ Placement /\ AtMostOnce
  /\ Framed /\ GenuineUnlessTorn /\ SteadyTunnelLosesNothing
=============================================================================
