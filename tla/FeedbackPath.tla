---------------------------- MODULE FeedbackPath ----------------------------
(***************************************************************************)
(* The way of a loss report back to the sender: receiver, UDP to the host  *)
(* bridge, feedback_channel() of the host bridge, a TCP connection through *)
(* the tunnel (a byte stream, without frames), feedback_channel() of the   *)
(* device bridge, UDP to the sender, checkFeedback().                      *)
(*                                                                         *)
(* Reports are numbered in the order the receiver makes them.  On the TCP  *)
(* stream a report is two units, the tag and the number behind it.         *)
(***************************************************************************)
EXTENDS Integers, Sequences, SequencesExt

CONSTANTS
  MaxReports,  (* bound: reports the receiver makes                        *)
  MaxBreaks    (* bound: how often the tunnel goes down                    *)

ASSUME FeedbackAssumption ==
  /\ MaxReports \in Nat
  /\ MaxBreaks \in Nat

Reports == 1 .. MaxReports
Conns   == 1 .. MaxBreaks + 1
None    == 0
(* What sscanf makes of a report without its tag (a rate of 0), or with a  *)
(* number cut short: no rate that the receiver has sent.                   *)
Garbled == -1


Units == [report : Reports, part : {"tag", "number"}]
Text(r) == <<[report |-> r, part |-> "tag"], [report |-> r, part |-> "number"]>>

VARIABLES
  made,               (* reports made so far                               *)
  udp_in,             (* the host bridge's socket                          *)
  data, retry, tcp,   (* its locals: report in hand, attempt, connection   *)
  up,                 (* the tunnel works                                  *)
  breaks,
  wires,              (* per connection: units the device has not read     *)
  backlog,            (* connections the device has not accepted           *)
  conns, alive,       (* connections made so far; the intact one, or None  *)
  conn,               (* the connection the device reads, or None          *)
  feedback_sock,      (* datagrams the sender has not read                 *)
  last_loss_rate,     (* the report it was read from, None, or Garbled     *)
  feedback_received,
  acted,              (* history: what adaptPacing acted on, in order      *)
  handed,             (* history: reports handed to the intact connection  *)
  seen                (* history: reports in the datagrams the sender read *)

hostVars   == <<udp_in, data, retry, tcp>>
tunnelVars == <<up, breaks, wires, backlog, conns, alive>>
senderVars == <<last_loss_rate, feedback_received, acted, seen>>
vars == <<made, hostVars, tunnelVars, conn, feedback_sock, senderVars, handed>>

Init ==
  /\ made = 0
  /\ udp_in = <<>> /\ data = None /\ retry = 0 /\ tcp = None
  /\ up = TRUE /\ breaks = 0
  /\ wires = [c \in Conns |-> <<>>] /\ backlog = <<>>
  /\ conns = 0 /\ alive = None
  /\ conn = None /\ feedback_sock = <<>>
  /\ last_loss_rate = None /\ feedback_received = FALSE
  /\ acted = <<>> /\ handed = {} /\ seen = {}

-----------------------------------------------------------------------------
(* The receiver *)
sendFeedback ==
  /\ made < MaxReports
  /\ made' = made + 1
  /\ udp_in' = Append(udp_in, made + 1)
  /\ UNCHANGED <<data, retry, tcp, tunnelVars, conn, feedback_sock, senderVars,
                 handed>>

-----------------------------------------------------------------------------
(* The tunnel (external) *)
GoesDown ==
  /\ up /\ breaks < MaxBreaks
  /\ up' = FALSE
  /\ breaks' = breaks + 1
  /\ alive' = None
  /\ handed' = {}
  /\ IF alive = None THEN UNCHANGED wires
     ELSE \E k \in 0 .. Len(wires[alive]) :
            wires' = [wires EXCEPT ![alive] = SubSeq(@, 1, k)]
  /\ UNCHANGED <<made, hostVars, backlog, conns, conn, feedback_sock, senderVars>>

ComesUp ==
  /\ ~up
  /\ up' = TRUE
  /\ UNCHANGED <<made, hostVars, breaks, wires, backlog, conns, alive, conn,
                 feedback_sock, senderVars, handed>>

-----------------------------------------------------------------------------
(* feedback_channel() of the host bridge *)
RecvFrom ==
  /\ data = None
  /\ udp_in # <<>>
  /\ data' = Head(udp_in)
  /\ udp_in' = Tail(udp_in)
  /\ retry' = 0
  /\ UNCHANGED <<made, tcp, tunnelVars, conn, feedback_sock, senderVars, handed>>

Connect ==
  /\ data # None /\ tcp = None
  /\ up
  /\ conns' = conns + 1
  /\ alive' = conns + 1
  /\ tcp' = conns + 1
  /\ backlog' = Append(backlog, conns + 1)
  /\ UNCHANGED <<made, udp_in, data, retry, up, breaks, wires, conn,
                 feedback_sock, senderVars, handed>>

(* sendall() returns: into the intact connection, or, for a while still,   *)
(* into a broken one. *)
SendAll ==
  /\ data # None /\ tcp # None
  /\ IF tcp = alive
     THEN /\ wires' = [wires EXCEPT ![tcp] = @ \o Text(data)]
          /\ handed' = handed \cup {data}
     ELSE UNCHANGED <<wires, handed>>
  /\ data' = None
  /\ UNCHANGED <<made, udp_in, retry, tcp, up, breaks, backlog, conns, alive,
                 conn, feedback_sock, senderVars>>

(* Fault: one attempt too many. *)
FailsOnceMore ==
  /\ data # None
  /\ IF tcp = None THEN ~up ELSE tcp # alive
  /\ tcp' = None
  /\ IF retry < 3 THEN retry' = retry + 1 /\ UNCHANGED data
                  ELSE data' = None /\ UNCHANGED retry
  /\ UNCHANGED <<made, udp_in, tunnelVars, conn, feedback_sock, senderVars,
                 handed>>

(* connect() or sendall() raises: close, and after the third time give the *)
(* report up. *)
AttemptFails ==
  /\ data # None
  /\ IF tcp = None THEN ~up ELSE tcp # alive
  /\ tcp' = None
  /\ IF retry < 2 THEN retry' = retry + 1 /\ UNCHANGED data
                  ELSE data' = None /\ UNCHANGED retry
  /\ UNCHANGED <<made, udp_in, tunnelVars, conn, feedback_sock, senderVars,
                 handed>>

-----------------------------------------------------------------------------
(* feedback_channel() of the device bridge: one connection at a time. *)
Accept ==
  /\ conn = None
  /\ backlog # <<>>
  /\ conn' = Head(backlog)
  /\ backlog' = Tail(backlog)
  /\ UNCHANGED <<made, hostVars, up, breaks, wires, conns, alive, feedback_sock,
                 senderVars, handed>>

(* The lengths recv() may return: TCP keeps no boundaries, so several      *)
(* reports may come in one piece, and one in two.                          *)
Chunks(wire) == 1 .. Len(wire)

(* Fault: only the first report of what was received is forwarded. *)
ForwardTruncates ==
  /\ conn # None
  /\ \E k \in Chunks(wires[conn]) :
       /\ wires' = [wires EXCEPT ![conn] = SubSeq(@, k + 1, Len(@))]
       /\ feedback_sock' = Append(feedback_sock, SubSeq(wires[conn], 1, IF k < 2 THEN k ELSE 2))
  /\ UNCHANGED <<made, hostVars, up, breaks, backlog, conns, alive, conn,
                 senderVars, handed>>

(* recv() and sendto(), whatever recv() returned. *)
Forward ==
  /\ conn # None
  /\ \E k \in Chunks(wires[conn]) :
       /\ wires' = [wires EXCEPT ![conn] = SubSeq(@, k + 1, Len(@))]
       /\ feedback_sock' = Append(feedback_sock, SubSeq(wires[conn], 1, k))
  /\ UNCHANGED <<made, hostVars, up, breaks, backlog, conns, alive, conn,
                 senderVars, handed>>

(* Fault: the end of a connection is not acted on while another waits. *)
DisconnectedUnlessAwaited ==
  /\ conn # None /\ conn # alive
  /\ backlog = <<>>
  /\ conn' = None
  /\ wires' = [wires EXCEPT ![conn] = <<>>]
  /\ UNCHANGED <<made, hostVars, up, breaks, backlog, conns, alive,
                 feedback_sock, senderVars, handed>>

(* End of the stream, or an error that discards what was not read. *)
Disconnected ==
  /\ conn # None /\ conn # alive
  /\ conn' = None
  /\ wires' = [wires EXCEPT ![conn] = <<>>]
  /\ UNCHANGED <<made, hostVars, up, breaks, backlog, conns, alive,
                 feedback_sock, senderVars, handed>>

-----------------------------------------------------------------------------
(* The sender *)

(* sscanf("LOSS:%f") takes the first report of a datagram. *)
Parsed(chunk) ==
  IF Len(chunk) >= 2 /\ SubSeq(chunk, 1, 2) = Text(chunk[1].report)
  THEN chunk[1].report
  ELSE Garbled

(* A report is where its last unit is. *)
ReportsIn(units) ==
  {r \in Reports : [report |-> r, part |-> "number"] \in ToSet(units)}

ReportsInAll(datagrams) == UNION {ReportsIn(d) : d \in ToSet(datagrams)}

(* All datagrams are read; the last one counts. *)
checkFeedback ==
  /\ feedback_sock # <<>>
  /\ last_loss_rate' = Parsed(Last(feedback_sock))
  /\ feedback_received' = TRUE
  /\ feedback_sock' = <<>>
  /\ seen' = seen \cup ReportsInAll(feedback_sock)
  /\ UNCHANGED <<made, hostVars, tunnelVars, conn, acted, handed>>

(* Fault: the flag is not reset. *)
AdaptKeepsFlag ==
  /\ feedback_received
  /\ acted' = Append(acted, last_loss_rate)
  /\ UNCHANGED <<made, hostVars, tunnelVars, conn, feedback_sock,
                 last_loss_rate, feedback_received, handed, seen>>

(* adaptPacing() acts on feedback_received only, and resets it.  The       *)
(* delays it computes are in Pacing.                                       *)
adaptPacing ==
  /\ feedback_received
  /\ acted' = Append(acted, last_loss_rate)
  /\ feedback_received' = FALSE
  /\ UNCHANGED <<made, hostVars, tunnelVars, conn, feedback_sock,
                 last_loss_rate, handed, seen>>

-----------------------------------------------------------------------------
HostBridge   == RecvFrom \/ Connect \/ SendAll \/ AttemptFails
DeviceBridge == Accept \/ Forward \/ Disconnected
Sender       == checkFeedback \/ adaptPacing

Next == sendFeedback \/ GoesDown \/ ComesUp \/ HostBridge \/ DeviceBridge \/ Sender

Spec == Init /\ [][Next]_vars

(* The bridges and the sender run, and the tunnel comes up again. *)
FairSpec == /\ Spec
            /\ WF_vars(HostBridge) /\ WF_vars(DeviceBridge) /\ WF_vars(ComesUp)
            /\ WF_vars(checkFeedback) /\ WF_vars(adaptPacing)

-----------------------------------------------------------------------------
HostTypes ==
  /\ made \in 0 .. MaxReports /\ udp_in \in Seq(Reports)
  /\ data \in Reports \cup {None} /\ retry \in 0 .. 2

ConnTypes ==
  /\ up \in BOOLEAN /\ breaks \in 0 .. MaxBreaks
  /\ conns \in 0 .. MaxBreaks + 1 /\ alive \in Conns \cup {None}
  /\ tcp \in Conns \cup {None} /\ conn \in Conns \cup {None}
  /\ backlog \in Seq(Conns)

DataTypes ==
  /\ wires \in [Conns -> Seq(Units)] /\ feedback_sock \in Seq(Seq(Units))
  /\ last_loss_rate \in Reports \cup {None, Garbled}
  /\ feedback_received \in BOOLEAN
  /\ acted \in Seq(Reports \cup {Garbled})
  /\ handed \subseteq Reports /\ seen \subseteq Reports

FeedbackTypeOK == HostTypes /\ ConnTypes /\ DataTypes

(* The pacing is moved at most once by a report, and never by an older     *)
(* report after a newer one, across retries and reconnections.             *)
ActsInOrder ==
  \A i, j \in DOMAIN acted :
    i < j /\ acted[i] # Garbled /\ acted[j] # Garbled => acted[i] < acted[j]

(* A report handed to a connection that is still intact is on it, or has   *)
(* reached the sender's socket: closing and reopening lose none.           *)
HandedOnesArrive ==
  \A r \in handed : r \in ReportsIn(wires[alive])
                        \cup ReportsInAll(feedback_sock) \cup seen

(* A report in hand on a connection that stays intact reaches the sender.  *)
EventuallySeen ==
  \A r \in Reports :
    (data = r /\ tcp # None /\ tcp = alive /\ breaks = MaxBreaks) ~> r \in seen
-----------------------------------------------------------------------------
(* The inductive invariant behind ActsInOrder: whatever is further on its  *)
(* way is older.                                                           *)

(* Connections are accepted in the order they were made; the intact one,   *)
(* and each with something on it, is still to be read.                     *)
Open(c) == c = conn \/ \E i \in DOMAIN backlog : backlog[i] = c

ConnsInOrder ==
  /\ \A i, j \in DOMAIN backlog : i < j => backlog[i] < backlog[j]
  /\ \A i \in DOMAIN backlog : conn < backlog[i] /\ backlog[i] <= conns
  /\ conn <= conns
  /\ IF alive = None THEN conns <= breaks
     ELSE up /\ tcp = alive /\ alive = conns /\ conns <= breaks + 1 /\ Open(alive)

OnlyOpenCarry == \A c \in Conns : wires[c] # <<>> => Open(c)

(* Report n is older than those the host has yet to send, than those whose *)
(* tag is on a connection, than those whose tag is in the sender's socket. *)
BeforeHost(n) ==
  /\ n <= made
  /\ data # None => n < data
  /\ \A k \in DOMAIN udp_in : n < udp_in[k]

BeforeWires(n) ==
  \A c \in Conns : \A j \in DOMAIN wires[c] :
    wires[c][j].part = "tag" => n < wires[c][j].report

BeforeSocket(n) ==
  \A a \in DOMAIN feedback_sock : \A j \in DOMAIN feedback_sock[a] :
    feedback_sock[a][j].part = "tag" => n < feedback_sock[a][j].report

HostInOrder ==
  /\ \A i, j \in DOMAIN udp_in : i < j => udp_in[i] < udp_in[j]
  /\ \A i \in DOMAIN udp_in : udp_in[i] <= made /\ data < udp_in[i]
  /\ data <= made

WiresInOrder ==
  /\ \A c \in Conns : \A i \in DOMAIN wires[c] : BeforeHost(wires[c][i].report)
  /\ \A c \in Conns : \A i, j \in DOMAIN wires[c] :
       i < j /\ wires[c][j].part = "tag" => wires[c][i].report < wires[c][j].report
  /\ \A c, d \in Conns : \A i \in DOMAIN wires[c], j \in DOMAIN wires[d] :
       c < d => wires[c][i].report < wires[d][j].report

SocketInOrder ==
  \A a \in DOMAIN feedback_sock : \A i \in DOMAIN feedback_sock[a] :
    BeforeHost(feedback_sock[a][i].report) /\ BeforeWires(feedback_sock[a][i].report)

Older(n) == BeforeHost(n) /\ BeforeWires(n) /\ BeforeSocket(n)

ReadInOrder ==
  /\ feedback_received => last_loss_rate # None
  /\ feedback_received /\ last_loss_rate # Garbled => Older(last_loss_rate)
  /\ \A k \in DOMAIN acted : acted[k] # Garbled =>
       /\ Older(acted[k])
       /\ feedback_received /\ last_loss_rate # Garbled => acted[k] < last_loss_rate

FeedbackInv ==
  /\ FeedbackTypeOK /\ ConnsInOrder /\ OnlyOpenCarry /\ HostInOrder
  /\ WiresInOrder /\ SocketInOrder /\ ReadInOrder /\ ActsInOrder

(* What HandedOnesArrive needs besides: a new connection starts afresh.    *)
HandedInv == HandedOnesArrive /\ (alive = None => handed = {})
=============================================================================
