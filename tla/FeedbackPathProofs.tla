------------------------- MODULE FeedbackPathProofs -------------------------
(***************************************************************************)
(* Proofs about FeedbackPath, for any number of reports and of breaks: the *)
(* sender acts on reports in order, at most once on each.                  *)
(***************************************************************************)
EXTENDS FeedbackPath, SequenceTheorems, TLAPS

LEMMA ConstantsAreNumbers == MaxReports \in Nat /\ MaxBreaks \in Nat
BY FeedbackAssumption

LEMMA TextIsTwoUnits ==
  ASSUME NEW r \in Reports
  PROVE  /\ Text(r) \in Seq(Units) /\ Len(Text(r)) = 2
         /\ Text(r)[1] = [report |-> r, part |-> "tag"]
         /\ Text(r)[2] = [report |-> r, part |-> "number"]
<1>1. [report |-> r, part |-> "tag"] \in Units /\ [report |-> r, part |-> "number"] \in Units
  BY DEF Units
<1> QED BY <1>1 DEF Text

LEMMA ElementsOf ==
  ASSUME NEW S, NEW s \in Seq(S)
  PROVE  /\ Len(s) \in Nat /\ DOMAIN s = 1 .. Len(s)
         /\ \A i \in DOMAIN s : s[i] \in S
BY LenProperties, ElementOfSeq

LEMMA PieceOf ==
  ASSUME NEW S, NEW s \in Seq(S), NEW m \in 1 .. Len(s) + 1, NEW n \in 0 .. Len(s)
  PROVE  /\ SubSeq(s, m, n) \in Seq(S)
         /\ \A i \in DOMAIN SubSeq(s, m, n) :
              i + (m - 1) \in DOMAIN s /\ SubSeq(s, m, n)[i] = s[i + (m - 1)]
         /\ Len(SubSeq(s, m, n)) = IF m <= n THEN n - m + 1 ELSE 0
<1>1. \A i \in m .. n : s[i] \in S
  BY ElementOfSeq
<1>2. /\ SubSeq(s, m, n) \in Seq(S)
      /\ Len(SubSeq(s, m, n)) = IF m <= n THEN n - m + 1 ELSE 0
      /\ \A i \in 1 .. n - m + 1 : SubSeq(s, m, n)[i] = s[m + i - 1]
  BY <1>1, SubSeqProperties
<1>3. DOMAIN SubSeq(s, m, n) = 1 .. Len(SubSeq(s, m, n)) /\ DOMAIN s = 1 .. Len(s)
  BY <1>2, LenProperties
<1>4. \A i \in DOMAIN SubSeq(s, m, n) : m + i - 1 = i + (m - 1) /\ i + (m - 1) \in 1 .. Len(s)
  BY <1>2, <1>3
<1> QED BY <1>2, <1>3, <1>4

(* What a parsed datagram begins with. *)
LEMMA ParsedIsTheFirst ==
  ASSUME NEW chunk \in Seq(Units), Parsed(chunk) # Garbled
  PROVE  /\ 1 \in DOMAIN chunk /\ Parsed(chunk) = chunk[1].report
         /\ chunk[1].part = "tag" /\ chunk[1].report \in Reports
<1>1. Len(chunk) >= 2 /\ SubSeq(chunk, 1, 2) = Text(chunk[1].report)
  BY DEF Parsed
<1>2. 1 \in DOMAIN chunk /\ chunk[1] \in Units /\ chunk[1].report \in Reports
  <2>1. 1 \in 1 .. Len(chunk) /\ DOMAIN chunk = 1 .. Len(chunk)
    BY <1>1, LenProperties
  <2>2. chunk[1] \in Units
    BY <2>1, ElementOfSeq
  <2> QED BY <2>1, <2>2 DEF Units
<1>3. SubSeq(chunk, 1, 2)[1] = chunk[1]
  <2>1. 1 \in 1 .. Len(chunk) + 1 /\ 2 \in 0 .. Len(chunk) /\ Len(chunk) \in Nat
    BY <1>1, LenProperties
  <2>2. /\ SubSeq(chunk, 1, 2) \in Seq(Units) /\ Len(SubSeq(chunk, 1, 2)) = 2
        /\ \A i \in DOMAIN SubSeq(chunk, 1, 2) : SubSeq(chunk, 1, 2)[i] = chunk[i + (1 - 1)]
    BY <2>1, PieceOf
  <2>3. 1 \in DOMAIN SubSeq(chunk, 1, 2)
    BY <2>2, LenProperties
  <2> QED BY <2>2, <2>3
<1>4. chunk[1] = [report |-> chunk[1].report, part |-> "tag"]
  BY <1>1, <1>2, <1>3, TextIsTwoUnits
<1> QED BY <1>1, <1>2, <1>4 DEF Parsed

-----------------------------------------------------------------------------
(* The host's side: types and order, whatever happens elsewhere. *)

HostInv == HostTypes /\ HostInOrder

(* What is older than all the host has to send stays so. *)
OrderKept == \A n \in Int : BeforeHost(n) => BeforeHost(n)'

LEMMA HostUnchanged ==
  ASSUME HostInv, UNCHANGED <<made, udp_in, data, retry>> PROVE HostInv' /\ OrderKept
BY DEF HostInv, HostTypes, HostInOrder, OrderKept, BeforeHost

LEMMA ReceiverReports == ASSUME HostInv, sendFeedback PROVE HostInv' /\ OrderKept
<1>1. /\ made \in Nat /\ made + 1 \in Reports /\ made' = made + 1
      /\ udp_in' = Append(udp_in, made + 1) /\ data' = data /\ retry' = retry
      /\ udp_in \in Seq(Reports) /\ data \in Nat
  BY ConstantsAreNumbers
  DEF sendFeedback, HostInv, HostTypes, Reports, None
<1>2. /\ udp_in' \in Seq(Reports) /\ DOMAIN udp_in' = 1 .. Len(udp_in) + 1
      /\ Len(udp_in) \in Nat /\ DOMAIN udp_in = 1 .. Len(udp_in)
      /\ \A i \in 1 .. Len(udp_in) : udp_in'[i] = udp_in[i] /\ udp_in[i] \in Nat
      /\ udp_in'[Len(udp_in) + 1] = made + 1
  <2>1. Len(udp_in) \in Nat /\ DOMAIN udp_in = 1 .. Len(udp_in)
        /\ \A i \in DOMAIN udp_in : udp_in[i] \in Reports
    BY <1>1, ElementsOf
  <2>2. /\ udp_in' \in Seq(Reports) /\ Len(udp_in') = Len(udp_in) + 1
        /\ \A i \in 1 .. Len(udp_in) : udp_in'[i] = udp_in[i]
        /\ udp_in'[Len(udp_in) + 1] = made + 1
    BY <1>1, AppendProperties
  <2> QED BY <2>1, <2>2, LenProperties DEF Reports
<1>3. HostTypes'
  BY <1>1, <1>2, ConstantsAreNumbers DEF HostInv, HostTypes, Reports
<1>4. HostInOrder'
  BY <1>1, <1>2 DEF HostInv, HostInOrder
<1>5. OrderKept
  BY <1>1, <1>2 DEF OrderKept, BeforeHost
<1> QED BY <1>3, <1>4, <1>5 DEF HostInv

LEMMA HostTakesReport == ASSUME HostInv, RecvFrom PROVE HostInv' /\ OrderKept
<1>1. /\ udp_in \in Seq(Reports) /\ udp_in # <<>> /\ made \in Nat /\ made' = made
      /\ data = None /\ data' = Head(udp_in) /\ udp_in' = Tail(udp_in) /\ retry' = 0
  BY DEF RecvFrom, HostInv, HostTypes
<1>2. /\ udp_in' \in Seq(Reports) /\ Len(udp_in') = Len(udp_in) - 1
      /\ \A i \in 1 .. Len(udp_in') : udp_in'[i] = udp_in[i + 1]
      /\ Len(udp_in) \in Nat /\ DOMAIN udp_in = 1 .. Len(udp_in)
      /\ DOMAIN udp_in' = 1 .. Len(udp_in')
  BY <1>1, HeadTailProperties, LenProperties
<1>3. data' = udp_in[1] /\ 1 \in 1 .. Len(udp_in)
  BY <1>1, <1>2, EmptySeq
<1>4. \A i \in 1 .. Len(udp_in) : udp_in[i] \in Reports
  BY <1>1, ElementOfSeq
<1>5. HostTypes'
  BY <1>1, <1>2, <1>3, <1>4 DEF HostInv, HostTypes
<1>6. HostInOrder'
  BY <1>1, <1>2, <1>3, <1>4 DEF HostInv, HostInOrder, Reports
<1>7. OrderKept
  BY <1>1, <1>2, <1>3 DEF OrderKept, BeforeHost, None
<1> QED BY <1>5, <1>6, <1>7 DEF HostInv

LEMMA HostLetsGo ==
  ASSUME HostInv, SendAll \/ AttemptFails PROVE HostInv' /\ OrderKept
<1>1. /\ made' = made /\ udp_in' = udp_in /\ retry' \in 0 .. 2
      /\ data' = data \/ data' = None
  BY DEF SendAll, AttemptFails, HostInv, HostTypes
<1>2. \A i \in DOMAIN udp_in : udp_in[i] \in Nat /\ udp_in[i] > 0
  <2>1. udp_in \in Seq(Reports)
    BY DEF HostInv, HostTypes
  <2> QED BY <2>1, ElementsOf, ConstantsAreNumbers DEF Reports
<1>3. HostTypes'
  BY <1>1 DEF HostInv, HostTypes
<1>4. HostInOrder'
  BY <1>1, <1>2 DEF HostInv, HostInOrder, HostTypes, None
<1>5. OrderKept
  BY <1>1 DEF OrderKept, BeforeHost
<1> QED BY <1>3, <1>4, <1>5 DEF HostInv

LEMMA HostKept == ASSUME HostInv, [Next]_vars PROVE HostInv' /\ OrderKept
<1>1. CASE sendFeedback
  BY <1>1, ReceiverReports
<1>2. CASE RecvFrom
  BY <1>2, HostTakesReport
<1>3. CASE SendAll \/ AttemptFails
  BY <1>3, HostLetsGo
<1>4. CASE \/ GoesDown \/ ComesUp \/ Connect
           \/ Accept \/ Forward \/ Disconnected
           \/ checkFeedback \/ adaptPacing \/ UNCHANGED vars
  <2>1. UNCHANGED <<made, udp_in, data, retry>>
    BY <1>4 DEF GoesDown, ComesUp, Connect, Accept, Forward, Disconnected,
       checkFeedback, adaptPacing, vars, hostVars
  <2> QED BY <2>1, HostUnchanged
<1> QED
  BY <1>1, <1>2, <1>3, <1>4 DEF Next, HostBridge, DeviceBridge, Sender

-----------------------------------------------------------------------------
(* The connections. *)

ConnInv == ConnTypes /\ ConnsInOrder

(* None is left before the device has met its end. *)
OpenKept == \A c \in Conns : Open(c) /\ ~(Disconnected /\ c = conn) => Open(c)'

LEMMA ConnsUnchanged ==
  ASSUME ConnInv, UNCHANGED <<up, breaks, conns, alive, tcp, conn, backlog>>
  PROVE  ConnInv' /\ OpenKept
BY DEF ConnInv, ConnTypes, ConnsInOrder, OpenKept, Open

LEMMA TunnelComesAndGoes ==
  ASSUME ConnInv, GoesDown \/ ComesUp PROVE ConnInv' /\ OpenKept
<1>1. /\ UNCHANGED <<conns, tcp, conn, backlog>>
      /\ \/ breaks < MaxBreaks /\ breaks' = breaks + 1 /\ alive' = None /\ up' = FALSE
         \/ ~up /\ breaks' = breaks /\ alive' = alive /\ up' = TRUE
  BY DEF GoesDown, ComesUp, hostVars
<1>2. breaks \in Nat /\ conns \in Nat
  BY ConstantsAreNumbers DEF ConnInv, ConnTypes
<1>3. ConnTypes'
  <2>1. breaks' \in 0 .. MaxBreaks
    BY <1>1, ConstantsAreNumbers DEF ConnInv, ConnTypes
  <2>2. up' \in BOOLEAN /\ alive' \in Conns \cup {None}
    BY <1>1, Zenon DEF ConnInv, ConnTypes
  <2> QED BY <1>1, <2>1, <2>2 DEF ConnInv, ConnTypes
<1>4. ConnsInOrder'
  BY <1>1, <1>2 DEF ConnInv, ConnsInOrder, Open
<1>5. OpenKept
  BY <1>1 DEF OpenKept, Open
<1> QED BY <1>3, <1>4, <1>5 DEF ConnInv

LEMMA HostConnects == ASSUME ConnInv, Connect PROVE ConnInv' /\ OpenKept
<1>1. /\ UNCHANGED <<up, breaks, conn>> /\ tcp = None /\ up
      /\ conns' = conns + 1 /\ alive' = conns + 1 /\ tcp' = conns + 1
      /\ backlog' = Append(backlog, conns + 1)
  BY DEF Connect
<1>2. /\ breaks \in 0 .. MaxBreaks /\ conns \in Nat /\ conn \in Nat
      /\ conn <= conns /\ conns <= breaks
  <2>1. alive = None
    <3>1. alive \in Conns \cup {None} /\ (alive # None => tcp = alive)
      BY DEF ConnInv, ConnTypes, ConnsInOrder
    <3> QED BY <1>1, <3>1
  <2> QED
    BY <2>1, ConstantsAreNumbers DEF ConnInv, ConnTypes, ConnsInOrder, Conns, None
<1>3. conns + 1 \in Conns /\ conns + 1 # None
  BY <1>2, ConstantsAreNumbers DEF Conns, None
<1>4. /\ backlog \in Seq(Conns) /\ Len(backlog) \in Nat /\ DOMAIN backlog = 1 .. Len(backlog)
      /\ \A i \in DOMAIN backlog : backlog[i] \in Conns /\ backlog[i] \in Nat
  <2>1. backlog \in Seq(Conns)
    BY DEF ConnInv, ConnTypes
  <2> QED BY <2>1, ElementsOf, ConstantsAreNumbers DEF Conns
<1>5. /\ backlog' \in Seq(Conns) /\ DOMAIN backlog' = 1 .. Len(backlog) + 1
      /\ \A i \in 1 .. Len(backlog) : backlog'[i] = backlog[i]
      /\ backlog'[Len(backlog) + 1] = conns + 1
  BY <1>1, <1>3, <1>4, AppendProperties, LenProperties
<1>6. ConnTypes'
  BY <1>1, <1>2, <1>3, <1>5, ConstantsAreNumbers DEF ConnInv, ConnTypes
<1>7. \A i \in 1 .. Len(backlog) : conn < backlog[i] /\ backlog[i] <= conns
  BY <1>4 DEF ConnInv, ConnsInOrder
<1>8. \A i, j \in DOMAIN backlog' : i < j => backlog'[i] < backlog'[j]
  <2>1. \A i, j \in 1 .. Len(backlog) : i < j => backlog[i] < backlog[j]
    BY <1>4 DEF ConnInv, ConnsInOrder
  <2> QED BY <1>2, <1>4, <1>5, <1>7, <2>1
<1>9. Open(alive)'
  BY <1>1, <1>4, <1>5 DEF Open
<1>10. ConnsInOrder'
  BY <1>1, <1>2, <1>3, <1>4, <1>5, <1>7, <1>8, <1>9 DEF ConnsInOrder, Open
<1>11. OpenKept
  BY <1>1, <1>4, <1>5 DEF OpenKept, Open
<1> QED BY <1>6, <1>10, <1>11 DEF ConnInv

LEMMA HostDrops == ASSUME ConnInv, AttemptFails PROVE ConnInv' /\ OpenKept
<1>1. /\ UNCHANGED <<up, breaks, conns, alive, conn, backlog>> /\ tcp' = None
      /\ IF tcp = None THEN ~up ELSE tcp # alive
  BY DEF AttemptFails, tunnelVars
<1>2. alive = None
  BY <1>1 DEF ConnInv, ConnsInOrder
<1>3. ConnTypes'
  BY <1>1 DEF ConnInv, ConnTypes
<1>4. ConnsInOrder'
  BY <1>1, <1>2 DEF ConnInv, ConnsInOrder
<1>5. OpenKept
  BY <1>1 DEF OpenKept, Open
<1> QED BY <1>3, <1>4, <1>5 DEF ConnInv

LEMMA DeviceAccepts == ASSUME ConnInv, Accept PROVE ConnInv' /\ OpenKept
<1>1. /\ UNCHANGED <<up, breaks, conns, alive, tcp>> /\ conn = None /\ backlog # <<>>
      /\ conn' = Head(backlog) /\ backlog' = Tail(backlog) /\ backlog \in Seq(Conns)
  BY DEF Accept, hostVars, ConnInv, ConnTypes
<1>2. /\ backlog' \in Seq(Conns) /\ Len(backlog') = Len(backlog) - 1
      /\ \A i \in 1 .. Len(backlog') : backlog'[i] = backlog[i + 1]
      /\ Len(backlog) \in Nat /\ DOMAIN backlog = 1 .. Len(backlog)
      /\ DOMAIN backlog' = 1 .. Len(backlog')
      /\ \A i \in DOMAIN backlog : backlog[i] \in Conns
  BY <1>1, HeadTailProperties, ElementsOf
<1>3. conn' = backlog[1] /\ 1 \in 1 .. Len(backlog)
  BY <1>1, <1>2, EmptySeq
<1>4. ConnTypes'
  BY <1>1, <1>2, <1>3 DEF ConnInv, ConnTypes
<1>5. \A c \in Conns : Open(c) => Open(c)'
  <2> SUFFICES ASSUME NEW c \in Conns, Open(c) PROVE Open(c)'
    OBVIOUS
  <2>1. c # conn
    BY <1>1, ConstantsAreNumbers DEF Conns, None
  <2>2. PICK i \in 1 .. Len(backlog) : backlog[i] = c
    BY <1>2, <2>1 DEF Open
  <2>3. CASE i = 1
    BY <1>3, <2>2, <2>3 DEF Open
  <2>4. CASE i # 1
    <3>1. i - 1 \in 1 .. Len(backlog') /\ (i - 1) + 1 = i
      BY <1>2, <2>4
    <3>2. backlog'[i - 1] = c
      BY <1>2, <2>2, <3>1
    <3> QED BY <1>2, <3>1, <3>2 DEF Open
  <2> QED BY <2>3, <2>4
<1>6. \A i \in DOMAIN backlog' : conn' < backlog'[i] /\ backlog'[i] <= conns'
  BY <1>1, <1>2, <1>3 DEF ConnInv, ConnsInOrder
<1>7. ConnsInOrder'
  <2>1. \A i, j \in DOMAIN backlog' : i < j => backlog'[i] < backlog'[j]
    BY <1>2 DEF ConnInv, ConnsInOrder
  <2>2. conn' <= conns'
    BY <1>1, <1>2, <1>3 DEF ConnInv, ConnsInOrder
  <2>3. alive # None => Open(alive)'
    BY <1>1, <1>5 DEF ConnInv, ConnTypes, ConnsInOrder, Open
  <2> QED BY <1>1, <1>6, <2>1, <2>2, <2>3 DEF ConnInv, ConnsInOrder, Open
<1> QED BY <1>4, <1>5, <1>7 DEF ConnInv, OpenKept

LEMMA DeviceMeetsEnd == ASSUME ConnInv, Disconnected PROVE ConnInv' /\ OpenKept
<1>1. /\ UNCHANGED <<up, breaks, conns, alive, tcp, backlog>>
      /\ conn # None /\ conn # alive /\ conn' = None
  BY DEF Disconnected, hostVars
<1>2. \A c \in Conns : Open(c) /\ c # conn => Open(c)'
  BY <1>1 DEF Open
<1>3. ConnTypes'
  BY <1>1 DEF ConnInv, ConnTypes
<1>4. \A i \in DOMAIN backlog : backlog[i] \in Nat /\ 0 < backlog[i]
  <2>1. backlog \in Seq(Conns)
    BY DEF ConnInv, ConnTypes
  <2> QED BY <2>1, ElementsOf, ConstantsAreNumbers DEF Conns
<1>5. ConnsInOrder'
  <2>1. alive # None => Open(alive)'
    BY <1>1, <1>2 DEF ConnInv, ConnTypes, ConnsInOrder
  <2>2. conns \in Nat
    BY ConstantsAreNumbers DEF ConnInv, ConnTypes
  <2> QED BY <1>1, <1>4, <2>1, <2>2 DEF ConnInv, ConnsInOrder, Open, None
<1> QED BY <1>1, <1>2, <1>3, <1>5 DEF ConnInv, OpenKept

LEMMA ConnsKept == ASSUME ConnInv, [Next]_vars PROVE ConnInv' /\ OpenKept
<1>1. CASE GoesDown \/ ComesUp
  BY <1>1, TunnelComesAndGoes
<1>2. CASE Connect
  BY <1>2, HostConnects
<1>3. CASE AttemptFails
  BY <1>3, HostDrops
<1>4. CASE Accept
  BY <1>4, DeviceAccepts
<1>5. CASE Disconnected
  BY <1>5, DeviceMeetsEnd
<1>6. CASE \/ sendFeedback \/ RecvFrom \/ SendAll \/ Forward
           \/ checkFeedback \/ adaptPacing \/ UNCHANGED vars
  <2>1. UNCHANGED <<up, breaks, conns, alive, tcp, conn, backlog>>
    BY <1>6 DEF sendFeedback, RecvFrom, SendAll, Forward, checkFeedback, adaptPacing,
       vars, hostVars, tunnelVars
  <2> QED BY <2>1, ConnsUnchanged
<1> QED
  BY <1>1, <1>2, <1>3, <1>4, <1>5, <1>6 DEF Next, HostBridge, DeviceBridge, Sender

-----------------------------------------------------------------------------
(* What is on the connections. *)

WireTypes == wires \in [Conns -> Seq(Units)]
WireInv   == WireTypes /\ OnlyOpenCarry /\ WiresInOrder

(* What is older than all on the connections stays so, if it is older than *)
(* what the host has to send. *)
WiresKept == \A n \in Int : BeforeHost(n) /\ BeforeWires(n) => BeforeWires(n)'

LEMMA WireElements ==
  ASSUME WireTypes, NEW c \in Conns
  PROVE  /\ wires[c] \in Seq(Units) /\ Len(wires[c]) \in Nat
         /\ DOMAIN wires[c] = 1 .. Len(wires[c])
         /\ \A i \in DOMAIN wires[c] : wires[c][i] \in Units /\ wires[c][i].report \in Nat
<1>1. wires[c] \in Seq(Units)
  BY DEF WireTypes
<1>2. \A u \in Units : u.report \in Nat
  BY ConstantsAreNumbers DEF Units, Reports
<1> QED BY <1>1, <1>2, ElementsOf

(* A piece of each connection is left, perhaps all of it. *)
Shrunk(c) ==
  \E s \in Nat : \A j \in DOMAIN wires'[c] :
    j + s \in DOMAIN wires[c] /\ wires'[c][j] = wires[c][j + s]

LEMMA ShrinkingKeepsOrder ==
  ASSUME WireTypes, WireTypes', WiresInOrder, OrderKept, \A c \in Conns : Shrunk(c)
  PROVE  WiresInOrder' /\ WiresKept
<1>1. PICK s \in [Conns -> Nat] :
        \A c \in Conns : \A j \in DOMAIN wires'[c] :
          j + s[c] \in DOMAIN wires[c] /\ wires'[c][j] = wires[c][j + s[c]]
  <2> DEFINE t == [c \in Conns |->
                     CHOOSE m \in Nat : \A j \in DOMAIN wires'[c] :
                       j + m \in DOMAIN wires[c] /\ wires'[c][j] = wires[c][j + m]]
  <2>1. \A c \in Conns : /\ t[c] \in Nat
                         /\ \A j \in DOMAIN wires'[c] :
                              j + t[c] \in DOMAIN wires[c] /\ wires'[c][j] = wires[c][j + t[c]]
    BY DEF Shrunk
  <2>2. t \in [Conns -> Nat]
    BY <2>1
  <2> HIDE DEF t
  <2> QED BY <2>1, <2>2
<1>2. \A c \in Conns : \A j \in DOMAIN wires'[c] : j \in Nat
  <2> SUFFICES ASSUME NEW c \in Conns PROVE \A j \in DOMAIN wires'[c] : j \in Nat
    OBVIOUS
  <2>1. wires'[c] \in Seq(Units)
    BY DEF WireTypes
  <2>2. Len(wires'[c]) \in Nat /\ DOMAIN wires'[c] = 1 .. Len(wires'[c])
    BY <2>1, ElementsOf
  <2> QED BY <2>2
<1>3. \A c \in Conns : \A i \in DOMAIN wires'[c] : BeforeHost(wires[c][i].report)'
  <2> SUFFICES ASSUME NEW c \in Conns, NEW i \in DOMAIN wires'[c]
               PROVE  BeforeHost(wires[c][i].report)'
    OBVIOUS
  <2>1. i + s[c] \in DOMAIN wires[c] /\ wires'[c][i] = wires[c][i + s[c]]
    BY <1>1
  <2>2. BeforeHost(wires[c][i + s[c]].report) /\ wires[c][i + s[c]].report \in Int
    BY <2>1, WireElements DEF WiresInOrder
  <2>3. PICK n \in Int : n = wires[c][i + s[c]].report
    BY <2>2
  <2>4. BeforeHost(n)'
    BY <2>2, <2>3 DEF OrderKept
  <2> QED BY <2>1, <2>3, <2>4 DEF BeforeHost
<1>4. \A c \in Conns : \A i, j \in DOMAIN wires'[c] :
        i < j /\ wires'[c][j].part = "tag" => wires'[c][i].report < wires'[c][j].report
  <2> SUFFICES ASSUME NEW c \in Conns, NEW i \in DOMAIN wires'[c], NEW j \in DOMAIN wires'[c],
                      i < j, wires'[c][j].part = "tag"
               PROVE  wires'[c][i].report < wires'[c][j].report
    OBVIOUS
  <2>1. /\ i + s[c] \in DOMAIN wires[c] /\ wires'[c][i] = wires[c][i + s[c]]
        /\ j + s[c] \in DOMAIN wires[c] /\ wires'[c][j] = wires[c][j + s[c]]
        /\ i + s[c] < j + s[c]
    BY <1>1, <1>2
  <2> QED BY <2>1 DEF WiresInOrder
<1>5. \A c, d \in Conns : \A i \in DOMAIN wires'[c], j \in DOMAIN wires'[d] :
        c < d => wires'[c][i].report < wires'[d][j].report
  BY <1>1 DEF WiresInOrder
<1>6. WiresKept
  BY <1>1 DEF WiresKept, BeforeWires
<1> QED BY <1>3, <1>4, <1>5, <1>6 DEF WiresInOrder

LEMMA WiresUnchanged ==
  ASSUME WireInv, OrderKept, OpenKept, ~Disconnected, wires' = wires
  PROVE  WireInv' /\ WiresKept
<1>1. WireTypes'
  BY DEF WireInv, WireTypes
<1>2. \A c \in Conns : Shrunk(c)
  <2>1. \A c \in Conns : \A j \in DOMAIN wires[c] : j + 0 = j
    BY WireElements DEF WireInv
  <2> QED BY <2>1 DEF Shrunk
<1>3. OnlyOpenCarry'
  BY DEF WireInv, OnlyOpenCarry, OpenKept
<1> QED BY <1>1, <1>2, <1>3, ShrinkingKeepsOrder DEF WireInv

(* A break, a recv() or the end of a connection: each leaves a piece. *)
LEMMA WiresShrink ==
  ASSUME WireInv, ConnTypes, OrderKept, OpenKept, GoesDown \/ Forward \/ Disconnected
  PROVE  WireInv' /\ WiresKept
<1>1. \/ wires' = wires /\ ~Disconnected
      \/ \E c \in Conns : \E m \in 1 .. Len(wires[c]) + 1, n \in 0 .. Len(wires[c]) :
           /\ wires' = [wires EXCEPT ![c] = SubSeq(wires[c], m, n)]
           /\ Disconnected => c = conn /\ n < m
  <2>1. \A c \in Conns : wires[c] \in Seq(Units) /\ Len(wires[c]) \in Nat
    BY WireElements DEF WireInv
  <2>2. CASE GoesDown /\ ~Disconnected
    <3>1. alive \in Conns \cup {None}
      BY DEF ConnTypes
    <3>2. CASE alive = None
      BY <2>2, <3>2 DEF GoesDown
    <3>3. CASE alive \in Conns
      <4>1. PICK k \in 0 .. Len(wires[alive]) :
              wires' = [wires EXCEPT ![alive] = SubSeq(wires[alive], 1, k)]
        BY <2>1, <2>2, <3>3, ConstantsAreNumbers DEF GoesDown, Conns, None
      <4>2. 1 \in 1 .. Len(wires[alive]) + 1
        BY <2>1, <3>3
      <4> QED BY <2>2, <3>3, <4>1, <4>2
    <3> QED BY <3>1, <3>2, <3>3
  <2>3. CASE Forward /\ ~Disconnected
    <3>1. conn \in Conns
      BY <2>3 DEF Forward, ConnTypes
    <3>2. PICK k \in 1 .. Len(wires[conn]) :
            wires' = [wires EXCEPT ![conn] = SubSeq(wires[conn], k + 1, Len(wires[conn]))]
      BY <2>3 DEF Forward, Chunks
    <3>3. k + 1 \in 1 .. Len(wires[conn]) + 1 /\ Len(wires[conn]) \in 0 .. Len(wires[conn])
      BY <2>1, <3>1
    <3> QED BY <2>3, <3>1, <3>2, <3>3
  <2>4. CASE Disconnected
    <3>1. conn \in Conns /\ wires' = [wires EXCEPT ![conn] = <<>>]
      BY <2>4 DEF Disconnected, ConnTypes
    <3>2. /\ SubSeq(wires[conn], 1, 0) = <<>>
          /\ 1 \in 1 .. Len(wires[conn]) + 1 /\ 0 \in 0 .. Len(wires[conn])
      BY <2>1, <3>1, SubSeqEmpty
    <3>3. PICK c \in Conns : c = conn
      BY <3>1
    <3>4. PICK m \in 1 .. Len(wires[c]) + 1, n \in 0 .. Len(wires[c]) : m = 1 /\ n = 0
      BY <3>2, <3>3
    <3>5. wires' = [wires EXCEPT ![c] = SubSeq(wires[c], m, n)] /\ c = conn /\ n < m
      <4>1. n < m /\ c = conn
        BY <3>3, <3>4
      <4>2. SubSeq(wires[c], m, n) = <<>>
        BY <4>1, SubSeqEmpty
      <4>3. wires' = [wires EXCEPT ![c] = <<>>]
        BY <3>1, <3>3
      <4> QED BY <4>1, <4>2, <4>3
    <3> QED BY <3>5
  <2> QED BY <2>2, <2>3, <2>4
<1>2. CASE wires' = wires /\ ~Disconnected
  BY <1>2, WiresUnchanged
<1>3. ASSUME NEW c \in Conns, NEW m \in 1 .. Len(wires[c]) + 1, NEW n \in 0 .. Len(wires[c]),
             wires' = [wires EXCEPT ![c] = SubSeq(wires[c], m, n)],
             Disconnected => c = conn /\ n < m
      PROVE  WireInv' /\ WiresKept
  <2>1. /\ wires[c] \in Seq(Units) /\ Len(wires[c]) \in Nat
        /\ wires \in [Conns -> Seq(Units)]
    BY WireElements DEF WireInv, WireTypes
  <2>2. /\ SubSeq(wires[c], m, n) \in Seq(Units)
        /\ \A i \in DOMAIN SubSeq(wires[c], m, n) :
             i + (m - 1) \in DOMAIN wires[c] /\ SubSeq(wires[c], m, n)[i] = wires[c][i + (m - 1)]
        /\ Len(SubSeq(wires[c], m, n)) = IF m <= n THEN n - m + 1 ELSE 0
    BY <2>1, PieceOf
  <2>3. /\ wires'[c] = SubSeq(wires[c], m, n)
        /\ \A d \in Conns : d # c => wires'[d] = wires[d]
        /\ WireTypes'
    BY <1>3, <2>1, <2>2 DEF WireTypes
  <2>4. \A d \in Conns : Shrunk(d)
    <3>1. m - 1 \in Nat
      BY <2>1
    <3>2. Shrunk(c)
      BY <2>2, <2>3, <3>1 DEF Shrunk
    <3>3. ASSUME NEW d \in Conns, d # c PROVE Shrunk(d)
      <4>1. \A j \in DOMAIN wires[d] : j + 0 = j
        BY WireElements DEF WireInv
      <4> QED BY <2>3, <3>3, <4>1 DEF Shrunk
    <3> QED BY <3>2, <3>3
  <2>5. OnlyOpenCarry'
    <3> SUFFICES ASSUME NEW d \in Conns, wires'[d] # <<>> PROVE Open(d)'
      BY DEF OnlyOpenCarry
    <3>1. wires[d] # <<>>
      <4>1. CASE d = c
        BY <2>1, <2>2, <2>3, <4>1, EmptySeq
      <4> QED BY <2>3, <4>1
    <3>2. ~(Disconnected /\ d = conn)
      <4> SUFFICES ASSUME Disconnected, d = conn PROVE FALSE
        OBVIOUS
      <4>1. d = c /\ n < m
        BY <1>3
      <4> QED BY <2>3, <4>1, SubSeqEmpty
    <3>3. Open(d)
      BY <3>1 DEF WireInv, OnlyOpenCarry
    <3> QED BY <3>2, <3>3 DEF OpenKept
  <2> QED BY <2>3, <2>4, <2>5, ShrinkingKeepsOrder DEF WireInv
<1> QED BY <1>1, <1>2, <1>3

(* The intact connection is the newest: a report put on it is behind all   *)
(* that is under way. *)
LEMMA WireGrows ==
  ASSUME WireInv, ConnInv, HostInv, HostInv', OrderKept, OpenKept, SendAll
  PROVE  WireInv' /\ WiresKept
<1>1. CASE tcp # alive
  <2>1. wires' = wires /\ ~Disconnected
    BY <1>1 DEF SendAll, Disconnected
  <2> QED BY <2>1, WiresUnchanged
<1>2. CASE tcp = alive
  <2>1. /\ tcp \in Conns /\ alive = tcp /\ tcp = conns /\ conns' = conns
        /\ data \in Reports /\ data' = None /\ made' = made /\ udp_in' = udp_in
        /\ wires' = [wires EXCEPT ![tcp] = wires[tcp] \o Text(data)]
        /\ Open(tcp) /\ ~Disconnected
    <3>1. tcp # None /\ data # None /\ tcp = alive
      BY <1>2 DEF SendAll
    <3>2. ~Disconnected
      <4>1. SendAll => data # None /\ data' = None
        BY DEF SendAll
      <4>2. Disconnected => data' = data
        BY DEF Disconnected, hostVars
      <4> QED BY <4>1, <4>2
    <3> QED
      BY <1>2, <3>1, <3>2 DEF SendAll, ConnInv, ConnTypes, ConnsInOrder, HostInv, HostTypes
  <2> DEFINE L == Len(wires[tcp])
  <2>2. /\ wires[tcp] \in Seq(Units) /\ L \in Nat /\ DOMAIN wires[tcp] = 1 .. L
        /\ wires \in [Conns -> Seq(Units)] /\ data \in Nat /\ data # None
        /\ \A c \in Conns : \A i \in DOMAIN wires[c] : wires[c][i].report \in Nat
    BY <2>1, WireElements, ConstantsAreNumbers DEF WireInv, WireTypes, Reports, None
  <2>3. /\ wires'[tcp] \in Seq(Units) /\ DOMAIN wires'[tcp] = 1 .. L + 2
        /\ \A i \in 1 .. L : wires'[tcp][i] = wires[tcp][i]
        /\ wires'[tcp][L + 1] = [report |-> data, part |-> "tag"]
        /\ wires'[tcp][L + 2] = [report |-> data, part |-> "number"]
    <3>1. wires'[tcp] = wires[tcp] \o Text(data)
      BY <2>1, <2>2
    <3>2. /\ Text(data) \in Seq(Units) /\ Len(Text(data)) = 2
          /\ Text(data)[1] = [report |-> data, part |-> "tag"]
          /\ Text(data)[2] = [report |-> data, part |-> "number"]
      BY <2>1, TextIsTwoUnits
    <3>3. /\ wires[tcp] \o Text(data) \in Seq(Units)
          /\ Len(wires[tcp] \o Text(data)) = L + Len(Text(data))
          /\ \A i \in 1 .. L + Len(Text(data)) : (wires[tcp] \o Text(data))[i] =
               IF i <= L THEN wires[tcp][i] ELSE Text(data)[i - L]
      <4> HIDE DEF Text
      <4> QED BY <2>2, <3>2, ConcatProperties, Zenon
    <3>4. /\ L + 1 \in 1 .. L + 2 /\ L + 2 \in 1 .. L + 2 /\ (L + 1) - L = 1
          /\ (L + 2) - L = 2 /\ ~(L + 1 <= L) /\ ~(L + 2 <= L)
          /\ \A i \in 1 .. L : i \in 1 .. L + 2 /\ i <= L
      BY <2>2
    <3> HIDE DEF L
    <3> QED BY <3>1, <3>2, <3>3, <3>4, LenProperties
  <2> HIDE DEF L
  <2>4. \A c \in Conns : c # tcp => wires'[c] = wires[c]
    BY <2>1, <2>2
  <2>5. WireTypes'
    BY <2>1, <2>2, <2>3 DEF WireTypes
  <2>6. OnlyOpenCarry'
    BY <2>1, <2>4 DEF WireInv, OnlyOpenCarry, OpenKept
  <2>7. \A i \in 1 .. L + 2 : i \in 1 .. L \/ i = L + 1 \/ i = L + 2
    BY <2>2
  <2>8. \A c \in Conns : \A i \in DOMAIN wires[c] :
          BeforeHost(wires[c][i].report) /\ wires[c][i].report < data
    BY <2>2 DEF WireInv, WiresInOrder, BeforeHost
  <2>9. \A c \in Conns : \A i \in DOMAIN wires'[c] :
          \/ i \in DOMAIN wires[c] /\ wires'[c][i] = wires[c][i]
          \/ c = tcp /\ i = L + 1 /\ wires'[c][i].report = data
          \/ c = tcp /\ i = L + 2 /\ wires'[c][i].report = data
                     /\ wires'[c][i].part # "tag"
    <3> SUFFICES ASSUME NEW c \in Conns, NEW i \in DOMAIN wires'[c]
                 PROVE  \/ i \in DOMAIN wires[c] /\ wires'[c][i] = wires[c][i]
                        \/ c = tcp /\ i = L + 1 /\ wires'[c][i].report = data
                        \/ c = tcp /\ i = L + 2 /\ wires'[c][i].report = data
                                   /\ wires'[c][i].part # "tag"
      OBVIOUS
    <3>1. CASE c # tcp
      BY <2>4, <3>1
    <3>2. CASE c = tcp
      <4>1. i \in 1 .. L \/ i = L + 1 \/ i = L + 2
        BY <2>3, <2>7, <3>2
      <4> QED BY <2>2, <2>3, <3>2, <4>1
    <3> QED BY <3>1, <3>2
  <2>10. BeforeHost(data)'
    BY <2>1, <2>2 DEF BeforeHost, HostInv, HostInOrder
  <2>11. \A c \in Conns : \A i \in DOMAIN wires'[c] : BeforeHost(wires[c][i].report)'
    <3> SUFFICES ASSUME NEW c \in Conns, NEW i \in DOMAIN wires'[c]
                 PROVE  BeforeHost(wires[c][i].report)'
      OBVIOUS
    <3>1. CASE wires'[c][i].report = data
      BY <2>10, <3>1, <2>1 DEF BeforeHost, HostInv, HostInOrder
    <3>2. CASE i \in DOMAIN wires[c] /\ wires'[c][i] = wires[c][i]
      BY <2>1, <2>8, <3>2 DEF BeforeHost
    <3> QED BY <2>9, <3>1, <3>2
  <2>12. \A c \in Conns : \A i, j \in DOMAIN wires'[c] :
           i < j /\ wires'[c][j].part = "tag" => wires'[c][i].report < wires'[c][j].report
    BY <2>2, <2>8, <2>9 DEF WireInv, WiresInOrder
  <2>13. \A c, d \in Conns : \A i \in DOMAIN wires'[c], j \in DOMAIN wires'[d] :
           c < d => wires'[c][i].report < wires'[d][j].report
    <3> SUFFICES ASSUME NEW c \in Conns, NEW d \in Conns, c < d,
                        NEW i \in DOMAIN wires'[c], NEW j \in DOMAIN wires'[d]
                 PROVE  wires'[c][i].report < wires'[d][j].report
      OBVIOUS
    <3>1. c # tcp
      <4> SUFFICES ASSUME c = tcp PROVE FALSE
        OBVIOUS
      <4>1. d # tcp /\ wires[d] # <<>>
        <5>1. d # tcp /\ j \in DOMAIN wires[d]
          BY <2>1, <2>9, ConstantsAreNumbers DEF Conns
        <5> QED BY <5>1
      <4>2. d <= conns
        BY <4>1 DEF WireInv, OnlyOpenCarry, Open, ConnInv, ConnsInOrder
      <4> QED BY <2>1, <4>2, ConstantsAreNumbers DEF Conns
    <3>2. i \in DOMAIN wires[c] /\ wires'[c][i] = wires[c][i]
      BY <2>9, <3>1
    <3>3. CASE j \in DOMAIN wires[d] /\ wires'[d][j] = wires[d][j]
      BY <3>2, <3>3 DEF WireInv, WiresInOrder
    <3>4. CASE wires'[d][j].report = data
      BY <2>8, <3>2, <3>4
    <3> QED BY <2>9, <3>3, <3>4
  <2>14. WiresKept
    BY <2>2, <2>9 DEF WiresKept, BeforeWires, BeforeHost
  <2> QED BY <2>5, <2>6, <2>11, <2>12, <2>13, <2>14 DEF WireInv, WiresInOrder
<1> QED BY <1>1, <1>2

LEMMA WiresKeptByAll ==
  ASSUME WireInv, ConnInv, HostInv, HostInv', OrderKept, OpenKept, [Next]_vars
  PROVE  WireInv' /\ WiresKept
<1>1. CASE GoesDown \/ Forward \/ Disconnected
  BY <1>1, WiresShrink DEF ConnInv
<1>2. CASE SendAll
  BY <1>2, WireGrows
<1>3. CASE /\ ~Disconnected
           /\ \/ sendFeedback \/ RecvFrom \/ Connect \/ AttemptFails \/ ComesUp
              \/ Accept \/ checkFeedback \/ adaptPacing \/ UNCHANGED vars
  <2>1. wires' = wires
    BY <1>3 DEF sendFeedback, RecvFrom, Connect, AttemptFails, ComesUp, Accept,
       checkFeedback, adaptPacing, vars, tunnelVars
  <2> QED BY <1>3, <2>1, WiresUnchanged
<1> QED
  BY <1>1, <1>2, <1>3 DEF Next, HostBridge, DeviceBridge, Sender

-----------------------------------------------------------------------------
(* The sender's socket. *)

SocketTypes == feedback_sock \in Seq(Seq(Units))
SocketInv   == SocketTypes /\ SocketInOrder

(* What is older than all on the connections and in the socket stays so. *)
SocketKept == \A n \in Int : BeforeWires(n) /\ BeforeSocket(n) => BeforeSocket(n)'

LEMMA SocketElements ==
  ASSUME SocketTypes
  PROVE  /\ Len(feedback_sock) \in Nat /\ DOMAIN feedback_sock = 1 .. Len(feedback_sock)
         /\ \A a \in DOMAIN feedback_sock :
              /\ feedback_sock[a] \in Seq(Units)
              /\ \A i \in DOMAIN feedback_sock[a] :
                   /\ feedback_sock[a][i] \in Units
                   /\ feedback_sock[a][i].report \in Nat
<1>1. \A u \in Units : u.report \in Nat
  BY ConstantsAreNumbers DEF Units, Reports
<1>2. /\ Len(feedback_sock) \in Nat /\ DOMAIN feedback_sock = 1 .. Len(feedback_sock)
      /\ \A a \in DOMAIN feedback_sock : feedback_sock[a] \in Seq(Units)
  BY ElementsOf DEF SocketTypes
<1> QED BY <1>1, <1>2, ElementsOf

LEMMA SocketLeft ==
  ASSUME SocketInv, OrderKept, WiresKept, feedback_sock' = feedback_sock
  PROVE  SocketInv' /\ SocketKept
<1>1. SocketTypes' /\ SocketKept
  BY DEF SocketInv, SocketTypes, SocketKept, BeforeSocket
<1>2. SocketInOrder'
  <2> SUFFICES ASSUME NEW a \in DOMAIN feedback_sock, NEW i \in DOMAIN feedback_sock[a]
               PROVE  /\ BeforeHost(feedback_sock[a][i].report)'
                      /\ BeforeWires(feedback_sock[a][i].report)'
    BY DEF SocketInOrder
  <2>1. PICK n \in Int : n = feedback_sock[a][i].report
    BY SocketElements DEF SocketInv
  <2>2. BeforeHost(n)' /\ BeforeWires(n)'
    BY <2>1 DEF SocketInv, SocketInOrder, OrderKept, WiresKept
  <2> QED BY <2>1, <2>2 DEF BeforeHost, BeforeWires
<1> QED BY <1>1, <1>2 DEF SocketInv

(* What recv() returned is older than what it left. *)
LEMMA SocketGets ==
  ASSUME SocketInv, WireInv, ConnInv, OrderKept, WiresKept, Forward
  PROVE  SocketInv' /\ SocketKept
<1>1. conn \in Conns
  BY DEF Forward, ConnInv, ConnTypes
<1>2. PICK k \in 1 .. Len(wires[conn]) :
        /\ wires' = [wires EXCEPT ![conn] = SubSeq(wires[conn], k + 1, Len(wires[conn]))]
        /\ feedback_sock' = Append(feedback_sock, SubSeq(wires[conn], 1, k))
  BY DEF Forward, Chunks
<1> DEFINE w     == wires[conn]
           chunk == SubSeq(w, 1, k)
           rest  == SubSeq(w, k + 1, Len(w))
<1>3. /\ w \in Seq(Units) /\ Len(w) \in Nat /\ DOMAIN w = 1 .. Len(w)
      /\ wires \in [Conns -> Seq(Units)]
      /\ \A i \in DOMAIN w : w[i] \in Units /\ w[i].report \in Nat
  BY <1>1, WireElements DEF WireInv, WireTypes
<1>4. /\ 1 \in 1 .. Len(w) + 1 /\ k \in 0 .. Len(w) /\ k \in Nat
      /\ k + 1 \in 1 .. Len(w) + 1 /\ Len(w) \in 0 .. Len(w)
  BY <1>3
<1>5. /\ chunk \in Seq(Units) /\ Len(chunk) = k
      /\ \A i \in DOMAIN chunk : i \in DOMAIN w /\ i <= k /\ chunk[i] = w[i]
  <2>1. /\ chunk \in Seq(Units)
        /\ \A i \in DOMAIN chunk : i + (1 - 1) \in DOMAIN w /\ chunk[i] = w[i + (1 - 1)]
        /\ Len(chunk) = IF 1 <= k THEN k - 1 + 1 ELSE 0
    BY <1>3, <1>4, PieceOf
  <2>2. Len(chunk) = k /\ DOMAIN chunk = 1 .. k
    BY <1>4, <2>1, LenProperties
  <2> QED BY <1>4, <2>1, <2>2
<1>6. /\ rest \in Seq(Units)
      /\ \A j \in DOMAIN rest : j \in Nat /\ j > 0 /\ j + k \in DOMAIN w /\ rest[j] = w[j + k]
  <2>1. /\ rest \in Seq(Units)
        /\ \A j \in DOMAIN rest :
             j + ((k + 1) - 1) \in DOMAIN w /\ rest[j] = w[j + ((k + 1) - 1)]
    BY <1>3, <1>4, PieceOf
  <2>2. Len(rest) \in Nat /\ DOMAIN rest = 1 .. Len(rest) /\ (k + 1) - 1 = k
    BY <1>4, <2>1, LenProperties
  <2> QED BY <2>1, <2>2
<1>7. wires'[conn] = rest /\ \A c \in Conns : c # conn => wires'[c] = wires[c]
  BY <1>1, <1>2, <1>3
<1>8. feedback_sock' = Append(feedback_sock, chunk)
  BY <1>2
<1> HIDE DEF w, chunk, rest
<1> DEFINE S == Len(feedback_sock)
<1>9. /\ S \in Nat /\ DOMAIN feedback_sock = 1 .. S
      /\ feedback_sock' \in Seq(Seq(Units)) /\ DOMAIN feedback_sock' = 1 .. S + 1
      /\ \A a \in 1 .. S : feedback_sock'[a] = feedback_sock[a]
      /\ feedback_sock'[S + 1] = chunk
  BY <1>5, <1>8, SocketElements, AppendProperties, LenProperties DEF SocketInv, SocketTypes
<1> HIDE DEF S
<1>10. \A a \in DOMAIN feedback_sock' : a \in DOMAIN feedback_sock \/ a = S + 1
  BY <1>9
<1>11. SocketKept
  <2> SUFFICES ASSUME NEW n \in Int, BeforeWires(n), BeforeSocket(n),
                      NEW a \in DOMAIN feedback_sock', NEW j \in DOMAIN feedback_sock'[a],
                      feedback_sock'[a][j].part = "tag"
               PROVE  n < feedback_sock'[a][j].report
    BY DEF SocketKept, BeforeSocket
  <2>1. CASE a \in DOMAIN feedback_sock
    BY <1>9, <2>1 DEF BeforeSocket
  <2>2. CASE a = S + 1
    BY <1>1, <1>5, <1>9, <2>2 DEF BeforeWires, w
  <2> QED BY <1>10, <2>1, <2>2
<1>12. ASSUME NEW i \in DOMAIN chunk, NEW n \in Int, n = chunk[i].report
       PROVE  BeforeHost(n)' /\ BeforeWires(n)'
  <2>1. i \in DOMAIN w /\ i <= k /\ n = w[i].report
    BY <1>5, <1>12
  <2>2. BeforeHost(n)'
    BY <1>1, <2>1 DEF w, WireInv, WiresInOrder, OrderKept
  <2>3. ASSUME NEW j \in DOMAIN wires'[conn], wires'[conn][j].part = "tag"
        PROVE  n < wires'[conn][j].report
    <3>1. j \in Nat /\ j > 0 /\ j + k \in DOMAIN w /\ wires'[conn][j] = w[j + k]
      BY <1>6, <1>7, <2>3
    <3>2. i < j + k
      BY <1>3, <2>1, <3>1
    <3> QED BY <1>1, <2>1, <2>3, <3>1, <3>2 DEF w, WireInv, WiresInOrder
  <2>4. ASSUME NEW c \in Conns, c # conn, NEW j \in DOMAIN wires'[c]
        PROVE  n < wires'[c][j].report
    <3>1. j \in DOMAIN wires[c] /\ wires'[c][j] = wires[c][j]
      BY <1>7, <2>4
    <3>2. wires[c] # <<>>
      BY <3>1
    <3>3. Open(c)
      BY <3>2 DEF WireInv, OnlyOpenCarry
    <3>4. conn < c
      BY <2>4, <3>3 DEF Open, ConnInv, ConnsInOrder
    <3> QED BY <1>1, <2>1, <3>1, <3>4 DEF w, WireInv, WiresInOrder
  <2> QED BY <2>2, <2>3, <2>4 DEF BeforeWires
<1>13. SocketInOrder'
  <2> SUFFICES ASSUME NEW a \in DOMAIN feedback_sock', NEW i \in DOMAIN feedback_sock'[a]
               PROVE  /\ BeforeHost(feedback_sock[a][i].report)'
                      /\ BeforeWires(feedback_sock[a][i].report)'
    BY DEF SocketInOrder
  <2>1. CASE a \in DOMAIN feedback_sock
    <3>1. feedback_sock'[a] = feedback_sock[a]
      BY <1>9, <2>1
    <3>2. PICK n \in Int : n = feedback_sock[a][i].report
      BY <2>1, <3>1, SocketElements DEF SocketInv
    <3>3. BeforeHost(n)' /\ BeforeWires(n)'
      BY <2>1, <3>1, <3>2 DEF SocketInv, SocketInOrder, OrderKept, WiresKept
    <3> QED BY <3>1, <3>2, <3>3 DEF BeforeHost, BeforeWires
  <2>2. CASE a = S + 1
    <3>1. feedback_sock'[a] = chunk /\ i \in DOMAIN chunk
      BY <1>9, <2>2
    <3>2. PICK n \in Int : n = chunk[i].report
      BY <1>3, <1>5, <3>1
    <3>3. BeforeHost(n)' /\ BeforeWires(n)'
      BY <1>12, <3>1, <3>2
    <3> QED BY <3>1, <3>2, <3>3 DEF BeforeHost, BeforeWires
  <2> QED BY <1>10, <2>1, <2>2
<1> QED BY <1>9, <1>11, <1>13 DEF SocketInv, SocketTypes

LEMMA SocketKeptByAll ==
  ASSUME SocketInv, WireInv, ConnInv, OrderKept, WiresKept, [Next]_vars
  PROVE  SocketInv' /\ SocketKept
<1>1. CASE Forward
  BY <1>1, SocketGets
<1>2. CASE checkFeedback
  <2>1. feedback_sock' = <<>>
    BY <1>2 DEF checkFeedback
  <2>2. SocketTypes' /\ DOMAIN feedback_sock' = {}
    BY <2>1, EmptySeq DEF SocketTypes
  <2> QED BY <2>2 DEF SocketInv, SocketInOrder, SocketKept, BeforeSocket
<1>3. CASE \/ sendFeedback \/ GoesDown \/ ComesUp \/ HostBridge
           \/ Accept \/ Disconnected \/ adaptPacing \/ UNCHANGED vars
  <2>1. feedback_sock' = feedback_sock
    BY <1>3 DEF sendFeedback, GoesDown, ComesUp, HostBridge, RecvFrom, Connect, SendAll,
       AttemptFails, Accept, Disconnected, adaptPacing, vars
  <2> QED BY <2>1, SocketLeft
<1> QED BY <1>1, <1>2, <1>3 DEF Next, DeviceBridge, Sender

-----------------------------------------------------------------------------
(* What the sender has read and acted on. *)

SeenTypes ==
  /\ last_loss_rate \in Reports \cup {None, Garbled}
  /\ feedback_received \in BOOLEAN
  /\ acted \in Seq(Reports \cup {Garbled})
  /\ handed \subseteq Reports /\ seen \subseteq Reports

ReadInv == SeenTypes /\ ReadInOrder /\ ActsInOrder

OlderKept == \A n \in Int : Older(n) => Older(n)'

LEMMA OlderStays ==
  ASSUME OrderKept, WiresKept, SocketKept PROVE OlderKept
BY DEF OrderKept, WiresKept, SocketKept, OlderKept, Older

LEMMA NumbersRead ==
  ASSUME SeenTypes
  PROVE  /\ last_loss_rate \in Int
         /\ acted \in Seq(Reports \cup {Garbled})
         /\ Len(acted) \in Nat /\ DOMAIN acted = 1 .. Len(acted)
         /\ \A k \in DOMAIN acted : acted[k] \in Int
<1>1. Reports \cup {Garbled} \subseteq Int /\ last_loss_rate \in Int
  BY ConstantsAreNumbers DEF SeenTypes, Reports, None, Garbled
<1> QED BY <1>1, ElementsOf DEF SeenTypes

LEMMA ReadUnchanged ==
  ASSUME ReadInv, OlderKept, UNCHANGED <<last_loss_rate, feedback_received, acted>>
  PROVE  ReadInOrder' /\ ActsInOrder'
<1>1. /\ feedback_received /\ last_loss_rate # Garbled => Older(last_loss_rate)'
      /\ \A k \in DOMAIN acted : acted[k] # Garbled => Older(acted[k])'
  <2>1. ASSUME NEW n \in Int, Older(n) PROVE Older(n)'
    BY <2>1 DEF OlderKept
  <2>2. feedback_received /\ last_loss_rate # Garbled => Older(last_loss_rate)'
    <3>1. PICK n \in Int : n = last_loss_rate
      BY NumbersRead DEF ReadInv
    <3> QED BY <2>1, <3>1 DEF ReadInv, ReadInOrder, Older, BeforeHost, BeforeWires, BeforeSocket
  <2>3. ASSUME NEW k \in DOMAIN acted, acted[k] # Garbled PROVE Older(acted[k])'
    <3>1. PICK n \in Int : n = acted[k]
      BY NumbersRead DEF ReadInv
    <3> QED BY <2>1, <2>3, <3>1 DEF ReadInv, ReadInOrder, Older, BeforeHost, BeforeWires,
               BeforeSocket
  <2> QED BY <2>2, <2>3
<1> QED BY <1>1 DEF ReadInv, ReadInOrder, ActsInOrder

(* Whichever datagram is the last one, its report is newer than all that   *)
(* was acted on and older than all that is to come. *)
LEMMA SenderReads ==
  ASSUME ReadInv, SocketInv, OlderKept, OrderKept, WiresKept, checkFeedback
  PROVE  ReadInOrder' /\ ActsInOrder'
<1>1. /\ feedback_sock # <<>> /\ last_loss_rate' = Parsed(Last(feedback_sock))
      /\ feedback_sock' = <<>> /\ acted' = acted /\ feedback_received'
  BY DEF checkFeedback
<1>2. PICK a \in DOMAIN feedback_sock : Last(feedback_sock) = feedback_sock[a]
  <2>1. Len(feedback_sock) \in DOMAIN feedback_sock
    BY <1>1, SocketElements, EmptySeq DEF SocketInv, SocketTypes
  <2> QED BY <2>1 DEF Last
<1>3. \A k \in DOMAIN acted : acted[k] \in Int
  BY NumbersRead DEF ReadInv
<1>4. ASSUME NEW k \in DOMAIN acted, acted[k] # Garbled PROVE Older(acted[k])'
  <2>1. PICK n \in Int : n = acted[k]
    BY <1>3
  <2>2. Older(n)'
    BY <1>4, <2>1 DEF OlderKept, ReadInv, ReadInOrder
  <2> QED BY <1>1, <2>1, <2>2 DEF Older, BeforeHost, BeforeWires, BeforeSocket
<1>5. CASE last_loss_rate' = Garbled
  <2>1. last_loss_rate' # None
    BY <1>5 DEF None, Garbled
  <2> QED BY <1>1, <1>4, <1>5, <2>1 DEF ReadInv, ReadInOrder, ActsInOrder
<1>6. CASE last_loss_rate' # Garbled
  <2>1. /\ 1 \in DOMAIN feedback_sock[a] /\ feedback_sock[a][1].part = "tag"
        /\ last_loss_rate' = feedback_sock[a][1].report
        /\ feedback_sock[a][1].report \in Int /\ last_loss_rate' \in Reports
    BY <1>1, <1>2, <1>6, SocketElements, ParsedIsTheFirst DEF SocketInv
  <2>2. PICK n \in Int : n = last_loss_rate'
    BY <2>1
  <2>3. BeforeHost(n) /\ BeforeWires(n)
    BY <2>1, <2>2 DEF SocketInv, SocketInOrder
  <2>4. BeforeHost(n)' /\ BeforeWires(n)' /\ BeforeSocket(n)'
    BY <1>1, <2>3 DEF OrderKept, WiresKept, BeforeSocket
  <2>5. Older(last_loss_rate)'
    BY <2>2, <2>4 DEF Older, BeforeHost, BeforeWires, BeforeSocket
  <2>6. \A k \in DOMAIN acted : acted[k] # Garbled => acted[k] < last_loss_rate'
    BY <2>1 DEF ReadInv, ReadInOrder, Older, BeforeSocket
  <2>7. last_loss_rate' # None
    BY <2>1, ConstantsAreNumbers DEF Reports, None
  <2> QED BY <1>1, <1>4, <2>5, <2>6, <2>7 DEF ReadInv, ReadInOrder, ActsInOrder
<1> QED BY <1>5, <1>6

LEMMA SenderActs ==
  ASSUME ReadInv, OlderKept, adaptPacing PROVE ReadInOrder' /\ ActsInOrder'
<1>1. /\ feedback_received /\ acted' = Append(acted, last_loss_rate)
      /\ ~feedback_received' /\ last_loss_rate' = last_loss_rate
  BY DEF adaptPacing
<1>2. /\ last_loss_rate \in Int /\ Len(acted) \in Nat /\ DOMAIN acted = 1 .. Len(acted)
      /\ \A k \in DOMAIN acted : acted[k] \in Int
      /\ acted \in Seq(Int)
  <2>1. /\ last_loss_rate \in Int /\ acted \in Seq(Reports \cup {Garbled})
        /\ Len(acted) \in Nat /\ DOMAIN acted = 1 .. Len(acted)
        /\ \A k \in DOMAIN acted : acted[k] \in Int
    BY NumbersRead DEF ReadInv
  <2>2. acted \in [1 .. Len(acted) -> Int]
    <3>1. acted \in [1 .. Len(acted) -> Reports \cup {Garbled}]
      BY <2>1, LenProperties
    <3> QED BY <2>1, <3>1
  <2>3. acted \in Seq(Int)
    BY <2>1, <2>2, IsASeq, SMT
  <2> QED BY <2>1, <2>3
<1>3. /\ DOMAIN acted' = 1 .. Len(acted) + 1
      /\ \A k \in 1 .. Len(acted) : acted'[k] = acted[k]
      /\ acted'[Len(acted) + 1] = last_loss_rate
  BY <1>1, <1>2, AppendProperties, LenProperties
<1>4. \A k \in DOMAIN acted' : k \in DOMAIN acted \/ k = Len(acted) + 1
  BY <1>2, <1>3
<1>5. ASSUME NEW k \in DOMAIN acted', acted'[k] # Garbled PROVE Older(acted[k])'
  <2>1. PICK n \in Int : n = acted'[k]
    BY <1>2, <1>3, <1>4
  <2>2. Older(n)
    <3>1. CASE k \in DOMAIN acted
      BY <1>2, <1>3, <1>5, <2>1, <3>1 DEF ReadInv, ReadInOrder
    <3>2. CASE k = Len(acted) + 1
      BY <1>1, <1>3, <1>5, <2>1, <3>2 DEF ReadInv, ReadInOrder
    <3> QED BY <1>4, <3>1, <3>2
  <2>3. Older(n)'
    BY <2>2 DEF OlderKept
  <2> QED BY <2>1, <2>3 DEF Older, BeforeHost, BeforeWires, BeforeSocket
<1>6. ActsInOrder'
  <2> SUFFICES ASSUME NEW i \in DOMAIN acted', NEW j \in DOMAIN acted',
                      i < j, acted'[i] # Garbled, acted'[j] # Garbled
               PROVE  acted'[i] < acted'[j]
    BY DEF ActsInOrder
  <2>1. i \in DOMAIN acted /\ acted'[i] = acted[i]
    BY <1>2, <1>3, <1>4
  <2>2. CASE j \in DOMAIN acted
    BY <1>2, <1>3, <2>1, <2>2 DEF ReadInv, ActsInOrder
  <2>3. CASE j = Len(acted) + 1
    BY <1>1, <1>3, <2>1, <2>3 DEF ReadInv, ReadInOrder
  <2> QED BY <1>4, <2>2, <2>3
<1> QED BY <1>1, <1>5, <1>6 DEF ReadInOrder

LEMMA ReadKept ==
  ASSUME ReadInv, SocketInv, OrderKept, WiresKept, SocketKept, [Next]_vars
  PROVE  ReadInOrder' /\ ActsInOrder'
<1>1. OlderKept
  BY OlderStays
<1>2. CASE checkFeedback
  BY <1>1, <1>2, SenderReads
<1>3. CASE adaptPacing
  BY <1>1, <1>3, SenderActs
<1>4. CASE sendFeedback \/ GoesDown \/ ComesUp \/ HostBridge \/ DeviceBridge \/ UNCHANGED vars
  <2>1. UNCHANGED <<last_loss_rate, feedback_received, acted>>
    BY <1>4 DEF sendFeedback, GoesDown, ComesUp, HostBridge, RecvFrom, Connect, SendAll,
       AttemptFails, DeviceBridge, Accept, Forward, Disconnected, vars, senderVars
  <2> QED BY <1>1, <2>1, ReadUnchanged
<1> QED BY <1>2, <1>3, <1>4 DEF Next, Sender

(* The types of what is read, acted on, handed and seen. *)
LEMMA SeenTyped ==
  ASSUME ReadInv, SocketInv, HostInv, [Next]_vars PROVE SeenTypes'
<1>0. SeenTypes /\ (feedback_received => last_loss_rate # None)
  BY DEF ReadInv, ReadInOrder
<1>1. CASE checkFeedback
  <2>1. PICK a \in DOMAIN feedback_sock : Last(feedback_sock) = feedback_sock[a]
    <3>1. feedback_sock # <<>>
      BY <1>1 DEF checkFeedback
    <3>2. Len(feedback_sock) \in DOMAIN feedback_sock
      BY <3>1, SocketElements, EmptySeq DEF SocketInv, SocketTypes
    <3> QED BY <3>2 DEF Last
  <2>2. Parsed(feedback_sock[a]) \in Reports \cup {None, Garbled}
    BY SocketElements, ParsedIsTheFirst DEF SocketInv
  <2>3. /\ last_loss_rate' = Parsed(feedback_sock[a]) /\ feedback_received' = TRUE
        /\ acted' = acted /\ handed' = handed
        /\ seen' = seen \cup ReportsInAll(feedback_sock)
    BY <1>1, <2>1 DEF checkFeedback
  <2>4. ReportsInAll(feedback_sock) \subseteq Reports
    BY DEF ReportsIn, ReportsInAll
  <2> QED BY <1>0, <2>2, <2>3, <2>4 DEF SeenTypes
<1>2. CASE adaptPacing
  <2>1. /\ feedback_received /\ acted' = Append(acted, last_loss_rate)
        /\ feedback_received' = FALSE
        /\ UNCHANGED <<last_loss_rate, handed, seen>>
    BY <1>2 DEF adaptPacing
  <2>2. last_loss_rate \in Reports \cup {Garbled}
    BY <1>0, <2>1 DEF SeenTypes
  <2> QED BY <1>0, <2>1, <2>2, AppendProperties DEF SeenTypes
<1>3. CASE SendAll
  <2>1. /\ UNCHANGED <<last_loss_rate, feedback_received, acted, seen>>
        /\ data # None /\ handed' \in {handed, handed \cup {data}}
    BY <1>3 DEF SendAll, senderVars
  <2>2. data \in Reports
    BY <2>1 DEF HostInv, HostTypes
  <2> QED BY <1>0, <2>1, <2>2 DEF SeenTypes
<1>4. CASE GoesDown
  BY <1>0, <1>4 DEF GoesDown, senderVars, SeenTypes
<1>5. CASE \/ sendFeedback \/ ComesUp \/ RecvFrom \/ Connect \/ AttemptFails
           \/ DeviceBridge \/ UNCHANGED vars
  BY <1>0, <1>5 DEF sendFeedback, ComesUp, RecvFrom, Connect, AttemptFails, DeviceBridge,
     Accept, Forward, Disconnected, vars, senderVars, SeenTypes
<1> QED BY <1>1, <1>2, <1>3, <1>4, <1>5 DEF Next, HostBridge, Sender

-----------------------------------------------------------------------------
LEMMA InvSplit ==
  FeedbackInv <=> HostInv /\ ConnInv /\ WireInv /\ SocketInv /\ ReadInv
BY DEF FeedbackInv, FeedbackTypeOK, DataTypes, HostInv, ConnInv, WireInv, WireTypes,
       SocketInv, SocketTypes, ReadInv, SeenTypes

LEMMA FeedbackInit == Init => FeedbackInv
<1> SUFFICES ASSUME Init PROVE HostInv /\ ConnInv /\ WireInv /\ SocketInv /\ ReadInv
  BY InvSplit
<1>1. /\ <<>> \in Seq(Reports) /\ <<>> \in Seq(Conns) /\ <<>> \in Seq(Units)
      /\ <<>> \in Seq(Seq(Units)) /\ <<>> \in Seq(Reports \cup {Garbled})
  BY EmptySeq
<1>2. HostInv
  BY <1>1, ConstantsAreNumbers DEF Init, HostInv, HostTypes, HostInOrder, None
<1>3. ConnInv
  <2>1. ConnTypes
    BY <1>1, ConstantsAreNumbers DEF Init, ConnTypes
  <2>2. ConnsInOrder
    BY <1>1 DEF Init, ConnsInOrder, None
  <2> QED BY <2>1, <2>2 DEF ConnInv
<1>4. WireInv
  BY <1>1 DEF Init, WireInv, WireTypes, OnlyOpenCarry, WiresInOrder
<1>5. SocketInv
  BY <1>1 DEF Init, SocketInv, SocketTypes, SocketInOrder
<1>6. ReadInv
  <2>1. SeenTypes /\ DOMAIN acted = {} /\ ~feedback_received
    <3>1. /\ acted = <<>> /\ handed = {} /\ seen = {} /\ last_loss_rate = None
          /\ feedback_received = FALSE
      BY DEF Init
    <3>2. last_loss_rate \in Reports \cup {None, Garbled} /\ acted \in Seq(Reports \cup {Garbled})
      BY <1>1, <3>1, Zenon
    <3>3. DOMAIN acted = {}
      BY <3>1
    <3>4. handed \subseteq Reports /\ seen \subseteq Reports
      BY <3>1
    <3>5. feedback_received \in BOOLEAN /\ ~feedback_received
      BY <3>1
    <3> QED BY <3>2, <3>3, <3>4, <3>5, Zenon DEF SeenTypes
  <2> QED BY <2>1 DEF ReadInv, ReadInOrder, ActsInOrder
<1> QED BY <1>2, <1>3, <1>4, <1>5, <1>6

LEMMA FeedbackStep == FeedbackInv /\ [Next]_vars => FeedbackInv'
<1> SUFFICES ASSUME FeedbackInv, [Next]_vars
             PROVE  HostInv' /\ ConnInv' /\ WireInv' /\ SocketInv' /\ ReadInv'
  BY InvSplit DEF FeedbackInv, FeedbackTypeOK, DataTypes, HostInv, ConnInv, WireInv,
     WireTypes, SocketInv, SocketTypes, ReadInv, SeenTypes
<1>1. HostInv /\ ConnInv /\ WireInv /\ SocketInv /\ ReadInv
  BY InvSplit
<1>2. HostInv' /\ OrderKept
  BY <1>1, HostKept
<1>3. ConnInv' /\ OpenKept
  BY <1>1, ConnsKept
<1>4. WireInv' /\ WiresKept
  BY <1>1, <1>2, <1>3, WiresKeptByAll
<1>5. SocketInv' /\ SocketKept
  BY <1>1, <1>2, <1>4, SocketKeptByAll
<1>6. ReadInv'
  BY <1>1, <1>2, <1>4, <1>5, ReadKept, SeenTyped DEF ReadInv
<1> QED BY <1>2, <1>3, <1>4, <1>5, <1>6

(* The inductive invariant of the feedback path, for any number of reports *)
(* and of breaks: checkFeedback() and the two bridges keep reports in the  *)
(* order in which sendFeedback() made them. *)
THEOREM FeedbackSafety == Spec => []FeedbackInv
BY FeedbackInit, FeedbackStep, PTL DEF Spec

(* adaptPacing() acts at most once on a report, and never on an older one  *)
(* after a newer one. *)
THEOREM ReportsActInOrder == Spec => []ActsInOrder
<1>1. FeedbackInv => ActsInOrder
  BY DEF FeedbackInv
<1> QED BY <1>1, FeedbackSafety, PTL

(* Every variable of the feedback path keeps to its type: no more than     *)
(* three attempts a report, and no more connections than breaks and one.   *)
THEOREM FeedbackIsTyped == Spec => []FeedbackTypeOK
<1>1. FeedbackInv => FeedbackTypeOK
  BY DEF FeedbackInv
<1> QED BY <1>1, FeedbackSafety, PTL

-----------------------------------------------------------------------------
(* What was handed to an intact connection is on it or beyond.             *)

NumberOf(r) == [report |-> r, part |-> "number"]

LEMMA ReportsAreWhere ==
  /\ \A r \in Reports : \A units :
       r \in ReportsIn(units) <=> \E i \in DOMAIN units : units[i] = NumberOf(r)
  /\ \A r \in Reports : \A datagrams :
       r \in ReportsInAll(datagrams) <=> \E a \in DOMAIN datagrams : r \in ReportsIn(datagrams[a])
<1>1. \A r \in Reports : \A units :
        r \in ReportsIn(units) <=> \E i \in DOMAIN units : units[i] = NumberOf(r)
  BY DEF ReportsIn, ToSet, NumberOf
<1>2. \A r \in Reports : \A datagrams :
        r \in ReportsInAll(datagrams) <=> \E a \in DOMAIN datagrams : r \in ReportsIn(datagrams[a])
  BY DEF ReportsInAll, ToSet
<1> QED BY <1>1, <1>2

(* Cut in two, a stream loses nothing. *)
LEMMA PiecesCover ==
  ASSUME NEW S, NEW s \in Seq(S), NEW k \in 1 .. Len(s), NEW i \in DOMAIN s
  PROVE  \/ \E j \in DOMAIN SubSeq(s, 1, k) : SubSeq(s, 1, k)[j] = s[i]
         \/ \E j \in DOMAIN SubSeq(s, k + 1, Len(s)) : SubSeq(s, k + 1, Len(s))[j] = s[i]
<1>1. Len(s) \in Nat /\ i \in 1 .. Len(s) /\ k \in Nat
  BY LenProperties
<1>2. /\ 1 \in 1 .. Len(s) + 1 /\ k \in 0 .. Len(s)
      /\ k + 1 \in 1 .. Len(s) + 1 /\ Len(s) \in 0 .. Len(s)
  BY <1>1
<1>3. CASE i <= k
  <2>1. /\ SubSeq(s, 1, k) \in Seq(S)
        /\ \A j \in DOMAIN SubSeq(s, 1, k) : SubSeq(s, 1, k)[j] = s[j + (1 - 1)]
        /\ Len(SubSeq(s, 1, k)) = IF 1 <= k THEN k - 1 + 1 ELSE 0
    BY <1>2, PieceOf
  <2>2. i \in DOMAIN SubSeq(s, 1, k) /\ i + (1 - 1) = i
    BY <1>1, <1>3, <2>1, LenProperties
  <2> QED BY <2>1, <2>2
<1>4. CASE ~(i <= k)
  <2>1. /\ SubSeq(s, k + 1, Len(s)) \in Seq(S)
        /\ \A j \in DOMAIN SubSeq(s, k + 1, Len(s)) :
             SubSeq(s, k + 1, Len(s))[j] = s[j + ((k + 1) - 1)]
        /\ Len(SubSeq(s, k + 1, Len(s))) =
             IF k + 1 <= Len(s) THEN Len(s) - (k + 1) + 1 ELSE 0
    BY <1>2, PieceOf
  <2>2. i - k \in DOMAIN SubSeq(s, k + 1, Len(s)) /\ (i - k) + ((k + 1) - 1) = i
    <3>1. DOMAIN SubSeq(s, k + 1, Len(s)) = 1 .. Len(SubSeq(s, k + 1, Len(s)))
      BY <2>1, LenProperties
    <3>2. Len(SubSeq(s, k + 1, Len(s))) = Len(s) - k
      BY <1>1, <1>4, <2>1
    <3> QED BY <1>1, <1>4, <3>1, <3>2
  <2> QED BY <2>1, <2>2
<1> QED BY <1>3, <1>4

LEMMA HandedUnchanged ==
  ASSUME HandedInv, UNCHANGED <<handed, wires, alive, feedback_sock, seen>>
  PROVE  HandedInv'
BY DEF HandedInv, HandedOnesArrive, ReportsIn, ReportsInAll

LEMMA HostHandsOver ==
  ASSUME HandedInv, WireTypes, ConnTypes, HostTypes, SendAll
  PROVE  HandedInv'
<1>1. UNCHANGED <<alive, feedback_sock, seen>>
  BY DEF SendAll, senderVars
<1>2. CASE tcp # alive
  BY <1>1, <1>2, HandedUnchanged DEF SendAll
<1>3. CASE tcp = alive
  <2>1. /\ alive \in Conns /\ alive # None /\ data \in Reports
        /\ wires' = [wires EXCEPT ![alive] = wires[alive] \o Text(data)]
        /\ handed' = handed \cup {data}
    BY <1>3 DEF SendAll, ConnTypes, HostTypes
  <2> DEFINE w == wires[alive]
  <2>2. w \in Seq(Units) /\ Len(w) \in Nat /\ DOMAIN w = 1 .. Len(w)
    BY <2>1, WireElements
  <2>3. /\ Text(data) \in Seq(Units) /\ Len(Text(data)) = 2 /\ Text(data)[2] = NumberOf(data)
    BY <2>1, TextIsTwoUnits DEF NumberOf
  <2>4. wires'[alive] = w \o Text(data)
    BY <2>1 DEF WireTypes
  <2> HIDE DEF w
  <2>5. /\ w \o Text(data) \in Seq(Units)
        /\ Len(w \o Text(data)) = Len(w) + 2
        /\ \A i \in 1 .. Len(w) + 2 :
             (w \o Text(data))[i] = IF i <= Len(w) THEN w[i] ELSE Text(data)[i - Len(w)]
    <3>1. /\ w \o Text(data) \in Seq(Units)
          /\ Len(w \o Text(data)) = Len(w) + Len(Text(data))
          /\ \A i \in 1 .. Len(w) + Len(Text(data)) :
               (w \o Text(data))[i] = IF i <= Len(w) THEN w[i] ELSE Text(data)[i - Len(w)]
      <4> HIDE DEF Text
      <4> QED BY <2>2, <2>3, ConcatProperties, Zenon
    <3> QED BY <2>3, <3>1
  <2>6. /\ DOMAIN wires'[alive] = 1 .. Len(w) + 2
        /\ \A i \in 1 .. Len(w) : i \in 1 .. Len(w) + 2 /\ wires'[alive][i] = w[i]
        /\ Len(w) + 2 \in 1 .. Len(w) + 2 /\ wires'[alive][Len(w) + 2] = NumberOf(data)
    <3>1. /\ Len(w) + 2 \in 1 .. Len(w) + 2 /\ ~(Len(w) + 2 <= Len(w))
          /\ (Len(w) + 2) - Len(w) = 2
          /\ \A i \in 1 .. Len(w) : i \in 1 .. Len(w) + 2 /\ i <= Len(w)
      BY <2>2
    <3> QED BY <2>3, <2>4, <2>5, <3>1, LenProperties
  <2>7. \A r \in Reports : r \in ReportsIn(w) => r \in ReportsIn(wires'[alive])
    BY <2>2, <2>6, ReportsAreWhere
  <2>8. data \in ReportsIn(wires'[alive])
    BY <2>1, <2>6, ReportsAreWhere
  <2>9. \A r \in handed : r \in ReportsIn(w) \cup ReportsInAll(feedback_sock) \cup seen
    BY DEF HandedInv, HandedOnesArrive, w
  <2>10. ReportsIn(w) \subseteq Reports
    BY DEF ReportsIn
  <2>11. HandedOnesArrive'
    <3> SUFFICES ASSUME NEW r \in handed'
                 PROVE  r \in ReportsIn(wires'[alive]) \cup ReportsInAll(feedback_sock) \cup seen
      BY <1>1 DEF HandedOnesArrive
    <3> QED BY <2>1, <2>7, <2>8, <2>9, <2>10
  <2> QED BY <1>1, <2>1, <2>11 DEF HandedInv
<1> QED BY <1>2, <1>3

(* recv() moves units from the connection to the sender's socket. *)
LEMMA DeviceHandsOver ==
  ASSUME HandedInv, WireTypes, ConnTypes, SocketTypes, Forward
  PROVE  HandedInv'
<1>1. UNCHANGED <<alive, handed, seen>> /\ conn \in Conns
  BY DEF Forward, senderVars, ConnTypes
<1>2. PICK k \in 1 .. Len(wires[conn]) :
        /\ wires' = [wires EXCEPT ![conn] = SubSeq(wires[conn], k + 1, Len(wires[conn]))]
        /\ feedback_sock' = Append(feedback_sock, SubSeq(wires[conn], 1, k))
  BY DEF Forward, Chunks
<1> DEFINE w == wires[conn]
           chunk == SubSeq(w, 1, k)
<1>3. w \in Seq(Units) /\ Len(w) \in Nat /\ DOMAIN w = 1 .. Len(w)
  BY <1>1, WireElements
<1>4. /\ wires'[conn] = SubSeq(w, k + 1, Len(w))
      /\ \A c \in Conns : c # conn => wires'[c] = wires[c]
  BY <1>1, <1>2 DEF WireTypes
<1>5. chunk \in Seq(Units)
  <2>1. 1 \in 1 .. Len(w) + 1 /\ k \in 0 .. Len(w)
    BY <1>3
  <2> QED BY <1>3, <2>1, PieceOf
<1>6. feedback_sock' = Append(feedback_sock, chunk)
  BY <1>2
<1>7. \A i \in DOMAIN w : \/ \E j \in DOMAIN chunk : chunk[j] = w[i]
                          \/ \E j \in DOMAIN wires'[conn] : wires'[conn][j] = w[i]
  <2> SUFFICES ASSUME NEW i \in DOMAIN w
               PROVE  \/ \E j \in DOMAIN chunk : chunk[j] = w[i]
                      \/ \E j \in DOMAIN wires'[conn] : wires'[conn][j] = w[i]
    OBVIOUS
  <2>1. \/ \E j \in DOMAIN SubSeq(w, 1, k) : SubSeq(w, 1, k)[j] = w[i]
        \/ \E j \in DOMAIN SubSeq(w, k + 1, Len(w)) : SubSeq(w, k + 1, Len(w))[j] = w[i]
    <3> HIDE DEF w
    <3>1. k \in 1 .. Len(w)
      BY DEF w
    <3> QED BY <1>3, <3>1, PiecesCover
  <2> QED BY <1>4, <2>1
<1> HIDE DEF w, chunk
<1> DEFINE S == Len(feedback_sock)
<1>8. /\ S \in Nat /\ DOMAIN feedback_sock = 1 .. S
      /\ DOMAIN feedback_sock' = 1 .. S + 1
      /\ \A a \in 1 .. S : feedback_sock'[a] = feedback_sock[a]
      /\ feedback_sock'[S + 1] = chunk
  BY <1>5, <1>6, SocketElements, AppendProperties, LenProperties DEF SocketTypes
<1> HIDE DEF S
<1>9. \A r \in Reports :
        r \in ReportsInAll(feedback_sock) \cup ReportsIn(chunk)
          => r \in ReportsInAll(feedback_sock')
  <2>1. \A a \in 1 .. S : a \in 1 .. S + 1
    BY <1>8
  <2>2. S + 1 \in 1 .. S + 1
    BY <1>8
  <2> QED BY <1>8, <2>1, <2>2, ReportsAreWhere
<1>10. \A r \in Reports : r \in ReportsIn(w) => r \in ReportsIn(chunk) \cup ReportsIn(wires'[conn])
  BY <1>7, ReportsAreWhere
<1>11. HandedOnesArrive'
  <2> SUFFICES ASSUME NEW r \in handed
               PROVE  r \in ReportsIn(wires'[alive]) \cup ReportsInAll(feedback_sock') \cup seen
    BY <1>1 DEF HandedOnesArrive
  <2>1. r \in ReportsIn(wires[alive]) \cup ReportsInAll(feedback_sock) \cup seen /\ alive # None
    BY DEF HandedInv, HandedOnesArrive
  <2>2. alive \in Conns
    BY <2>1 DEF ConnTypes
  <2>3. ReportsIn(wires[alive]) \subseteq Reports /\ ReportsInAll(feedback_sock) \subseteq Reports
    BY DEF ReportsIn, ReportsInAll
  <2>4. CASE alive = conn
    BY <1>9, <1>10, <2>1, <2>3, <2>4 DEF w
  <2>5. CASE alive # conn
    BY <1>4, <1>9, <2>1, <2>2, <2>3, <2>5
  <2> QED BY <2>4, <2>5
<1> QED BY <1>1, <1>11 DEF HandedInv

LEMMA HandedStep ==
  ASSUME FeedbackInv, HandedInv, [Next]_vars
  PROVE  HandedInv'
<1>1. HostTypes /\ ConnTypes /\ ConnsInOrder /\ WireTypes /\ SocketTypes
  BY DEF FeedbackInv, FeedbackTypeOK, DataTypes, WireTypes, SocketTypes
<1>2. CASE SendAll
  BY <1>1, <1>2, HostHandsOver
<1>3. CASE Forward
  BY <1>1, <1>3, DeviceHandsOver
<1>4. CASE GoesDown
  BY <1>4 DEF GoesDown, HandedInv, HandedOnesArrive
<1>5. CASE Connect
  <2>1. alive = None /\ handed' = handed /\ handed = {}
    <3>1. alive # None => tcp = alive
      BY <1>1 DEF ConnsInOrder
    <3> QED BY <1>5, <3>1 DEF Connect, HandedInv
  <2> QED BY <2>1 DEF HandedInv, HandedOnesArrive
<1>6. CASE Disconnected
  <2>1. /\ UNCHANGED <<alive, handed, feedback_sock, seen>>
        /\ conn # alive /\ wires' = [wires EXCEPT ![conn] = <<>>]
    BY <1>6 DEF Disconnected, senderVars
  <2>2. alive # None => wires'[alive] = wires[alive]
    BY <1>1, <2>1 DEF ConnTypes, WireTypes
  <2> QED BY <2>1, <2>2 DEF HandedInv, HandedOnesArrive
<1>7. CASE checkFeedback
  <2>1. /\ UNCHANGED <<alive, handed, wires>>
        /\ seen' = seen \cup ReportsInAll(feedback_sock)
    BY <1>7 DEF checkFeedback, tunnelVars
  <2> QED BY <2>1 DEF HandedInv, HandedOnesArrive
<1>8. CASE sendFeedback \/ ComesUp \/ RecvFrom \/ AttemptFails \/ Accept \/ adaptPacing
           \/ UNCHANGED vars
  <2>1. UNCHANGED <<handed, wires, alive, feedback_sock, seen>>
    BY <1>8 DEF sendFeedback, ComesUp, RecvFrom, AttemptFails, Accept, adaptPacing, vars,
       tunnelVars, senderVars
  <2> QED BY <2>1, HandedUnchanged
<1> QED BY <1>2, <1>3, <1>4, <1>5, <1>6, <1>7, <1>8
        DEF Next, HostBridge, DeviceBridge, Sender

(* A report that sendall() put on a connection which is still intact is    *)
(* on it, in the sender's socket, or was read: feedback_channel() of the   *)
(* device bridge closes and accepts without losing one.                    *)
THEOREM NoReportLostOnTheWay == Spec => []HandedOnesArrive
<1>1. Init => HandedInv
  BY DEF Init, HandedInv, HandedOnesArrive
<1>2. FeedbackInv /\ HandedInv /\ [Next]_vars => HandedInv'
  BY HandedStep
<1>3. HandedInv => HandedOnesArrive
  BY DEF HandedInv
<1> QED BY <1>1, <1>2, <1>3, FeedbackSafety, PTL DEF Spec
=============================================================================
