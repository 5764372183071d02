---------------------------- MODULE MonitorProofs ----------------------------
(* What the monitor serves is always one report of the receiver: the lock  *)
(* keeps the merge and the dump apart, for any number of reports, of       *)
(* fetches and of stops.  The page mixes two only after a new start.       *)
EXTENDS Monitor, SequenceTheorems, TLAPS

(* From here on the fields are any number of them. *)
LEMMA SomeFields == Fields \in Nat \ {0}
BY DEF Fields

(* A dictionary whose fields are all of one report is a snapshot. *)
LEMMA OneReport ==
  ASSUME NEW n \in 0 .. sent, NEW stat, DOMAIN stat = 1 .. Fields,
         stat = [f \in DOMAIN stat |-> stat[f]],
         \A f \in 1 .. Fields : stat[f] = n
  PROVE  stat \in Snapshots
<1>1. stat = [f \in 1 .. Fields |-> n]
  OBVIOUS
<1> QED BY <1>1 DEF Snapshots

LEMMA ZerosAreOne ==
  ASSUME sent \in Nat PROVE Zeros \in Snapshots /\ Zeros \in Pages
BY DEF Zeros, Snapshots, Pages

(* The receiver goes on counting: nothing ceases to be a snapshot. *)
LEMMA SnapshotsGrow ==
  ASSUME sent \in Nat, sent' = sent + 1
  PROVE  /\ 0 .. sent \subseteq 0 .. sent' /\ sent' \in 0 .. sent'
         /\ Snapshots \subseteq Snapshots' /\ Pages \subseteq Pages'
<1>1. 0 .. sent \subseteq 0 .. sent' /\ sent' \in 0 .. sent'
  OBVIOUS
<1> QED BY <1>1 DEF Snapshots, Pages, Zeros, Fields

LEMMA SameSnapshots ==
  ASSUME sent' = sent PROVE Snapshots' = Snapshots /\ Pages' = Pages
BY DEF Snapshots, Pages, Zeros, Fields

(* A report with details is shown whole; one without leaves the details.   *)
LEMMA PageShows ==
  ASSUME sent \in Nat, NEW reply \in Snapshots, shown \in Pages
  PROVE  /\ reply[Fields] > 0 => reply \in Pages
         /\ ~(reply[Fields] > 0) =>
              /\ reply = Zeros
              /\ [reply EXCEPT ![Fields] = shown[Fields]] \in Pages
<1>1. PICK n \in 0 .. sent : reply = [f \in 1 .. Fields |-> n]
  BY DEF Snapshots
<1>2. reply[Fields] = n
  BY <1>1, SomeFields
<1>3. reply \in Pages
  BY DEF Pages
<1>4. shown[Fields] \in 0 .. sent
  BY SomeFields DEF Pages, Snapshots, Zeros
<1>5. ASSUME ~(reply[Fields] > 0)
      PROVE  reply = Zeros /\ [reply EXCEPT ![Fields] = shown[Fields]] \in Pages
  <2>1. reply = Zeros
    BY <1>1, <1>2, <1>5 DEF Zeros
  <2> QED BY <1>4, <2>1 DEF Pages
<1> QED BY <1>3, <1>5

(* Taking an answer out of those under way leaves the others. *)
LEMMA RemoveAtTyped ==
  ASSUME NEW S, NEW s \in Seq(S), NEW i \in 1 .. Len(s)
  PROVE  RemoveAt(s, i) \in Seq(S)
<1>1. Len(s) \in Nat /\ \A k \in 1 .. Len(s) : s[k] \in S
  BY LenProperties, ElementOfSeq
<1>2. SubSeq(s, 1, i - 1) \in Seq(S)
  <2>1. \A k \in 1 .. i - 1 : k \in 1 .. Len(s)
    BY <1>1
  <2> QED BY <1>1, <2>1, SubSeqProperties
<1>3. SubSeq(s, i + 1, Len(s)) \in Seq(S)
  <2>1. \A k \in i + 1 .. Len(s) : k \in 1 .. Len(s)
    BY <1>1
  <2> QED BY <1>1, <2>1, SubSeqProperties
<1> QED BY <1>2, <1>3, ConcatProperties DEF RemoveAt

-----------------------------------------------------------------------------
LEMMA MonitorInitInv == Init => MonitorInv
<1> SUFFICES ASSUME Init PROVE MonitorInv
  OBVIOUS
<1>1. /\ sent = 0 /\ stats = 0 /\ merged = 0 /\ socket = <<>> /\ body = <<>>
      /\ serving = FALSE /\ replies = <<>>
      /\ latest_stats = Zeros /\ shown = Zeros
  BY DEF Init
<1>2. Zeros \in [1 .. Fields -> 0 .. sent] /\ \A f \in 1 .. Fields : Zeros[f] = 0
  BY <1>1 DEF Zeros
<1>3. MonitorTypes
  <2>1. socket \in Seq(0 .. sent) /\ body \in Seq(0 .. sent)
    BY <1>1, EmptySeq
  <2>2. replies \in Seq(Snapshots \cup {Failed})
    BY <1>1, EmptySeq
  <2>3. sent \in Nat /\ 0 \in 0 .. sent /\ 0 \in 0 .. Fields - 1
    BY <1>1, SomeFields
  <2>4. shown \in Pages
    BY <1>1, <2>3, ZerosAreOne
  <2> QED BY <1>1, <1>2, <2>1, <2>2, <2>3, <2>4 DEF MonitorTypes
<1>4. Merging
  BY <1>1, <1>2, SomeFields DEF Merging
<1> QED BY <1>1, <1>3, <1>4 DEF MonitorInv, Exclusive, HasLock, Dumping

(* The parts that only the listener and the handler disturb. *)
LEMMA HandsOff ==
  ASSUME MonitorInv, UNCHANGED <<stats, merged, latest_stats, serving, body, sent>>
  PROVE  Exclusive' /\ Merging' /\ Dumping'
BY DEF MonitorInv, Exclusive, HasLock, Merging, Dumping

LEMMA SendStatsInv == ASSUME MonitorInv, sendStats PROVE MonitorInv'
<1>1. /\ MonitorTypes /\ Exclusive /\ Merging /\ Dumping
      /\ sent' = sent + 1
      /\ socket' = Append(socket, sent') \/ socket' = socket
      /\ UNCHANGED <<stats, merged, latest_stats, serving, body, replies, shown>>
  BY DEF MonitorInv, sendStats, page
<1>2. /\ 0 .. sent \subseteq 0 .. sent' /\ sent' \in 0 .. sent'
      /\ Snapshots \subseteq Snapshots' /\ Pages \subseteq Pages' /\ sent' \in Nat
  BY <1>1, SnapshotsGrow DEF MonitorTypes
<1>3. socket' \in Seq(0 .. sent') /\ body' \in Seq(0 .. sent')
  <2>1. socket \in Seq(0 .. sent') /\ body \in Seq(0 .. sent')
    BY <1>1, <1>2, SeqMonotonic DEF MonitorTypes
  <2>2. Append(socket, sent') \in Seq(0 .. sent')
    BY <1>2, <2>1, AppendProperties
  <2> QED BY <1>1, <2>1, <2>2
<1>4. replies' \in Seq(Snapshots' \cup {Failed})
  <2>1. Snapshots \cup {Failed} \subseteq Snapshots' \cup {Failed}
    BY <1>2
  <2> QED BY <1>1, <2>1, SeqMonotonic DEF MonitorTypes
<1>5. latest_stats' \in [1 .. Fields -> 0 .. sent']
  BY <1>1, <1>2 DEF MonitorTypes
<1>6. MonitorTypes'
  BY <1>1, <1>2, <1>3, <1>4, <1>5 DEF MonitorTypes, Failed, Fields
<1>7. Merging'
  BY <1>1, <1>2 DEF Merging, Fields
<1> QED BY <1>1, <1>6, <1>7 DEF MonitorInv, Exclusive, HasLock, Dumping

LEMMA ListenerInv == ASSUME MonitorInv, udp_listener PROVE MonitorInv'
<1>1. /\ MonitorTypes /\ Exclusive /\ Merging /\ Dumping
      /\ UNCHANGED <<sent, replies, shown>> /\ Snapshots' = Snapshots /\ Pages' = Pages
  BY SameSnapshots DEF MonitorInv, udp_listener, page
<1>2. CASE Receive
  <2>1. /\ stats = 0 /\ socket # <<>>
        /\ stats' = Head(socket) /\ socket' = Tail(socket)
        /\ UNCHANGED <<merged, latest_stats, serving, body>>
    BY <1>2 DEF Receive
  <2>2. stats' \in 0 .. sent /\ socket' \in Seq(0 .. sent)
    BY <1>1, <2>1, HeadTailProperties DEF MonitorTypes
  <2>3. MonitorTypes'
    BY <1>1, <2>1, <2>2 DEF MonitorTypes, Failed, Fields
  <2>4. merged = 0
    BY <1>1, <2>1, SomeFields DEF Exclusive, HasLock, MonitorTypes
  <2>5. Merging'
    BY <1>1, <2>1, <2>4 DEF Merging, Fields
  <2> QED BY <1>1, <2>1, <2>3, <2>4, <2>5
          DEF MonitorInv, Exclusive, HasLock, Dumping
<1>3. CASE MergeField
  <2>1. /\ stats # 0 /\ ~serving
        /\ latest_stats' = [latest_stats EXCEPT ![merged + 1] = stats]
        /\ IF merged + 1 = Fields THEN merged' = 0 /\ stats' = 0
           ELSE merged' = merged + 1 /\ stats' = stats
        /\ UNCHANGED <<socket, serving, body>>
    BY <1>3 DEF MergeField
  <2>2. merged \in 0 .. Fields - 1 /\ merged + 1 \in 1 .. Fields /\ stats \in 0 .. sent
    BY <1>1, SomeFields DEF MonitorTypes
  <2>3. /\ latest_stats' \in [1 .. Fields -> 0 .. sent]
        /\ \A f \in 1 .. Fields :
             latest_stats'[f] = IF f = merged + 1 THEN stats ELSE latest_stats[f]
    BY <1>1, <2>1, <2>2 DEF MonitorTypes
  <2>4. merged' \in 0 .. Fields - 1 /\ stats' \in 0 .. sent
    BY <1>1, <2>1, <2>2, SomeFields DEF MonitorTypes
  <2>5. MonitorTypes'
    BY <1>1, <2>1, <2>3, <2>4 DEF MonitorTypes, Failed, Fields
  <2>6. Merging'
    <3>1. PICK old \in 0 .. sent : \A f \in 1 .. Fields :
                latest_stats[f] = IF f <= merged THEN stats ELSE old
      BY <1>1 DEF Merging
    <3>2. \A f \in 1 .. Fields :
            latest_stats'[f] = IF f <= merged + 1 THEN stats ELSE old
      BY <2>2, <2>3, <3>1
    <3>3. CASE merged + 1 = Fields
      <4>1. \A f \in 1 .. Fields : latest_stats'[f] = stats
        BY <3>2, <3>3
      <4> QED BY <1>1, <2>1, <2>2, <3>3, <4>1 DEF Merging, Fields
    <3>4. CASE merged + 1 # Fields
      BY <1>1, <2>1, <3>2, <3>4 DEF Merging, Fields
    <3> QED BY <3>3, <3>4
  <2>7. Dumping' /\ Exclusive'
    BY <1>1, <2>1 DEF Dumping, Exclusive, HasLock
  <2> QED BY <2>5, <2>6, <2>7 DEF MonitorInv
<1> QED BY <1>2, <1>3 DEF udp_listener

LEMMA HandlerInv == ASSUME MonitorInv, do_GET PROVE MonitorInv'
<1>1. /\ MonitorTypes /\ Exclusive /\ Merging /\ Dumping
      /\ UNCHANGED <<socket, stats, merged, latest_stats, sent, shown>>
      /\ Snapshots' = Snapshots /\ Pages' = Pages
  BY SameSnapshots DEF MonitorInv, do_GET, page
<1>2. Merging'
  BY <1>1 DEF Merging
<1>3. CASE Serve
  <2>1. /\ ~serving /\ ~HasLock /\ serving' = TRUE /\ UNCHANGED <<body, replies>>
    BY <1>3 DEF Serve
  <2>2. MonitorTypes'
    BY <1>1, <2>1 DEF MonitorTypes, Failed, Fields
  <2>3. Dumping'
    BY <1>1, <2>1, SomeFields, EmptySeq DEF Dumping
  <2> QED BY <1>1, <1>2, <2>1, <2>2, <2>3 DEF MonitorInv, Exclusive, HasLock
<1>4. CASE DumpField
  <2> DEFINE more == Append(body, latest_stats[Len(body) + 1])
  <2>1. /\ serving
        /\ IF Len(more) = Fields
           THEN serving' = FALSE /\ body' = <<>> /\ replies' = Append(replies, more)
           ELSE body' = more /\ UNCHANGED <<serving, replies>>
    BY <1>4 DEF DumpField
  <2>2. /\ Len(body) \in Nat /\ Len(body) < Fields /\ body \in Seq(0 .. sent)
        /\ \A f \in 1 .. Len(body) : body[f] = latest_stats[f]
    BY <1>1, <2>1, LenProperties DEF Dumping, MonitorTypes
  <2>3. Len(body) + 1 \in 1 .. Fields
    BY <2>2, SomeFields
  <2>4. /\ more \in Seq(0 .. sent) /\ Len(more) = Len(body) + 1
        /\ \A f \in 1 .. Len(more) : more[f] = latest_stats[f]
    <3>1. latest_stats[Len(body) + 1] \in 0 .. sent
      BY <1>1, <2>3 DEF MonitorTypes
    <3>2. /\ more \in Seq(0 .. sent) /\ Len(more) = Len(body) + 1
          /\ \A f \in 1 .. Len(body) : more[f] = body[f]
          /\ more[Len(body) + 1] = latest_stats[Len(body) + 1]
      BY <2>2, <3>1, AppendProperties
    <3> HIDE DEF more
    <3>3. ASSUME NEW f \in 1 .. Len(more) PROVE more[f] = latest_stats[f]
      <4>1. f \in 1 .. Len(body) \/ f = Len(body) + 1
        BY <2>2, <3>2
      <4> QED BY <2>2, <3>2, <4>1
    <3> QED BY <3>2, <3>3
  <2> HIDE DEF more
  <2>5. ~HasLock
    BY <1>1, <2>1 DEF Exclusive
  <2>6. CASE Len(more) = Fields
    <3>1. /\ serving' = FALSE /\ body' = <<>> /\ replies' = Append(replies, more)
      BY <2>1, <2>6
    <3>2. more \in Snapshots
      <4>1. merged = 0
        BY <1>1, <2>5, SomeFields DEF HasLock, MonitorTypes
      <4>2. PICK old \in 0 .. sent : \A f \in 1 .. Fields : latest_stats[f] = old
        BY <1>1, <4>1 DEF Merging
      <4>3. DOMAIN more = 1 .. Fields /\ more = [f \in DOMAIN more |-> more[f]]
        BY <2>4, <2>6, LenProperties
      <4>4. \A f \in 1 .. Fields : more[f] = old
        BY <2>4, <2>6, <4>2
      <4> QED BY <4>2, <4>3, <4>4, OneReport
    <3>3. replies' \in Seq(Snapshots \cup {Failed})
      BY <1>1, <3>1, <3>2, AppendProperties DEF MonitorTypes
    <3>4. MonitorTypes'
      BY <1>1, <3>1, <3>3, EmptySeq DEF MonitorTypes, Failed, Fields
    <3> QED BY <1>1, <1>2, <2>5, <3>1, <3>4
            DEF MonitorInv, Exclusive, HasLock, Dumping
  <2>7. CASE Len(more) # Fields
    <3>1. body' = more /\ UNCHANGED <<serving, replies>>
      BY <2>1, <2>7
    <3>2. MonitorTypes'
      BY <1>1, <2>4, <3>1 DEF MonitorTypes, Failed, Fields
    <3>3. Dumping'
      BY <1>1, <2>1, <2>2, <2>4, <2>7, <3>1, SomeFields DEF Dumping, Fields
    <3> QED BY <1>1, <1>2, <2>5, <3>1, <3>2, <3>3 DEF MonitorInv, Exclusive, HasLock
  <2> QED BY <2>6, <2>7
<1> QED BY <1>3, <1>4 DEF do_GET

LEMMA StopInv == ASSUME MonitorInv, Stop PROVE MonitorInv'
<1>1. /\ MonitorTypes /\ UNCHANGED <<sent, shown>> /\ Snapshots' = Snapshots /\ Pages' = Pages
      /\ socket' = <<>> /\ stats' = 0 /\ merged' = 0 /\ latest_stats' = Zeros
      /\ serving' = FALSE /\ body' = <<>>
      /\ replies' = Append(replies, Failed) \/ replies' = replies
  BY SameSnapshots DEF MonitorInv, Stop, page
<1>2. replies' \in Seq(Snapshots \cup {Failed})
  <2>1. replies \in Seq(Snapshots \cup {Failed})
    BY <1>1 DEF MonitorTypes
  <2>2. Append(replies, Failed) \in Seq(Snapshots \cup {Failed})
    BY <2>1, AppendProperties
  <2> QED BY <1>1, <2>1, <2>2
<1>3. Zeros \in [1 .. Fields -> 0 .. sent] /\ \A f \in 1 .. Fields : Zeros[f] = 0
  BY <1>1 DEF Zeros, MonitorTypes
<1>4. 0 \in 0 .. sent
  BY <1>1 DEF MonitorTypes
<1>5. MonitorTypes'
  <2>1. <<>> \in Seq(0 .. sent) /\ 0 \in 0 .. Fields - 1
    BY SomeFields, EmptySeq
  <2> QED BY <1>1, <1>2, <1>3, <1>4, <2>1 DEF MonitorTypes, Failed, Fields
<1>6. Merging'
  BY <1>1, <1>3, <1>4 DEF Merging, Fields
<1> QED BY <1>1, <1>5, <1>6 DEF MonitorInv, Exclusive, HasLock, Dumping

(* The page shows an answer, or sees a connection fail. *)
LEMMA AnswerInv == ASSUME MonitorInv, Answer PROVE MonitorInv'
<1>1. /\ MonitorTypes /\ UNCHANGED <<sent, monitor>> /\ Snapshots' = Snapshots /\ Pages' = Pages
  BY SameSnapshots DEF MonitorInv, Answer
<1>2. PICK i \in DOMAIN replies :
        /\ replies' = RemoveAt(replies, i)
        /\ Loaded(replies[i]) \/ FetchFailed(replies[i])
  BY DEF Answer
<1>3. replies \in Seq(Snapshots \cup {Failed}) /\ i \in 1 .. Len(replies)
  BY <1>1, <1>2, LenProperties DEF MonitorTypes
<1>4. replies' \in Seq(Snapshots \cup {Failed})
  BY <1>2, <1>3, RemoveAtTyped
<1>5. shown' \in Pages
  <2>1. replies[i] \in Snapshots \cup {Failed} /\ sent \in Nat /\ shown \in Pages
    BY <1>1, <1>3, ElementOfSeq DEF MonitorTypes
  <2>2. CASE Loaded(replies[i])
    <3>1. replies[i] \in Snapshots
      BY <2>1, <2>2 DEF Loaded
    <3> QED BY <2>1, <2>2, <3>1, PageShows DEF Loaded
  <2> QED BY <1>2, <2>1, <2>2 DEF FetchFailed
<1>6. MonitorTypes'
  BY <1>1, <1>4, <1>5 DEF MonitorTypes, monitor, Failed, Fields
<1> QED BY <1>1, <1>6, HandsOff DEF MonitorInv, monitor

LEMMA MonitorStepInv == MonitorInv /\ [Next]_vars => MonitorInv'
<1> SUFFICES ASSUME MonitorInv, [Next]_vars PROVE MonitorInv'
  OBVIOUS
<1>1. MonitorTypes
  BY DEF MonitorInv
<1>2. CASE sendStats     BY <1>2, SendStatsInv
<1>3. CASE udp_listener  BY <1>3, ListenerInv
<1>4. CASE do_GET        BY <1>4, HandlerInv
<1>5. CASE Stop          BY <1>5, StopInv
<1>6. CASE Refused
  <2>1. /\ UNCHANGED <<sent, monitor, page>> /\ Snapshots' = Snapshots /\ Pages' = Pages
        /\ replies' = Append(replies, Failed)
    BY <1>6, SameSnapshots DEF Refused
  <2>2. replies' \in Seq(Snapshots \cup {Failed})
    BY <1>1, <2>1, AppendProperties DEF MonitorTypes
  <2>3. MonitorTypes'
    BY <1>1, <2>1, <2>2 DEF MonitorTypes, monitor, page, Failed, Fields
  <2> QED BY <2>1, <2>3, HandsOff DEF MonitorInv, monitor
<1>7. CASE Answer        BY <1>7, AnswerInv
<1>8. CASE Hold \/ Release \/ StartAgain \/ Second \/ UNCHANGED vars
  <2>1. /\ UNCHANGED <<sent, monitor, replies, shown>>
        /\ Snapshots' = Snapshots /\ Pages' = Pages
    BY <1>8, SameSnapshots DEF Hold, Release, StartAgain, Second, vars, page
  <2>2. MonitorTypes'
    BY <1>1, <2>1 DEF MonitorTypes, monitor, Failed, Fields
  <2> QED BY <2>1, <2>2, HandsOff DEF MonitorInv, monitor
<1> QED BY <1>2, <1>3, <1>4, <1>5, <1>6, <1>7, <1>8 DEF Next

LEMMA MonitorInvHolds == Spec => []MonitorInv
<1> QED BY MonitorInitInv, MonitorStepInv, PTL DEF Spec

-----------------------------------------------------------------------------
(* What is served is one report of the receiver, or none, never fields of  *)
(* two: the listener's merge and the handler's dump exclude each other,    *)
(* and a stop in the middle of either leaves no half behind.  The page     *)
(* shows such a report, or zero cards beside the details of an older one.  *)
THEOREM ServedWhole == Spec => []SnapshotWhole
<1>1. MonitorInv => SnapshotWhole
  <2> SUFFICES ASSUME MonitorInv PROVE SnapshotWhole
    OBVIOUS
  <2>1. replies \in Seq(Snapshots \cup {Failed}) /\ shown \in Pages
    BY DEF MonitorInv, MonitorTypes
  <2>2. ASSUME NEW stat \in Range(replies) PROVE stat \in Snapshots \cup {Failed}
    <3>1. PICK i \in 1 .. Len(replies) : stat = replies[i]
      BY <2>1, <2>2, LenProperties DEF Range
    <3> QED BY <2>1, <3>1, ElementOfSeq
  <2> QED BY <2>1, <2>2 DEF SnapshotWhole
<1> QED BY <1>1, MonitorInvHolds, PTL

-----------------------------------------------------------------------------
(* The register. *)

(* Nothing that waits has a field in common with what was merged before.   *)
LEMMA Numbers ==
  ASSUME MonitorTypes
  PROVE  /\ sent \in Nat /\ stats \in 0 .. sent /\ merged \in 0 .. Fields - 1
         /\ Fields \in 1 .. Fields /\ latest_stats[Fields] \in 0 .. sent
         /\ Len(socket) \in Nat
         /\ \A i \in 1 .. Len(socket) : socket[i] \in 0 .. sent
<1>1. Len(socket) \in Nat /\ \A i \in 1 .. Len(socket) : socket[i] \in 0 .. sent
  BY LenProperties, ElementOfSeq DEF MonitorTypes
<1>2. Fields \in 1 .. Fields
  BY SomeFields
<1> QED BY <1>1, <1>2 DEF MonitorTypes

LEMMA AscendingSend == ASSUME MonitorInv, Ascending, sendStats PROVE Ascending'
<1>1. /\ MonitorTypes /\ socket \in Seq(0 .. sent)
      /\ UNCHANGED <<stats, latest_stats>> /\ sent' = sent + 1
      /\ socket' = Append(socket, sent + 1) \/ socket' = socket
  BY DEF MonitorInv, MonitorTypes, sendStats
<1>2. CASE socket' = socket
  BY <1>1, <1>2 DEF Ascending, Fields
<1>3. CASE socket' = Append(socket, sent + 1)
  <2>1. /\ sent + 1 \in Int /\ socket \in Seq(Int)
    <3>1. sent \in Nat /\ 0 .. sent \subseteq Int
      BY <1>1, Numbers
    <3> QED BY <1>1, <3>1, SeqMonotonic
  <2>2. /\ Len(socket') = Len(socket) + 1
        /\ \A i \in 1 .. Len(socket) : socket'[i] = socket[i]
        /\ socket'[Len(socket) + 1] = sent + 1
    BY <1>3, <2>1, AppendProperties
  <2>3. ASSUME NEW i \in 1 .. Len(socket')
        PROVE  /\ socket'[i] > stats /\ socket'[i] > latest_stats[Fields]
               /\ \A j \in 1 .. i - 1 : socket'[i] > socket'[j]
    <3>1. CASE i = Len(socket) + 1
      <4>1. \A j \in 1 .. i - 1 : j \in 1 .. Len(socket)
        BY <1>1, <3>1, Numbers
      <4>2. socket'[i] = sent + 1 /\ sent \in Nat
        BY <1>1, <2>2, <3>1, Numbers
      <4>3. stats < sent + 1 /\ latest_stats[Fields] < sent + 1
        BY <1>1, Numbers
      <4>4. ASSUME NEW j \in 1 .. i - 1 PROVE socket'[j] < sent + 1
        <5>1. socket'[j] = socket[j] /\ socket[j] \in 0 .. sent
          BY <1>1, <2>2, <4>1, Numbers
        <5> QED BY <4>2, <5>1
      <4>5. \A j \in 1 .. i - 1 : socket'[j] \in Int
        BY <1>1, <2>2, <4>1, Numbers
      <4> QED BY <1>1, <4>2, <4>3, <4>4, <4>5, Numbers
    <3>2. CASE i # Len(socket) + 1
      <4>1. i \in 1 .. Len(socket) /\ \A j \in 1 .. i - 1 : j \in 1 .. Len(socket)
        BY <1>1, <2>2, <3>2, Numbers
      <4> QED BY <2>2, <4>1 DEF Ascending
    <3> QED BY <3>1, <3>2
  <2> QED BY <1>1, <2>3 DEF Ascending, Fields
<1> QED BY <1>1, <1>2, <1>3

LEMMA AscendingReceive ==
  ASSUME MonitorInv, Ascending, Receive PROVE Ascending'
<1>1. /\ MonitorTypes /\ socket \in Seq(0 .. sent) /\ socket # <<>>
      /\ stats' = Head(socket) /\ socket' = Tail(socket)
      /\ UNCHANGED latest_stats
  BY DEF MonitorInv, MonitorTypes, Receive
<1>2. /\ Len(socket') = Len(socket) - 1 /\ Len(socket) \in Nat \ {0}
      /\ \A i \in 1 .. Len(socket') : socket'[i] = socket[i + 1]
      /\ stats' = socket[1]
  BY <1>1, HeadTailProperties, EmptySeq
<1>3. ASSUME NEW i \in 1 .. Len(socket')
      PROVE  /\ socket'[i] > stats' /\ socket'[i] > latest_stats[Fields]
             /\ \A j \in 1 .. i - 1 : socket'[i] > socket'[j]
  <2>1. /\ i + 1 \in 1 .. Len(socket) /\ socket'[i] = socket[i + 1]
        /\ 1 \in 1 .. (i + 1) - 1
    BY <1>2
  <2>2. ASSUME NEW j \in 1 .. i - 1 PROVE socket'[i] > socket'[j]
    <3>1. j \in 1 .. Len(socket') /\ j + 1 \in 1 .. (i + 1) - 1
      BY <1>2
    <3> QED BY <1>2, <2>1, <3>1 DEF Ascending
  <2> QED BY <1>2, <2>1, <2>2 DEF Ascending
<1>4. stats' > latest_stats[Fields]
  <2>1. 1 \in 1 .. Len(socket)
    BY <1>2
  <2> QED BY <1>2, <2>1 DEF Ascending
<1> QED BY <1>1, <1>3, <1>4 DEF Ascending, Fields

LEMMA MergeSteps ==
  ASSUME MonitorInv, MergeField
  PROVE  IF merged + 1 = Fields
         THEN stats' = 0 /\ latest_stats'[Fields] = stats
         ELSE stats' = stats /\ latest_stats'[Fields] = latest_stats[Fields]
<1>1. /\ latest_stats \in [1 .. Fields -> 0 .. sent] /\ merged \in 0 .. Fields - 1
      /\ Fields \in 1 .. Fields
      /\ latest_stats' = [latest_stats EXCEPT ![merged + 1] = stats]
      /\ IF merged + 1 = Fields THEN stats' = 0 ELSE stats' = stats
  BY Numbers DEF MonitorInv, MonitorTypes, MergeField
<1> QED BY <1>1

LEMMA AscendingMerge ==
  ASSUME MonitorInv, Ascending, MergeField PROVE Ascending'
<1>1. MonitorTypes /\ stats # 0 /\ socket' = socket
  BY DEF MonitorInv, MergeField
<1>2. \A i \in 1 .. Len(socket) : socket[i] > 0
  BY <1>1, Numbers DEF Ascending
<1> QED BY <1>1, <1>2, MergeSteps DEF Ascending, Fields

LEMMA AscendingStep ==
  MonitorInv /\ Ascending /\ [Next]_vars => Ascending'
<1> SUFFICES ASSUME MonitorInv, Ascending, [Next]_vars PROVE Ascending'
  OBVIOUS
<1>1. CASE sendStats   BY <1>1, AscendingSend
<1>2. CASE Receive     BY <1>2, AscendingReceive
<1>3. CASE MergeField  BY <1>3, AscendingMerge
<1>4. CASE Stop
  <2>1. stats' = 0 /\ socket' = <<>>
    BY <1>4 DEF Stop
  <2> QED BY <2>1 DEF Ascending
<1>5. CASE do_GET \/ Hold \/ Release \/ StartAgain \/ Refused \/ Answer \/ Second \/ UNCHANGED vars
  <2>1. UNCHANGED <<stats, socket, latest_stats>>
    BY <1>5 DEF do_GET, Hold, Release, StartAgain, Refused, Answer, Second, vars, monitor
  <2> QED BY <2>1 DEF Ascending
<1> QED BY <1>1, <1>2, <1>3, <1>4, <1>5 DEF Next, udp_listener

(* The dump that is complete is of the report that the register holds. *)
LEMMA DumpIsReport ==
  ASSUME MonitorInv, DumpField, replies' # replies
  PROVE  replies' = Append(replies, Register!Report(latest_stats[Fields]))
<1> DEFINE more == Append(body, latest_stats[Len(body) + 1])
<1>1. /\ MonitorTypes /\ Exclusive /\ Merging /\ Dumping /\ serving
      /\ Len(more) = Fields /\ replies' = Append(replies, more)
  BY DEF MonitorInv, DumpField
<1>2. /\ Len(body) \in Nat /\ body \in Seq(0 .. sent)
      /\ Len(body) < Fields /\ \A f \in 1 .. Len(body) : body[f] = latest_stats[f]
      /\ latest_stats \in [1 .. Fields -> 0 .. sent]
  BY <1>1, LenProperties DEF MonitorTypes, Dumping
<1>3. latest_stats[Len(body) + 1] \in 0 .. sent
  BY <1>2, SomeFields
<1>4. /\ more \in Seq(0 .. sent) /\ Len(more) = Len(body) + 1
      /\ \A f \in 1 .. Len(body) : more[f] = body[f]
      /\ more[Len(body) + 1] = latest_stats[Len(body) + 1]
  BY <1>2, <1>3, AppendProperties
<1> HIDE DEF more
<1>5. \A f \in 1 .. Fields : more[f] = latest_stats[f]
  <2> TAKE f \in 1 .. Fields
  <2>1. f \in 1 .. Len(body) \/ f = Len(body) + 1
    BY <1>1, <1>2, <1>4
  <2> QED BY <1>2, <1>4, <2>1
<1>6. \A f \in 1 .. Fields : latest_stats[f] = latest_stats[Fields]
  <2>1. merged = 0 /\ Fields \in 1 .. Fields
    BY <1>1, Numbers DEF Exclusive, HasLock
  <2> QED BY <1>1, <2>1 DEF Merging
<1>7. DOMAIN more = 1 .. Fields /\ more = [f \in DOMAIN more |-> more[f]]
  BY <1>1, <1>4, LenProperties
<1>8. more = [f \in 1 .. Fields |-> latest_stats[Fields]]
  BY <1>5, <1>6, <1>7
<1> QED BY <1>1, <1>8 DEF Register!Report

(* What the register does at each step of the monitor. *)
LEMMA RegisterSteps ==
  /\ (sent' = sent + 1 /\ UNCHANGED <<latest_stats, replies, shown>>)
       => Register!Send
  /\ (latest_stats'[Fields] \in latest_stats[Fields] + 1 .. sent
      /\ UNCHANGED <<sent, replies, shown>>)
       => Register!Store
  /\ (replies' = Append(replies, Register!Report(latest_stats[Fields]))
      /\ UNCHANGED <<sent, latest_stats, shown>>)
       => Register!Reply
  /\ (replies' = Append(replies, Failed) /\ UNCHANGED <<sent, latest_stats, shown>>)
       => Register!Fail
  /\ (latest_stats'[Fields] = 0 /\ UNCHANGED <<sent, shown>>
      /\ (replies' = replies \/ replies' = Append(replies, Failed)))
       => Register!Forget
  /\ (latest_stats'[Fields] = latest_stats[Fields] /\ UNCHANGED <<sent, replies, shown>>)
       => UNCHANGED Register!latestReport
<1>1. (sent' = sent + 1 /\ UNCHANGED <<latest_stats, replies, shown>>)
        => Register!Send
  BY DEF Register!Send, Fields
<1>2. (latest_stats'[Fields] \in latest_stats[Fields] + 1 .. sent
        /\ UNCHANGED <<sent, replies, shown>>)
        => Register!Store
  BY DEF Register!Store, Fields
<1>3. (replies' = Append(replies, Register!Report(latest_stats[Fields]))
        /\ UNCHANGED <<sent, latest_stats, shown>>)
        => Register!Reply
  BY DEF Register!Reply, Fields
<1>4. (replies' = Append(replies, Failed) /\ UNCHANGED <<sent, latest_stats, shown>>)
        => Register!Fail
  BY DEF Register!Fail, Fields
<1>5. (latest_stats'[Fields] = 0 /\ UNCHANGED <<sent, shown>>
        /\ (replies' = replies \/ replies' = Append(replies, Failed)))
        => Register!Forget
  BY DEF Register!Forget, Fields
<1>6. (latest_stats'[Fields] = latest_stats[Fields] /\ UNCHANGED <<sent, replies, shown>>)
        => UNCHANGED Register!latestReport
  BY DEF Register!latestReport, Fields
<1> QED BY <1>1, <1>2, <1>3, <1>4, <1>5, <1>6

LEMMA RegisterStep ==
  MonitorInv /\ Ascending /\ [Next]_vars
    => [Register!RegisterNext]_(Register!latestReport)
<1> SUFFICES ASSUME MonitorInv, Ascending, [Next]_vars
             PROVE  Register!RegisterNext \/ UNCHANGED Register!latestReport
  OBVIOUS
<1>1. MonitorTypes
  BY DEF MonitorInv
<1>2. CASE sendStats
  <2>1. sent' = sent + 1 /\ UNCHANGED <<latest_stats, replies, shown>>
    BY <1>2 DEF sendStats, page
  <2> QED BY <2>1, RegisterSteps DEF Register!RegisterNext
<1>3. CASE udp_listener
  <2>1. UNCHANGED <<sent, replies, shown>>
    BY <1>3 DEF udp_listener, page
  <2>2. CASE Receive
    BY <2>1, <2>2, RegisterSteps DEF Receive
  <2>3. CASE MergeField
    <3>1. CASE merged + 1 = Fields
      <4>1. latest_stats'[Fields] = stats /\ stats > latest_stats[Fields]
        BY <2>3, <3>1, MergeSteps DEF MergeField, Ascending
      <4>2. latest_stats'[Fields] \in latest_stats[Fields] + 1 .. sent
        BY <1>1, <4>1, Numbers
      <4> QED BY <2>1, <4>2, RegisterSteps DEF Register!RegisterNext
    <3>2. CASE merged + 1 # Fields
      BY <2>1, <2>3, <3>2, MergeSteps, RegisterSteps
    <3> QED BY <3>1, <3>2
  <2> QED BY <1>3, <2>2, <2>3 DEF udp_listener
<1>4. CASE do_GET
  <2>1. UNCHANGED <<sent, latest_stats, shown>>
    BY <1>4 DEF do_GET, page
  <2>2. CASE replies' = replies
    BY <2>1, <2>2, RegisterSteps
  <2>3. CASE replies' # replies
    <3>1. DumpField
      BY <1>4, <2>3 DEF do_GET, Serve
    <3> QED BY <2>1, <2>3, <3>1, DumpIsReport, RegisterSteps
            DEF Register!RegisterNext
  <2> QED BY <2>2, <2>3
<1>5. CASE Stop
  <2>1. /\ UNCHANGED <<sent, shown>> /\ latest_stats' = Zeros
        /\ replies' = replies \/ replies' = Append(replies, Failed)
    BY <1>5 DEF Stop, page
  <2>2. latest_stats'[Fields] = 0
    BY <1>1, <2>1, Numbers DEF Zeros
  <2> QED BY <2>1, <2>2, RegisterSteps DEF Register!RegisterNext
<1>6. CASE Refused
  <2>1. UNCHANGED <<sent, latest_stats, shown>> /\ replies' = Append(replies, Failed)
    BY <1>6 DEF Refused, monitor, page
  <2> QED BY <2>1, RegisterSteps DEF Register!RegisterNext
<1>7. CASE Answer
  <2>1. PICK i \in DOMAIN replies :
          /\ replies' = RemoveAt(replies, i)
          /\ Loaded(replies[i]) \/ FetchFailed(replies[i])
          /\ UNCHANGED <<sent, latest_stats>>
    BY <1>7 DEF Answer, monitor
  <2>2. shown' = CASE replies[i] = Failed -> shown
                   [] replies[i] = Register!Report(0) ->
                        [Register!Report(0) EXCEPT ![Fields] = shown[Fields]]
                   [] OTHER -> replies[i]
    <3>1. /\ replies[i] \in Snapshots \cup {Failed}
          /\ sent \in Nat /\ shown \in Pages
      BY <1>1, <2>1, LenProperties, ElementOfSeq DEF MonitorTypes
    <3>2. Failed # Register!Report(0) /\ Zeros = Register!Report(0)
      BY SomeFields DEF Failed, Register!Report, Zeros
    <3>3. Zeros[Fields] = 0
      BY SomeFields DEF Zeros
    <3>4. CASE replies[i] = Failed
      BY <2>1, <3>2, <3>4 DEF Loaded, FetchFailed
    <3>5. CASE replies[i] \in Snapshots /\ replies[i] # Failed
      <4>1. shown' = IF replies[i][Fields] > 0 THEN replies[i]
                     ELSE [replies[i] EXCEPT ![Fields] = shown[Fields]]
        BY <2>1, <3>5 DEF Loaded, FetchFailed
      <4>2. ~(replies[i][Fields] > 0) => replies[i] = Zeros
        BY <3>1, <3>5, PageShows
      <4>3. replies[i] = Zeros => ~(replies[i][Fields] > 0)
        <5>1. replies[i] = Zeros => replies[i][Fields] = Zeros[Fields]
          OBVIOUS
        <5>2. replies[i] = Zeros => replies[i][Fields] = 0
          BY <3>3, <5>1, Zenon
        <5> QED BY <5>2
      <4> QED BY <3>2, <3>5, <4>1, <4>2, <4>3
    <3> QED BY <3>1, <3>4, <3>5
  <2>3. Register!Show
    BY <2>1, <2>2 DEF Register!Show, Register!RemoveAt, RemoveAt, Fields
  <2> QED BY <2>3 DEF Register!RegisterNext
<1>8. CASE Hold \/ Release \/ StartAgain \/ Second \/ UNCHANGED vars
  <2>1. UNCHANGED <<sent, latest_stats, replies, shown>>
    BY <1>8 DEF Hold, Release, StartAgain, Second, vars, monitor, page
  <2> QED BY <2>1, RegisterSteps
<1> QED BY <1>2, <1>3, <1>4, <1>5, <1>6, <1>7, <1>8 DEF Next

(* Seen from the page the dictionary is one register: an answer is the     *)
(* newest report that has been merged by then, or a failure, and no merge  *)
(* replaces a newer report with an older one.                              *)
THEOREM MonitorIsARegister == Spec => ImplementsRegister
<1>1. Init => Ascending /\ Register!RegisterInit
  <2> SUFFICES ASSUME Init PROVE Ascending /\ Register!RegisterInit
    OBVIOUS
  <2>1. /\ sent = 0 /\ stats = 0 /\ socket = <<>> /\ replies = <<>>
        /\ latest_stats = Zeros /\ shown = Zeros
    BY DEF Init
  <2>2. latest_stats[Fields] = 0 /\ Zeros = Register!Report(0)
    BY <2>1, SomeFields DEF Zeros, Register!Report
  <2>3. Register!RegisterInit
    BY <2>1, <2>2 DEF Register!RegisterInit
  <2> QED BY <2>1, <2>3 DEF Ascending
<1> QED BY <1>1, MonitorInvHolds, AscendingStep, RegisterStep, PTL
        DEF Spec, ImplementsRegister, Register!RegisterSpec
=============================================================================
