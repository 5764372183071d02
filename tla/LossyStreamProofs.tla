------------------------- MODULE LossyStreamProofs -------------------------
(***************************************************************************)
(* For every number space, cap and window: TrackInv is an inductive        *)
(* invariant of the tracker, so its counter, its set and its window stay   *)
(* right under every sequence of packets, and it implements LossLedger.    *)
(* Fed by a sender over a path that loses, repeats and reorders, the       *)
(* tracker's loss rate is the true loss, every report approaches it, and   *)
(* the tracker's head follows the stream.                                  *)
(***************************************************************************)
EXTENDS LossyStream, FiniteSetTheorems, SequenceTheorems, TLAPS

(* Cardinality of a finite set grown by another finite set. *)
LEMMA CardinalityOfGrown ==
  ASSUME NEW S, IsFiniteSet(S), NEW T, IsFiniteSet(T)
  PROVE  /\ IsFiniteSet(S \cup T)
         /\ Cardinality(S \cup T) = Cardinality(S) + Cardinality(T \ S)
<1>1. IsFiniteSet(T \ S)
  <2>1. T \ S \in SUBSET T
    OBVIOUS
  <2> QED BY <2>1, FS_Subset
<1>2. S \cup T = S \cup (T \ S)
  OBVIOUS
<1>3. S \cap (T \ S) = {}
  OBVIOUS
<1>4. /\ IsFiniteSet(S \cup (T \ S))
      /\ Cardinality(S \cup (T \ S)) =
           Cardinality(S) + Cardinality(T \ S) - Cardinality({})
  BY <1>1, <1>3, FS_Union
<1>5. Cardinality(S) \in Nat /\ Cardinality(T \ S) \in Nat
  BY <1>1, FS_CardinalityType
<1>6. Cardinality(S \cup (T \ S)) = Cardinality(S) + Cardinality(T \ S)
  BY <1>4, <1>5, FS_EmptySet
<1> QED BY <1>2, <1>4, <1>6

(* Any set of sequence numbers within an integer interval is bounded by    *)
(* the interval's length.                                                  *)
LEMMA CardinalityWithin ==
  ASSUME NEW a \in Int, NEW b \in Int, NEW S \in SUBSET (a .. b)
  PROVE  /\ IsFiniteSet(S)
         /\ Cardinality(S) <= IF a > b THEN 0 ELSE b - a + 1
<1>1. IsFiniteSet(a .. b) /\ Cardinality(a .. b) = IF a > b THEN 0 ELSE b - a + 1
  BY FS_Interval
<1> QED BY <1>1, FS_Subset

(* The window start is a number at most Window behind the head. *)
LEMMA WindowStartBounds ==
  ASSUME NEW last \in Nat
  PROVE  /\ WindowStart(last) \in 0 .. last
         /\ last - WindowStart(last) <= Window
         /\ \A later \in Nat : last <= later =>
                                 WindowStart(last) <= WindowStart(later)
BY SeqTrackingAssumption DEF WindowStart

-----------------------------------------------------------------------------
(* The reset tracker satisfies the invariant. *)
LEMMA TrackInitInv == TrackInit => TrackInv
<1> SUFFICES ASSUME TrackInit PROVE TrackInv
  OBVIOUS
<1> USE SeqTrackingAssumption DEF TrackInit
<1>1. TrackTypeOK
  <2>1. 0 \in Seqs
    BY DEF SeqTrackingAssumption, Seqs
  <2> QED BY <2>1 DEF TrackTypeOK
<1>2. CounterMatchesSet /\ HolesBounded
  BY FS_EmptySet DEF CounterMatchesSet, HolesBounded
<1>3. HolesExact
  BY DEF HolesExact, Missing
<1>4. ForgetsOnlyOld
  BY DEF ForgetsOnlyOld, WindowStart
<1>5. Untouched /\ HeadReceived
  BY DEF Untouched, HeadReceived
<1> QED BY <1>1, <1>2, <1>3, <1>4, <1>5 DEF TrackInv

(* The very first packet opens an empty ledger. *)
LEMMA FirstPacketInv ==
  ASSUME TrackInv, NEW seq \in Seqs, FirstPacket(seq),
         received' = received \cup {seq}
  PROVE  TrackInv'
<1> USE SeqTrackingAssumption DEF FirstPacket, TrackInv, TrackTypeOK, Seqs
<1>1. TrackTypeOK'
  OBVIOUS
<1>2. CounterMatchesSet' /\ HolesBounded'
  BY DEF CounterMatchesSet, HolesBounded
<1>3. HolesExact'
  BY DEF Untouched, HolesExact, Missing
<1>4. ForgetsOnlyOld'
  BY DEF Untouched, ForgetsOnlyOld, WindowStart
<1>5. Untouched' /\ HeadReceived'
  BY DEF Untouched, HeadReceived
<1> QED BY <1>1, <1>2, <1>3, <1>4, <1>5 DEF TrackInv

(* A jump of the head opens holes, and a trim keeps set and counter in     *)
(* step and below the cap.                                                 *)
LEMMA AheadInv ==
  ASSUME TrackInv, NEW seq \in Seqs, Ahead(seq),
         received' = received \cup {seq}
  PROVE  TrackInv'
<1> DEFINE grown   == hole_set \cup Skipped(seq)
           counted == total_holes + Cardinality(Skipped(seq) \ hole_set)
           kept    == {h \in grown : h >= WindowStart(seq)}
           removed == Cardinality(grown) - Cardinality(kept)
<1>1. /\ has_first_seq /\ has_first_seq' = has_first_seq
      /\ first_seq' = first_seq
      /\ last_seq' = seq
      /\ seq > last_seq
  BY DEF Ahead
<1>2. /\ seq \in Nat /\ first_seq \in Nat /\ last_seq \in Nat /\ floor \in Nat
      /\ seq < SeqMod
      /\ total_holes \in Nat /\ hole_set \in SUBSET Seqs
      /\ received \in SUBSET Seqs
  BY SeqTrackingAssumption DEF TrackInv, TrackTypeOK, Seqs
<1>3. Skipped(seq) \in SUBSET Seqs /\ IsFiniteSet(Skipped(seq))
  <2>1. IsFiniteSet(Skipped(seq))
    BY <1>2, FS_Interval DEF Skipped
  <2> QED BY <1>2, <2>1, SeqTrackingAssumption DEF Skipped, Seqs
<1>4. IsFiniteSet(hole_set) /\ total_holes = Cardinality(hole_set)
  BY DEF TrackInv, CounterMatchesSet
<1>5. IsFiniteSet(grown) /\ Cardinality(grown) = counted
  BY <1>3, <1>4, CardinalityOfGrown
<1>6. Cardinality(grown) \in Nat
  BY <1>5, FS_CardinalityType
<1>7. /\ WindowStart(seq) \in Nat /\ seq - WindowStart(seq) <= Window
      /\ WindowStart(last_seq) <= WindowStart(seq)
      /\ WindowStart(last_seq) <= last_seq
  BY <1>1, <1>2, WindowStartBounds
<1>8. floor <= WindowStart(seq) /\ floor <= last_seq /\ floor <= WindowStart(last_seq)
  <2>1. floor <= WindowStart(last_seq)
    BY DEF TrackInv, ForgetsOnlyOld
  <2>2. WindowStart(last_seq) \in Nat
    BY <1>2, WindowStartBounds
  <2> QED BY <1>2, <1>7, <2>1, <2>2
<1>9. /\ IsFiniteSet(kept) /\ Cardinality(kept) \in Nat
      /\ Cardinality(kept) <= Cardinality(grown)
  <2>1. kept \in SUBSET grown
    OBVIOUS
  <2> HIDE DEF kept, grown
  <2> QED BY <1>5, <2>1, FS_Subset, FS_CardinalityType
<1>10. grown = {h \in (first_seq + 1 .. seq - 1) \ (received \cup {seq}) : h >= floor}
  <2>1. hole_set = {h \in (first_seq + 1 .. last_seq - 1) \ received : h >= floor}
    BY DEF TrackInv, HolesExact, Missing
  <2>2. /\ first_seq <= last_seq /\ last_seq \in received
        /\ received \subseteq 0 .. last_seq
    BY <1>1 DEF TrackInv, HeadReceived
  <2> QED BY <1>1, <1>2, <1>8, <2>1, <2>2 DEF Skipped
<1>11. CASE /\ Cardinality(grown) <= MaxHoles
            /\ hole_set' = grown
            /\ total_holes' = counted
            /\ UNCHANGED floor
  <2>1. TrackTypeOK'
    BY <1>1, <1>2, <1>3, <1>5, <1>6, <1>11 DEF TrackTypeOK, TrackInv, Seqs
  <2>2. CounterMatchesSet' /\ HolesBounded'
    BY <1>5, <1>11 DEF CounterMatchesSet, HolesBounded
  <2>3. HolesExact'
    BY <1>1, <1>10, <1>11 DEF HolesExact, Missing
  <2>4. ForgetsOnlyOld'
    BY <1>1, <1>8, <1>11 DEF ForgetsOnlyOld, WindowStart
  <2>5. Untouched' /\ HeadReceived'
    BY <1>1, <1>2 DEF Untouched, HeadReceived, TrackInv
  <2> QED BY <2>1, <2>2, <2>3, <2>4, <2>5 DEF TrackInv
<1>12. CASE /\ Cardinality(grown) > MaxHoles
            /\ hole_set' = kept
            /\ total_holes' = counted - MinOf(removed, counted)
            /\ floor' = WindowStart(seq)
  <2>1. total_holes' = Cardinality(kept)
    <3> HIDE DEF grown, kept
    <3> QED BY <1>5, <1>6, <1>9, <1>12 DEF MinOf
  <2>2. TrackTypeOK'
    BY <1>1, <1>2, <1>3, <1>7, <1>9, <1>12, <2>1 DEF TrackTypeOK, TrackInv, Seqs
  <2>3. CounterMatchesSet'
    BY <1>9, <1>12, <2>1 DEF CounterMatchesSet
  <2>4. HolesBounded'
    <3>1. kept \in SUBSET (WindowStart(seq) .. seq - 1)
      BY <1>2, <1>7, <1>10
    <3>2. Cardinality(kept) <= IF WindowStart(seq) > seq - 1 THEN 0
                               ELSE seq - 1 - WindowStart(seq) + 1
      <4> HIDE DEF kept
      <4> QED BY <1>2, <1>7, <3>1, CardinalityWithin
    <3> QED BY <1>2, <1>7, <1>9, <1>12, <3>2, SeqTrackingAssumption DEF HolesBounded
  <2>5. HolesExact'
    BY <1>1, <1>2, <1>7, <1>8, <1>10, <1>12 DEF HolesExact, Missing
  <2>6. ForgetsOnlyOld'
    BY <1>1, <1>7, <1>12 DEF ForgetsOnlyOld, WindowStart
  <2>7. Untouched' /\ HeadReceived'
    BY <1>1, <1>2 DEF Untouched, HeadReceived, TrackInv
  <2> QED BY <2>2, <2>3, <2>4, <2>5, <2>6, <2>7 DEF TrackInv
<1> QED BY <1>11, <1>12 DEF Ahead

(* A late packet closes exactly its own hole. *)
LEMMA BehindInv ==
  ASSUME TrackInv, NEW seq \in Seqs, Behind(seq),
         received' = received \cup {seq}
  PROVE  TrackInv'
<1>1. /\ has_first_seq /\ has_first_seq' = has_first_seq
      /\ first_seq' = first_seq /\ last_seq' = last_seq /\ floor' = floor
      /\ hole_set' = hole_set \ {seq}
      /\ seq < last_seq
  BY DEF Behind
<1>2. /\ seq \in Nat /\ first_seq \in Nat /\ last_seq \in Nat
      /\ total_holes \in Nat /\ hole_set \in SUBSET Seqs
  BY SeqTrackingAssumption DEF TrackInv, TrackTypeOK, Seqs
<1>3. IsFiniteSet(hole_set) /\ total_holes = Cardinality(hole_set)
  BY DEF TrackInv, CounterMatchesSet
<1>4. /\ IsFiniteSet(hole_set \ {seq})
      /\ Cardinality(hole_set \ {seq}) =
           IF seq \in hole_set THEN total_holes - 1 ELSE total_holes
  BY <1>3, FS_RemoveElement
<1>5. Cardinality(hole_set \ {seq}) \in Nat
  BY <1>4, FS_CardinalityType
<1>6. total_holes' = Cardinality(hole_set')
  <2>1. seq \in hole_set => total_holes > 0
    BY <1>2, <1>4, <1>5
  <2> QED BY <1>1, <1>4, <2>1 DEF Behind
<1>7. TrackTypeOK'
  BY <1>1, <1>2, <1>5, <1>6 DEF TrackTypeOK, TrackInv
<1>8. CounterMatchesSet'
  BY <1>1, <1>4, <1>6 DEF CounterMatchesSet
<1>9. HolesBounded'
  BY <1>1, <1>2, <1>3, <1>4, SeqTrackingAssumption DEF HolesBounded, TrackInv
<1>10. HolesExact'
  BY <1>1 DEF HolesExact, Missing, TrackInv
<1>11. ForgetsOnlyOld'
  BY <1>1 DEF ForgetsOnlyOld, WindowStart, TrackInv
<1>12. Untouched' /\ HeadReceived'
  BY <1>1, <1>2 DEF Untouched, HeadReceived, TrackInv
<1> QED BY <1>7, <1>8, <1>9, <1>10, <1>11, <1>12 DEF TrackInv

(* A duplicate of the newest packet changes nothing. *)
LEMMA RepeatInv ==
  ASSUME TrackInv, NEW seq \in Seqs, Repeat(seq),
         received' = received \cup {seq}
  PROVE  TrackInv'
<1>1. received' = received
  BY DEF Repeat, TrackInv, HeadReceived
<1> QED BY <1>1 DEF Repeat, TrackInv, TrackTypeOK, CounterMatchesSet, HolesExact,
             Missing, ForgetsOnlyOld, WindowStart, HolesBounded, Untouched,
             HeadReceived

LEMMA TrackStepInv == TrackInv /\ [TrackNext]_trackVars => TrackInv'
<1> SUFFICES ASSUME TrackInv, [TrackNext]_trackVars
             PROVE  TrackInv'
  OBVIOUS
<1>1. CASE UNCHANGED trackVars
  BY <1>1 DEF trackVars, TrackInv, TrackTypeOK, CounterMatchesSet, HolesExact,
     Missing, ForgetsOnlyOld, WindowStart, HolesBounded, Untouched, HeadReceived
<1>2. ASSUME NEW seq \in Seqs, updateSequenceTracking(seq)
      PROVE  TrackInv'
  BY <1>2, FirstPacketInv, AheadInv, BehindInv, RepeatInv
     DEF updateSequenceTracking
<1> QED BY <1>1, <1>2 DEF TrackNext

(* The tracker's counter, its hole set and its window are right under      *)
(* every sequence of packets.                                              *)
THEOREM TrackSafety == TrackSpec => []TrackInv
BY TrackInitInv, TrackStepInv, PTL DEF TrackSpec

(* total_holes, which computeLossRate() divides, is always the size of     *)
(* hole_set, the set updateSequenceTracking() maintains beside it.         *)
THEOREM CounterNeverDrifts == TrackSpec => []CounterMatchesSet
<1>1. TrackInv => CounterMatchesSet
  BY DEF TrackInv
<1> QED BY <1>1, TrackSafety, PTL

(* hole_set holds exactly the numbers missing since the last trim.         *)
THEOREM HolesAreExact == TrackSpec => []HolesExact
<1>1. TrackInv => HolesExact
  BY DEF TrackInv
<1> QED BY <1>1, TrackSafety, PTL

(* A loss within Window of the head is never forgotten: a trim cuts at or  *)
(* before the start of the window, and the window only moves on.           *)
THEOREM RecentLossIsKept == TrackSpec => []RecentLossKept
<1>1. TrackInv => RecentLossKept
  <2> SUFFICES ASSUME TrackInv, NEW h \in Missing, h >= last_seq - Window
               PROVE  h \in hole_set
    BY DEF RecentLossKept
  <2>1. /\ first_seq \in Nat /\ last_seq \in Nat /\ floor \in Nat
        /\ floor <= WindowStart(last_seq)
    BY SeqTrackingAssumption DEF TrackInv, TrackTypeOK, Seqs, ForgetsOnlyOld
  <2>2. h \in Nat
    BY <2>1 DEF Missing
  <2>3. h >= WindowStart(last_seq)
    BY <2>1, <2>2, SeqTrackingAssumption DEF WindowStart
  <2>4. WindowStart(last_seq) \in Nat
    BY <2>1, WindowStartBounds
  <2>5. h >= floor
    BY <2>1, <2>2, <2>3, <2>4
  <2> QED BY <2>5 DEF TrackInv, HolesExact
<1> QED BY <1>1, TrackSafety, PTL

(* The trim in updateSequenceTracking() keeps hole_set within its cap.     *)
THEOREM HolesStayBounded == TrackSpec => []HolesBounded
<1>1. TrackInv => HolesBounded
  BY DEF TrackInv
<1> QED BY <1>1, TrackSafety, PTL

-----------------------------------------------------------------------------
(* A step of the tracker is a step of the ledger: a jump opens holes, an   *)
(* arrival closes one, a trim forgets behind the window.                   *)
LEMMA TrackStepImplementsLedger ==
  ASSUME TrackInv, NEW seq \in Seqs, updateSequenceTracking(seq)
  PROVE  [Ledger!LedgerNext]_(Ledger!ledger)
<1>1. /\ seq \in Nat /\ last_seq \in Nat
      /\ hole_set \in SUBSET Nat
      /\ seq \in 0 .. SeqMod - 1
  BY SeqTrackingAssumption DEF TrackInv, TrackTypeOK, Seqs
<1>2. CASE FirstPacket(seq)
  <2>1. Ledger!Start(seq)
    BY <1>2 DEF FirstPacket, Ledger!Start
  <2> QED BY <1>1, <2>1 DEF Ledger!LedgerNext
<1>3. CASE Ahead(seq)
  <2> DEFINE grown == hole_set \cup (last_seq + 1 .. seq - 1)
  <2>1. /\ has_first_seq /\ seq > last_seq /\ last_seq' = seq
        /\ UNCHANGED <<has_first_seq, first_seq>>
    BY <1>3 DEF Ahead
  <2>2. hole_set' = grown \/ hole_set' = {h \in grown : h >= WindowStart(seq)}
    BY <1>3 DEF Ahead, Skipped
  <2>3. \E cut \in 0 .. seq : /\ cut = 0 \/ cut <= seq - Window
                             /\ hole_set' = {h \in grown : h >= cut}
    <3>1. CASE hole_set' = grown
      <4>1. \A h \in grown : h >= 0
        BY <1>1
      <4>2. grown = {h \in grown : h >= 0}
        BY <4>1
      <4>3. 0 \in 0 .. seq
        BY <1>1
      <4> HIDE DEF grown
      <4> QED BY <3>1, <4>2, <4>3
    <3>2. CASE hole_set' = {h \in grown : h >= WindowStart(seq)}
      <4>1. WindowStart(seq) \in 0 .. seq
        BY <1>1, WindowStartBounds
      <4>2. WindowStart(seq) = 0 \/ WindowStart(seq) <= seq - Window
        BY <1>1, SeqTrackingAssumption DEF WindowStart
      <4> QED BY <3>2, <4>1, <4>2
    <3> QED BY <2>2, <3>1, <3>2
  <2>4. Ledger!Advance(seq)
    BY <2>1, <2>3 DEF Ledger!Advance
  <2> QED BY <1>1, <2>4 DEF Ledger!LedgerNext
<1>4. CASE Behind(seq)
  <2>1. CASE seq \in hole_set
    <3>1. Ledger!Recover(seq)
      BY <1>4, <2>1 DEF Behind, Ledger!Recover
    <3> QED BY <1>1, <3>1 DEF Ledger!LedgerNext
  <2>2. CASE seq \notin hole_set
    BY <1>4, <2>2 DEF Behind, Ledger!ledger
  <2> QED BY <2>1, <2>2
<1>5. CASE Repeat(seq)
  BY <1>5 DEF Repeat, Ledger!ledger
<1> QED BY <1>2, <1>3, <1>4, <1>5 DEF updateSequenceTracking

(* The tracker implements the ledger: no packet is written off unless the  *)
(* head jumped over it, or comes off the list unless it arrived or fell    *)
(* behind the window.                                                      *)
THEOREM TrackerIsALedger == TrackSpec => ImplementsLedger
<1>1. TrackInit => Ledger!LedgerInit
  BY DEF TrackInit, Ledger!LedgerInit
<1>2. TrackInv /\ [TrackNext]_trackVars => [Ledger!LedgerNext]_(Ledger!ledger)
  <2>1. CASE UNCHANGED trackVars
    BY <2>1 DEF trackVars, Ledger!ledger
  <2>2. TrackInv /\ TrackNext => [Ledger!LedgerNext]_(Ledger!ledger)
    BY TrackStepImplementsLedger DEF TrackNext
  <2> QED BY <2>1, <2>2
<1> QED BY <1>1, <1>2, TrackSafety, PTL
       DEF TrackSpec, ImplementsLedger, Ledger!LedgerSpec

-----------------------------------------------------------------------------
(* The stream: what the tracker is fed, and what it then reports.          *)

LEMMA RateTyped ==
  \A holes \in Nat, expected \in Int :
    expected > 2 => MinOf((holes * 1000) \div expected, 600) \in Nat
<1> SUFFICES ASSUME NEW holes \in Nat, NEW expected \in Int, expected > 2
             PROVE  MinOf((holes * 1000) \div expected, 600) \in Nat
  OBVIOUS
<1>1. (holes * 1000) \div expected \in Nat
  OBVIOUS
<1> QED BY <1>1 DEF MinOf

(* One step of the smoothing goes three tenths of the way, rounded.        *)
LEMMA Smoothing ==
  ASSUME NEW old \in Nat, NEW raw \in Nat
  PROVE  /\ (7 * old + 3 * raw) \div 10 \in Nat
         /\ 10 * Distance((7 * old + 3 * raw) \div 10, raw) < 7 * Distance(old, raw) + 10
<1> DEFINE new == (7 * old + 3 * raw) \div 10
<1>1. new \in Nat /\ 10 * new <= 7 * old + 3 * raw /\ 7 * old + 3 * raw < 10 * new + 10
  OBVIOUS
<1> HIDE DEF new
<1>2. 10 * Distance(new, raw) < 7 * Distance(old, raw) + 10
  BY <1>1 DEF Distance
<1> QED BY <1>1, <1>2 DEF new

LEMMA SmallRemainder ==
  ASSUME NEW x \in Nat, x < SeqMod PROVE x % SeqMod = x
BY SeqTrackingAssumption

LEMMA NextNumber == \A x \in Seqs : (x + 1) % SeqMod \in Seqs
BY SeqTrackingAssumption DEF Seqs

LEMMA SentTyped ==
  ASSUME StreamTypes
  PROVE  /\ Len(sent) \in Nat /\ DOMAIN sent = 1 .. Len(sent)
         /\ \A id \in 1 .. Len(sent) : sent[id] \in Seqs
         /\ before \in Nat /\ before <= Len(sent)
BY LenProperties, ElementOfSeq DEF StreamTypes

LEMMA StreamInitInv == Init => StreamInv
<1> SUFFICES ASSUME Init PROVE StreamInv
  OBVIOUS
<1> USE SeqTrackingAssumption, LossyStreamAssumption DEF Init
<1>1. TrackInv
  BY TrackInitInv
<1>2. <<>> \in Seq(Seqs) /\ Len(<<>>) = 0
  BY EmptySeq
<1>3. StreamTypes
  BY <1>2 DEF StreamTypes, Seqs
<1>4. Numbered
  BY <1>2 DEF Numbered
<1>5. Reflected
  BY DEF TrackInit, Reflected
<1> QED BY <1>1, <1>3, <1>4, <1>5 DEF StreamInv

(* What the tracker sees is what it saw, when only the path changes.       *)
LEMMA ReflectedStays ==
  ASSUME Reflected, got \subseteq 1 .. Len(sent),
         UNCHANGED <<received, has_first_seq, first_seq, got, origin>>,
         \A id \in 1 .. Len(sent) : sent'[id] = sent[id]
  PROVE  Reflected'
<1>1. {sent'[id] : id \in got} = {sent[id] : id \in got}
  OBVIOUS
<1> QED BY <1>1 DEF Reflected

LEMMA SendFragmentInv ==
  ASSUME StreamInv, SendFragment PROVE StreamInv'
<1> USE SeqTrackingAssumption
<1>1. /\ StreamTypes /\ Numbered /\ Reflected
      /\ UNCHANGED <<trackVars, restarts, got, origin, before, smoothed_loss_rate>>
      /\ sent' = Append(sent, seq_num) /\ seq_num' = (seq_num + 1) % SeqMod
      /\ inflight' = inflight \cup {Len(sent) + 1}
  BY DEF StreamInv, SendFragment, reportVars
<1>2. TrackInv'
  BY <1>1, TrackStepInv DEF StreamInv
<1> DEFINE L == Len(sent)
<1>3. /\ L \in Nat /\ sent' \in Seq(Seqs) /\ Len(sent') = L + 1
      /\ \A id \in 1 .. L : sent'[id] = sent[id]
      /\ sent'[L + 1] = seq_num
      /\ before \in Nat /\ before <= L
  BY <1>1, SentTyped, AppendProperties DEF StreamTypes
<1>4. StreamTypes'
  <2>1. \A n \in 0 .. L : n \in 0 .. L + 1 /\ (n # 0 => n \in 1 .. L + 1)
    BY <1>3
  <2>2. inflight' \subseteq 1 .. L + 1 /\ got' \subseteq 1 .. L + 1
    <3>1. /\ inflight \subseteq 1 .. L /\ got \subseteq 1 .. L
          /\ got' = got /\ inflight' = inflight \cup {L + 1}
      BY <1>1 DEF StreamTypes
    <3> HIDE DEF L
    <3>2. L + 1 \in 1 .. L + 1 /\ \A n \in 1 .. L : n \in 1 .. L + 1
      BY <1>3
    <3> QED BY <3>1, <3>2
  <2>3. origin' \in 0 .. L + 1 /\ before' \in 0 .. L + 1
    BY <1>1, <2>1 DEF StreamTypes
  <2>4. seq_num' \in Seqs /\ restarts' \in Nat
    BY <1>1, NextNumber DEF StreamTypes
  <2>5. smoothed_loss_rate' \in Nat
    BY <1>1 DEF StreamTypes
  <2> QED BY <1>3, <2>2, <2>3, <2>4, <2>5 DEF StreamTypes
<1>5. ASSUME L + 1 - before < SeqMod
      PROVE  /\ seq_num = L - before + 1
             /\ \A id \in before + 1 .. L + 1 : sent'[id] = id - before
  <2>1. seq_num = L - before + 1
    BY <1>1, <1>3, <1>5 DEF Numbered
  <2>2. \A id \in before + 1 .. L : sent[id] = id - before
    BY <1>1, <1>3, <1>5 DEF Numbered
  <2>3. ASSUME NEW id \in before + 1 .. L + 1 PROVE sent'[id] = id - before
    <3>1. CASE id = L + 1
      BY <1>3, <2>1, <3>1
    <3>2. CASE id # L + 1
      <4>1. id \in 1 .. L /\ id \in before + 1 .. L
        BY <1>3, <3>2
      <4> QED BY <1>3, <2>2, <4>1
    <3> QED BY <3>1, <3>2
  <2> QED BY <2>1, <2>3
<1>6. ASSUME L + 1 - before + 1 < SeqMod
      PROVE  seq_num' = L + 1 - before + 1
  <2>1. seq_num = L - before + 1
    BY <1>3, <1>5, <1>6
  <2>2. seq_num + 1 \in Nat /\ seq_num + 1 < SeqMod
    BY <1>3, <1>6, <2>1
  <2>3. (seq_num + 1) % SeqMod = seq_num + 1
    BY <2>2, SmallRemainder
  <2> QED BY <1>1, <1>3, <2>1, <2>3
<1>7. Numbered'
  BY <1>1, <1>3, <1>5, <1>6 DEF Numbered
<1>8. Reflected'
  BY <1>1, <1>3, ReflectedStays DEF trackVars, StreamTypes
<1> QED BY <1>2, <1>4, <1>7, <1>8 DEF StreamInv

LEMMA RestartSenderInv ==
  ASSUME StreamInv, RestartSender PROVE StreamInv'
<1> USE SeqTrackingAssumption, LossyStreamAssumption
<1>1. /\ StreamTypes /\ Numbered /\ Reflected
      /\ UNCHANGED <<trackVars, sent, inflight, got, origin, smoothed_loss_rate>>
      /\ seq_num' = 1 /\ before' = Len(sent) /\ restarts' = restarts + 1
  BY DEF StreamInv, RestartSender, reportVars
<1>2. TrackInv'
  BY <1>1, TrackStepInv DEF StreamInv
<1>3. Len(sent) \in Nat /\ restarts \in Nat
  BY <1>1, SentTyped DEF StreamTypes
<1>4. StreamTypes'
  BY <1>1, <1>3 DEF StreamTypes, Seqs
<1>5. Numbered'
  BY <1>1, <1>3 DEF Numbered
<1>6. Reflected'
  BY <1>1, ReflectedStays DEF trackVars, StreamTypes
<1> QED BY <1>2, <1>4, <1>5, <1>6 DEF StreamInv

LEMMA DeliverInv ==
  ASSUME StreamInv, NEW id \in inflight, Deliver(id) PROVE StreamInv'
<1>1. /\ StreamTypes /\ Numbered /\ Reflected
      /\ UNCHANGED <<seq_num, restarts, sent, before>>
      /\ updateSequenceTracking(sent[id])
      /\ got' = got \cup {id} /\ origin' = IF origin = 0 THEN id ELSE origin
      /\ inflight' \in {inflight, inflight \ {id}}
  BY DEF StreamInv, Deliver
<1>2. Len(sent) \in Nat /\ id \in 1 .. Len(sent) /\ sent[id] \in Seqs
  BY <1>1, SentTyped DEF StreamTypes
<1>3. TrackInv'
  BY <1>1, <1>2, TrackStepInv DEF StreamInv, TrackNext
<1>4. StreamTypes'
  <2>1. smoothed_loss_rate' \in Nat
    <3>1. smoothed_loss_rate \in Nat
      BY <1>1 DEF StreamTypes
    <3>2. CASE Report
      <4>1. computeLossRate' \in Nat
        <5>1. /\ total_holes' \in Nat /\ first_seq' \in Int /\ last_seq' \in Int
          BY <1>3, SeqTrackingAssumption DEF TrackInv, TrackTypeOK, Seqs
        <5>2. ExpectedTotal' \in Int
          BY <5>1, SeqTrackingAssumption DEF ExpectedTotal
        <5> QED BY <5>1, <5>2, RateTyped DEF computeLossRate
      <4> QED BY <3>1, <3>2, <4>1, Smoothing DEF Report
    <3>3. CASE UNCHANGED reportVars
      BY <3>1, <3>3 DEF reportVars
    <3> QED BY <3>2, <3>3 DEF Deliver
  <2> QED BY <1>1, <1>2, <2>1 DEF StreamTypes
<1>5. Numbered'
  BY <1>1 DEF Numbered
<1>6. /\ received' = received \cup {sent[id]} /\ has_first_seq'
      /\ first_seq' = IF has_first_seq THEN first_seq ELSE sent[id]
  BY <1>1 DEF updateSequenceTracking, FirstPacket, Ahead, Behind, Repeat
<1>7. received' = {sent'[n] : n \in got'}
  BY <1>1, <1>6 DEF Reflected
<1>8. origin' \in got' /\ first_seq' = sent'[origin']
  <2>1. CASE got = {}
    BY <1>1, <1>6, <2>1 DEF Reflected
  <2>2. CASE got # {}
    <3>1. has_first_seq /\ origin \in got /\ first_seq = sent[origin] /\ origin # 0
      BY <1>1, <2>2 DEF Reflected, StreamTypes
    <3> QED BY <1>1, <1>6, <3>1
  <2> QED BY <2>1, <2>2
<1>9. \E top \in got' : \A other \in got' : other <= top
  <2>1. CASE got = {}
    BY <1>1, <1>2, <2>1
  <2>2. CASE got # {}
    <3>1. PICK top \in got : \A other \in got : other <= top
      BY <1>1, <2>2 DEF Reflected
    <3>2. \A other \in got : other \in Nat
      BY <1>1, <1>2 DEF StreamTypes
    <3>3. CASE id <= top
      BY <1>1, <3>1, <3>3
    <3>4. CASE ~(id <= top)
      BY <1>1, <1>2, <3>1, <3>2, <3>4
    <3> QED BY <3>3, <3>4
  <2> QED BY <2>1, <2>2
<1>10. Reflected'
  BY <1>1, <1>6, <1>7, <1>8, <1>9 DEF Reflected
<1> QED BY <1>3, <1>4, <1>5, <1>10 DEF StreamInv

LEMMA StreamStepInv == StreamInv /\ [Next]_vars => StreamInv'
<1> SUFFICES ASSUME StreamInv, [Next]_vars PROVE StreamInv'
  OBVIOUS
<1>1. ASSUME NEW id \in inflight, Lose(id) PROVE StreamInv'
  <2>1. /\ StreamTypes /\ Numbered /\ Reflected
        /\ UNCHANGED <<trackVars, seq_num, restarts, sent, got, origin, before>>
        /\ inflight' = inflight \ {id} /\ smoothed_loss_rate' = smoothed_loss_rate
    BY <1>1 DEF StreamInv, Lose, reportVars
  <2>2. TrackInv'
    BY <2>1, TrackStepInv DEF StreamInv
  <2>3. StreamTypes' /\ Numbered'
    BY <2>1 DEF StreamTypes, Numbered
  <2>4. Reflected'
    BY <2>1, ReflectedStays DEF trackVars, StreamTypes
  <2> QED BY <2>2, <2>3, <2>4 DEF StreamInv
<1>2. CASE UNCHANGED vars
  <2>1. /\ StreamTypes /\ Numbered /\ Reflected
        /\ UNCHANGED <<trackVars, seq_num, restarts, sent, inflight, got, origin, before>>
        /\ smoothed_loss_rate' = smoothed_loss_rate
    BY <1>2 DEF StreamInv, vars, streamVars, reportVars
  <2>2. TrackInv'
    BY <2>1, TrackStepInv DEF StreamInv
  <2>3. StreamTypes' /\ Numbered'
    BY <2>1 DEF StreamTypes, Numbered
  <2>4. Reflected'
    BY <2>1, ReflectedStays DEF trackVars, StreamTypes
  <2> QED BY <2>2, <2>3, <2>4 DEF StreamInv
<1> QED BY <1>1, <1>2, SendFragmentInv, RestartSenderInv, DeliverInv DEF Next

(* The inductive invariant of the sender, the path and the tracker.        *)
THEOREM StreamSafety == Spec => []StreamInv
BY StreamInitInv, StreamStepInv, PTL DEF Spec

(* The receiver feeds updateSequenceTracking() with numbers of the stream  *)
(* only: all that is proved of the tracker holds in the stream.            *)
THEOREM StreamDrivesTracker == Spec => TrackSpec
<1>1. Init => TrackInit
  BY DEF Init
<1>2. StreamInv /\ [Next]_vars => [TrackNext]_trackVars
  <2> SUFFICES ASSUME StreamInv, [Next]_vars PROVE [TrackNext]_trackVars
    OBVIOUS
  <2>1. ASSUME NEW id \in inflight, Deliver(id) PROVE TrackNext
    <3>1. sent[id] \in Seqs
      BY SentTyped DEF StreamInv, StreamTypes
    <3> QED BY <2>1, <3>1 DEF Deliver, TrackNext
  <2>2. CASE SendFragment \/ RestartSender \/ UNCHANGED vars
    BY <2>2 DEF SendFragment, RestartSender, vars
  <2>3. ASSUME NEW id \in inflight, Lose(id) PROVE UNCHANGED trackVars
    BY <2>3 DEF Lose
  <2> QED BY <2>1, <2>2, <2>3 DEF Next
<1> QED BY <1>1, <1>2, StreamSafety, PTL DEF Spec, TrackSpec

(* Newest is the newest packet handed over. *)
LEMMA NewestIs ==
  ASSUME StreamInv, got # {}
  PROVE  Newest \in got /\ \A other \in got : other <= Newest
<1>1. \E id \in got : \A other \in got : other <= id
  BY DEF StreamInv, Reflected
<1> QED BY <1>1 DEF Newest

(* The head is the greatest number among those handed over. *)
LEMMA HeadIsGreatest ==
  ASSUME StreamInv, NEW id \in got, \A other \in got : sent[other] <= sent[id]
  PROVE  last_seq = sent[id]
<1>1. /\ received = {sent[n] : n \in got} /\ has_first_seq
      /\ last_seq \in received /\ received \subseteq 0 .. last_seq
  BY DEF StreamInv, Reflected, TrackInv, HeadReceived
<1>2. last_seq \in Nat /\ sent[id] \in Nat
  BY <1>1, SeqTrackingAssumption DEF StreamInv, TrackInv, TrackTypeOK, Seqs
<1>3. last_seq <= sent[id]
  BY <1>1
<1>4. sent[id] <= last_seq
  BY <1>1
<1> QED BY <1>2, <1>3, <1>4

(* Once a packet of the present sender process has passed all numbers of   *)
(* the earlier one, the tracker's head is the newest packet that arrived.  *)
THEOREM HeadFollows == Spec => []HeadFollowsStream
<1>1. StreamInv => HeadFollowsStream
  <2> SUFFICES ASSUME StreamInv, Len(sent) - before < SeqMod,
                      NEW id \in got, id > before,
                      \A old \in 1 .. before : sent[old] < sent[id]
               PROVE  last_seq = sent[Newest]
    BY DEF HeadFollowsStream, HeadIsNewest
  <2>1. /\ Len(sent) \in Nat /\ before \in Nat /\ got \subseteq 1 .. Len(sent)
        /\ \A n \in 1 .. Len(sent) : sent[n] \in Nat
        /\ \A n \in before + 1 .. Len(sent) : sent[n] = n - before
    <3>1. StreamTypes /\ Numbered
      BY DEF StreamInv
    <3>2. Len(sent) \in Nat /\ \A n \in 1 .. Len(sent) : sent[n] \in Seqs
      BY <3>1, SentTyped
    <3>3. Seqs \subseteq Nat
      BY SeqTrackingAssumption DEF Seqs
    <3>4. before \in Nat /\ got \subseteq 1 .. Len(sent)
      BY <3>1, <3>2 DEF StreamTypes
    <3>5. \A n \in before + 1 .. Len(sent) : sent[n] = n - before
      BY <3>1 DEF Numbered
    <3> QED BY <3>2, <3>3, <3>4, <3>5
  <2>2. Newest \in got /\ \A other \in got : other <= Newest
    BY NewestIs
  <2>3. /\ id \in before + 1 .. Len(sent) /\ Newest \in before + 1 .. Len(sent)
        /\ id <= Newest
    BY <2>1, <2>2
  <2>4. sent[id] <= sent[Newest] /\ sent[Newest] = Newest - before
    BY <2>1, <2>3
  <2>5. ASSUME NEW other \in got PROVE sent[other] <= sent[Newest]
    <3>1. other \in Nat /\ other \in 1 .. Len(sent) /\ other <= Newest
      BY <2>1, <2>2
    <3>2. CASE other > before
      <4>1. other \in before + 1 .. Len(sent)
        BY <2>1, <3>1, <3>2
      <4>2. sent[other] = other - before
        BY <2>1, <4>1
      <4>3. Newest \in Nat
        BY <2>1, <2>3
      <4> QED BY <2>1, <2>4, <3>1, <4>2, <4>3
    <3>3. CASE other <= before
      <4>1. sent[other] < sent[id]
        BY <2>1, <3>1, <3>3
      <4>2. id \in 1 .. Len(sent) /\ Newest \in 1 .. Len(sent)
        BY <2>1, <2>2
      <4> QED BY <2>1, <2>4, <3>1, <4>1, <4>2
    <3> QED BY <2>1, <3>1, <3>2, <3>3
  <2> QED BY <2>2, <2>5, HeadIsGreatest
<1> QED BY <1>1, StreamSafety, PTL

(* With one sender process, no wrap and no trim, what computeLossRate()    *)
(* returns is the true loss between the first and the newest packet.       *)
LEMMA RawRateIsTrue ==
  ASSUME StreamInv, restarts = 0, Len(sent) < SeqMod, floor = 0, got # {}
  PROVE  computeLossRate = TrueLoss /\ TrueLoss \in Nat
<1>1. /\ Len(sent) \in Nat /\ before = 0 /\ got \subseteq 1 .. Len(sent)
      /\ SeqMod \in Nat
      /\ \A id \in 1 .. Len(sent) : sent[id] = id
  BY SentTyped, SeqTrackingAssumption DEF StreamInv, StreamTypes, Numbered
<1>2. Newest \in got /\ \A other \in got : other <= Newest
  BY NewestIs
<1>3. received = got /\ has_first_seq /\ first_seq = origin /\ origin \in got
  <2>1. /\ received = {sent[id] : id \in got} /\ has_first_seq
        /\ origin \in got /\ first_seq = sent[origin]
    BY DEF StreamInv, Reflected
  <2>2. {sent[id] : id \in got} = got
    BY <1>1
  <2> QED BY <1>1, <2>1, <2>2
<1>4. last_seq = Newest
  <2>1. \A other \in got : sent[other] <= sent[Newest]
    BY <1>1, <1>2
  <2>2. last_seq = sent[Newest]
    BY <1>2, <2>1, HeadIsGreatest
  <2> QED BY <1>1, <1>2, <2>2
<1>5. origin \in Nat /\ Newest \in Nat /\ origin <= Newest /\ 0 < origin /\ Newest < SeqMod
  BY <1>1, <1>2, <1>3
<1>6. hole_set = Span \ got /\ total_holes = Cardinality(hole_set)
  <2>1. hole_set = {h \in (origin + 1 .. Newest - 1) \ got : h >= 0}
    BY <1>3, <1>4 DEF StreamInv, TrackInv, HolesExact, Missing
  <2>2. (origin + 1 .. Newest - 1) \ got = (origin .. Newest) \ got
    BY <1>2, <1>3, <1>5
  <2>3. \A h \in (origin .. Newest) \ got : h >= 0
    BY <1>5
  <2> QED BY <2>1, <2>2, <2>3 DEF Span, StreamInv, TrackInv, CounterMatchesSet
<1>7. Cardinality(Span) = Newest - origin + 1
  BY <1>5, FS_Interval DEF Span
<1>8. ExpectedTotal = Newest - origin + 1
  <2>1. Newest - origin + 1 \in Nat /\ Newest - origin + 1 < SeqMod
    BY <1>1, <1>5
  <2> QED BY <1>3, <1>4, <2>1, SmallRemainder DEF ExpectedTotal
<1>9. computeLossRate = TrueLoss
  BY <1>3, <1>6, <1>7, <1>8 DEF computeLossRate, TrueLoss
<1>10. computeLossRate \in Nat
  <2>1. total_holes \in Nat /\ Newest - origin + 1 \in Int
    BY <1>5 DEF StreamInv, TrackInv, TrackTypeOK
  <2>2. Newest - origin + 1 > 2 =>
          MinOf((total_holes * 1000) \div (Newest - origin + 1), 600) \in Nat
    BY <2>1, RateTyped
  <2> QED BY <1>8, <2>2 DEF computeLossRate
<1> QED BY <1>9, <1>10

(* The rate that the final report carries is the true loss, and every      *)
(* periodic report brings the smoothed rate nearer to the true loss of its *)
(* time, under any loss, repetition and order of the datagrams.            *)
THEOREM LossRateIsTheTruth == Spec => ReportsTruth
<1> DEFINE Raw == PlainStream => computeLossRate = TrueLoss /\ TrueLoss \in Nat
<1>1. StreamInv => Raw
  BY RawRateIsTrue DEF PlainStream, PlainNumbering
<1>2. ASSUME StreamInv, Raw', [Next]_vars,
             PlainStream', reports' # reports
      PROVE  10 * Distance(smoothed_loss_rate', TrueLoss')
               < 7 * Distance(smoothed_loss_rate, TrueLoss') + 10
  <2>1. Report
    BY <1>2 DEF Next, SendFragment, RestartSender, Lose, Deliver, vars, reportVars
  <2>2. smoothed_loss_rate \in Nat
    BY <1>2 DEF StreamInv, StreamTypes
  <2>3. computeLossRate' = TrueLoss' /\ TrueLoss' \in Nat
    BY <1>2
  <2>4. smoothed_loss_rate' = (7 * smoothed_loss_rate + 3 * TrueLoss') \div 10
    BY <2>1, <2>3 DEF Report
  <2> QED BY <2>2, <2>3, <2>4, Smoothing
<1>3. StreamInv /\ Raw' /\ [Next]_vars =>
        [/\ LossRateIsTrue'
         /\ PlainStream' /\ reports' # reports =>
              10 * Distance(smoothed_loss_rate', TrueLoss')
                < 7 * Distance(smoothed_loss_rate, TrueLoss') + 10]_vars
  BY <1>2 DEF LossRateIsTrue
<1> HIDE DEF Raw
<1> QED BY <1>1, <1>3, StreamSafety, PTL DEF Spec, ReportsTruth
=============================================================================
