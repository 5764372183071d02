---------------------------- MODULE SeqTracking ----------------------------
(***************************************************************************)
(* The sequence-number tracker of FFmpegReceiver: the state that           *)
(* updateSequenceTracking() keeps to know which packets are missing, and   *)
(* the loss rate computeLossRate() derives from it.                        *)
(*                                                                         *)
(* The module takes ANY sequence number as the next input (Seqs), so loss, *)
(* reordering, duplication, a restarted sender and a wrapped counter are   *)
(* all behaviours of it.                                                   *)
(***************************************************************************)
EXTENDS Integers, FiniteSets

CONSTANTS
  SeqMod,    (* number of sequence numbers: 2^32 in the code (uint32_t)    *)
  MaxHoles,  (* hole_set is trimmed when it grows beyond this: 50000       *)
  Window     (* a trim keeps the holes of the last Window numbers: 30000   *)

ASSUME SeqTrackingAssumption ==
  /\ SeqMod   \in Nat \ {0}
  /\ Window   \in Nat
  /\ MaxHoles \in Nat
  /\ Window <= MaxHoles

VARIABLES
  has_first_seq,
  first_seq,
  last_seq,
  total_holes,
  hole_set,
  received,   (* history: the sequence numbers seen so far                 *)
  floor       (* history: where the last trim cut, 0 if there was none     *)

trackVars == <<has_first_seq, first_seq, last_seq, total_holes, hole_set,
               received, floor>>

Seqs == 0 .. SeqMod - 1

MinOf(a, b) == IF a <= b THEN a ELSE b

-----------------------------------------------------------------------------
(* resetSequenceTracking(), called by the constructor. *)
TrackInit ==
  /\ has_first_seq = FALSE
  /\ first_seq = 0
  /\ last_seq = 0
  /\ total_holes = 0
  /\ hole_set = {}
  /\ received = {}
  /\ floor = 0

(* Fault: the window is one number too short. *)
ShortWindow(last) == IF last > Window THEN last - Window + 1 ELSE 0

(* The oldest number a trim keeps: (last > 30000) ? last - 30000 : 0. *)
WindowStart(last) == IF last > Window THEN last - Window ELSE 0

(* Fault: the last skipped number is not counted. *)
SkippedButOne(seq) == last_seq + 1 .. seq - 2

(* The numbers that seq skips, i.e. the range of the `missing` loop. *)
Skipped(seq) == last_seq + 1 .. seq - 1

(* The very first packet only fixes the origin of the numbering. *)
FirstPacket(seq) ==
  /\ ~has_first_seq
  /\ has_first_seq' = TRUE
  /\ first_seq' = seq
  /\ last_seq' = seq
  /\ UNCHANGED <<total_holes, hole_set, floor>>

(* The head moves forward: what was skipped becomes a hole, and a set that *)
(* outgrew MaxHoles is cut down to the window within the same call.        *)
Ahead(seq) ==
  LET grown   == hole_set \cup Skipped(seq)
      counted == total_holes + Cardinality(Skipped(seq) \ hole_set)
      kept    == {h \in grown : h >= WindowStart(seq)}
      removed == Cardinality(grown) - Cardinality(kept)
  IN /\ has_first_seq
     /\ seq > last_seq
     /\ last_seq' = seq
     /\ UNCHANGED <<has_first_seq, first_seq>>
     /\ \/ /\ Cardinality(grown) <= MaxHoles
           /\ hole_set' = grown
           /\ total_holes' = counted
           /\ UNCHANGED floor
        \/ /\ Cardinality(grown) > MaxHoles
           /\ hole_set' = kept
           /\ total_holes' = counted - MinOf(removed, counted)
           /\ floor' = WindowStart(seq)

(* Fault: a late packet is taken to acknowledge all before it. *)
BehindClosesAll(seq) ==
  /\ has_first_seq
  /\ seq < last_seq
  /\ hole_set' = {h \in hole_set : h > seq}
  /\ total_holes' = Cardinality(hole_set')
  /\ UNCHANGED <<has_first_seq, first_seq, last_seq, floor>>

(* Fault: a late packet moves the head back. *)
BehindMovesHead(seq) ==
  /\ has_first_seq
  /\ seq < last_seq
  /\ last_seq' = seq
  /\ UNCHANGED <<hole_set, total_holes, has_first_seq, first_seq, floor>>

(* A number behind the head: it fills its hole if it has one. *)
Behind(seq) ==
  /\ has_first_seq
  /\ seq < last_seq
  /\ hole_set' = hole_set \ {seq}
  /\ total_holes' = IF seq \in hole_set /\ total_holes > 0
                    THEN total_holes - 1
                    ELSE total_holes
  /\ UNCHANGED <<has_first_seq, first_seq, last_seq, floor>>

(* this_seq == last_seq: a duplicate of the newest packet. *)
Repeat(seq) ==
  /\ has_first_seq
  /\ seq = last_seq
  /\ UNCHANGED <<has_first_seq, first_seq, last_seq, total_holes, hole_set,
                 floor>>

updateSequenceTracking(seq) ==
  /\ \/ FirstPacket(seq)
     \/ Ahead(seq)
     \/ Behind(seq)
     \/ Repeat(seq)
  /\ received' = received \cup {seq}

-----------------------------------------------------------------------------
(* Fault: the newest packet is not expected. *)
ExpectedButOne == (last_seq - first_seq) % SeqMod

(* uint32_t expected_total = last_seq - first_seq + 1. *)
ExpectedTotal == (last_seq - first_seq + 1) % SeqMod

(* computeLossRate() in tenths of a percent (the receiver reports "%.1f"), *)
(* capped at 60%.                                                          *)
computeLossRate ==
  IF has_first_seq /\ ExpectedTotal > 2
  THEN MinOf((total_holes * 1000) \div ExpectedTotal, 600)
  ELSE 0

-----------------------------------------------------------------------------
TrackNext == \E seq \in Seqs : updateSequenceTracking(seq)

TrackSpec == TrackInit /\ [][TrackNext]_trackVars

-----------------------------------------------------------------------------
TrackTypeOK ==
  /\ has_first_seq \in BOOLEAN
  /\ first_seq \in Seqs
  /\ last_seq \in Seqs
  /\ total_holes \in Nat
  /\ hole_set \in SUBSET Seqs
  /\ received \in SUBSET Seqs
  /\ floor \in Nat

(* The numbers strictly between the first and the newest that never came.  *)
Missing == (first_seq + 1 .. last_seq - 1) \ received

(* The counter that the loss rate is computed from never drifts from the   *)
(* set it summarises, whatever the mix of gaps, late packets, duplicates   *)
(* and trims (the code updates the two separately on each path).           *)
CounterMatchesSet ==
  /\ IsFiniteSet(hole_set)
  /\ total_holes = Cardinality(hole_set)

(* hole_set is exactly what is missing, as far back as the last trim: no   *)
(* received packet stays counted as lost, no missing one is forgotten.     *)
HolesExact == hole_set = {h \in Missing : h >= floor}

(* No loss within Window of the head is ever forgotten, however often the  *)
(* set was trimmed: the rate always counts the recent losses.              *)
RecentLossKept == \A h \in Missing : h >= last_seq - Window => h \in hole_set

(* A trim cuts at most Window behind the head. *)
ForgetsOnlyOld == floor <= WindowStart(last_seq)

(* hole_set is bounded between calls: the trim does bring it below its cap *)
(* (it keeps a window of NUMBERS, the cap is on their count).              *)
HolesBounded == Cardinality(hole_set) <= MaxHoles

(* Before the first packet the tracker is as reset. *)
Untouched == ~has_first_seq => /\ hole_set = {}
                               /\ received = {}
                               /\ floor = 0
                               /\ first_seq = last_seq

(* The head and the origin are received packets, in this order. *)
HeadReceived ==
  has_first_seq => /\ first_seq <= last_seq
                   /\ first_seq \in received
                   /\ last_seq \in received
                   /\ received \subseteq 0 .. last_seq

(* The inductive invariant behind the four properties above. *)
TrackInv ==
  /\ TrackTypeOK
  /\ CounterMatchesSet
  /\ HolesExact
  /\ ForgetsOnlyOld
  /\ HolesBounded
  /\ Untouched
  /\ HeadReceived

-----------------------------------------------------------------------------
Ledger == INSTANCE LossLedger WITH started <- has_first_seq, lo <- first_seq,
                                   hi <- last_seq, lost <- hole_set

(* The tracker is a ledger: holes are opened by jumps of the head, closed  *)
(* by the very packet arriving, and forgotten only behind the window.      *)
ImplementsLedger == Ledger!LedgerSpec
=============================================================================
