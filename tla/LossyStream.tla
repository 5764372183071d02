---------------------------- MODULE LossyStream ----------------------------
(***************************************************************************)
(* One sender, a UDP path and the receiver's tracker, with the ground      *)
(* truth kept beside them: every packet ever sent has an identity (its     *)
(* position in `sent`) besides the sequence number it carries.             *)
(*                                                                         *)
(* The path may lose, duplicate and reorder.  The sender process may be    *)
(* restarted: it numbers from 1 again, while the receiver keeps running.   *)
(* Every two seconds of packets the receiver reports a smoothed loss rate; *)
(* the report it sends when it ends, which may be at any time, carries     *)
(* computeLossRate as it is.                                               *)
(***************************************************************************)
EXTENDS SeqTracking, Sequences

CONSTANTS
  MaxSend,     (* bound: packets sent in a behaviour                       *)
  MaxRestarts, (* bound: sender restarts in a behaviour                    *)
  ReportSpacing (* bound: different packets from one report to the next    *)

ASSUME LossyStreamAssumption ==
  /\ {MaxSend, MaxRestarts, ReportSpacing} \subseteq Nat
  /\ SeqMod > 1   (* a new sender's 1 is a number *)

VARIABLES
  seq_num,   (* the sender's uint32_t counter                              *)
  restarts,
  sent,      (* sent[id] is the sequence number packet id carried          *)
  inflight,  (* ids on the path                                            *)
  got,       (* history: ids the receiver was handed                       *)
  reports,   (* periodic reports so far                                    *)
  smoothed_loss_rate,   (* in tenths of a percent: the last one's rate     *)
  origin,    (* history: the id handed over first, 0 if none               *)
  before     (* history: how many packets earlier sender processes sent    *)

streamVars == <<seq_num, restarts, sent, inflight, got, origin, before>>
reportVars == <<reports, smoothed_loss_rate>>
vars == <<trackVars, streamVars, reportVars>>

-----------------------------------------------------------------------------
Init ==
  /\ TrackInit
  /\ seq_num = 1
  /\ restarts = 0
  /\ sent = <<>>
  /\ inflight = {}
  /\ got = {}
  /\ origin = 0
  /\ before = 0
  /\ reports = 0
  /\ smoothed_loss_rate = 0

(* One fragment of sendPacket(): the datagram carries seq_num, which then  *)
(* moves on (mod 2^32).                                                    *)
SendFragment ==
  /\ Len(sent) < MaxSend
  /\ sent' = Append(sent, seq_num)
  /\ inflight' = inflight \cup {Len(sent) + 1}
  /\ seq_num' = (seq_num + 1) % SeqMod
  /\ UNCHANGED <<trackVars, restarts, got, origin, before, reportVars>>

(* A new sender process: seq_num(1) in the constructor. *)
RestartSender ==
  /\ restarts < MaxRestarts
  /\ restarts' = restarts + 1
  /\ seq_num' = 1
  /\ before' = Len(sent)
  /\ UNCHANGED <<trackVars, sent, inflight, got, origin, reportVars>>

(* The path: any datagram in flight may vanish ... *)
Lose(id) ==
  /\ inflight' = inflight \ {id}
  /\ UNCHANGED <<trackVars, seq_num, restarts, sent, got, origin, before, reportVars>>

(* The first packet two seconds after the last report brings the next one. *)
Report ==
  /\ Cardinality(got') >= ReportSpacing * (reports + 1)
  /\ reports' = reports + 1
  /\ smoothed_loss_rate' = (7 * smoothed_loss_rate + 3 * computeLossRate') \div 10

(* ... or arrive, out of order, and possibly again later. *)
Deliver(id) ==
  /\ updateSequenceTracking(sent[id])
  /\ got' = got \cup {id}
  /\ origin' = IF origin = 0 THEN id ELSE origin
  /\ inflight' \in {inflight, inflight \ {id}}
  /\ Report \/ UNCHANGED reportVars
  /\ UNCHANGED <<seq_num, restarts, sent, before>>

Next ==
  \/ SendFragment
  \/ RestartSender
  \/ \E id \in inflight : Lose(id) \/ Deliver(id)

Spec == Init /\ [][Next]_vars

-----------------------------------------------------------------------------
Newest == CHOOSE id \in got : \A other \in got : other <= id

(* The packets between the first one handed over and the newest one. *)
Span == origin .. Newest

(* What a perfect observer would report, with the receiver's cap. *)
TrueLoss ==
  IF Cardinality(Span) > 2
  THEN MinOf((Cardinality(Span \ got) * 1000) \div Cardinality(Span), 600)
  ELSE 0

(* One sender process, and its counter has not wrapped. *)
PlainNumbering == restarts = 0 /\ Len(sent) < SeqMod

PlainStream == PlainNumbering /\ floor = 0 /\ got # {}

LossRateIsTrue == PlainStream => computeLossRate = TrueLoss

Distance(a, b) == IF a <= b THEN b - a ELSE a - b

(* As long as one sender numbers its packets without a wrap, and no trim   *)
(* was needed, the loss rate that a final report carries is the true loss  *)
(* of the stream, and every periodic report brings what the sender is told *)
(* three tenths of the way (up to rounding) to the true loss of that time, *)
(* for every order, loss and duplication of the datagrams.                 *)
ReportsTruth ==
  [][/\ LossRateIsTrue'
     /\ PlainStream' /\ reports' # reports =>
          10 * Distance(smoothed_loss_rate', TrueLoss')
            < 7 * Distance(smoothed_loss_rate, TrueLoss') + 10]_vars

(* The tracker's head is the newest packet that arrived, so that what is   *)
(* skipped next is noticed.                                                *)
HeadIsNewest == last_seq = sent[Newest]

(* The receiver is blind to a restarted sender only until the new numbers  *)
(* pass every number the earlier process used: from the first such packet  *)
(* on (with one process: from the first packet on), the head follows the   *)
(* stream, until the counter wraps.                                        *)
HeadFollowsStream ==
  /\ Len(sent) - before < SeqMod
  /\ \E id \in got : /\ id > before
                     /\ \A old \in 1 .. before : sent[old] < sent[id]
  => HeadIsNewest
-----------------------------------------------------------------------------
(* The inductive invariant behind ReportsTruth and HeadFollowsStream,    *)
(* besides the tracker's own.                                              *)

StreamTypes ==
  /\ seq_num \in Seqs /\ restarts \in Nat
  /\ sent \in Seq(Seqs)
  /\ inflight \subseteq 1 .. Len(sent) /\ got \subseteq 1 .. Len(sent)
  /\ origin \in 0 .. Len(sent) /\ before \in 0 .. Len(sent)
  /\ smoothed_loss_rate \in Nat

(* Until its counter wraps, a sender process numbers its packets from 1 on. *)
Numbered ==
  /\ restarts = 0 => before = 0
  /\ Len(sent) - before < SeqMod =>
       \A id \in before + 1 .. Len(sent) : sent[id] = id - before
  /\ Len(sent) - before + 1 < SeqMod => seq_num = Len(sent) - before + 1

(* The tracker was given the numbers of the packets handed over, and the   *)
(* origin's first; one of the packets is the newest.                       *)
Reflected ==
  /\ received = {sent[id] : id \in got}
  /\ IF got = {} THEN ~has_first_seq /\ origin = 0
                 ELSE has_first_seq /\ origin \in got /\ first_seq = sent[origin]
  /\ got # {} => \E id \in got : \A other \in got : other <= id

StreamInv == TrackInv /\ StreamTypes /\ Numbered /\ Reflected
=============================================================================
