---------------------------- MODULE LatestReport ----------------------------
(***************************************************************************)
(* What the monitor promises its readers, whatever threads and locks it is *)
(* made of: a register that holds the newest report and is read and        *)
(* written in one step.  Every answer is the whole report that is the      *)
(* newest at that time, or a failure, and a page shows one answer after    *)
(* the other, in the order in which they come in; from an answer that is   *)
(* of no report it takes all fields but the last.                          *)
(***************************************************************************)
EXTENDS Integers, Sequences, SequencesExt

CONSTANTS Fields, Failed

VARIABLES sent, latest, replies, shown

latestReport == <<sent, latest, replies, shown>>

Report(n) == [f \in 1 .. Fields |-> n]

RegisterInit == sent = 0 /\ latest = 0 /\ replies = <<>> /\ shown = Report(0)

Send == sent' = sent + 1 /\ UNCHANGED <<latest, replies, shown>>

(* Reports may be lost, but none replaces a newer one. *)
Store == latest' \in latest + 1 .. sent /\ UNCHANGED <<sent, replies, shown>>

Reply == replies' = Append(replies, Report(latest)) /\ UNCHANGED <<sent, latest, shown>>

Fail == replies' = Append(replies, Failed) /\ UNCHANGED <<sent, latest, shown>>

(* A new process knows nothing. *)
Forget ==
  /\ latest' = 0 /\ replies' \in {replies, Append(replies, Failed)}
  /\ UNCHANGED <<sent, shown>>

Show ==
  \E i \in DOMAIN replies :
    /\ replies' = RemoveAt(replies, i)
    /\ shown' = CASE replies[i] = Failed    -> shown
                  [] replies[i] = Report(0) -> [Report(0) EXCEPT ![Fields] = shown[Fields]]
                  [] OTHER                  -> replies[i]
    /\ UNCHANGED <<sent, latest>>

RegisterNext == Send \/ Store \/ Reply \/ Fail \/ Forget \/ Show

RegisterSpec == RegisterInit /\ [][RegisterNext]_latestReport
=============================================================================
