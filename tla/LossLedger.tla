----------------------------- MODULE LossLedger -----------------------------
(***************************************************************************)
(* What a loss tracker promises, without saying how: it keeps the range of *)
(* numbers seen, and the ledger `lost` of the numbers in it believed lost. *)
(*   - a number enters the ledger only when the head jumps over it;        *)
(*   - it leaves only by arriving, or by falling more than Window behind;  *)
(*   - nothing else changes the ledger.                                    *)
(***************************************************************************)
EXTENDS Integers

CONSTANTS SeqMod, Window

VARIABLES started, lo, hi, lost

ledger == <<started, lo, hi, lost>>

LedgerInit == started = FALSE /\ lo = 0 /\ hi = 0 /\ lost = {}

Start(s) ==
  /\ ~started
  /\ started' = TRUE
  /\ lo' = s
  /\ hi' = s
  /\ lost' = lost

(* Forgetting is allowed only here, and only behind the window. *)
Advance(s) ==
  /\ started
  /\ s > hi
  /\ hi' = s
  /\ \E cut \in 0 .. s :
       /\ cut = 0 \/ cut <= s - Window
       /\ lost' = {h \in lost \cup (hi + 1 .. s - 1) : h >= cut}
  /\ UNCHANGED <<started, lo>>

Recover(s) ==
  /\ started
  /\ s \in lost
  /\ lost' = lost \ {s}
  /\ UNCHANGED <<started, lo, hi>>

LedgerNext == \E s \in 0 .. SeqMod - 1 : Start(s) \/ Advance(s) \/ Recover(s)

LedgerSpec == LedgerInit /\ [][LedgerNext]_ledger
=============================================================================
