------------------------------- MODULE Pacing -------------------------------
(***************************************************************************)
(* The reactive pacing of the sender (adaptPacing() without USE_MPC): the  *)
(* delay after each packet, moved by the loss rate of the last feedback.   *)
(* Rates are tenths of a percent, as the receiver sends them; delays are   *)
(* the code's integers, in microseconds.                                   *)
(***************************************************************************)
EXTENDS SenderDelay

CONSTANTS
  StartDelay,  (* 3000                                                     *)
  MinDelay,    (* 1000                                                     *)
  MaxDelay,    (* 100000: the cap above 15% loss                           *)
  HighCap,     (* 50000: the cap above 8%                                  *)
  MildCap,     (* 30000: the cap above 3%                                  *)
  Rates        (* the loss rates that feedback may bring                   *)

ASSUME PacingAssumption ==
  /\ StartDelay \in Nat /\ MinDelay \in Nat \ {0}
  /\ MaxDelay \in Nat /\ HighCap \in Nat /\ MildCap \in Nat
  /\ MinDelay <= StartDelay /\ StartDelay <= MildCap
  /\ MildCap <= HighCap /\ HighCap <= MaxDelay
  /\ Rates \subseteq Nat

VARIABLES last_loss_rate, feedback_received

reactiveVars == <<pacing_delay_us, last_loss_rate, feedback_received>>

ReactiveInit ==
  /\ pacing_delay_us = StartDelay
  /\ last_loss_rate = 0
  /\ feedback_received = FALSE

AtMost(cap, d)    == IF d < cap THEN d ELSE cap
AtLeast(least, d) == IF d > least THEN d ELSE least

-----------------------------------------------------------------------------
(* checkFeedback(): any number of datagrams since the last look, of which  *)
(* the last one stays. *)
checkFeedback ==
  /\ \E rate \in Rates : last_loss_rate' = rate
  /\ feedback_received' = TRUE
  /\ UNCHANGED pacing_delay_us

(* Fault: the delay is not kept from falling below its minimum. *)
UnboundedDelay(loss, d) ==
  IF loss > 150     THEN AtMost(MaxDelay, d * 3)
  ELSE IF loss > 80 THEN AtMost(HighCap, d * 2)
  ELSE IF loss > 30 THEN AtMost(MildCap, (d * 4) \div 3)
  ELSE IF loss > 5  THEN d
  ELSE (d * 9) \div 10

(* Fault: the mildest slow-down is scaled the wrong way round. *)
SwappedDelay(loss, d) ==
  IF loss > 150     THEN AtMost(MaxDelay, d * 3)
  ELSE IF loss > 80 THEN AtMost(HighCap, d * 2)
  ELSE IF loss > 30 THEN AtMost(MildCap, (d * 3) \div 4)
  ELSE IF loss > 5  THEN d
  ELSE AtLeast(MinDelay, (d * 9) \div 10)

(* Fault: the highest level has the cap of the one below. *)
PanicCappedDelay(loss, d) ==
  IF loss > 80      THEN AtMost(HighCap, IF loss > 150 THEN d * 3 ELSE d * 2)
  ELSE IF loss > 30 THEN AtMost(MildCap, (d * 4) \div 3)
  ELSE IF loss > 5  THEN d
  ELSE AtLeast(MinDelay, (d * 9) \div 10)

(* The five levels. *)
NewDelay(loss, d) ==
  IF loss > 150     THEN AtMost(MaxDelay, d * 3)
  ELSE IF loss > 80 THEN AtMost(HighCap, d * 2)
  ELSE IF loss > 30 THEN AtMost(MildCap, (d * 4) \div 3)
  ELSE IF loss > 5  THEN d
  ELSE AtLeast(MinDelay, (d * 9) \div 10)

adaptReactive ==
  /\ feedback_received
  /\ pacing_delay_us' = NewDelay(last_loss_rate, pacing_delay_us)
  /\ feedback_received' = FALSE
  /\ UNCHANGED last_loss_rate

ReactiveNext == checkFeedback \/ adaptReactive

ReactiveSpec == ReactiveInit /\ [][ReactiveNext]_reactiveVars

(* Feedback keeps coming and is acted upon. *)
ReactiveFairSpec ==
  ReactiveSpec /\ WF_reactiveVars(checkFeedback) /\ SF_reactiveVars(adaptReactive)

-----------------------------------------------------------------------------
(* The documented range of the delay, for every sequence of loss rates     *)
(* (every level has a cap of its own).                                     *)
PacingTypeOK ==
  /\ pacing_delay_us \in MinDelay .. MaxDelay
  /\ last_loss_rate \in Rates \cup {0}
  /\ feedback_received \in BOOLEAN

(* Below the lowest of the caps a lossy link never gets a faster sender.   *)
SlowsBelowCaps ==
  [][pacing_delay_us <= MildCap /\ last_loss_rate > 5
       => pacing_delay_us' >= pacing_delay_us]_reactiveVars

(* A link that has become clean, or hopeless, for good is used at full,    *)
(* or least, speed in the end: no delay in between is a fixed point of the *)
(* integer arithmetic.                                                     *)
Converges ==
  /\ <>[](last_loss_rate <= 5)  => <>[](pacing_delay_us = MinDelay)
  /\ <>[](last_loss_rate > 150) => <>[](pacing_delay_us = MaxDelay)

(* The step that Converges repeats: an adaptation on a clean (or hopeless) *)
(* link makes the delay strictly shorter (or longer) until it is at its    *)
(* limit.  A delay of 0 would be stuck there.                              *)
NeverStalls ==
  [][feedback_received /\ ~feedback_received' =>
       /\ last_loss_rate <= 5 =>
            pacing_delay_us' = MinDelay \/ pacing_delay_us' < pacing_delay_us
       /\ last_loss_rate > 150 =>
            pacing_delay_us' = MaxDelay \/ pacing_delay_us' > pacing_delay_us
    ]_reactiveVars
=============================================================================
