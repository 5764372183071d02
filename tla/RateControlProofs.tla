------------------------- MODULE RateControlProofs -------------------------
(* The two forms of adaptPacing().  The reactive one: the delay stays in   *)
(* its documented range, and reacts the right way around below the caps,   *)
(* for every value of the constants.  The controller: for all reports      *)
(* whatsoever its values keep to their limits, short of a burst its        *)
(* bitrate only falls, five times at most, and a link that is clean and    *)
(* wide enough is not throttled.                                           *)
EXTENDS Pacing, MpcControl, TLAPS

(* One adaptation keeps the delay in range, whatever the loss: each level  *)
(* moves it towards its own cap, and no cap is outside the range.          *)
LEMMA NewDelayInRange ==
  ASSUME NEW loss \in Nat, NEW d \in MinDelay .. MaxDelay
  PROVE  NewDelay(loss, d) \in MinDelay .. MaxDelay
<1> USE PacingAssumption DEF AtMost, AtLeast
<1>0. /\ MinDelay \in Nat /\ MaxDelay \in Nat /\ HighCap \in Nat /\ MildCap \in Nat
      /\ MinDelay <= MildCap /\ MildCap <= HighCap /\ HighCap <= MaxDelay
  OBVIOUS
<1>1. CASE loss > 150
  BY <1>0, <1>1 DEF NewDelay
<1>2. CASE loss <= 150 /\ loss > 80
  BY <1>0, <1>2 DEF NewDelay
<1>3. CASE loss <= 80 /\ loss > 30
  BY <1>0, <1>3 DEF NewDelay
<1>4. CASE loss <= 30 /\ loss > 5
  BY <1>0, <1>4 DEF NewDelay
<1>5. CASE loss <= 5
  BY <1>0, <1>5 DEF NewDelay
<1> QED
  BY <1>1, <1>2, <1>3, <1>4, <1>5

(* Up to the lowest cap, a loss above 0.5% never shortens the delay. *)
LEMMA NewDelaySlows ==
  ASSUME NEW loss \in Nat, NEW d \in MinDelay .. MaxDelay,
         loss > 5, d <= MildCap
  PROVE  NewDelay(loss, d) >= d
<1> USE PacingAssumption DEF AtMost
<1>0. /\ MildCap \in Nat /\ HighCap \in Nat /\ MaxDelay \in Nat
      /\ MildCap <= HighCap /\ HighCap <= MaxDelay /\ d \in Nat
  OBVIOUS
<1>1. CASE loss > 150
  BY <1>0, <1>1 DEF NewDelay
<1>2. CASE loss <= 150 /\ loss > 80
  BY <1>0, <1>2 DEF NewDelay
<1>3. CASE loss <= 80 /\ loss > 30
  <2>1. (d * 4) \div 3 >= d
    BY <1>0
  <2> QED
    BY <1>0, <1>3, <2>1 DEF NewDelay
<1>4. CASE loss <= 30
  BY <1>0, <1>4 DEF NewDelay
<1> QED
  BY <1>1, <1>2, <1>3, <1>4

-----------------------------------------------------------------------------
(* The documented range of the pacing delay is an invariant. *)
THEOREM DelayStaysInRange == ReactiveSpec => []PacingTypeOK
<1>1. ReactiveInit => PacingTypeOK
  <2>1. StartDelay \in MinDelay .. MaxDelay
    <3>1. /\ StartDelay \in Nat /\ MinDelay \in Nat /\ MildCap \in Nat
          /\ HighCap \in Nat /\ MaxDelay \in Nat
      BY PacingAssumption
    <3>2. MinDelay <= StartDelay /\ StartDelay <= MaxDelay
      BY <3>1, PacingAssumption
    <3> QED
      BY <3>1, <3>2
  <2> QED
    BY <2>1 DEF ReactiveInit, PacingTypeOK
<1>2. PacingTypeOK /\ [ReactiveNext]_reactiveVars => PacingTypeOK'
  <2> SUFFICES ASSUME PacingTypeOK, [ReactiveNext]_reactiveVars
               PROVE  PacingTypeOK'
    OBVIOUS
  <2>1. CASE checkFeedback
    BY <2>1 DEF PacingTypeOK, checkFeedback
  <2>2. CASE adaptReactive
    <3>1. last_loss_rate \in Nat
      BY PacingAssumption DEF PacingTypeOK
    <3>2. pacing_delay_us' \in MinDelay .. MaxDelay
      BY <2>2, <3>1, NewDelayInRange DEF PacingTypeOK, adaptReactive
    <3> QED
      BY <2>2, <3>2 DEF PacingTypeOK, adaptReactive
  <2>3. CASE UNCHANGED reactiveVars
    BY <2>3 DEF PacingTypeOK, reactiveVars
  <2> QED
    BY <2>1, <2>2, <2>3 DEF ReactiveNext
<1> QED
  BY <1>1, <1>2, PTL DEF ReactiveSpec

(* Below the lowest cap, a lossy link never gets a faster sender. *)
THEOREM LossSlowsBelowCaps == ReactiveSpec => SlowsBelowCaps
<1>1. PacingTypeOK /\ [ReactiveNext]_reactiveVars
        => [pacing_delay_us <= MildCap /\ last_loss_rate > 5
              => pacing_delay_us' >= pacing_delay_us]_reactiveVars
  <2> SUFFICES ASSUME PacingTypeOK, [ReactiveNext]_reactiveVars,
                      pacing_delay_us <= MildCap, last_loss_rate > 5
               PROVE  pacing_delay_us' >= pacing_delay_us \/ UNCHANGED reactiveVars
    OBVIOUS
  <2>0. pacing_delay_us \in Int /\ last_loss_rate \in Nat
    BY PacingAssumption DEF PacingTypeOK
  <2>1. CASE checkFeedback
    BY <2>0, <2>1 DEF checkFeedback
  <2>2. CASE adaptReactive
    BY <2>0, <2>2, NewDelaySlows DEF PacingTypeOK, adaptReactive
  <2> QED
    BY <2>1, <2>2 DEF ReactiveNext
<1> QED
  BY <1>1, DelayStaysInRange, PTL DEF ReactiveSpec, SlowsBelowCaps

LEMMA NewDelayMoves ==
  ASSUME NEW loss \in Nat, NEW d \in MinDelay .. MaxDelay
  PROVE  /\ loss <= 5 => NewDelay(loss, d) = MinDelay \/ NewDelay(loss, d) < d
         /\ loss > 150 => NewDelay(loss, d) = MaxDelay \/ NewDelay(loss, d) > d
<1>0. /\ MinDelay \in Nat \ {0} /\ MaxDelay \in Nat /\ d \in Nat \ {0}
  BY PacingAssumption
<1>1. ASSUME loss <= 5
      PROVE  NewDelay(loss, d) = MinDelay \/ NewDelay(loss, d) < d
  <2>1. (d * 9) \div 10 < d
    BY <1>0
  <2>2. NewDelay(loss, d) = AtLeast(MinDelay, (d * 9) \div 10)
    BY <1>1 DEF NewDelay
  <2> QED BY <2>1, <2>2 DEF AtLeast
<1>2. ASSUME loss > 150
      PROVE  NewDelay(loss, d) = MaxDelay \/ NewDelay(loss, d) > d
  <2>1. d * 3 > d
    BY <1>0
  <2>2. NewDelay(loss, d) = AtMost(MaxDelay, d * 3)
    BY <1>2 DEF NewDelay
  <2> QED BY <2>1, <2>2 DEF AtMost
<1> QED BY <1>1, <1>2

(* No delay short of its limit is a fixed point on a link that is clean,   *)
(* or hopeless.                                                            *)
THEOREM AdaptationNeverStalls == ReactiveSpec => NeverStalls
<1>1. PacingTypeOK /\ [ReactiveNext]_reactiveVars =>
        [feedback_received /\ ~feedback_received' =>
           /\ last_loss_rate <= 5 =>
                pacing_delay_us' = MinDelay \/ pacing_delay_us' < pacing_delay_us
           /\ last_loss_rate > 150 =>
                pacing_delay_us' = MaxDelay \/ pacing_delay_us' > pacing_delay_us
        ]_reactiveVars
  <2> SUFFICES ASSUME PacingTypeOK, ReactiveNext,
                      feedback_received, ~feedback_received'
               PROVE  /\ last_loss_rate <= 5 =>
                           \/ pacing_delay_us' = MinDelay
                           \/ pacing_delay_us' < pacing_delay_us
                      /\ last_loss_rate > 150 =>
                           \/ pacing_delay_us' = MaxDelay
                           \/ pacing_delay_us' > pacing_delay_us
    BY DEF reactiveVars
  <2>1. adaptReactive
    BY DEF ReactiveNext, checkFeedback
  <2>2. last_loss_rate \in Nat /\ pacing_delay_us \in MinDelay .. MaxDelay
    BY PacingAssumption DEF PacingTypeOK
  <2>3. pacing_delay_us' = NewDelay(last_loss_rate, pacing_delay_us)
    BY <2>1 DEF adaptReactive
  <2> QED BY <2>2, <2>3, NewDelayMoves
<1> QED BY <1>1, DelayStaysInRange, PTL DEF ReactiveSpec, NeverStalls

-----------------------------------------------------------------------------
(* The controller. *)

LEMMA ReportsAreNumbers ==
  ASSUME NEW report \in Reports
  PROVE  Between(0, 1000, report[1]) /\ report[2] \in Nat
<1>1. report \in (0 .. 1000) \X Nat
  BY MpcAssumption
<1> QED
  BY <1>1 DEF Between

LEMMA ClampInRange ==
  ASSUME NEW low \in Int, NEW high \in Int, low <= high, NEW x \in Int
  PROVE  Between(low, high, Clamp(low, high, x))
BY DEF Clamp, Between

(* What a delay within its limits lets through. *)
LEMMA DelayLimits ==
  ASSUME NEW delay, Between(1000, 100000, delay)
  PROVE  Between(0, 11168, pacing_to_rate_kbps(delay))
<1> DEFINE limit == 11168000 \div delay
<1>1. limit \in Nat /\ delay * limit <= 11168000
  BY SMT DEF Between
<1> HIDE DEF limit
<1>2. limit <= 11168
  BY <1>1, SMT DEF Between
<1> QED
  BY <1>1, <1>2, SMT DEF pacing_to_rate_kbps, limit, Between

(* No more goes out than the delay lets through. *)
LEMMA ThroughputInRange ==
  ASSUME WithinLimits, NEW share \in Nat
  PROVE  Between(0, 11168, Throughput(share))
<1> DEFINE yield == (current_bitrate_kbps * share) \div 100
           limit == pacing_to_rate_kbps(pacing_delay_us)
<1>1. current_bitrate_kbps * share \in Nat
  BY SMT DEF WithinLimits, Between
<1>2. yield \in Nat
  BY <1>1, SMT
<1>3. Between(0, 11168, limit)
  BY DelayLimits, SMT DEF WithinLimits
<1> HIDE DEF yield, limit
<1>4. Between(0, 11168, IF yield < limit THEN yield ELSE limit)
  BY <1>2, <1>3, SMT DEF Between
<1> QED
  BY <1>4, SMT DEF Throughput, yield, limit

(* What is left of the throughput after the loss. *)
LEMMA GoodputBelow ==
  ASSUME NEW tput \in Nat, NEW loss, Between(0, 1000, loss)
  PROVE  /\ (tput * (1000 - loss)) \div 10 \in Nat
         /\ (tput * (1000 - loss)) \div 10 <= 100 * tput
<1>1. tput * (1000 - loss) = 1000 * tput - tput * loss
  BY DEF Between
<1>2. tput * loss \in Nat
  BY DEF Between
<1>3. tput * (1000 - loss) \in Nat
  BY DEF Between
<1> DEFINE gained == tput * (1000 - loss)
           lost   == tput * loss
<1>4. gained \in Nat /\ lost \in Nat /\ gained = 1000 * tput - lost
  BY <1>1, <1>2, <1>3
<1> HIDE DEF gained, lost
<1>5. gained \div 10 \in Nat /\ gained \div 10 <= 100 * tput
  BY <1>4
<1> QED
  BY <1>5 DEF gained

(* The average of two values under a bound is under it. *)
LEMMA BandwidthBelow ==
  ASSUME NEW loss, Between(0, 1000, loss), NEW tput \in Nat, NEW bound \in Nat,
         bw_est_kbps \in Nat, bw_est_kbps <= bound, 100 * tput <= bound
  PROVE  Bandwidth(loss, tput) \in Nat /\ Bandwidth(loss, tput) <= bound
<1> DEFINE good == (tput * (1000 - loss)) \div 10
<1>1. good \in Nat /\ good <= bound
  <2>1. good \in Nat /\ good <= 100 * tput
    BY GoodputBelow
  <2> HIDE DEF good
  <2> QED
    BY <2>1
<1> HIDE DEF good
<1>2. CASE loss <= 5
  BY <1>2 DEF Bandwidth, Between
<1>3. CASE loss > 5 /\ loss <= 30
  BY <1>3 DEF Bandwidth, Between
<1>4. CASE loss > 30
  <2>1. Bandwidth(loss, tput) = (80 * bw_est_kbps + 20 * good) \div 100
    BY <1>4 DEF Bandwidth, good, Between
  <2> QED
    BY <1>1, <2>1
<1> QED
  BY <1>2, <1>3, <1>4 DEF Between

-----------------------------------------------------------------------------
(* One update keeps every value within its limits. *)

LEMMA IdentifyKeepsLimits ==
  ASSUME WithinLimits, NEW loss, Between(0, 1000, loss),
         NEW tput, Between(0, 11168, tput), identify(loss, tput)
  PROVE  /\ Between(10000, 1200000, bw_est_kbps')
         /\ Between(500, 3000, model_gain')
         /\ Between(0, 10000, loss_ema')
<1>0. /\ tput \in Nat /\ loss \in Nat /\ loss <= 1000 /\ bw_est_kbps \in Nat
      /\ model_gain \in Nat /\ loss_ema \in Nat /\ loss_ema <= 10000
  BY SMT DEF Between, WithinLimits
<1>1. Bandwidth(loss, tput) \in Nat
  <2>1. PICK bound \in Nat : bw_est_kbps <= bound /\ 100 * tput <= bound
    <3>1. bw_est_kbps + 100 * tput \in Nat
      BY <1>0
    <3> QED
      BY <1>0, <3>1
  <2> QED
    BY <1>0, <2>1, BandwidthBelow
<1>2. Gain(loss) \in Int
  BY <1>0 DEF Gain
<1>3. bw_est_kbps' = Clamp(10000, 1200000, Bandwidth(loss, tput))
  BY SMT DEF identify
<1>4. model_gain' = Clamp(500, 3000, Gain(loss))
  BY SMT DEF identify
<1>5. loss_ema' = (7 * loss_ema + 3 * (10 * loss)) \div 10
  BY SMT DEF identify
<1>6. Between(10000, 1200000, bw_est_kbps')
  BY <1>1, <1>3, ClampInRange, SMT
<1>7. Between(500, 3000, model_gain')
  BY <1>2, <1>4, ClampInRange, SMT
<1>8. Between(0, 10000, loss_ema')
  BY <1>0, <1>5, SMT DEF Between
<1> QED
  BY <1>6, <1>7, <1>8, SMT

LEMMA EncoderEstimateInLimits ==
  ASSUME WithinLimits, NEW loss, NEW tput, Between(0, 11168, tput)
  PROVE  Between(4500, 1200000, EncoderEstimate(loss, tput))
<1> DEFINE clamped == Clamp(5000, 1200000, enc_est_kbps)
           moved   == (90 * clamped + 10 * (100 * tput)) \div 100
<1>1. Between(5000, 1200000, clamped)
  <2>1. enc_est_kbps \in Int
    BY SMT DEF WithinLimits, Between
  <2> QED
    BY <2>1, ClampInRange, SMT
<1> HIDE DEF clamped
<1>2. Between(4500, 1200000, moved) /\ Between(4500, 1200000, clamped)
  BY <1>1, SMT DEF Between
<1> HIDE DEF moved
<1>3. EncoderEstimate(loss, tput) \in {moved, clamped}
  BY SMT DEF EncoderEstimate, moved, clamped
<1> QED
  BY <1>2, <1>3, SMT

(* Whatever rate is chosen, the delay is between its limits. *)
LEMMA PacingInLimits ==
  ASSUME NEW enc, enc \in Int, NEW now, now \in Int, NEW est, est.enc = enc,
         NEW rate, rate \in Candidates(now)
  PROVE  Between(1000, 100000, PacingFor(est, rate))
<1>1. PICK m \in rate_multipliers : rate = Clamp(50, 12000, (now * m) \div 100)
  BY SMT DEF Candidates
<1>2. m \in Int
  BY <1>1 DEF rate_multipliers
<1>3. (now * m) \div 100 \in Int
  BY <1>2
<1>4. Between(50, 12000, rate)
  BY <1>1, <1>3, ClampInRange, SMT
<1>5. rate_to_pacing_us(rate) \in Int
  BY <1>4, SMT DEF rate_to_pacing_us, Between
<1>6. Between(1000, 100000, Clamp(1000, 100000, rate_to_pacing_us(rate)))
  BY <1>5, ClampInRange, SMT
<1>7. Between(1000, 100000, 1000)
  BY SMT DEF Between
<1> QED
  BY <1>6, <1>7, SMT DEF PacingFor

LEMMA UpdateKeepsLimits ==
  ASSUME WithinLimits, NEW loss, Between(0, 1000, loss),
         NEW tput, Between(0, 11168, tput), update(loss, tput)
  PROVE  /\ Between(10000, 1200000, bw_est_kbps')
         /\ Between(4500, 1200000, enc_est_kbps')
         /\ Between(500, 3000, model_gain')
         /\ Between(0, 10000, loss_ema') /\ Between(0, 1000, current_loss')
         /\ Between(1000, 100000, pacing_delay_us')
<1>1. identify(loss, tput) /\ current_loss' = loss /\ enc_est_kbps' = EncoderEstimate(loss, tput)
  BY SMT DEF update
<1>2. /\ Between(10000, 1200000, bw_est_kbps')
      /\ Between(500, 3000, model_gain') /\ Between(0, 10000, loss_ema')
  BY <1>1, IdentifyKeepsLimits, SMT
<1>3. Between(4500, 1200000, enc_est_kbps')
  BY <1>1, EncoderEstimateInLimits, SMT
<1> DEFINE est == [bw |-> bw_est_kbps', enc |-> enc_est_kbps',
                   gain |-> model_gain', ema |-> loss_ema']
           now == effective_rate_kbps(est, loss, tput)
<1>4. est.enc = enc_est_kbps' /\ enc_est_kbps' \in Int
  BY <1>3, SMT DEF Between
<1> HIDE DEF est
<1>5. now \in Int
  <2> DEFINE measured == measured_kbps(tput)
  <2>1. measured \in Int
    BY SMT DEF Between, measured_kbps
  <2>2. est.enc \div 100 \in Int
    BY <1>4, SMT
  <2> HIDE DEF measured
  <2>3. now \in {est.enc \div 100, measured}
    BY SMT DEF effective_rate_kbps, measured
  <2> QED
    BY <2>1, <2>2, <2>3, SMT
<1> HIDE DEF now
<1>6. PICK rate \in Cheapest(est, now) : pacing_delay_us' = PacingFor(est, rate)
  BY SMT DEF update, est, now
<1>7. rate \in Candidates(now)
  BY <1>6, SMT DEF Cheapest
<1>8. Between(1000, 100000, pacing_delay_us')
  BY <1>4, <1>5, <1>6, <1>7, PacingInLimits, SMT
<1> QED
  BY <1>1, <1>2, <1>3, <1>8, SMT

(* The bitrate is within its limits, whatever the estimate. *)
LEMMA TargetInLimits ==
  ASSUME NEW bw, bw \in Int
  PROVE  Between(100, 1500, TargetBitrate(bw))
<1>1. (9 * bw) \div 1000 \in Int
  OBVIOUS
<1> QED
  BY <1>1, ClampInRange, SMT DEF TargetBitrate

-----------------------------------------------------------------------------
(* The ratchet. *)

(* What an interval that was no burst leaves of the estimate. *)
LEMMA EstimateFollowsBitrate ==
  ASSUME WithinLimits, bw_est_kbps <= 138 * current_bitrate_kbps,
         NEW loss, Between(0, 1000, loss), NEW tput, Between(0, 11168, tput),
         100 * tput <= 138 * current_bitrate_kbps, identify(loss, tput)
  PROVE  bw_est_kbps' <= 138 * current_bitrate_kbps
<1> DEFINE bound == 138 * current_bitrate_kbps
<1>1. bound \in Nat /\ 10000 <= bound
  BY SMT DEF WithinLimits, Between
<1>2. tput \in Nat /\ bw_est_kbps \in Nat
  BY SMT DEF WithinLimits, Between
<1>3. bw_est_kbps <= bound /\ 100 * tput <= bound
  OBVIOUS
<1>4. bw_est_kbps' = Clamp(10000, 1200000, Bandwidth(loss, tput))
  BY SMT DEF identify
<1> HIDE DEF bound
<1>5. Bandwidth(loss, tput) \in Nat /\ Bandwidth(loss, tput) <= bound
  BY <1>1, <1>2, <1>3, BandwidthBelow
<1>6. bw_est_kbps' <= bound
  BY <1>1, <1>4, <1>5, SMT DEF Clamp
<1> QED
  BY <1>6 DEF bound

(* 138% of the bitrate, of which 0.9 are taken, is no reason to raise it;  *)
(* what is a reason to lower it leaves less than three quarters, and the   *)
(* estimate is within 138% of the new bitrate too.                         *)
LEMMA OnlyDownwards ==
  ASSUME NEW br, Between(100, 500, br), NEW bw, bw \in Nat, bw <= 138 * br,
         BigChange(TargetBitrate(bw), br)
  PROVE  /\ TargetBitrate(bw) + br \div 4 < br
         /\ bw <= 138 * TargetBitrate(bw)
<1> DEFINE nine   == (9 * bw) \div 1000
           target == TargetBitrate(bw)
<1>1. /\ nine \in Nat /\ 1000 * nine <= 9 * bw /\ 9 * bw < 1000 * (nine + 1)
  BY SMT
<1>2. target = IF nine < 100 THEN 100 ELSE IF nine > 1500 THEN 1500 ELSE nine
  BY SMT DEF TargetBitrate, Clamp
<1>3. target - br > br \div 4 \/ br - target > br \div 4
  BY SMT DEF BigChange
<1> HIDE DEF nine, target
<1>4. br \in Nat /\ 100 <= br /\ br <= 500
  BY SMT DEF Between
<1>5. target \in Nat /\ target >= 100 /\ (target = 100 \/ target <= nine)
  BY <1>1, <1>2, SMT
<1>6. ~(target - br > br \div 4)
  BY <1>1, <1>4, <1>5, SMT
<1>7. bw <= 138 * target
  BY <1>1, <1>2, <1>4, <1>5, SMT
<1>8. target + br \div 4 < br
  BY <1>3, <1>4, <1>5, <1>6, SMT
<1> QED
  BY <1>7, <1>8, SMT DEF target

LEMMA BudgetTable ==
  ASSUME NEW n \in 0 .. 5
  PROVE  /\ Between(100, 500, BitrateAfter[n + 1])
         /\ \A br, less \in Nat :
              /\ br <= BitrateAfter[n + 1] /\ less + br \div 4 < br /\ 100 <= less
              => n < 5 /\ less <= BitrateAfter[n + 2]
<1>0. n \in {0, 1, 2, 3, 4, 5}
  OBVIOUS
<1>1. /\ BitrateAfter[1] = 500 /\ BitrateAfter[2] = 374 /\ BitrateAfter[3] = 280
      /\ BitrateAfter[4] = 209 /\ BitrateAfter[5] = 156 /\ BitrateAfter[6] = 116
  BY DEF BitrateAfter
<1>2. CASE n = 0
  BY <1>1, <1>2, SMT DEF Between
<1>3. CASE n = 1
  BY <1>1, <1>3, SMT DEF Between
<1>4. CASE n = 2
  BY <1>1, <1>4, SMT DEF Between
<1>5. CASE n = 3
  BY <1>1, <1>5, SMT DEF Between
<1>6. CASE n = 4
  BY <1>1, <1>6, SMT DEF Between
<1>7. CASE n = 5
  BY <1>1, <1>7, SMT DEF Between
<1> QED
  BY <1>0, <1>2, <1>3, <1>4, <1>5, <1>6, <1>7

(* The bitrate once the estimate is not above 138% of it. *)
LEMMA BudgetSpent ==
  ASSUME WithinLimits, WithinLimits', restarts \in 0 .. 5,
         current_bitrate_kbps <= BitrateAfter[restarts + 1],
         bw_est_kbps' <= 138 * current_bitrate_kbps, AdaptBitrate
  PROVE  /\ restarts' \in 0 .. 5
         /\ current_bitrate_kbps' <= BitrateAfter[restarts' + 1]
         /\ bw_est_kbps' <= 138 * current_bitrate_kbps'
         /\ current_bitrate_kbps' <= current_bitrate_kbps
<1> DEFINE target == TargetBitrate(bw_est_kbps')
<1>0. /\ bw_est_kbps' \in Nat /\ current_bitrate_kbps \in Nat
      /\ 100 <= current_bitrate_kbps
  BY SMT DEF WithinLimits, Between
<1>1. Between(100, 500, current_bitrate_kbps)
  <2>1. Between(100, 500, BitrateAfter[restarts + 1])
    BY BudgetTable
  <2> QED
    BY <1>0, <2>1, SMT DEF Between
<1>2. CASE BigChange(target, current_bitrate_kbps)
  <2>1. current_bitrate_kbps' = target /\ restarts' = restarts + 1
    BY <1>2, SMT DEF AdaptBitrate
  <2>2. /\ target + current_bitrate_kbps \div 4 < current_bitrate_kbps
        /\ bw_est_kbps' <= 138 * target
    BY <1>0, <1>1, <1>2, OnlyDownwards, SMT
  <2>3. target \in Nat /\ 100 <= target
    BY <1>0, TargetInLimits, SMT DEF Between
  <2> HIDE DEF target
  <2>4. restarts < 5 /\ target <= BitrateAfter[restarts + 2]
    BY <1>0, <2>2, <2>3, BudgetTable, SMT
  <2>5. restarts' \in 0 .. 5 /\ restarts' + 1 = restarts + 2
    BY <2>1, <2>4, SMT
  <2>6. target <= current_bitrate_kbps
    BY <1>0, <2>2, <2>3, SMT
  <2> QED
    BY <2>1, <2>2, <2>4, <2>5, <2>6, SMT
<1>3. CASE ~BigChange(target, current_bitrate_kbps)
  <2>1. UNCHANGED <<current_bitrate_kbps, restarts>>
    BY <1>3, SMT DEF AdaptBitrate
  <2> QED
    BY <1>0, <2>1, SMT
<1> QED
  BY <1>2, <1>3

LEMMA RoundKeepsLimits ==
  ASSUME WithinLimits, adaptPacing
  PROVE  WithinLimits'
<1>1. PICK report \in Reports : update(report[1], Throughput(report[2]))
  BY Zenon DEF adaptPacing, Interval
<1> DEFINE loss == report[1]
           tput == Throughput(report[2])
<1>2. Between(0, 1000, loss) /\ Between(0, 11168, tput)
  BY ReportsAreNumbers, ThroughputInRange
<1> HIDE DEF loss, tput
<1>3. update(loss, tput)
  BY <1>1 DEF loss, tput
<1>4. /\ Between(10000, 1200000, bw_est_kbps') /\ Between(4500, 1200000, enc_est_kbps')
      /\ Between(500, 3000, model_gain')
      /\ Between(0, 10000, loss_ema') /\ Between(0, 1000, current_loss')
      /\ Between(1000, 100000, pacing_delay_us')
  BY <1>2, <1>3, UpdateKeepsLimits, SMT
<1>5. Between(0, MaxUpdates, iteration')
  BY <1>3, MpcAssumption, SMT DEF update, adaptPacing, WithinLimits, Between
<1>6. Between(100, 1500, current_bitrate_kbps') /\ restarts' \in Nat
  <2>1. bw_est_kbps' \in Int
    BY <1>4, SMT DEF Between
  <2>2. Between(100, 1500, TargetBitrate(bw_est_kbps'))
    BY <2>1, TargetInLimits
  <2> QED
    BY <2>2, SMT DEF adaptPacing, AdaptBitrate, WithinLimits
<1> QED
  BY <1>4, <1>5, <1>6, SMT DEF WithinLimits

(* A round that is no burst, nor followed one, spends of the budget. *)
LEMMA RoundSpends ==
  ASSUME WithinLimits, Ratchet, adaptPacing, ~outran'
  PROVE  /\ ~outran /\ restarts' \in 0 .. 5
         /\ current_bitrate_kbps' <= BitrateAfter[restarts' + 1]
         /\ bw_est_kbps' <= 138 * current_bitrate_kbps'
         /\ current_bitrate_kbps' <= current_bitrate_kbps
<1>1. PICK report \in Reports :
        LET tput == Throughput(report[2])
        IN /\ update(report[1], tput)
           /\ IF 100 * tput > 138 * current_bitrate_kbps
              THEN outran' = TRUE
              ELSE UNCHANGED outran
  BY Zenon DEF adaptPacing, Interval
<1> DEFINE loss == report[1]
           tput == Throughput(report[2])
<1>2. Between(0, 1000, loss) /\ Between(0, 11168, tput)
  BY ReportsAreNumbers, ThroughputInRange
<1>3. update(loss, tput) /\ ~(100 * tput > 138 * current_bitrate_kbps) /\ ~outran
  BY <1>1, Zenon
<1> HIDE DEF loss, tput
<1>4. /\ restarts \in 0 .. 5
      /\ current_bitrate_kbps <= BitrateAfter[restarts + 1]
      /\ bw_est_kbps <= 138 * current_bitrate_kbps
  BY <1>3, Zenon DEF Ratchet
<1>5. identify(loss, tput) /\ AdaptBitrate
  BY <1>3, Zenon DEF update, adaptPacing
<1>6. 100 * tput <= 138 * current_bitrate_kbps
  BY <1>2, <1>3, SMT DEF WithinLimits, Between
<1>7. bw_est_kbps' <= 138 * current_bitrate_kbps
  BY <1>2, <1>4, <1>5, <1>6, EstimateFollowsBitrate, SMT
<1> QED
  BY <1>3, <1>4, <1>5, <1>7, BudgetSpent, RoundKeepsLimits, Zenon

LEMMA MpcInvHolds == Spec => []MpcInv
<1>1. Init => MpcInv
  <2> SUFFICES ASSUME Init PROVE MpcInv
    OBVIOUS
  <2>1. WithinLimits
    BY MpcAssumption, SMT DEF Init, WithinLimits, Between
  <2>2. /\ restarts \in 0 .. 5 /\ bw_est_kbps <= 138 * current_bitrate_kbps
        /\ current_bitrate_kbps <= BitrateAfter[restarts + 1]
    BY SMT DEF Init, BitrateAfter
  <2>3. outran \in BOOLEAN
    <3>1. outran = FALSE
      BY SMT DEF Init
    <3> QED
      BY <3>1
  <2> QED
    BY <2>1, <2>2, <2>3, Zenon DEF MpcInv, MpcTypeOK, Ratchet
<1>2. MpcInv /\ [Next]_vars => MpcInv'
  <2> SUFFICES ASSUME MpcInv, [Next]_vars PROVE MpcInv'
    OBVIOUS
  <2>0. WithinLimits /\ outran \in BOOLEAN /\ Ratchet
    BY Zenon DEF MpcInv, MpcTypeOK
  <2>1. CASE adaptPacing
    <3>1. WithinLimits'
      BY <2>0, <2>1, RoundKeepsLimits, Zenon
    <3>2. Ratchet'
      BY <2>0, <2>1, RoundSpends, Zenon DEF Ratchet
    <3>3. outran' \in BOOLEAN
      BY <2>0, <2>1, Zenon DEF adaptPacing, Interval
    <3> QED
      BY <3>1, <3>2, <3>3, Zenon DEF MpcInv, MpcTypeOK
  <2>2. CASE UNCHANGED vars
    <3>1. UNCHANGED <<bw_est_kbps, enc_est_kbps, model_gain, loss_ema, current_loss,
                      iteration, pacing_delay_us, current_bitrate_kbps, restarts>>
      BY <2>2 DEF vars, estimates
    <3>2. outran' = outran
      BY <2>2, Zenon DEF vars
    <3>3. WithinLimits'
      BY <2>0, <3>1, SMT DEF WithinLimits
    <3>4. Ratchet'
      BY <2>0, <3>1, <3>2, Zenon DEF Ratchet
    <3> QED
      BY <2>0, <3>2, <3>3, <3>4, Zenon DEF MpcInv, MpcTypeOK
  <2> QED
    BY <2>1, <2>2, Zenon DEF Next
<1> QED
  BY <1>1, <1>2, PTL DEF Spec

(* The estimates, the delay and the bitrate keep to their limits. *)
THEOREM ControllerStaysInLimits == Spec => []MpcTypeOK
<1>1. MpcInv => MpcTypeOK
  BY Zenon DEF MpcInv
<1> QED
  BY <1>1, MpcInvHolds, PTL

(* Without a burst the encoder is replaced five times at most. *)
THEOREM RestartsAreFew == Spec => []FewRestarts
<1>1. MpcInv => FewRestarts
  <2> SUFFICES ASSUME MpcInv, ~outran PROVE restarts <= 5
    BY Zenon DEF FewRestarts
  <2>1. restarts \in 0 .. 5
    BY Zenon DEF MpcInv, Ratchet
  <2> QED
    BY <2>1
<1> QED
  BY <1>1, MpcInvHolds, PTL

(* Without a burst the bitrate never rises, however good the link is. *)
THEOREM BitrateIsARatchet == Spec => BitrateOnlyFalls
<1>1. MpcInv /\ [Next]_vars
        => [outran' \/ current_bitrate_kbps' <= current_bitrate_kbps]_vars
  <2> SUFFICES ASSUME MpcInv, [Next]_vars
               PROVE  \/ UNCHANGED vars
                      \/ outran' \/ current_bitrate_kbps' <= current_bitrate_kbps
    BY Zenon
  <2>1. CASE adaptPacing /\ ~outran'
    BY <2>1, RoundSpends, Zenon DEF MpcInv, MpcTypeOK
  <2> QED
    BY <2>1, Zenon DEF Next
<1> QED
  BY <1>1, MpcInvHolds, PTL DEF Spec, BitrateOnlyFalls

-----------------------------------------------------------------------------
(* No throttling of a link that is clean and wide enough. *)

(* What the proofs need of the estimates from which update() chooses. *)
Estimated(est) ==
  /\ Between(10000, 1200000, est.bw) /\ Between(4500, 1200000, est.enc)
  /\ Between(0, 10000, est.ema)

(* One Kbps more that gets through is worth a tenth of the share that is   *)
(* not lost.                                                               *)
LEMMA GoodputRises ==
  ASSUME NEW slow \in Nat, NEW fast \in Nat, slow + 10 <= fast,
         NEW loss \in Nat, NEW gain \in Nat, loss + 1000 * gain <= 10000
  PROVE  StepCost(fast, loss) + gain <= StepCost(slow, loss)
<1> DEFINE keep == 10000 - loss
           more == fast * keep
           less == slow * keep
<1>1. keep \in Nat /\ 1000 * gain <= keep
  OBVIOUS
<1>2. more \in Nat /\ less \in Nat
  BY <1>1, SMT
<1>3. less + 10 * keep <= more
  <2> HIDE DEF keep
  <2>1. PICK rest \in Nat : fast = slow + 10 + rest
    <3>1. fast - (slow + 10) \in Nat /\ fast = slow + 10 + (fast - (slow + 10))
      OBVIOUS
    <3> QED BY <3>1
  <2>2. (slow + 10 + rest) * keep = slow * keep + 10 * keep + rest * keep
    BY <1>1, SMT
  <2>3. rest * keep \in Nat
    BY <1>1, SMT
  <2> QED BY <1>1, <1>2, <2>1, <2>2, <2>3
<1> DEFINE penalty == (12 * loss * loss) \div 100000
<1>4. penalty \in Int
  <2>1. 12 * loss * loss \in Nat
    BY SMT
  <2> QED BY <2>1
<1>5. /\ StepCost(fast, loss) = penalty - more \div 10000
      /\ StepCost(slow, loss) = penalty - less \div 10000
  BY DEF StepCost
<1> HIDE DEF more, less, keep, penalty
<1>6. less \div 10000 + gain <= more \div 10000
  BY <1>1, <1>2, <1>3
<1>7. more \div 10000 \in Int /\ less \div 10000 \in Int
  BY <1>2
<1> QED BY <1>4, <1>5, <1>6, <1>7

(* Without predicted loss the loss of today fades, at any rate alike.      *)
LEMMA CostWithoutLoss ==
  ASSUME NEW est, Estimated(est), NEW rate \in Nat, NEW now,
         rate <= est.bw \div 100
  PROVE  LET thru  == PredictedThroughput(est, rate)
             one   == Decay(est.ema, 0)
             two   == Decay(one, 0)
             three == Decay(two, 0)
         IN evaluate_cost(est, rate, now) =
              StepCost(thru, one) + StepCost(thru, two) + StepCost(thru, three)
                + ChangeCost(rate, now)
<1>1. est.bw \in Nat
  BY DEF Estimated, Between
<1>2. predict_loss(est, rate) = 0
  BY <1>1 DEF predict_loss
<1> QED BY <1>2, Zenon DEF evaluate_cost

(* Three steps without predicted loss. *)
LEMMA LossFades ==
  ASSUME NEW loss, Between(0, 10000, loss)
  PROVE  /\ Between(0, 6000, Decay(loss, 0))
         /\ Between(0, 3600, Decay(Decay(loss, 0), 0))
         /\ Between(0, 2160, Decay(Decay(Decay(loss, 0), 0), 0))
<1> DEFINE one == Decay(loss, 0)
           two == Decay(one, 0)
           three == Decay(two, 0)
<1>1. Between(0, 6000, one)
  BY DEF Decay, Between
<1> HIDE DEF one
<1>2. Between(0, 3600, two)
  BY <1>1 DEF Decay, Between
<1> HIDE DEF two
<1>3. Between(0, 2160, three)
  BY <1>2 DEF Decay, Between
<1> QED BY <1>1, <1>2, <1>3 DEF one, two

(* The parts of the cost are numbers; not to change costs nothing. *)
LEMMA StepCostTyped ==
  ASSUME NEW thru \in Nat, NEW loss \in Nat
  PROVE  StepCost(thru, loss) \in Int
<1>1. 12 * loss * loss \in Int /\ thru * (10000 - loss) \in Int
  BY SMT
<1> QED BY <1>1 DEF StepCost

LEMMA ChangeCostTyped ==
  ASSUME NEW rate \in Nat, NEW now \in Nat \ {0}
  PROVE  ChangeCost(rate, now) \in Nat /\ ChangeCost(now, now) = 0
<1> DEFINE Delta(r) == ((r - now) * 1000) \div now
<1>1. Delta(rate) \in Int /\ Delta(now) = 0
  BY SMT
<1>2. /\ ChangeCost(rate, now) = (Delta(rate) * Delta(rate)) \div 1000
      /\ ChangeCost(now, now) = (Delta(now) * Delta(now)) \div 1000
  BY Zenon DEF ChangeCost
<1> HIDE DEF Delta
<1>3. Delta(rate) * Delta(rate) \in Nat /\ Delta(now) * Delta(now) = 0
  BY <1>1, SMT
<1> QED BY <1>2, <1>3

(* So a rate below the present one, of which less gets through, is dearer. *)
LEMMA SlowerIsDearer ==
  ASSUME NEW est, Estimated(est), NEW now \in Nat \ {0}, now <= est.bw \div 100,
         NEW rate \in Nat, rate < now,
         PredictedThroughput(est, rate) + 10 <= PredictedThroughput(est, now)
  PROVE  /\ evaluate_cost(est, now, now) \in Int /\ evaluate_cost(est, rate, now) \in Int
         /\ evaluate_cost(est, now, now) + 17 <= evaluate_cost(est, rate, now)
<1>1. est.bw \in Nat /\ est.enc \in Nat /\ Between(0, 10000, est.ema)
  BY DEF Estimated, Between
<1> DEFINE one   == Decay(est.ema, 0)
           two   == Decay(one, 0)
           three == Decay(two, 0)
           slow  == PredictedThroughput(est, rate)
           fast  == PredictedThroughput(est, now)
<1>2. Between(0, 6000, one) /\ Between(0, 3600, two) /\ Between(0, 2160, three)
  BY <1>1, LossFades
<1>3. slow \in Nat /\ fast \in Nat /\ slow + 10 <= fast
  BY <1>1 DEF PredictedThroughput
<1>4. rate <= est.bw \div 100
  BY <1>1
<1>5. /\ evaluate_cost(est, rate, now) =
           StepCost(slow, one) + StepCost(slow, two) + StepCost(slow, three)
             + ChangeCost(rate, now)
      /\ evaluate_cost(est, now, now) =
           StepCost(fast, one) + StepCost(fast, two) + StepCost(fast, three)
             + ChangeCost(now, now)
  BY <1>4, CostWithoutLoss, Zenon
<1> HIDE DEF one, two, three, slow, fast
<1>6. /\ StepCost(fast, one)   + 4 <= StepCost(slow, one)
      /\ StepCost(fast, two)   + 6 <= StepCost(slow, two)
      /\ StepCost(fast, three) + 7 <= StepCost(slow, three)
  <2>1. one + 1000 * 4 <= 10000 /\ two + 1000 * 6 <= 10000 /\ three + 1000 * 7 <= 10000
    BY <1>2, SMT DEF Between
  <2>2. one \in Nat /\ two \in Nat /\ three \in Nat
    BY <1>2, SMT DEF Between
  <2> QED BY <1>3, <2>1, <2>2, GoodputRises
<1>7. ASSUME NEW thru \in {slow, fast}, NEW loss \in {one, two, three}
      PROVE  StepCost(thru, loss) \in Int
  <2>1. thru \in Nat /\ loss \in Nat
    BY <1>2, <1>3, SMT DEF Between
  <2> QED BY <2>1, StepCostTyped
<1>8. ChangeCost(rate, now) \in Nat /\ ChangeCost(now, now) = 0
  BY ChangeCostTyped
<1> QED BY <1>5, <1>6, <1>7, <1>8

-----------------------------------------------------------------------------
(* The base of the choice: four fifths of what the encoder makes at least, *)
(* all of it when much less went out, and no more than the link carries.   *)
LEMMA BaseRate ==
  ASSUME NEW est, Estimated(est), est.enc <= est.bw,
         NEW loss, loss <= 5, NEW tput \in Nat, 100 * tput <= est.bw
  PROVE  LET now == effective_rate_kbps(est, loss, tput)
         IN /\ Between(50, 12000, now) /\ now <= est.bw \div 100
            /\ 8 * est.enc <= 1000 * now
            /\ 1000 * measured_kbps(tput) < 8 * est.enc => now = est.enc \div 100
<1>1. /\ est.bw \in Nat /\ 10000 <= est.bw /\ est.bw <= 1200000
      /\ est.enc \in Nat /\ 4500 <= est.enc /\ est.enc <= 1200000
  BY DEF Estimated, Between
<1> DEFINE now == effective_rate_kbps(est, loss, tput)
           measured == measured_kbps(tput)
<1>2. measured \in Nat /\ 50 <= measured /\ (measured = 50 \/ measured = tput)
  BY DEF measured_kbps
<1>3. CASE 1000 * measured < 8 * est.enc
  <2>1. now = est.enc \div 100
    BY <1>3 DEF effective_rate_kbps
  <2> HIDE DEF now, measured
  <2>2. est.enc > 6250
    BY <1>1, <1>2, <1>3, SMT
  <2>3. Between(50, 12000, now) /\ now <= est.bw \div 100 /\ 8 * est.enc <= 1000 * now
    BY <1>1, <2>1, <2>2, SMT DEF Between
  <2> QED BY <1>3, <2>1, <2>3, SMT DEF now, measured
<1>4. CASE ~(1000 * measured < 8 * est.enc)
  <2>1. now = measured
    BY <1>4 DEF effective_rate_kbps
  <2> HIDE DEF now, measured
  <2>2. Between(50, 12000, now) /\ now <= est.bw \div 100 /\ 8 * est.enc <= 1000 * now
    BY <1>1, <1>2, <1>4, <2>1, SMT DEF Between
  <2> QED BY <1>4, <2>2, SMT DEF now, measured
<1> QED BY <1>3, <1>4

(* The base is itself a candidate. *)
LEMMA BaseIsCandidate ==
  ASSUME NEW now, Between(50, 12000, now)
  PROVE  now \in Candidates(now)
<1>1. Clamp(50, 12000, (now * 100) \div 100) = now
  BY SMT DEF Clamp, Between
<1>2. 100 \in rate_multipliers
  BY DEF rate_multipliers
<1> QED BY <1>1, <1>2 DEF Candidates

(* Every candidate is within update()'s limits. *)
LEMMA CandidatesTyped ==
  ASSUME NEW now \in Int, NEW rate \in Candidates(now)
  PROVE  Between(50, 12000, rate)
<1>1. PICK m \in rate_multipliers : rate = Clamp(50, 12000, (now * m) \div 100)
  BY DEF Candidates
<1>2. m \in Int
  BY <1>1 DEF rate_multipliers
<1>3. (now * m) \div 100 \in Int
  BY <1>2
<1> QED BY <1>1, <1>3, SMT DEF Clamp, Between

(* No rate much below what the encoder makes is among the cheapest. *)
LEMMA CheapestKeepsUp ==
  ASSUME NEW est, Estimated(est), NEW now, Between(50, 12000, now),
         now <= est.bw \div 100, 8 * est.enc <= 1000 * now,
         NEW rate \in Cheapest(est, now)
  PROVE  /\ 8 * est.enc <= 1000 * rate
         /\ now = est.enc \div 100 => 9 * est.enc <= 1000 * rate
<1>1. /\ est.bw \in Nat /\ 10000 <= est.bw /\ est.bw <= 1200000
      /\ est.enc \in Nat /\ 4500 <= est.enc /\ est.enc <= 1200000
  BY DEF Estimated, Between
<1>0. now \in Nat /\ 50 <= now /\ now <= 12000
  BY SMT DEF Between
<1>2. rate \in Candidates(now) /\ rate \in Nat /\ 50 <= rate /\ rate <= 12000
  <2>1. rate \in Candidates(now)
    BY SMT DEF Cheapest
  <2>2. Between(50, 12000, rate)
    BY <1>0, <2>1, CandidatesTyped, SMT
  <2> QED BY <2>1, <2>2, SMT DEF Between
<1>3. evaluate_cost(est, rate, now) <= evaluate_cost(est, now, now) + Rounding
  <2>1. now \in Candidates(now)
    BY BaseIsCandidate, SMT
  <2> QED BY <2>1, SMT DEF Cheapest
<1>4. ASSUME rate < now, PredictedThroughput(est, rate) + 10 <= PredictedThroughput(est, now)
      PROVE  FALSE
  <2>1. /\ evaluate_cost(est, now, now) \in Int /\ evaluate_cost(est, rate, now) \in Int
        /\ evaluate_cost(est, now, now) + 17 <= evaluate_cost(est, rate, now)
    BY <1>0, <1>2, <1>4, SlowerIsDearer, SMT
  <2> QED BY <1>3, <2>1, MpcAssumption, SMT
<1>5. ASSUME 1000 * rate < 8 * est.enc PROVE FALSE
  <2>1. rate < now
    BY <1>0, <1>1, <1>2, <1>5, SMT
  <2>2. PredictedThroughput(est, rate) + 10 <= PredictedThroughput(est, now)
    BY <1>1, <1>2, <1>5, <1>0, <2>1, SMT DEF PredictedThroughput
  <2> QED BY <1>4, <2>1, <2>2, SMT
<1>6. ASSUME now = est.enc \div 100, 1000 * rate < 9 * est.enc PROVE FALSE
  <2>1. rate < now
    BY <1>0, <1>1, <1>2, <1>6, SMT
  <2>2. PredictedThroughput(est, rate) + 10 <= PredictedThroughput(est, now)
    BY <1>1, <1>2, <1>6, <1>0, <2>1, SMT DEF PredictedThroughput
  <2> QED BY <1>4, <2>1, <2>2, SMT
<1> QED BY <1>1, <1>2, <1>5, <1>6, SMT

(* The delay for a rate lets that rate through. *)
LEMMA DelayLetsThrough ==
  ASSUME NEW rate, Between(50, 12000, rate)
  PROVE  rate <= pacing_to_rate_kbps(Clamp(1000, 100000, rate_to_pacing_us(rate)))
           \/ Clamp(1000, 100000, rate_to_pacing_us(rate)) = 1000
<1> DEFINE delay == 11168000 \div rate
<1>0. rate \in Nat /\ 50 <= rate /\ rate <= 12000
  BY SMT DEF Between
<1>1. delay \in Nat /\ rate * delay <= 11168000 /\ 11168000 < rate * delay + rate
  BY <1>0, SMT
<1>2. rate_to_pacing_us(rate) = delay
  BY SMT DEF rate_to_pacing_us
<1> HIDE DEF delay
<1>3. CASE delay > 100000
  <2>1. rate <= 111
    <3>1. ASSUME rate >= 112 PROVE FALSE
      <4>1. rate * delay >= 112 * 100001
        BY <1>0, <1>1, <1>3, <3>1, SMT
      <4> QED BY <1>0, <1>1, <4>1, SMT
    <3> QED BY <1>0, <3>1, SMT
  <2>2. Clamp(1000, 100000, delay) = 100000
    BY <1>1, <1>3, SMT DEF Clamp
  <2>3. pacing_to_rate_kbps(100000) = 111
    BY SMT DEF pacing_to_rate_kbps
  <2> QED BY <1>2, <2>1, <2>2, <2>3, SMT
<1>4. CASE delay < 1000
  BY <1>1, <1>2, <1>4, SMT DEF Clamp
<1>5. CASE 1000 <= delay /\ delay <= 100000
  <2> DEFINE through == 11168000 \div delay
  <2>1. through \in Nat /\ 11168000 < delay * through + delay
    BY <1>1, <1>5, SMT
  <2>2. Clamp(1000, 100000, delay) = delay
    BY <1>1, <1>5, SMT DEF Clamp
  <2>3. pacing_to_rate_kbps(delay) = through
    BY SMT DEF pacing_to_rate_kbps
  <2> HIDE DEF through
  <2>4. rate <= through
    <3>1. ASSUME through + 1 <= rate PROVE FALSE
      <4>1. delay * (through + 1) <= delay * rate
        BY <1>0, <1>1, <2>1, <3>1, SMT
      <4>2. delay * (through + 1) = delay * through + delay /\ delay * rate = rate * delay
        BY <1>0, <1>1, <2>1, SMT
      <4>3. delay * through \in Nat /\ rate * delay \in Nat
        BY <1>0, <1>1, <2>1, SMT
      <4> QED BY <1>0, <1>1, <2>1, <4>1, <4>2, <4>3, SMT
    <3> QED BY <1>0, <2>1, <3>1, SMT
  <2> QED BY <1>2, <2>2, <2>3, <2>4, SMT
<1> QED BY <1>1, <1>3, <1>4, <1>5, SMT

(* One good report ends the throttling of a link that is wide enough. *)
THEOREM EncoderKeptUp == Spec => EncoderNotThrottled
<1>1. ASSUME WithinLimits, NEW report \in Reports,
             Unhindered(report[1], Throughput(report[2])), Interval(report)
      PROVE  /\ 1000 * measured_kbps(Throughput(report[2])) < 8 * enc_est_kbps'
                  => pacing_delay_us' = 1000
             /\ \/ pacing_delay_us' = 1000
                \/ 1000 * pacing_to_rate_kbps(pacing_delay_us') >= 8 * enc_est_kbps'
  <2> DEFINE loss == report[1]
             tput == Throughput(report[2])
             est  == [bw |-> bw_est_kbps', enc |-> enc_est_kbps',
                      gain |-> model_gain', ema |-> loss_ema']
             now  == effective_rate_kbps(est, loss, tput)
  <2>1. Between(0, 1000, loss) /\ Between(0, 11168, tput)
    BY <1>1, ReportsAreNumbers, ThroughputInRange
  <2>2. Unhindered(loss, tput) /\ update(loss, tput)
    BY <1>1, Zenon DEF Interval
  <2> HIDE DEF loss, tput
  <2>3. /\ est.bw = bw_est_kbps' /\ est.enc = enc_est_kbps' /\ est.ema = loss_ema'
    BY SMT
  <2>4. PICK rate \in Cheapest(est, now) : pacing_delay_us' = PacingFor(est, rate)
    BY <2>2, SMT DEF update
  <2>5. /\ Between(10000, 1200000, bw_est_kbps') /\ Between(4500, 1200000, enc_est_kbps')
        /\ Between(0, 10000, loss_ema')
    BY <1>1, <2>1, <2>2, UpdateKeepsLimits, SMT
  <2> HIDE DEF est
  <2>6. Estimated(est)
    BY <2>3, <2>5, SMT DEF Estimated
  <2>7. /\ loss <= 5 /\ est.enc <= est.bw /\ 100 * tput <= est.bw /\ tput \in Nat
    BY <2>1, <2>2, <2>3, SMT DEF Unhindered, Between
  <2>8. /\ Between(50, 12000, now) /\ now <= est.bw \div 100
        /\ 8 * est.enc <= 1000 * now
        /\ 1000 * measured_kbps(tput) < 8 * est.enc => now = est.enc \div 100
    BY <2>6, <2>7, BaseRate, SMT
  <2> HIDE DEF now
  <2>9. /\ 8 * est.enc <= 1000 * rate
        /\ now = est.enc \div 100 => 9 * est.enc <= 1000 * rate
    BY <2>4, <2>6, <2>8, CheapestKeepsUp, SMT
  <2>10. Between(50, 12000, rate)
    <3>1. rate \in Candidates(now) /\ now \in Int
      BY <2>4, <2>8, SMT DEF Cheapest, Between
    <3> QED BY <3>1, CandidatesTyped, SMT
  <2>11. est.enc \in Int /\ rate \in Int
    BY <2>6, <2>10, SMT DEF Estimated, Between
  <2>12. 1000 * measured_kbps(tput) < 8 * est.enc => pacing_delay_us' = 1000
    BY <2>4, <2>8, <2>9, <2>11, SMT DEF PacingFor
  <2> DEFINE delay == Clamp(1000, 100000, rate_to_pacing_us(rate))
  <2>13. pacing_delay_us' = 1000 \/ pacing_delay_us' = delay
    BY <2>4, SMT DEF PacingFor
  <2>14. rate <= pacing_to_rate_kbps(delay) \/ delay = 1000
    BY <2>10, DelayLetsThrough, SMT
  <2>15. pacing_to_rate_kbps(delay) \in Int
    <3>1. rate_to_pacing_us(rate) \in Int
      BY <2>10, SMT DEF rate_to_pacing_us, Between
    <3>2. Between(1000, 100000, delay)
      BY <3>1, ClampInRange, SMT
    <3> QED BY <3>2, SMT DEF pacing_to_rate_kbps, Between
  <2> HIDE DEF delay
  <2>16. \/ pacing_delay_us' = 1000
         \/ 1000 * pacing_to_rate_kbps(pacing_delay_us') >= 8 * est.enc
    BY <2>9, <2>11, <2>13, <2>14, <2>15, SMT
  <2> QED BY <2>3, <2>12, <2>16, SMT DEF tput
<1>2. MpcInv => WithinLimits
  BY Zenon DEF MpcInv, MpcTypeOK
<1> DEFINE Kept ==
      \A report \in Reports :
        LET tput == Throughput(report[2]) IN
        Unhindered(report[1], tput) /\ Interval(report) =>
          /\ 1000 * measured_kbps(tput) < 8 * enc_est_kbps'
               => pacing_delay_us' = 1000
          /\ \/ pacing_delay_us' = 1000
             \/ 1000 * pacing_to_rate_kbps(pacing_delay_us') >= 8 * enc_est_kbps'
<1>3. MpcInv /\ [Next]_vars => [Kept]_vars
  <2>1. MpcInv => Kept
    BY <1>1, <1>2, SMT
  <2> HIDE DEF Kept
  <2> QED BY <2>1
<1> QED
  BY <1>3, MpcInvHolds, PTL DEF Spec, EncoderNotThrottled
=============================================================================
