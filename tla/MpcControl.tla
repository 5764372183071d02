----------------------------- MODULE MpcControl -----------------------------
(***************************************************************************)
(* The controller of the sender as it is built by default (USE_MPC): every *)
(* two seconds update() identifies the link from the loss reported and the *)
(* throughput measured, chooses one of seven rates by predicted cost, and  *)
(* sets the delay between packets; the camera loop then maps the bandwidth *)
(* estimate to the bitrate of the encoder and restarts it when they        *)
(* differ by more than a quarter.                                          *)
(*                                                                         *)
(* The code computes in float.  Here rates that are estimates are          *)
(* hundredths of a Kbps, the gain is in thousandths, losses are hundredths *)
(* of a percent (tenths where they are reported), costs are tenths, all    *)
(* rounded down; a choice may go to any candidate whose cost is within     *)
(* Rounding of the least.                                                  *)
(***************************************************************************)
EXTENDS SenderDelay

CONSTANTS
  Reports,     (* pairs: the loss reported, in tenths of a percent, and    *)
               (* the percentage of its bitrate that the encoder yielded   *)
  Rounding,    (* costs this close (in tenths) may go either way           *)
  MaxUpdates   (* bound: calls of update()                                 *)

ASSUME MpcAssumption ==
  /\ Reports \subseteq (0 .. 1000) \X Nat
  /\ Rounding \in 0 .. 16 /\ MaxUpdates \in Nat

VARIABLES
  bw_est_kbps, enc_est_kbps, model_gain, loss_ema, current_loss, iteration,
  current_bitrate_kbps,
  restarts,              (* history: calls of restartFFmpeg()              *)
  outran                 (* history: more than 138% of its bitrate went    *)
                         (* out between two reports                        *)

estimates == <<bw_est_kbps, model_gain, loss_ema>>
vars == <<estimates, enc_est_kbps, current_loss, iteration, pacing_delay_us,
          current_bitrate_kbps, restarts, outran>>

Init ==
  /\ bw_est_kbps = 50000 /\ enc_est_kbps = 40000 /\ model_gain = 1000
  /\ loss_ema = 0 /\ current_loss = 0 /\ iteration = 0
  /\ pacing_delay_us = 3000 /\ current_bitrate_kbps = 500 /\ restarts = 0
  /\ outran = FALSE

Clamp(low, high, x) == IF x < low THEN low ELSE IF x > high THEN high ELSE x

-----------------------------------------------------------------------------
(* identify(): the moving averages, weighted by how bad the loss is. *)

(* Step 2, before the clamp. *)
Bandwidth(loss, tput) ==
  IF loss <= 5       THEN (85 * bw_est_kbps + 15 * (100 * tput)) \div 100
  ELSE IF loss <= 30 THEN (90 * bw_est_kbps + 10 * (100 * tput)) \div 100
  ELSE (80 * bw_est_kbps + 20 * ((tput * (1000 - loss)) \div 10)) \div 100

Gain(loss) ==
  IF loss <= 5       THEN (95 * model_gain + 5 * 500) \div 100
  ELSE IF loss <= 30 THEN (90 * model_gain + 10 * 1000) \div 100
  ELSE (85 * model_gain + 15 * 2000) \div 100

(* Fault: the estimate may sink to nothing. *)
IdentifyUnclamped(loss, tput) ==
  /\ loss_ema' = (7 * loss_ema + 3 * (10 * loss)) \div 10
  /\ bw_est_kbps' = Clamp(0, 1200000, Bandwidth(loss, tput))
  /\ model_gain' = Clamp(500, 3000, Gain(loss))

identify(loss, tput) ==
  /\ loss_ema' = (7 * loss_ema + 3 * (10 * loss)) \div 10
  /\ bw_est_kbps' = Clamp(10000, 1200000, Bandwidth(loss, tput))
  /\ model_gain' = Clamp(500, 3000, Gain(loss))

(* identify() clamps the encoder's estimate; update_encoder_est() moves it *)
(* after that, when nothing throttles the sender and hardly any is lost.   *)
EncoderEstimate(loss, tput) ==
  LET clamped == Clamp(5000, 1200000, enc_est_kbps)
  IN IF pacing_delay_us = 1000 /\ loss <= 10
     THEN (90 * clamped + 10 * (100 * tput)) \div 100
     ELSE clamped

-----------------------------------------------------------------------------
(* The choice, from the estimates as identify() has left them: `est` is a  *)
(* record of them. *)

measured_kbps(tput) == IF tput < 50 THEN 50 ELSE tput

(* Fault: a low throughput is always taken for the link's. *)
MeasuredRate(est, loss, tput) == measured_kbps(tput)

(* A low throughput without loss is the encoder's doing, not the link's. *)
effective_rate_kbps(est, loss, tput) ==
  IF loss <= 5 /\ 1000 * measured_kbps(tput) < 8 * est.enc
  THEN est.enc \div 100
  ELSE measured_kbps(tput)

rate_multipliers == {50, 67, 80, 90, 100, 111, 125}

Candidates(rate) == {Clamp(50, 12000, (rate * m) \div 100) : m \in rate_multipliers}

predict_loss(est, rate) ==
  LET over == rate - est.bw \div 100
  IN IF over <= 0 THEN 0 ELSE Clamp(0, 10000, (10 * est.gain * over) \div rate)

(* What the encoder makes bounds what gets through. *)
PredictedThroughput(est, rate) ==
  IF rate < est.enc \div 100 THEN 10 * rate ELSE est.enc \div 10

Decay(loss, raw) == (6 * loss + 4 * raw) \div 10

(* What the loss costs, less what the goodput earns. *)
StepCost(thru, loss) ==
  (12 * loss * loss) \div 100000 - (thru * (10000 - loss)) \div 10000

ChangeCost(rate, now) ==
  LET delta == ((rate - now) * 1000) \div now IN (delta * delta) \div 1000

(* Three steps ahead, the change of rate penalised. *)
evaluate_cost(est, rate, now) ==
  LET thru  == PredictedThroughput(est, rate)
      raw   == predict_loss(est, rate)
      one   == Decay(est.ema, raw)
      two   == Decay(one, raw)
      three == Decay(two, raw)
  IN StepCost(thru, one) + StepCost(thru, two) + StepCost(thru, three)
       + ChangeCost(rate, now)

Cheapest(est, now) ==
  LET cost == [rate \in Candidates(now) |-> evaluate_cost(est, rate, now)]
  IN {rate \in Candidates(now) :
        \A other \in Candidates(now) : cost[rate] <= cost[other] + Rounding}

pacing_to_rate_kbps(pacing) == 11168000 \div pacing
rate_to_pacing_us(rate)     == 11168000 \div rate

(* Near what the encoder can do there is nothing to throttle. *)
PacingFor(est, rate) ==
  IF 1000 * rate >= 9 * est.enc THEN 1000
  ELSE Clamp(1000, 100000, rate_to_pacing_us(rate))

update(loss, tput) ==
  /\ identify(loss, tput)
  /\ current_loss' = loss
  /\ enc_est_kbps' = EncoderEstimate(loss, tput)
  /\ iteration' = iteration + 1
  /\ LET est == [bw |-> bw_est_kbps', enc |-> enc_est_kbps',
                 gain |-> model_gain', ema |-> loss_ema']
     IN \E rate \in Cheapest(est, effective_rate_kbps(est, loss, tput)) :
          pacing_delay_us' = PacingFor(est, rate)

-----------------------------------------------------------------------------
(* The camera loop: 0.9 of the bandwidth estimate, within its limits. *)
TargetBitrate(bw) == Clamp(100, 1500, (9 * bw) \div 1000)

(* Fault: every difference is worth a restart. *)
AnyChange(target, br) == target # br

(* Fault: a twentieth is worth a restart. *)
SlightChange(target, br) == target - br > br \div 20 \/ br - target > br \div 20

BigChange(target, br) == target - br > br \div 4 \/ br - target > br \div 4

AdaptBitrate ==
  LET target == TargetBitrate(bw_est_kbps')
  IN IF BigChange(target, current_bitrate_kbps)
     THEN current_bitrate_kbps' = target /\ restarts' = restarts + 1
     ELSE UNCHANGED <<current_bitrate_kbps, restarts>>

(* adaptPacing() with a report at hand; without one it does nothing, and   *)
(* the target is what it was.  What went out since the last report is a    *)
(* share of the bitrate, and no more than the delay lets through.  The     *)
(* share exceeds 100% when a pipe that filled up while the sender was      *)
(* throttled, or the drain of a restart, is sent with the rest.            *)
Throughput(share) ==
  LET yield == (current_bitrate_kbps * share) \div 100
      limit == pacing_to_rate_kbps(pacing_delay_us)
  IN IF yield < limit THEN yield ELSE limit

Interval(report) ==
  LET tput == Throughput(report[2])
  IN /\ update(report[1], tput)
     /\ IF 100 * tput > 138 * current_bitrate_kbps
        THEN outran' = TRUE
        ELSE UNCHANGED outran

adaptPacing ==
  /\ iteration < MaxUpdates
  /\ \E report \in Reports : Interval(report)
  /\ AdaptBitrate

Next == adaptPacing

Spec == Init /\ [][Next]_vars

-----------------------------------------------------------------------------
Between(low, high, x) == x \in Int /\ low <= x /\ x <= high

WithinLimits ==
  /\ Between(10000, 1200000, bw_est_kbps)
  /\ Between(4500, 1200000, enc_est_kbps)
  /\ Between(500, 3000, model_gain)
  /\ Between(0, 10000, loss_ema)
  /\ Between(0, 1000, current_loss)
  /\ Between(0, MaxUpdates, iteration)
  /\ Between(1000, 100000, pacing_delay_us)
  /\ Between(100, 1500, current_bitrate_kbps)
  /\ restarts \in Nat

(* The estimates keep to their limits (the encoder's is below its own when *)
(* it is moved after the clamp), the delay and the bitrate to theirs.      *)
MpcTypeOK == WithinLimits /\ outran \in BOOLEAN

(* The estimate follows a throughput that follows the bitrate: whatever    *)
(* the link does and however long it is clean, the bitrate never rises,    *)
(* unless some interval sent more than 138% of what the encoder was set to.*)
BitrateOnlyFalls ==
  [][outran' \/ current_bitrate_kbps' <= current_bitrate_kbps]_vars

(* Short of such an interval each restart costs more than a quarter of the *)
(* bitrate and the lower limit stops it: the encoder is replaced five      *)
(* times at most, however long the sender runs.                            *)
FewRestarts == outran \/ restarts <= 5

(* Hardly anything is lost, and the link is thought to carry both what the *)
(* encoder makes and what has just gone out.                               *)
Unhindered(loss, tput) ==
  /\ loss <= 5
  /\ enc_est_kbps' <= bw_est_kbps' /\ 100 * tput <= bw_est_kbps'

(* Then one report is enough, from any history of the link, of the encoder *)
(* and of the delay: a sender that sent much less than the encoder makes   *)
(* is not throttled any longer, and no sender is throttled to less than    *)
(* four fifths of that.                                                    *)
EncoderNotThrottled ==
  [][\A report \in Reports :
       LET tput == Throughput(report[2]) IN
       Unhindered(report[1], tput) /\ Interval(report) =>
         /\ 1000 * measured_kbps(tput) < 8 * enc_est_kbps'
              => pacing_delay_us' = 1000
         /\ \/ pacing_delay_us' = 1000
            \/ 1000 * pacing_to_rate_kbps(pacing_delay_us') >= 8 * enc_est_kbps'
    ]_vars
-----------------------------------------------------------------------------
(* The inductive invariant behind the ratchet: what is left of the bitrate *)
(* after so many restarts, and an estimate that no more than 138% of it    *)
(* can have entered.  0.9 of that is not a quarter more than the bitrate.  *)
BitrateAfter == <<500, 374, 280, 209, 156, 116>>

Ratchet ==
  \/ outran
  \/ /\ restarts \in 0 .. 5
     /\ current_bitrate_kbps <= BitrateAfter[restarts + 1]
     /\ bw_est_kbps <= 138 * current_bitrate_kbps

MpcInv == MpcTypeOK /\ Ratchet
=============================================================================
