--------------------------- MODULE BitrateControl ---------------------------
(***************************************************************************)
(* The adaptive half of a MediaSession: the CongestionController of        *)
(* rtp/session.rs turns feedback into a target bitrate, the BitrateBridge  *)
(* of session/bitrate_bridge.rs writes it to the codec, with hysteresis.   *)
(*                                                                         *)
(* Elapsed times are choices of the environment: whether the last decrease *)
(* is less than an RTT ago, the last increase less than 100 ms, the last   *)
(* write to the codec less than min_interval.  The RTT itself (on_rtt) is  *)
(* only compared with elapsed times and is left out.                       *)
(***************************************************************************)
EXTENDS Integers, FiniteSetsExt

CONSTANTS
  InitialRate, MinRate, MaxRate,  \* CongestionController::new
  PacketBits,                     \* 1200 * 8: bits of a packet
  Step,                           \* the least additive increase (10 kbit/s)
  Rembs,                          \* receiver estimates that may arrive
  MaxFeedback, MaxCount           \* bounds: feedback messages, counted packets

ASSUME BitrateAssumption ==
  /\ InitialRate \in Nat /\ MinRate \in Nat /\ MaxRate \in Nat
  /\ MinRate <= InitialRate /\ InitialRate <= MaxRate
  /\ PacketBits \in Nat \ {0} /\ Step \in Nat \ {0}
  /\ Rembs \subseteq Nat

VARIABLES cc,       \* the CongestionController
          applied,  \* last_applied_bps of the bridge, the bitrate of the codec
          feedback  \* feedback messages so far

bcVars == <<cc, applied, feedback>>
NoRate == -1

NewController ==
  [state |-> "SlowStart", target |-> InitialRate, max |-> MaxRate,
   ssthresh |-> MaxRate \div 2, nacks |-> 0, packets |-> 0, remb |-> NoRate]

on_packet_sent(c) == [c EXCEPT !.packets = @ + 1]

on_nack(c, lost, recent) ==
  LET halved == Max({c.target \div 2, MinRate})
      counted == [c EXCEPT !.nacks = @ + lost]
  IN IF recent THEN counted
     ELSE [counted EXCEPT !.target = halved, !.ssthresh = halved, !.state = "Recovery"]

\* Mutant: an estimate bounds later increases and leaves the target alone.
on_remb_CeilingOnly(c, bitrate) == [c EXCEPT !.remb = bitrate, !.max = Min({@, bitrate})]

on_remb(c, bitrate) ==
  LET lowered == Max({bitrate, MinRate})
      reduced == IF bitrate < (c.target * 90) \div 100
                 THEN [c EXCEPT !.target = lowered, !.ssthresh = lowered,
                                !.state = "CongestionAvoidance"]
                 ELSE c
  IN [reduced EXCEPT !.remb = bitrate, !.max = Min({@, bitrate})]

\* loss_ratio > 0.02
SignificantLoss(c) == c.packets > 0 /\ c.nacks * 50 > c.packets

SlowStartRate(c) == Min({c.target + c.target \div 10, c.max})
AdditiveRate(c) ==
  LET raised == Min({c.target + Max({(c.target \div PacketBits) \div 10, Step}), c.max})
  IN IF c.remb = NoRate THEN raised ELSE Min({raised, c.remb})

update(c, soon) ==
  LET fresh == [c EXCEPT !.nacks = 0, !.packets = 0] IN
  IF SignificantLoss(c) \/ soon THEN fresh
  ELSE IF c.state = "SlowStart"
       THEN [fresh EXCEPT !.target = SlowStartRate(c),
                          !.state = IF SlowStartRate(c) >= c.ssthresh
                                    THEN "CongestionAvoidance" ELSE @]
       ELSE [fresh EXCEPT !.target = AdditiveRate(c)]

\* reset keeps max_bitrate and the state of the clock.
resetController(c) ==
  [c EXCEPT !.state = "SlowStart", !.target = InitialRate, !.ssthresh = c.max \div 2,
            !.nacks = 0, !.packets = 0, !.remb = NoRate]

-----------------------------------------------------------------------------
\* Mutant: only decreases are seen, the difference has lost its absolute value.
ShouldApply_Decrease(new, last, waited) ==
  last \in {NoRate, 0} \/ (waited /\ (last - new) * 20 >= last)

\* Whether the bridge hands the target to the codec.
ShouldApply(new, last, waited) ==
  \/ last \in {NoRate, 0}
  \/ waited /\ Max({new - last, last - new}) * 20 >= last

\* poll: the codec's bitrate afterwards; a codec that refuses leaves it alone.
poll(new, last, waited, accepted) ==
  IF ShouldApply(new, last, waited) /\ accepted THEN new ELSE last

-----------------------------------------------------------------------------
BcInit == cc = NewController /\ applied = NoRate /\ feedback = 0

PacketSent ==
  /\ cc.packets < MaxCount
  /\ cc' = on_packet_sent(cc)
  /\ UNCHANGED <<applied, feedback>>

Feedback ==
  /\ feedback < MaxFeedback
  /\ feedback' = feedback + 1
  /\ \/ \E recent \in BOOLEAN : cc' = on_nack(cc, 1, recent)
     \/ \E bitrate \in Rembs : cc' = on_remb(cc, bitrate)
     \/ cc' = resetController(cc)
  /\ UNCHANGED applied

\* MediaSession::tick: update, then poll with the new target.
tick(soon, waited, accepted) ==
  /\ cc' = update(cc, soon)
  /\ applied' = poll(cc'.target, applied, waited, accepted)
  /\ UNCHANGED feedback

BcNext ==
  \/ PacketSent
  \/ Feedback
  \/ \E soon, waited, accepted \in BOOLEAN : tick(soon, waited, accepted)

\* MediaSession::tick is called for ever, also at times when the intervals
\* have passed and the codec accepts the rate.
BcSpec == BcInit /\ [][BcNext]_bcVars /\ WF_bcVars(tick(FALSE, TRUE, TRUE))

-----------------------------------------------------------------------------
(* A receiver estimate bounds the target: it is exceeded by a tenth at most,
   until the next update, or by the configured minimum. *)
CeilingHeld ==
  cc.remb # NoRate => (cc.target * 90) \div 100 <= cc.remb \/ cc.target <= MinRate

(* Once the codec has a rate it ends within the hysteresis of the target,
   however the target crept there: suppressed changes add up. *)
CodecFollows ==
  applied # NoRate ~> [](Max({cc.target - applied, applied - cc.target}) * 20
                           < Max({applied, 1}))
=============================================================================
