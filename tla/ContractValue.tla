---------------------------- MODULE ContractValue ----------------------------
(***************************************************************************)
(* What a TED notice's money becomes on the event: the value rules of the  *)
(* cleaning stage (src/src/etl/cleaning), the confidence scorer            *)
(* (contract_confidence.py), and what load_ted_contracts.py does with      *)
(* their verdicts.                                                         *)
(*                                                                         *)
(* An amount is the power of ten next to it, in EUR, or one of the three   *)
(* codes; so "a ratio of 900 to 1100" is a difference of 3.  Confidence is *)
(* in percent.                                                             *)
(***************************************************************************)
EXTENDS Integers

CONSTANTS
  MaxPower,   \* bound: published amounts are up to 10^MaxPower EUR
  PeerPowers  \* bound: p90 of the peer groups, as powers of ten

ASSUME ContractValueBounds == MaxPower \in Nat /\ PeerPowers \subseteq Nat

VARIABLES
  facts,  \* the notice: ValueFacts, and what else the value rules look at
  valued  \* what its contract event says of money

valueVars == <<facts, valued>>

Missing == -99
BelowZero == -98
Nil == -97
Positive(a) == a > -90
Power == 0..MaxPower
Amount == Power \union {Missing, BelowZero, Nil}

Gap(a, b) == IF a >= b THEN a - b ELSE b - a

\* estimate, total, payable; country: the buyer's; cents: the amount with the
\* embedded-cents fingerprint; peers: p90 of the peer group, or Missing;
\* placeholder: the gateway's watermark date or reference.
NoticeMoney == [est : Amount, tot : Amount, pay : Amount,
                country : {"PRT", "DEU"}, cents : {"none", "est", "tot", "pay"},
                peers : PeerPowers \union {Missing}, placeholder : BOOLEAN]

----------------------------------------------------------------------------
(* scale_normalization.py.                                                 *)

IsX1000(a, b) == Positive(a) /\ Positive(b) /\ a - b = 3
Scaled(a) == IF Positive(a) THEN a - 3 ELSE a
RatioCorrectable(f, field) == field = f.cents \/ f.country = "PRT"

\* ValueFacts.chosen_eur.
ChosenOf(f) == IF Positive(f.tot) THEN f.tot
               ELSE IF Positive(f.pay) THEN f.pay ELSE Missing

\* Tier A: a sane sibling proves the scale.
TotalLeaks(f) == IsX1000(f.tot, f.est) /\ RatioCorrectable(f, "tot")
EstimateLeaks(f) == IsX1000(f.est, f.tot) /\ RatioCorrectable(f, "est")
PayableLeaks(f) ==
  f.tot = Missing /\ IsX1000(f.pay, f.est) /\ RatioCorrectable(f, "pay")
RatioTier(f) == TotalLeaks(f) \/ EstimateLeaks(f) \/ PayableLeaks(f)

RatioCorrected(f) ==
  IF TotalLeaks(f)
    THEN [f EXCEPT !.tot = Scaled(@),
                   !.pay = IF IsX1000(@, f.est) THEN Scaled(@) ELSE @]
  ELSE IF EstimateLeaks(f) THEN [f EXCEPT !.est = Scaled(@)]
  ELSE [f EXCEPT !.pay = Scaled(@)]

\* Mutant: the floor of tier B is ten times too low.
PriorTier_LowFloor(f) ==
  LET chosen == IF f.tot # Missing THEN f.tot
                ELSE IF f.pay # Missing THEN f.pay ELSE f.est
  IN /\ f.country = "PRT" /\ ~RatioTier(f)
     /\ f.est # Missing => ~IsX1000(chosen, f.est) /\ ~IsX1000(f.est, chosen)
     /\ chosen >= 8 /\ chosen - 3 \in 4..8

\* Tier B: consistent, at 10^9 or more, on a gateway known to leak, and
\* plausible once divided.
PriorTier(f) ==
  LET chosen == IF f.tot # Missing THEN f.tot
                ELSE IF f.pay # Missing THEN f.pay ELSE f.est
  IN /\ f.country = "PRT" /\ ~RatioTier(f)
     /\ f.est # Missing => ~IsX1000(chosen, f.est) /\ ~IsX1000(f.est, chosen)
     /\ chosen >= 9 /\ chosen - 3 \in 4..8

PriorCorrected(f) ==
  [f EXCEPT !.est = Scaled(@), !.tot = Scaled(@), !.pay = Scaled(@)]

----------------------------------------------------------------------------
(* _run_value_rules: each rule sees the facts as the one before left them, *)
(* and a quarantine ends it.                                               *)

\* The milli-euro rules apply to a notice with an award value or an estimate.
Measurable(f) == ChosenOf(f) # Missing \/ f.est # Missing

Step(f, tier, applies, corrected) ==
  IF Measurable(f.money) /\ applies
    THEN [money |-> corrected, tier |-> tier] ELSE f

AfterRatio(f) ==
  Step([money |-> f, tier |-> "none"], "ratio", RatioTier(f), RatioCorrected(f))

Rescaled(f) ==
  LET r == AfterRatio(f) IN
  Step(r, "country_prior", PriorTier(r.money), PriorCorrected(r.money))

\* ValuePeerOutlierRule: over 50 times p90, or 20 with the watermark; both
\* are between one power of ten and two.
PeerOutlier(f) ==
  /\ f.peers # Missing /\ ChosenOf(f) # Missing
  /\ ChosenOf(f) - f.peers >= IF f.placeholder THEN 1 ELSE 2

\* Whether a correction lands within the peers' p10..p99, which are taken as
\* a power of ten around p90.
PeerReason(f) ==
  IF \E d \in {2, 3} : ChosenOf(f) - d \in f.peers - 1 .. f.peers + 1
    THEN "ambiguous_scale" ELSE "implausible_vs_peers"

----------------------------------------------------------------------------
(* contract_confidence.py.                                                 *)

\* exp(-(gap/0.7)^2): 1, 0.13, 0 for 0, 1, 2 powers of ten.
Agreement(a, b) == CASE Gap(a, b) = 0 -> 100 [] Gap(a, b) = 1 -> 13 [] OTHER -> 0

\* The estimate has weight 1 and the payable 0.4; without an estimate a prior,
\* which a payable that agrees raises to its cap.
Consistency(f) ==
  LET chosen == ChosenOf(f)
      crosscheck == Positive(f.tot) /\ Positive(f.pay)
      paid == IF crosscheck THEN Agreement(chosen, f.pay) ELSE 0
  IN IF Positive(f.est)
       THEN IF crosscheck THEN (10 * Agreement(chosen, f.est) + 4 * paid) \div 14
                          ELSE Agreement(chosen, f.est)
       ELSE IF crosscheck /\ Gap(chosen, f.pay) = 0 THEN 75 ELSE 60

\* 1 up to 10^9, 0 from 10^11.5.
Plausibility(a) ==
  CASE a <= 9 -> 100 [] a = 10 -> 60 [] a = 11 -> 20 [] OTHER -> 0

Score(f) ==
  LET chosen == ChosenOf(f)
      consistency == Consistency(f)
      plausibility == Plausibility(chosen)
      confidence == (consistency * plausibility) \div 100
      Result(flag, value, conf) ==
        [flag |-> flag, value |-> value, confidence |-> conf, low |-> conf < 50]
  IN IF BelowZero \in {f.tot, f.pay}
       THEN [Result("concession_negative", BelowZero, 0) EXCEPT !.low = TRUE]
     ELSE IF chosen = Missing
       THEN IF Nil \in {f.tot, f.pay} THEN Result("zero_value", Nil, 0)
            ELSE Result("no_awarded_value", Missing, 0)
     ELSE Result(
            IF confidence >= 50 THEN "ok"
            ELSE IF Positive(f.est) /\ consistency < plausibility
              THEN "value_disagreement"
            ELSE IF ~Positive(f.est) /\ plausibility >= 50
              THEN "unverified_single_signal"
            ELSE "implausible_magnitude",
            chosen, confidence)

ReviewFlags ==
  {"implausible_magnitude", "concession_negative", "unverified_single_signal"}

\* ConfidenceResult.quarantined, needs_review.
Quarantined(score) ==
  \/ score.flag = "zero_value"
  \/ score.flag \in ReviewFlags \ {"implausible_magnitude"}
  \/ score.flag = "implausible_magnitude" /\ score.confidence < 5

----------------------------------------------------------------------------
(* _scored, _apply_value_decision.                                         *)

Event(value, est, pay, flag, low, tier, reason, review) ==
  [value |-> value, est |-> est, pay |-> pay, flag |-> flag, low |-> low,
   tier |-> tier, withheld |-> reason, review |-> review]

\* A decision is one of keep, rescale and quarantine: on a quarantine the
\* scorer sees the money as published.
Applied(f) ==
  LET r == Rescaled(f)
      outlier == PeerOutlier(r.money)
      money == IF outlier THEN f ELSE r.money
      tier == IF outlier THEN "none" ELSE r.tier
      score == Score(money)
  IN IF Quarantined(score)
       THEN IF score.flag = "zero_value"
              THEN Event(Missing, money.est, money.pay, score.flag, score.low,
                         tier, score.flag, FALSE)
              ELSE Event(Missing, Missing, Missing, score.flag, score.low, tier,
                         score.flag, TRUE)
     ELSE IF outlier /\ score.value # Missing
       THEN Event(Missing, Missing, Missing, score.flag, score.low, tier,
                  PeerReason(r.money), TRUE)
     ELSE Event(score.value, money.est, money.pay, score.flag, score.low, tier,
                "none", FALSE)

Undecided == Event(Missing, Missing, Missing, "none", TRUE, "none", "none", FALSE)

ValueInit == facts \in NoticeMoney /\ valued = Undecided

Decide ==
  /\ valued = Undecided
  /\ valued' = Applied(facts)
  /\ UNCHANGED facts

ValueNext == Decide
ValueSpec == ValueInit /\ [][ValueNext]_valueVars

----------------------------------------------------------------------------
(* Properties.                                                             *)

Decided == valued # Undecided

\* The notice as it was before the gateway multiplied its amounts by 1000, and
\* which of them it did that to.
LeakOf(true, leaked) ==
  [est |-> IF "est" \in leaked THEN true + 3 ELSE true,
   tot |-> IF "tot" \in leaked THEN true + 3 ELSE true]

\* A Portuguese notice whose estimate and total agreed on a plausible amount
\* gets it back, whichever of the two the gateway multiplied - if only one, or
\* if both end at 10^9 or more - unless the peers make it an outlier; and a
\* notice that was not touched keeps its amount.
LeakUndone ==
  \A true \in 0..8, leaked \in SUBSET {"est", "tot"} :
    /\ Decided /\ facts.country = "PRT"
    /\ [est |-> facts.est, tot |-> facts.tot] = LeakOf(true, leaked)
    /\ facts.pay \in {Missing, facts.tot}
    /\ leaked = {"est", "tot"} => true >= 6
    /\ ~PeerOutlier(Rescaled(facts).money)
    => valued.value = true /\ ~valued.low

\* A value that counts in aggregates is at most 10^10, and agrees with the
\* estimate if one was published: "a corrupted total+payable pair can never
\* out-vote a sane estimate".
AggregatedIsSane ==
  Decided /\ valued.value # Missing /\ ~valued.low =>
    /\ valued.value <= 10
    /\ Positive(valued.est) => valued.est = valued.value

\* What a notice shows: a leak is undone where it can be told, and what counts in
\* aggregates is plausible.
StatedValueIsSane == LeakUndone /\ AggregatedIsSane
=============================================================================
