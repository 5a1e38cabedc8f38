--------------------------- MODULE EnsemblePolicy ---------------------------
(***************************************************************************)
(* The versioned ensemble policy (fraud_intel/ensemble/policy.py): the     *)
(* weighted operational score and the priority band.  Scores, weights and  *)
(* thresholds are integers in hundredths.                                  *)
(***************************************************************************)
EXTENDS Integers, FiniteSets

Bands == {"LOW", "MEDIUM", "HIGH"}
Severity(band) == CASE band = "LOW" -> 0 [] band = "MEDIUM" -> 1 [] band = "HIGH" -> 2

MaxBand(a, b) == IF Severity(a) >= Severity(b) THEN a ELSE b

Clipped(x, low, high) == IF x < low THEN low ELSE IF x > high THEN high ELSE x

\* A part that failed counts as 0; the other weights are not renormalised.
PriorityScore(rule, gbm, anomaly, graph, policy) ==
    LET normalized == (100 * Clipped(rule, 0, policy.ruleCap)) \div policy.ruleCap
        weighted   == policy.ruleWeight * normalized + policy.gbmWeight * gbm
                        + policy.anomalyWeight * anomaly + policy.graphWeight * graph
    IN  Clipped(weighted \div 100, 0, 100)

ThresholdBand(score, policy) ==
    IF score >= policy.high THEN "HIGH" ELSE IF score >= policy.medium THEN "MEDIUM" ELSE "LOW"

BandPriority(score, mandatory, status, floor, policy) ==
    IF mandatory THEN "HIGH"
    ELSE IF status \in {"UNAVAILABLE", "ERROR"} /\ floor # "none"
    THEN MaxBand(ThresholdBand(score, policy), floor)
    ELSE ThresholdBand(score, policy)

ValidEnsemblePolicy(p) ==
    /\ {p.ruleWeight, p.gbmWeight, p.anomalyWeight, p.graphWeight} \subseteq Nat
    /\ p.ruleCap \in Nat \ {0}
    /\ p.medium \in 0..100 /\ p.high \in 0..100 /\ p.medium <= p.high
=============================================================================
