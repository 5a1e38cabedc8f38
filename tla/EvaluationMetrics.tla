------------------------- MODULE EvaluationMetrics -------------------------
(***************************************************************************)
(* The metrics of fraud_intel/evaluation: one channel's evaluation         *)
(* (cross_channel.py), the shadow comparison (shadow_candidate.py), the    *)
(* review capacity (capacity.py) and the cold-start gate (cold_start.py).  *)
(*                                                                         *)
(* An outcome is [alert, time, score, baseline, band, fraud]; scores are   *)
(* hundredths, a share is <<numerator, denominator>> and divisions are     *)
(* exact.  PR-AUC, ROC-AUC and the Brier score, scikit-learn's, are        *)
(* computable exactly when accuracy is, and only their status is kept.     *)
(***************************************************************************)
EXTENDS EnsemblePolicy, Sequences, SequencesExt

\* MetricValue.
Value(n, d)    == [status |-> "ok", num |-> n, den |-> d]
NoMetric(why)  == [status |-> why, num |-> 0, den |-> 1]
SingleClass    == NoMetric("non_computable_single_class")
Empty          == NoMetric("non_computable_empty")

\* capacity.py: at least one and never more than there are; math.ceil of a fraction.
CapacityCount(capacity, total) ==
    LET ceiling == (capacity.value[1] * total + capacity.value[2] - 1) \div capacity.value[2]
        wanted  == IF capacity.mode = "count" THEN capacity.value[1] ELSE IF ceiling < 1 THEN 1 ELSE ceiling
    IN  IF wanted > total THEN total ELSE wanted

\* _rank and _rank_ids: a score column descending, then the event time, then the id.
RankedBy(rows, column) ==
    SetToSortSeq(rows, LAMBDA a, b :
        \/ a[column] > b[column]
        \/ a[column] = b[column] /\ a.time < b.time
        \/ a[column] = b[column] /\ a.time = b.time /\ a.alert < b.alert)

Frauds(rows) == {o \in rows : o.fraud}
FirstOf(ranked, n) == {ranked[i] : i \in 1..n}

ReachesTargetBeyond(ranked, n, target) ==    \* variant: strictly above the target
    LET all == Cardinality(Frauds(ToSet(ranked)))
    IN  Cardinality(Frauds(FirstOf(ranked, n))) * target[2] > target[1] * all

\* The first n of the ranking hold at least the target share of the frauds.
ReachesTarget(ranked, n, target) ==
    LET all == Cardinality(Frauds(ToSet(ranked)))
    IN  Cardinality(Frauds(FirstOf(ranked, n))) * target[2] >= target[1] * all

\* The smallest prefix that does, or 0 when none (or without a fraud).
MinimumAlerts(ranked, target) ==
    LET reaching == {n \in 1..Len(ranked) : ReachesTarget(ranked, n, target)}
    IN  IF Frauds(ToSet(ranked)) = {} \/ reaching = {} THEN 0
        ELSE CHOOSE n \in reaching : \A m \in reaching : n <= m

Guard(rows) ==
    IF rows = {} THEN "non_computable_empty"
    ELSE IF Frauds(rows) \in {{}, rows} THEN "non_computable_single_class" ELSE "ok"

Flagged(o) == o.band \in {"MEDIUM", "HIGH"}

\* evaluate_channel.
EvaluateChannel(outcomes, capacity, target) ==
    LET total    == Cardinality(outcomes)
        fraud    == Cardinality(Frauds(outcomes))
        guard    == Guard(outcomes)
        ranked   == RankedBy(outcomes, "score")
        reviewed == CapacityCount(capacity, total)
        captured == Cardinality(Frauds(FirstOf(ranked, reviewed)))
        minimum  == MinimumAlerts(ranked, target)
        tp == Cardinality({o \in outcomes : Flagged(o) /\ o.fraud})
        fp == Cardinality({o \in outcomes : Flagged(o) /\ ~o.fraud})
        Guarded(metric) == IF guard # "ok" THEN NoMetric(guard) ELSE metric
        baseline == Cardinality(Frauds(FirstOf(RankedBy(outcomes, "baseline"), reviewed)))
    IN  [total |-> total, fraud |-> fraud, legitimate |-> total - fraud,
         confusion |-> IF guard # "ok" THEN [tp |-> 0, fp |-> 0, fn |-> 0, tn |-> 0]
                       ELSE [tp |-> tp, fp |-> fp, fn |-> fraud - tp, tn |-> total - fraud - fp],
         precision |-> Guarded(IF tp + fp > 0 THEN Value(tp, tp + fp) ELSE SingleClass),
         recall    |-> Guarded(Value(tp, fraud)),
         accuracy  |-> Guarded(Value(tp + total - fraud - fp, total)),
         bands     |-> [b \in Bands |-> [alerts |-> Cardinality({o \in outcomes : o.band = b}),
                                         fraud  |-> Cardinality({o \in Frauds(outcomes) : o.band = b})]],
         reviewed  |-> reviewed, captured |-> captured,
         precisionAtCapacity |-> IF total = 0 THEN Empty ELSE Value(captured, reviewed),
         recallAtCapacity |-> IF total = 0 THEN Empty
                              ELSE IF fraud = 0 THEN SingleClass ELSE Value(captured, fraud),
         minimum   |-> minimum,
         workloadReduction |-> IF fraud = 0 THEN SingleClass
                               ELSE IF minimum = 0 THEN NoMetric("non_computable_unreachable_target")
                               ELSE Value(total - minimum, total),
         falsePositiveReduction |-> IF total = fraud THEN SingleClass
                                    ELSE Value(total - fraud - fp, total - fraud),
         baselineRecallAtCapacity |-> Guarded(Value(baseline, fraud))]

-----------------------------------------------------------------------------
(* shadow_candidate.py.                                                     *)

\* _scalar_metrics of one score column over the matched rows.
ScalarMetrics(rows, capacity, target) ==
    LET ranked   == RankedBy(rows, "score")
        total    == Cardinality(rows)
        reviewed == FirstOf(ranked, CapacityCount(capacity, total))
        minimum  == MinimumAlerts(ranked, target)
        Guarded(metric) == IF Guard(rows) # "ok" THEN NoMetric(Guard(rows)) ELSE metric
    IN  [reviewed  |-> {o.alert : o \in reviewed},
         captured  |-> Cardinality(Frauds(reviewed)),
         precision |-> Guarded(Value(Cardinality(Frauds(reviewed)), Cardinality(reviewed))),
         recall    |-> Guarded(Value(Cardinality(Frauds(reviewed)), Cardinality(Frauds(rows)))),
         workload  |-> Guarded(IF minimum = 0 THEN NoMetric("non_computable_unreachable_target")
                               ELSE Value(total - minimum, total))]

\* _delta: the candidate's reason when both sides have one.
Delta(candidate, operational) ==
    IF candidate.status # "ok" THEN candidate
    ELSE IF operational.status # "ok" THEN operational
    ELSE Value(candidate.num * operational.den - operational.num * candidate.den,
               candidate.den * operational.den)

GainedReviewed(matched, ours, theirs) ==     \* variant: every alert newly reviewed counts
    Cardinality(theirs.reviewed \ ours.reviewed)

\* The frauds the candidate's ranking brings under review that the other does not.
Gained(matched, ours, theirs) ==
    Cardinality({o \in Frauds(matched) : o.alert \in theirs.reviewed \ ours.reviewed})

\* compare_operational_vs_candidate: the labels are the operational side's.
Compare(outcomes, shadow, capacity, target) ==
    LET ids       == {o.alert : o \in outcomes}
        shadowed  == {s.alert : s \in shadow}
        matched   == {o \in outcomes : o.alert \in shadowed}
        ShadowOf(o)  == CHOOSE s \in shadow : s.alert = o.alert
        candidate == {[o EXCEPT !.score = ShadowOf(o).score, !.band = ShadowOf(o).band] : o \in matched}
        ours      == ScalarMetrics(matched, capacity, target)
        theirs    == ScalarMetrics(candidate, capacity, target)
        union     == ours.reviewed \cup theirs.reviewed
        Moved(from, to) == Cardinality({o \in matched : o.band = from /\ ShadowOf(o).band = to})
    IN  [matched |-> Cardinality(matched),
         operationalOnly |-> Cardinality(ids \ shadowed), candidateOnly |-> Cardinality(shadowed \ ids),
         precisionDelta |-> Delta(theirs.precision, ours.precision),
         recallDelta    |-> Delta(theirs.recall, ours.recall),
         workloadDelta  |-> Delta(theirs.workload, ours.workload),
         migration  |-> [from \in Bands, to \in Bands |-> Moved(from, to)],
         meanDifference |-> IF matched = {} THEN Empty
                            ELSE Value(MapThenSumSet(LAMBDA o : ShadowOf(o).score - o.score, matched),
                                       Cardinality(matched)),
         disagreement |-> IF union = {} THEN Empty
                          ELSE Value(Cardinality(union) - Cardinality(ours.reviewed \cap theirs.reviewed),
                                     Cardinality(union)),
         capturedOperational |-> ours.captured, capturedCandidate |-> theirs.captured,
         gained |-> Gained(matched, ours, theirs), lost |-> Gained(matched, theirs, ours)]

-----------------------------------------------------------------------------
(* cold_start.py: a report is [counts, prAuc, generation, dataset, intact].  *)

Splits == {"train", "calibration", "test"}

\* evaluate_cold_start_promotion_gate: enough of each class, and better than guessing.
ColdStartGate(report, minClassCount) ==
    LET test == report.counts["test"]
    IN  /\ \A s \in Splits : /\ report.counts[s].fraud >= minClassCount
                             /\ report.counts[s].legitimate >= minClassCount
        /\ test.fraud + test.legitimate > 0
        /\ report.prAuc * (test.fraud + test.legitimate) > 100 * test.fraud
=============================================================================
