-------------------------- MODULE MCLiveEvaluation --------------------------
EXTENDS LiveEvaluation

Times == [a \in Alerts |-> IF a = 3 THEN 2 ELSE 1]

Conclusion(score, rules, band) == [score |-> score, rules |-> rules, band |-> band]
Surely == Conclusion(60, 10, "HIGH")
Hardly == Conclusion(30, 80, "LOW")
ScoresOfBundles == (1 :> (1 :> {Surely, Hardly} @@ 2 :> {Hardly} @@ 3 :> {Surely}))
                   @@ (2 :> [a \in Alerts |-> {Conclusion(45, 40, "MEDIUM")}])

Label(frauds) == [a \in Alerts |-> IF a \in frauds THEN "RESOLVED_FRAUD" ELSE "RESOLVED_LEGITIMATE"]
SomeFraud == {Label({2, 3})}

Weights(rule) == [ruleWeight |-> rule, gbmWeight |-> 40, anomalyWeight |-> 15, graphWeight |-> 10,
                  ruleCap |-> 100, high |-> 75, medium |-> 40]
TwoPolicies == [v1 |-> Weights(35), v2 |-> Weights(5)]
PinFirst == [b \in Bundles |-> "v1"]

Counts(fraud, legitimate) == [fraud |-> fraud, legitimate |-> legitimate]
Report(counts, prAuc) == [counts |-> [s \in Splits |-> counts], prAuc |-> prAuc,
                          generation |-> "g1", dataset |-> "d1", intact |-> TRUE]
TwoReports == (1 :> Report(Counts(5, 15), 26)) @@ (2 :> [Report(Counts(5, 5), 50) EXCEPT !.dataset = "d2"])

Request(candidate, mode, capacity, target) ==
    [candidate |-> candidate, capacity |-> [mode |-> mode, value |-> capacity], target |-> target]
SomeRequests == {Request(None, "fraction", <<1, 4>>, <<1, 1>>), Request(1, "count", <<2, 1>>, <<1, 2>>)}
=============================================================================
