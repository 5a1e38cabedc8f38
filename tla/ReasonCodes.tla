---------------------------- MODULE ReasonCodes ----------------------------
(***************************************************************************)
(* The explanation of a score (fraud_intel/reason_codes/builder.py).  A    *)
(* reason code is [code, layer, severity]; its text and its place in the   *)
(* list, which only order what a reviewer is shown, are left out.          *)
(***************************************************************************)
EXTENDS Integers, FiniteSets

MaxGbmCodes        == 5
SharedDeviceFlag   == 2
FanInFlag          == 3
NearFraudHops      == 2

Code(code, layer, severity) == [code |-> code, layer |-> layer, severity |-> severity]
Maybe(condition, code) == IF condition THEN {code} ELSE {}

RuleSeverity(category) ==
    CASE category = "MANDATORY_REVIEW"   -> "mandatory"
      [] category = "SCORE_CONTRIBUTING" -> "contributing"
      [] category = "INFORMATIONAL"      -> "informational"

\* First occurrence wins, in a list or under increasing places of one.
Deduped(codes) ==
    {codes[i] : i \in {j \in DOMAIN codes :
                          \A k \in DOMAIN codes : k < j => codes[k].code # codes[j].code}}

Unavailable(layer) == Code(<<"UNAVAILABLE", layer>>, layer, "informational")

UpstreamCodes(codes) ==
    Deduped([i \in DOMAIN codes |-> Code(<<"UPSTREAM", codes[i]>>, "rule", "informational")])

RuleCodes(rules) ==
    Deduped([i \in DOMAIN rules.fired |->
                Code(<<"RULE", rules.fired[i].reason>>, "rule", RuleSeverity(rules.fired[i].category))])
      \cup Maybe(rules.status # "OK", Code(<<"UNAVAILABLE", "rules">>, "rule", "informational"))

Abs(x) == IF x < 0 THEN -x ELSE x

\* The largest contributions in absolute value, ties by feature name (its rank here).
GbmCodes(contributions) ==
    LET Before(f) == {g \in DOMAIN contributions :
                         \/ Abs(contributions[g]) > Abs(contributions[f])
                         \/ Abs(contributions[g]) = Abs(contributions[f]) /\ g < f}
        top == {f \in DOMAIN contributions : Cardinality(Before(f)) < MaxGbmCodes}
    IN  {Code(<<"GBM_FEATURE", f>>, "gbm", "contributing") : f \in top}

AnomalyCodes(anomaly, flag) ==
    Maybe(anomaly >= flag, Code(<<"ANOMALY_SCORE_ELEVATED">>, "anomaly", "contributing"))

GraphCodes(devices, fanIn, hops) ==
    Maybe(devices >= SharedDeviceFlag, Code(<<"SHARED_DEVICE_RING">>, "graph", "contributing"))
      \cup Maybe(fanIn >= FanInFlag, Code(<<"RAPID_RECIPIENT_FAN_IN">>, "graph", "contributing"))
      \cup Maybe(hops >= 0 /\ hops <= NearFraudHops,
                 Code(<<"NEAR_FRAUD_LINKED_ENTITY">>, "graph", "contributing"))

BuildCodesHiding(upstream, rules, gbm, anomaly, graph, flag) ==
    \* variant: a degraded layer simply has no codes
    UpstreamCodes(upstream) \cup RuleCodes(rules)
        \cup (IF gbm.status = "OK" THEN GbmCodes(gbm.contributions) ELSE {})
        \cup (IF anomaly.status = "OK" THEN AnomalyCodes(anomaly.score, flag) ELSE {})
        \cup (IF graph.status = "OK" THEN GraphCodes(graph.devices, graph.fanIn, graph.hops) ELSE {})

\* A degraded layer has its own code instead of its others.  Codes of different
\* layers and prefixes never coincide, so each list is deduplicated by itself.
BuildCodes(upstream, rules, gbm, anomaly, graph, flag) ==
    UpstreamCodes(upstream) \cup RuleCodes(rules)
        \cup (IF gbm.status = "OK" THEN GbmCodes(gbm.contributions) ELSE {Unavailable("gbm")})
        \cup (IF anomaly.status = "OK" THEN AnomalyCodes(anomaly.score, flag)
              ELSE {Unavailable("anomaly")})
        \cup (IF graph.status = "OK" THEN GraphCodes(graph.devices, graph.fanIn, graph.hops)
              ELSE {Unavailable("graph")})
=============================================================================
