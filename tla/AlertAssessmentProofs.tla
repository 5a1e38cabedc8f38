----------------------- MODULE AlertAssessmentProofs -----------------------
(***************************************************************************)
(* Theorems about AlertAssessment for any draws of the generators, any     *)
(* rule files, policies and answers of the models, any bounds of the       *)
(* history and of the graph and any number of failing parts and            *)
(* assessments.                                                            *)
(***************************************************************************)
EXTENDS AlertAssessment, WellFoundedInduction, TLAPS

-----------------------------------------------------------------------------
(* The priority band.                                                       *)

LEMMA HigherBand ==
    ASSUME NEW a \in Bands, NEW b \in Bands
    PROVE  /\ MaxBand(a, b) \in Bands
           /\ MaxBand(a, b) = "LOW" <=> a = "LOW" /\ b = "LOW"
           /\ a = "HIGH" \/ b = "HIGH" => MaxBand(a, b) = "HIGH"
<1>1. /\ Severity("LOW") = 0 /\ Severity("MEDIUM") = 1 /\ Severity("HIGH") = 2
  BY DEF Severity
<1> QED BY <1>1 DEF Bands, MaxBand

LEMMA BandIsKept ==
    ASSUME NEW score, NEW mandatory \in BOOLEAN, NEW status,
           NEW floor \in Bands \cup {"none"}, NEW policy
    PROVE  /\ BandPriority(score, mandatory, status, floor, policy) \in Bands
           /\ mandatory => BandPriority(score, mandatory, status, floor, policy) = "HIGH"
           /\ status = "ERROR" /\ floor = "MEDIUM" =>
                 BandPriority(score, mandatory, status, floor, policy) # "LOW"
<1>1. ThresholdBand(score, policy) \in Bands /\ "MEDIUM" \in Bands
  BY Zenon DEF ThresholdBand, Bands
<1> QED BY <1>1, HigherBand DEF BandPriority, Bands

\* What a rule evaluation may conclude.
Concluded(r, readable, config, context) ==
    \/ r.status = "ERROR" /\ r.floor = "MEDIUM" /\ r.fired = <<>>
    \/ /\ readable /\ r.status = "OK" /\ r.floor = "none"
       /\ r.fired = Fired(config, context) /\ ValidRuleSet(config)

LEMMA EvaluationEnds ==
    \A readable, config, channel, context :
        Concluded(Evaluate(readable, config, channel, context), readable, config, context)
BY DEF Concluded, Evaluate, FailedEvaluation

\* What score_source_alert returns, by what its parts did.
Outcome(event, failed, rules, score, gbm, anomaly, graph) ==
    LET mandatory == \E i \in DOMAIN rules.fired : rules.fired[i].category = "MANDATORY_REVIEW"
        banded    == BandPriority(score, mandatory, rules.status, rules.floor, PriorityPolicy)
    IN  [failed    |-> IF rules.status = "OK" THEN failed ELSE failed \cup {"rules"},
         mandatory |-> mandatory,
         band      |-> MaxBand(MaxBand(banded, IF "gbm" \in failed THEN "HIGH" ELSE "LOW"),
                               IF failed \cap {"anomaly", "graph"} # {} THEN "MEDIUM" ELSE "LOW"),
         codes     |-> BuildCodes(event.upstream, rules, gbm, anomaly, graph, AnomalyFlag)]

Answering(layer, failed) == IF layer \in failed THEN "ERROR" ELSE "OK"

-----------------------------------------------------------------------------
(* The reason codes.                                                        *)

\* Where a list says a code first.
LEMMA FirstOccurs ==
    ASSUME NEW codes, DOMAIN codes \subseteq Nat, NEW i \in DOMAIN codes
    PROVE  \E j \in DOMAIN codes : codes[j].code = codes[i].code /\ codes[j] \in Deduped(codes)
<1> DEFINE alike == {j \in DOMAIN codes : codes[j].code = codes[i].code}
<1>1. alike \subseteq Nat /\ alike # {}
  OBVIOUS
<1>2. PICK j \in alike : \A k \in alike : <<k, j>> \notin OpToRel(<, Nat)
  BY <1>1, NatLessThanWellFounded, WFMin, Zenon
<1>3. \A k \in DOMAIN codes : k < j => codes[k].code # codes[j].code
  <2> SUFFICES ASSUME NEW k \in DOMAIN codes, k < j, codes[k].code = codes[j].code PROVE FALSE
    OBVIOUS
  <2>1. k \in alike /\ k \in Nat /\ j \in Nat
    BY <1>2
  <2>2. <<k, j>> \in OpToRel(<, Nat)
    BY <2>1 DEF OpToRel
  <2> QED BY <1>2, <2>1, <2>2
<1>4. codes[j] \in Deduped(codes)
  BY <1>2, <1>3 DEF Deduped
<1> QED BY <1>2, <1>4

\* Deduplication only leaves out.
LEMMA DedupedAreCodes == \A codes : \A c \in Deduped(codes) : \E i \in DOMAIN codes : c = codes[i]
BY DEF Deduped

LEMMA UpstreamTell ==
    \A codes : \A c \in UpstreamCodes(codes) :
        c.layer = "rule" /\ c.severity = "informational" /\ c.code[1] = "UPSTREAM"
BY DedupedAreCodes DEF UpstreamCodes, Code

LEMMA LayersTell ==
    /\ \A x : \A c \in GbmCodes(x) :
          c.layer = "gbm" /\ c.severity = "contributing" /\ c.code[1] = "GBM_FEATURE"
    /\ \A x, y : \A c \in AnomalyCodes(x, y) :
          c.layer = "anomaly" /\ c.severity = "contributing" /\ c.code[1] = "ANOMALY_SCORE_ELEVATED"
    /\ \A x, y, z : \A c \in GraphCodes(x, y, z) :
          /\ c.layer = "graph" /\ c.severity = "contributing"
          /\ c.code[1] \in {"SHARED_DEVICE_RING", "RAPID_RECIPIENT_FAN_IN", "NEAR_FRAUD_LINKED_ENTITY"}
    /\ \A l : Unavailable(l) = [code |-> <<"UNAVAILABLE", l>>, layer |-> l, severity |-> "informational"]
<1>1. \A x : \A c \in GbmCodes(x) :
          c.layer = "gbm" /\ c.severity = "contributing" /\ c.code[1] = "GBM_FEATURE"
  <2>1. \A x : \A c \in GbmCodes(x) : \E f : c = Code(<<"GBM_FEATURE", f>>, "gbm", "contributing")
    BY Zenon DEF GbmCodes
  <2> QED BY <2>1 DEF Code
<1>2. \A x, y : \A c \in AnomalyCodes(x, y) :
          c.layer = "anomaly" /\ c.severity = "contributing" /\ c.code[1] = "ANOMALY_SCORE_ELEVATED"
  BY DEF AnomalyCodes, Maybe, Code
<1>3. \A x, y, z : \A c \in GraphCodes(x, y, z) :
          /\ c.layer = "graph" /\ c.severity = "contributing"
          /\ c.code[1] \in {"SHARED_DEVICE_RING", "RAPID_RECIPIENT_FAN_IN", "NEAR_FRAUD_LINKED_ENTITY"}
  BY DEF GraphCodes, Maybe, Code
<1> QED BY <1>1, <1>2, <1>3 DEF Unavailable, Code

\* A mandatory rule shares its reason code with no rule of another category, as
\* in config/fraud_intel: codes are deduplicated by reason, the first rule wins.
MandatoryReasonsAreOwn ==
    \A ch \in Channels : \A i, j \in DOMAIN Rules[ch].rules :
        Rules[ch].rules[i].reason = Rules[ch].rules[j].reason =>
            (Rules[ch].rules[i].category = "MANDATORY_REVIEW" <=>
                Rules[ch].rules[j].category = "MANDATORY_REVIEW")

Mandatory(rules) == \E i \in DOMAIN rules.fired : rules.fired[i].category = "MANDATORY_REVIEW"

\* What the rules' codes say.
Told(rules) ==
    /\ \A c \in RuleCodes(rules) : c.layer = "rule"
    /\ \A c \in RuleCodes(rules) : \/ c.code[1] = "RULE"
                                   \/ c.code = <<"UNAVAILABLE", "rules">> /\ rules.status # "OK"
    /\ rules.status # "OK" => \E c \in RuleCodes(rules) : c.code = <<"UNAVAILABLE", "rules">>
    /\ Mandatory(rules) <=> \E c \in RuleCodes(rules) : c.severity = "mandatory"

LEMMA RulesTell ==
    ASSUME MandatoryReasonsAreOwn, NEW ch \in Channels, NEW readable, NEW context,
           NEW rules, Concluded(rules, readable, Rules[ch], context)
    PROVE  Told(rules)
<1> DEFINE codes == [i \in DOMAIN rules.fired |->
                        Code(<<"RULE", rules.fired[i].reason>>, "rule",
                             RuleSeverity(rules.fired[i].category))]
           down  == Code(<<"UNAVAILABLE", "rules">>, "rule", "informational")
<1>1. RuleCodes(rules) = Deduped(codes) \cup (IF rules.status # "OK" THEN {down} ELSE {})
  BY DEF RuleCodes, Maybe
<1>2. /\ down.code = <<"UNAVAILABLE", "rules">> /\ down.layer = "rule"
      /\ down.severity = "informational"
  BY DEF Code
<1>3. /\ DOMAIN codes = DOMAIN rules.fired
      /\ \A i \in DOMAIN codes : /\ codes[i].code = <<"RULE", rules.fired[i].reason>>
                                 /\ codes[i].layer = "rule"
                                 /\ codes[i].severity = RuleSeverity(rules.fired[i].category)
  BY DEF Code
<1>4. /\ DOMAIN rules.fired \subseteq Nat
      /\ \A i \in DOMAIN rules.fired : rules.fired[i].category \in Categories
      /\ \A i, j \in DOMAIN rules.fired :
            rules.fired[i].reason = rules.fired[j].reason =>
               (rules.fired[i].category = "MANDATORY_REVIEW" =>
                  rules.fired[j].category = "MANDATORY_REVIEW")
  <2>1. CASE rules.fired = <<>>
    BY <2>1
  <2>2. CASE rules.fired = Fired(Rules[ch], context) /\ ValidRuleSet(Rules[ch])
    <3>1. /\ DOMAIN rules.fired \subseteq DOMAIN Rules[ch].rules
          /\ \A i \in DOMAIN rules.fired : rules.fired[i] = Rules[ch].rules[i]
      BY <2>2 DEF Fired
    <3>2. DOMAIN Rules[ch].rules \subseteq Nat
      BY AssessmentAssumption DEF Channels
    <3>3. \A i \in DOMAIN Rules[ch].rules : Rules[ch].rules[i].category \in Categories
      BY <2>2, Zenon DEF ValidRuleSet, ValidRule
    <3> QED BY <3>1, <3>2, <3>3 DEF MandatoryReasonsAreOwn
  <2> QED
    BY <2>1, <2>2, Zenon DEF Concluded
<1>5. /\ RuleSeverity("MANDATORY_REVIEW") = "mandatory"
      /\ \A x \in Categories : RuleSeverity(x) = "mandatory" => x = "MANDATORY_REVIEW"
  BY DEF RuleSeverity, Categories
<1> HIDE DEF codes, down
<1>6. \A c \in RuleCodes(rules) : \/ c = down /\ rules.status # "OK"
                                  \/ \E i \in DOMAIN codes : c = codes[i]
  BY <1>1, DedupedAreCodes
<1>7. Mandatory(rules) => \E c \in RuleCodes(rules) : c.severity = "mandatory"
  <2> SUFFICES ASSUME NEW i \in DOMAIN rules.fired, rules.fired[i].category = "MANDATORY_REVIEW"
               PROVE  \E c \in RuleCodes(rules) : c.severity = "mandatory"
    BY Zenon DEF Mandatory
  <2>1. PICK j \in DOMAIN codes : codes[j].code = codes[i].code /\ codes[j] \in Deduped(codes)
    BY <1>3, <1>4, FirstOccurs
  <2>2. rules.fired[j].reason = rules.fired[i].reason
    BY <1>3, <2>1
  <2>3. codes[j].severity = "mandatory"
    BY <1>3, <1>4, <1>5, <2>1, <2>2
  <2> QED BY <1>1, <2>1, <2>3
<1>8. ASSUME NEW c \in RuleCodes(rules), c.severity = "mandatory" PROVE Mandatory(rules)
  BY <1>2, <1>3, <1>4, <1>5, <1>6, <1>8 DEF Mandatory
<1>9. \A c \in RuleCodes(rules) : /\ c.layer = "rule"
                                  /\ \/ c.code[1] = "RULE"
                                     \/ c.code = <<"UNAVAILABLE", "rules">> /\ rules.status # "OK"
  BY <1>2, <1>3, <1>6
<1> QED BY <1>1, <1>2, <1>7, <1>8, <1>9 DEF Told

\* What the analyst is told of an outcome.
Explained(outcome) ==
    /\ {layer \in Layers : <<"UNAVAILABLE", layer>> \in {c.code : c \in outcome.codes}} = outcome.failed
    /\ \A c \in outcome.codes : c.layer \in outcome.failed => c.code = <<"UNAVAILABLE", c.layer>>
    /\ outcome.mandatory <=> \E c \in outcome.codes : c.severity = "mandatory"

\* What the queue does with it.
Floored(outcome) ==
    /\ outcome.failed # {} => outcome.band # "LOW"
    /\ "gbm" \in outcome.failed \/ outcome.mandatory => outcome.band = "HIGH"

LEMMA PartCodes ==
    ASSUME NEW layer, NEW status, NEW scored, NEW codes,
           codes = IF status = "OK" THEN scored ELSE {Unavailable(layer)},
           \A c \in scored : c.layer = layer /\ c.severity = "contributing" /\ c.code[1] # "UNAVAILABLE"
    PROVE  /\ \A c \in codes : /\ c.layer = layer /\ c.severity # "mandatory"
                               /\ c.code[1] # "UNAVAILABLE" \/ c.code = <<"UNAVAILABLE", layer>>
                               /\ status # "OK" => c.code = <<"UNAVAILABLE", layer>>
                               /\ c.code = <<"UNAVAILABLE", layer>> => status # "OK"
           /\ status # "OK" => \E c \in codes : c.code = <<"UNAVAILABLE", layer>>
<1>1. /\ Unavailable(layer).code = <<"UNAVAILABLE", layer>> /\ Unavailable(layer).layer = layer
      /\ Unavailable(layer).severity = "informational" /\ <<"UNAVAILABLE", layer>>[1] = "UNAVAILABLE"
  BY LayersTell
<1>2. CASE status = "OK"
  <2>1. codes = scored /\ "contributing" # "mandatory"
    BY <1>2
  <2> QED BY <1>1, <1>2, <2>1, Zenon
<1>3. CASE status # "OK"
  <2>1. codes = {Unavailable(layer)} /\ "informational" # "mandatory"
    BY <1>3
  <2> QED BY <1>1, <1>3, <2>1, Zenon
<1> QED BY <1>2, <1>3

LEMMA CodesExplain ==
    ASSUME MandatoryReasonsAreOwn, NEW event, event.channel \in Channels, NEW failed \in SUBSET Layers,
           NEW readable, NEW c, NEW r, NEW s, NEW b, NEW a, NEW g,
           readable => "rules" \notin failed,
           r = Evaluate(readable, Rules[event.channel], event.channel, c),
           b.status = Answering("gbm", failed),
           a.status = Answering("anomaly", failed),
           g.status = Answering("graph", failed)
    PROVE  Explained(Outcome(event, failed, r, s, b, a, g))
<1> DEFINE o   == Outcome(event, failed, r, s, b, a, g)
           up  == UpstreamCodes(event.upstream)
           rul == RuleCodes(r)
           gbm == IF b.status = "OK" THEN GbmCodes(b.contributions) ELSE {Unavailable("gbm")}
           ano == IF a.status = "OK" THEN AnomalyCodes(a.score, AnomalyFlag) ELSE {Unavailable("anomaly")}
           gra == IF g.status = "OK" THEN GraphCodes(g.devices, g.fanIn, g.hops) ELSE {Unavailable("graph")}
<1>1. /\ o.codes = up \cup rul \cup gbm \cup ano \cup gra
      /\ o.failed = IF r.status = "OK" THEN failed ELSE failed \cup {"rules"}
      /\ o.mandatory = Mandatory(r)
  BY Zenon DEF Outcome, BuildCodes, Mandatory
<1>2. Concluded(r, readable, Rules[event.channel], c)
  BY EvaluationEnds, Zenon
<1>3. /\ "rules" \in o.failed <=> r.status # "OK"
      /\ "gbm" \in o.failed <=> b.status # "OK"
      /\ "anomaly" \in o.failed <=> a.status # "OK"
      /\ "graph" \in o.failed <=> g.status # "OK"
      /\ o.failed \subseteq Layers
  <2>1. "rules" \in failed => r.status # "OK"
    BY <1>2 DEF Concluded
  <2> QED BY <1>1, <2>1 DEF Answering, Layers
<1>4. \A x \in up : x.layer = "rule" /\ x.severity = "informational" /\ x.code[1] = "UPSTREAM"
  BY UpstreamTell
<1>5. /\ \A x \in rul : /\ x.layer = "rule"
                        /\ \/ x.code[1] = "RULE"
                           \/ x.code = <<"UNAVAILABLE", "rules">> /\ r.status # "OK"
      /\ r.status # "OK" => \E x \in rul : x.code = <<"UNAVAILABLE", "rules">>
      /\ Mandatory(r) <=> \E x \in rul : x.severity = "mandatory"
  <2>1. Told(r)
    BY <1>2, RulesTell, Zenon
  <2> QED BY <2>1 DEF Told
<1> DEFINE Part(codes, layer, status) ==
             /\ \A x \in codes : /\ x.layer = layer /\ x.severity # "mandatory"
                                 /\ x.code[1] # "UNAVAILABLE" \/ x.code = <<"UNAVAILABLE", layer>>
                                 /\ status # "OK" => x.code = <<"UNAVAILABLE", layer>>
                                 /\ x.code = <<"UNAVAILABLE", layer>> => status # "OK"
             /\ status # "OK" => \E x \in codes : x.code = <<"UNAVAILABLE", layer>>
<1>6. Part(gbm, "gbm", b.status)
  BY LayersTell, PartCodes
<1>7. Part(ano, "anomaly", a.status)
  BY LayersTell, PartCodes
<1>8. Part(gra, "graph", g.status)
  BY LayersTell, PartCodes
<1>9. \A l, m : /\ <<"UNAVAILABLE", l>>[1] = "UNAVAILABLE"
                /\ <<"UNAVAILABLE", l>> = <<"UNAVAILABLE", m>> => l = m
  OBVIOUS
<1> HIDE DEF o, up, rul, gbm, ano, gra
<1>10. \A l \in Layers : (\E x \in o.codes : x.code = <<"UNAVAILABLE", l>>) <=> l \in o.failed
  <2>1. ASSUME NEW l \in Layers, NEW x \in o.codes, x.code = <<"UNAVAILABLE", l>> PROVE l \in o.failed
    <3>1. x.code[1] = "UNAVAILABLE"
      BY <1>9, <2>1, Zenon
    <3>2. "UNAVAILABLE" # "UPSTREAM" /\ "UNAVAILABLE" # "RULE"
      OBVIOUS
    <3>3. CASE x \in up
      BY <1>4, <3>1, <3>2, <3>3, Zenon
    <3>4. CASE x \in rul
      BY <1>3, <1>5, <1>9, <2>1, <3>1, <3>2, <3>4, Zenon
    <3>5. CASE x \in gbm
      BY <1>3, <1>6, <1>9, <2>1, <3>1, <3>5, Zenon
    <3>6. CASE x \in ano
      BY <1>3, <1>7, <1>9, <2>1, <3>1, <3>6, Zenon
    <3>7. CASE x \in gra
      BY <1>3, <1>8, <1>9, <2>1, <3>1, <3>7, Zenon
    <3> QED BY <1>1, <3>3, <3>4, <3>5, <3>6, <3>7
  <2>2. ASSUME NEW l \in Layers, l \in o.failed PROVE \E x \in o.codes : x.code = <<"UNAVAILABLE", l>>
    <3>1. l \in {"rules", "gbm", "anomaly", "graph"}
      BY <2>2 DEF Layers
    <3> QED BY <1>1, <1>3, <1>5, <1>6, <1>7, <1>8, <2>2, <3>1
  <2> QED BY <2>1, <2>2
<1>11. {l \in Layers : <<"UNAVAILABLE", l>> \in {x.code : x \in o.codes}} = o.failed
  BY <1>3, <1>10
<1>12. ASSUME NEW x \in o.codes, x.layer \in o.failed PROVE x.code = <<"UNAVAILABLE", x.layer>>
  <2>1. "rule" \notin o.failed
    BY <1>3 DEF Layers
  <2>2. CASE x \in up \cup rul
    BY <1>4, <1>5, <1>12, <2>1, <2>2
  <2>3. CASE x \in gbm
    BY <1>3, <1>6, <1>12, <2>3, Zenon
  <2>4. CASE x \in ano
    BY <1>3, <1>7, <1>12, <2>4, Zenon
  <2>5. CASE x \in gra
    BY <1>3, <1>8, <1>12, <2>5, Zenon
  <2> QED BY <1>1, <2>2, <2>3, <2>4, <2>5
<1>13. o.mandatory <=> \E x \in o.codes : x.severity = "mandatory"
  <2>1. "informational" # "mandatory"
    OBVIOUS
  <2>2. ASSUME NEW x \in o.codes, x.severity = "mandatory" PROVE x \in rul
    BY <1>1, <1>4, <1>6, <1>7, <1>8, <2>1, <2>2, Zenon
  <2> QED BY <1>1, <1>5, <2>2, Zenon
<1> QED BY <1>11, <1>12, <1>13 DEF Explained, o

LEMMA HighestBand ==
    ASSUME NEW p \in Bands, NEW q \in Bands, NEW r \in Bands, NEW m, m = MaxBand(MaxBand(p, q), r)
    PROVE  /\ m = "LOW" => p = "LOW" /\ q = "LOW" /\ r = "LOW"
           /\ p = "HIGH" \/ q = "HIGH" => m = "HIGH"
BY HigherBand

LEMMA FloorsHold ==
    ASSUME NEW event, NEW failed \in SUBSET Layers,
           NEW readable, NEW c, NEW r, NEW s, NEW b, NEW a, NEW g,
           readable => "rules" \notin failed,
           r = Evaluate(readable, Rules[event.channel], event.channel, c)
    PROVE  Floored(Outcome(event, failed, r, s, b, a, g))
<1> DEFINE banded == BandPriority(s, Mandatory(r), r.status, r.floor, PriorityPolicy)
           model  == IF "gbm" \in failed THEN "HIGH" ELSE "LOW"
           others == IF failed \cap {"anomaly", "graph"} # {} THEN "MEDIUM" ELSE "LOW"
<1>1. PICK o : o = Outcome(event, failed, r, s, b, a, g)
  OBVIOUS
<1>2. /\ o.failed = IF r.status = "OK" THEN failed ELSE failed \cup {"rules"}
      /\ o.mandatory = Mandatory(r)
      /\ o.band = MaxBand(MaxBand(banded, model), others)
  BY <1>1, Zenon DEF Outcome, Mandatory
<1>3. \/ r.status = "ERROR" /\ r.floor = "MEDIUM"
      \/ "rules" \notin failed /\ r.status = "OK" /\ r.floor = "none"
  <2>1. Concluded(r, readable, Rules[event.channel], c)
    BY EvaluationEnds, Zenon
  <2> QED BY <2>1, Zenon DEF Concluded
<1>4. /\ banded \in Bands
      /\ Mandatory(r) => banded = "HIGH"
      /\ r.status # "OK" => banded # "LOW"
  <2>1. Mandatory(r) \in BOOLEAN
    BY Zenon DEF Mandatory
  <2>2. r.floor \in Bands \cup {"none"}
    BY <1>3 DEF Bands
  <2>3. PICK m \in BOOLEAN : m = Mandatory(r)
    BY <2>1, Zenon
  <2>4. PICK f \in Bands \cup {"none"} : f = r.floor
    BY <2>2, Zenon
  <2>5. banded = BandPriority(s, m, r.status, f, PriorityPolicy)
    BY <2>3, <2>4, Zenon
  <2>6. /\ BandPriority(s, m, r.status, f, PriorityPolicy) \in Bands
        /\ m => BandPriority(s, m, r.status, f, PriorityPolicy) = "HIGH"
        /\ r.status = "ERROR" /\ f = "MEDIUM" =>
              BandPriority(s, m, r.status, f, PriorityPolicy) # "LOW"
    BY BandIsKept
  <2> QED BY <1>3, <2>3, <2>4, <2>5, <2>6, Zenon
<1>5. /\ model \in Bands /\ others \in Bands
      /\ "gbm" \in failed => model = "HIGH"
      /\ failed \cap {"gbm", "anomaly", "graph"} # {} => model # "LOW" \/ others # "LOW"
  BY DEF Bands
<1> HIDE DEF banded, model, others
<1>6. /\ o.band = "LOW" => banded = "LOW" /\ model = "LOW" /\ others = "LOW"
      /\ banded = "HIGH" \/ model = "HIGH" => o.band = "HIGH"
  BY <1>2, <1>4, <1>5, HighestBand, Zenon
<1>7. ASSUME o.failed # {} PROVE o.band # "LOW"
  <2>1. CASE r.status # "OK"
    BY <1>4, <1>6, <2>1, Zenon
  <2>2. CASE r.status = "OK"
    <3>1. o.failed = failed
      BY <1>2, <2>2
    <3>2. failed \cap {"gbm", "anomaly", "graph"} # {}
      BY <1>3, <1>7, <2>2, <3>1 DEF Layers
    <3> QED BY <1>5, <1>6, <3>2, Zenon
  <2> QED BY <2>1, <2>2
<1>8. ASSUME "gbm" \in o.failed \/ o.mandatory PROVE o.band = "HIGH"
  <2>1. CASE o.mandatory
    BY <1>2, <1>4, <1>6, <2>1, Zenon
  <2>2. CASE "gbm" \in o.failed
    <3>1. "gbm" \in failed
      BY <1>2, <2>2
    <3> QED BY <1>5, <1>6, <3>1, Zenon
  <2> QED BY <1>8, <2>1, <2>2, Zenon
<1> QED BY <1>1, <1>7, <1>8, Zenon DEF Floored

-----------------------------------------------------------------------------
(* The graph of one customer's events, and the search of it.                *)

\* f lists n steps from s.
Iterates(f, S, s, step, n) ==
    f \in [0 .. n -> S] /\ f[0] = s /\ \A k \in 1 .. n : f[k] = step[f[k - 1]]

\* A step can be taken any number of times.
LEMMA Iterable ==
    ASSUME NEW S, NEW s \in S, NEW step \in [S -> S], NEW N \in Nat
    PROVE  \E f : Iterates(f, S, s, step, N)
<1> DEFINE Runs(n) == {f \in [0 .. n -> S] : f[0] = s /\ \A k \in 1 .. n : f[k] = step[f[k - 1]]}
           failing == {n \in 0 .. N : Runs(n) = {}}
<1>1. SUFFICES ASSUME failing # {} PROVE FALSE
  <2>1. Runs(N) # {} => \E f : Iterates(f, S, s, step, N)
    BY DEF Iterates
  <2>2. N \in 0 .. N
    OBVIOUS
  <2> HIDE DEF Runs
  <2> QED BY <2>1, <2>2
<1>2. failing \subseteq Nat
  OBVIOUS
<1>3. PICK m \in failing : \A k \in failing : <<k, m>> \notin OpToRel(<, Nat)
  BY <1>1, <1>2, NatLessThanWellFounded, WFMin, Zenon
<1>4. m \in Nat /\ m <= N /\ Runs(m) = {}
  <2>1. m \in failing
    OBVIOUS
  <2> HIDE DEF Runs
  <2> QED BY <2>1
<1>5. m # 0
  <2>1. [n \in 0 .. 0 |-> s] \in Runs(0)
    OBVIOUS
  <2> QED BY <1>4, <2>1
<1>6. m - 1 \notin failing
  <2> SUFFICES ASSUME m - 1 \in failing PROVE FALSE
    OBVIOUS
  <2>1. <<m - 1, m>> \in OpToRel(<, Nat)
    BY <1>4, <1>5 DEF OpToRel
  <2> QED BY <1>3, <2>1
<1>7. PICK f \in Runs(m - 1) : TRUE
  BY <1>4, <1>5, <1>6
<1>8. [n \in 0 .. m |-> IF n = m THEN step[f[m - 1]] ELSE f[n]] \in Runs(m)
  <2> DEFINE g == [n \in 0 .. m |-> IF n = m THEN step[f[m - 1]] ELSE f[n]]
  <2>1. /\ f \in [0 .. m - 1 -> S] /\ f[0] = s
        /\ \A k \in 1 .. m - 1 : f[k] = step[f[k - 1]]
    BY <1>7
  <2>2. g \in [0 .. m -> S] /\ g[0] = s
    BY <1>4, <1>5, <2>1
  <2>3. \A k \in 1 .. m : g[k] = step[g[k - 1]]
    BY <1>4, <1>5, <2>1
  <2> QED BY <2>2, <2>3
<1> QED BY <1>4, <1>8

\* A round of the search.
Following(g, before) == [visited  |-> before.visited \cup NextFrontier(g, before),
                         frontier |-> NextFrontier(g, before)]

\* What a round comes to first.
LEMMA NextOf ==
    \A g, before, y : y \in NextFrontier(g, before) <=>
                         /\ y \notin before.visited
                         /\ \E x \in before.frontier : y \in NeighboursOf(g, x)
BY DEF NextFrontier

\* What the search's rounds are, without the recursion.
Searching(round, g, start, maxNodes) ==
    /\ round[0] = [visited |-> {start}, frontier |-> {start}]
    /\ \A n \in 1 .. maxNodes : round[n] = Following(g, round[n - 1])

\* The rounds are what their definition says.
LEMMA RoundsAre ==
    ASSUME NEW g, NEW start, NEW maxNodes \in Nat
    PROVE  Searching(Rounds(g, start, maxNodes), g, start, maxNodes)
<1> DEFINE V     == {start} \cup {link[2] : link \in g.links}
           S     == [visited : SUBSET V, frontier : SUBSET V]
           first == [visited |-> {start}, frontier |-> {start}]
           After(s) == Following(g, s)
           step  == [s \in S |-> After(s)]
           Def(f) == [n \in 0 .. maxNodes |-> IF n = 0 THEN first ELSE After(f[n - 1])]
<1>1. first \in S
  OBVIOUS
<1>2. step \in [S -> S]
  <2> SUFFICES ASSUME NEW s \in S PROVE Following(g, s) \in S
    OBVIOUS
  <2>1. NextFrontier(g, s) \subseteq V
    BY DEF NextFrontier, NeighboursOf
  <2> QED BY <2>1 DEF Following
<1>3. \A s \in S : step[s] = After(s)
  BY Zenon
<1> HIDE DEF first, S, step, After
<1>4. PICK f : Iterates(f, S, first, step, maxNodes)
  BY <1>1, <1>2, Iterable
<1>5. f = Def(f)
  <2>1. \A n \in 1 .. maxNodes : f[n - 1] \in S /\ f[n] = After(f[n - 1])
    BY <1>4, <1>3 DEF Iterates
  <2> QED BY <1>4, <2>1 DEF Iterates
<1>6. Rounds(g, start, maxNodes) = CHOOSE r : r = Def(r)
  BY DEF Rounds, first, After, Following
<1>7. Rounds(g, start, maxNodes) = Def(Rounds(g, start, maxNodes))
  <2> HIDE DEF Def
  <2> QED BY <1>5, <1>6, Zenon
<1> DEFINE r == Rounds(g, start, maxNodes)
<1>8. r = [n \in 0 .. maxNodes |-> IF n = 0 THEN first ELSE After(r[n - 1])]
  BY <1>7
<1> HIDE DEF r
<1>9. r[0] = first /\ \A n \in 1 .. maxNodes : r[n] = After(r[n - 1])
  BY <1>8
<1> QED BY <1>9 DEF r, After, first, Searching

\* From an entity that all others are next to, only the first round finds any.
LEMMA FewHops ==
    ASSUME NEW g, NEW start, NEW linked, NEW maxNodes \in Nat \ {0},
           start \notin NeighboursOf(g, start),
           \A x \in NeighboursOf(g, start) : NeighboursOf(g, x) \subseteq {start} \cup NeighboursOf(g, start)
    PROVE  LET hops == HopsToFraud(g, start, linked, maxNodes)
           IN  hops >= 0 /\ hops <= NearFraudHops <=>
                  start \in linked \/ NeighboursOf(g, start) \cap linked # {}
<1> DEFINE near  == NeighboursOf(g, start)
           round == Rounds(g, start, maxNodes)
           hits  == {n \in 1 .. maxNodes : \E x \in linked : x \in round[n].frontier}
           hops  == HopsToFraud(g, start, linked, maxNodes)
<1>1. Searching(round, g, start, maxNodes)
  <2>1. maxNodes \in Nat
    OBVIOUS
  <2> HIDE DEF hits, hops, near
  <2> QED BY <2>1, RoundsAre, Zenon
<1>2. hops = IF start \in linked THEN 0 ELSE IF hits = {} THEN Unreachable ELSE Min(hits)
  BY DEF HopsToFraud
<1> HIDE DEF round
<1>3. round[1].frontier = near /\ round[1].visited = {start} \cup near
  <2>1. round[0] = [visited |-> {start}, frontier |-> {start}]
    BY <1>1 DEF Searching
  <2>2. round[0].frontier = {start} /\ round[0].visited = {start}
    BY <2>1
  <2>3. NextFrontier(g, round[0]) = near
    <3>1. \A y : y \in NextFrontier(g, round[0]) <=>
                    y \notin {start} /\ \E x \in {start} : y \in NeighboursOf(g, x)
      BY <2>2, NextOf
    <3> QED BY <3>1
  <2>4. 1 \in 1 .. maxNodes /\ 1 - 1 = 0
    OBVIOUS
  <2>5. round[1] = Following(g, round[0])
    BY <1>1, <2>4 DEF Searching
  <2> QED BY <2>2, <2>3, <2>5 DEF Following
<1>4. ASSUME 2 <= maxNodes PROVE round[2].frontier = {}
  <2>1. NextFrontier(g, round[1]) = {}
    BY <1>3, NextOf
  <2>2. round[2].frontier = NextFrontier(g, round[1])
    <3>1. 2 \in 1 .. maxNodes /\ 2 - 1 = 1
      BY <1>4
    <3>2. round[2] = Following(g, round[1])
      BY <1>1, <3>1 DEF Searching
    <3> QED BY <3>2 DEF Following
  <2> QED BY <2>1, <2>2
<1> HIDE DEF near, hops
<1>5. 1 \in hits <=> near \cap linked # {}
  BY <1>3
<1>6. 2 \notin hits
  BY <1>4
<1>7. hits \subseteq Nat \ {0}
  OBVIOUS
<1> HIDE DEF hits
<1>8. ASSUME hits # {} PROVE Min(hits) \in hits /\ \A n \in hits : Min(hits) <= n
  <2>1. PICK m \in hits : \A k \in hits : <<k, m>> \notin OpToRel(<, Nat)
    BY <1>7, <1>8, NatLessThanWellFounded, WFMin, Zenon
  <2>2. ASSUME NEW n \in hits, n < m PROVE FALSE
    <3>1. n \in Nat /\ m \in Nat
      BY <1>7
    <3>2. <<n, m>> \in OpToRel(<, Nat)
      BY <2>2, <3>1 DEF OpToRel
    <3> QED BY <2>1, <3>2
  <2>3. m \in hits /\ \A n \in hits : m <= n
    BY <1>7, <2>2
  <2> QED BY <2>3 DEF Min
<1>9. CASE start \in linked
  BY <1>2, <1>9 DEF near, hops, NearFraudHops
<1>10. CASE start \notin linked /\ hits = {}
  BY <1>2, <1>5, <1>10 DEF near, hops, Unreachable
<1>11. CASE start \notin linked /\ hits # {}
  <2>1. hops = Min(hits) /\ Min(hits) \in hits /\ Min(hits) \in Nat \ {0}
    BY <1>2, <1>7, <1>8, <1>11
  <2>2. hops <= 2 <=> 1 \in hits
    BY <1>6, <1>7, <1>8, <1>11, <2>1
  <2> QED BY <1>5, <1>11, <2>1, <2>2 DEF near, hops, NearFraudHops
<1> QED BY <1>9, <1>10, <1>11

\* All that the kept events name is next to start, and next to nothing else.
JoinedAt(start, g, kept, entities) ==
    /\ NeighboursOf(g, start) = (UNION {entities[e] : e \in kept}) \ {start}
    /\ \A x : NeighboursOf(g, x) \subseteq UNION {entities[e] : e \in kept}

\* What is next to an entity that every kept event names: all they name.
LEMMA OneCentre ==
    ASSUME NEW kept, NEW entities, NEW start, \A e \in kept : start \in entities[e], NEW g,
           g.links = UNION {EdgesAmong(entities[e]) : e \in kept}
    PROVE  JoinedAt(start, g, kept, entities)
<1>1. \A x, y : y \in NeighboursOf(g, x) <=>
                   \E e \in kept : x \in entities[e] /\ y \in entities[e] /\ x # y
  <2>1. \A x, y : y \in NeighboursOf(g, x) <=> \E link \in g.links : link[1] = x /\ link[2] = y
    BY DEF NeighboursOf
  <2>2. \A link : link \in g.links <=>
                     \E e \in kept : \E x, y \in entities[e] : link = <<x, y>> /\ x # y
    BY DEF EdgesAmong
  <2>3. \A x, y : <<x, y>>[1] = x /\ <<x, y>>[2] = y
    OBVIOUS
  <2> QED 
    <3>1. ASSUME NEW x, NEW y, NEW e \in kept, x \in entities[e], y \in entities[e], x # y
          PROVE  y \in NeighboursOf(g, x)
      <4>1. <<x, y>> \in g.links
        BY <2>2, <3>1
      <4> QED BY <2>1, <2>3, <4>1, Zenon
    <3>2. ASSUME NEW x, NEW y, y \in NeighboursOf(g, x)
          PROVE  \E e \in kept : x \in entities[e] /\ y \in entities[e] /\ x # y
      <4>1. PICK link \in g.links : link[1] = x /\ link[2] = y
        BY <2>1, <3>2
      <4>2. PICK e \in kept : \E x1, y1 \in entities[e] : link = <<x1, y1>> /\ x1 # y1
        BY <2>2
      <4> QED BY <4>1, <4>2
    <3> QED BY <3>1, <3>2
<1> DEFINE all == UNION {entities[e] : e \in kept}
<1>2. \A y : y \in all <=> \E e \in kept : y \in entities[e]
  OBVIOUS
<1> HIDE DEF all
<1>3. \A x : NeighboursOf(g, x) \subseteq all
  BY <1>1, <1>2, Zenon
<1>4. \A y : y \in NeighboursOf(g, start) <=> y \in all /\ y # start
  BY <1>1, <1>2, Zenon
<1>5. NeighboursOf(g, start) = all \ {start}
  BY <1>4
<1> QED BY <1>3, <1>5 DEF all, JoinedAt

\* Every extractor names the customer and the account, and no others of their kind.
LEMMA Named ==
    ASSUME NEW ch \in ChannelNames, NEW e
    PROVE  /\ <<"customer", e.customer>> \in Extract(ch, e) /\ <<"account", e.account>> \in Extract(ch, e)
           /\ \A v : /\ <<"customer", v>> \in Extract(ch, e) => v = e.customer
                     /\ <<"account", v>> \in Extract(ch, e) => v = e.account
<1> DEFINE Only(S) == \A x \in S : x[1] \notin {"customer", "account"}
<1>1. PICK other : Extract(ch, e) = Common(e) \cup other /\ Only(other)
  <2>1. \A type \in {"recipient", "beneficiary", "atm", "card", "check_payee"} : \A v : Only(Party(type, v))
    BY DEF Party
  <2>2. Only({})
    OBVIOUS
  <2> HIDE DEF Only
  <2>3. CASE ch = "p2p"
    BY <2>1, <2>2, <2>3 DEF Extract, P2PEntities
  <2>4. CASE ch = "wire"
    BY <2>1, <2>2, <2>4 DEF Extract, WireEntities
  <2>5. CASE ch = "ach"
    BY <2>2, <2>5 DEF Extract, ACHEntities
  <2>6. CASE ch = "atm"
    BY <2>1, <2>2, <2>6 DEF Extract, ATMEntities
  <2>7. CASE ch = "debit_card"
    BY <2>1, <2>2, <2>7 DEF Extract, DebitCardEntities
  <2>8. CASE ch = "mobile_deposit"
    BY <2>1, <2>2, <2>8 DEF Extract, MobileDepositEntities
  <2>9. CASE ch = "online_banking"
    BY <2>1, <2>2, <2>9 DEF Extract, OnlineBankingEntities
  <2> QED BY <2>3, <2>4, <2>5, <2>6, <2>7, <2>8, <2>9 DEF ChannelNames
<1> QED BY <1>1 DEF Common

\* The code of nearby fraud is raised by the hops alone.
LEMMA NearCode ==
    ASSUME NEW upstream, NEW rules, NEW gbm, NEW anomaly, NEW graph, graph.status = "OK",
           NEW hops, hops = graph.hops
    PROVE  <<"NEAR_FRAUD_LINKED_ENTITY">> \in
                {c.code : c \in BuildCodes(upstream, rules, gbm, anomaly, graph, AnomalyFlag)} <=>
              hops >= 0 /\ hops <= NearFraudHops
<1> DEFINE code == <<"NEAR_FRAUD_LINKED_ENTITY">>
           up   == UpstreamCodes(upstream)
           rul  == RuleCodes(rules)
           byGbm == IF gbm.status = "OK" THEN GbmCodes(gbm.contributions) ELSE {Unavailable("gbm")}
           byAno == IF anomaly.status = "OK" THEN AnomalyCodes(anomaly.score, AnomalyFlag)
                    ELSE {Unavailable("anomaly")}
           byGra == GraphCodes(graph.devices, graph.fanIn, graph.hops)
           all == BuildCodes(upstream, rules, gbm, anomaly, graph, AnomalyFlag)
           near == hops >= 0 /\ hops <= NearFraudHops
<1>1. all = up \cup rul \cup byGbm \cup byAno \cup byGra
  BY Zenon DEF BuildCodes
<1>2. /\ code[1] = "NEAR_FRAUD_LINKED_ENTITY"
      /\ \A l : <<"UNAVAILABLE", l>>[1] = "UNAVAILABLE"
  OBVIOUS
<1>3. \A c \in up \cup rul \cup byGbm \cup byAno : c.code # code
  <2>1. \A c \in up : c.code[1] = "UPSTREAM"
    BY UpstreamTell
  <2>2. \A c \in rul : c.code[1] \in {"RULE", "UNAVAILABLE"}
    <3> DEFINE fired == [i \in DOMAIN rules.fired |->
                            Code(<<"RULE", rules.fired[i].reason>>, "rule",
                                 RuleSeverity(rules.fired[i].category))]
    <3>1. \A c \in rul : \/ c.code = <<"UNAVAILABLE", "rules">>
                         \/ \E i \in DOMAIN rules.fired : c.code = <<"RULE", rules.fired[i].reason>>
      <4>1. \A i \in DOMAIN fired : fired[i].code = <<"RULE", rules.fired[i].reason>>
        BY DEF Code
      <4>2. \A c \in rul : c \in Deduped(fired) \/ c.code = <<"UNAVAILABLE", "rules">>
        BY DEF RuleCodes, Maybe, Code
      <4>3. DOMAIN fired = DOMAIN rules.fired
        OBVIOUS
      <4> HIDE DEF fired, rul
      <4> QED BY <4>1, <4>2, <4>3, DedupedAreCodes
    <3>2. \A x : <<"RULE", x>>[1] = "RULE"
      OBVIOUS
    <3> HIDE DEF rul
    <3> QED BY <1>2, <3>1, <3>2
  <2>3. \A c \in byGbm : c.code[1] \in {"GBM_FEATURE", "UNAVAILABLE"}
    BY <1>2, LayersTell
  <2>4. \A c \in byAno : c.code[1] \in {"ANOMALY_SCORE_ELEVATED", "UNAVAILABLE"}
    BY <1>2, LayersTell
  <2> HIDE DEF up, rul, byGbm, byAno, code
  <2> QED BY <1>2, <2>1, <2>2, <2>3, <2>4
<1>4. (\E c \in byGra : c.code = code) <=> near
  <2> DEFINE ring  == Code(<<"SHARED_DEVICE_RING">>, "graph", "contributing")
             fanIn == Code(<<"RAPID_RECIPIENT_FAN_IN">>, "graph", "contributing")
             close == Code(code, "graph", "contributing")
  <2>1. ring.code # code /\ fanIn.code # code /\ close.code = code
    BY DEF Code
  <2>2. /\ \A c \in byGra : c \in {ring, fanIn} \/ (c = close /\ near)
        /\ near => close \in byGra
    BY DEF GraphCodes, Maybe
  <2> HIDE DEF ring, fanIn, close, byGra, near, code
  <2> QED BY <2>1, <2>2
<1> HIDE DEF up, rul, byGbm, byAno, byGra, all, near, code
<1>5. (\E c \in all : c.code = code) <=> near
  BY <1>1, <1>3, <1>4, Zenon
<1> QED BY <1>5 DEF all, near, code

\* The evidence is of customers and accounts.
KeyedEvidence(x) == x.key[1] \in {"customer", "account"} /\ x.key = <<x.key[1], x.key[2]>>

\* The search comes to evidence at once or in one hop, or never.
LEMMA NearIsOwn ==
    ASSUME NEW ch \in Channels, NEW history, NEW customer, \A e \in history : e.customer = customer,
           NEW evidence, \A x \in evidence : KeyedEvidence(x)
    PROVE  LET entities == [e \in history |-> Extract(ch, e)]
               kept     == KeptEvents(history, GraphPolicy, entities)
               linked   == {x.key : x \in evidence}
               hops     == HopsToFraud(Graph(history, GraphPolicy, entities), <<"customer", customer>>,
                                       linked, GraphPolicy.maxNodes)
           IN  hops >= 0 /\ hops <= NearFraudHops <=>
                  \/ <<"customer", customer>> \in linked
                  \/ \E acct \in {e.account : e \in kept} : <<"account", acct>> \in linked
<1> DEFINE entities == [e \in history |-> Extract(ch, e)]
           kept   == KeptEvents(history, GraphPolicy, entities)
           linked == {x.key : x \in evidence}
           start  == <<"customer", customer>>
           g      == Graph(history, GraphPolicy, entities)
           all    == UNION {entities[e] : e \in kept}
           near   == NeighboursOf(g, start)
<1>1. kept \subseteq history
  BY DEF KeptEvents
<1>2. g.links = UNION {EdgesAmong(entities[e]) : e \in kept}
  BY DEF Graph
<1>3. ch \in ChannelNames /\ GraphPolicy.maxNodes \in Nat \ {0}
  BY AssessmentAssumption DEF Channels, ValidGraphPolicy
<1>4. \A e \in kept : /\ start \in entities[e] /\ <<"account", e.account>> \in entities[e]
                      /\ \A v : /\ <<"customer", v>> \in entities[e] => v = customer
                                /\ <<"account", v>> \in entities[e] => v = e.account
  <2> SUFFICES ASSUME NEW e \in kept
               PROVE  /\ start \in entities[e] /\ <<"account", e.account>> \in entities[e]
                      /\ \A v : /\ <<"customer", v>> \in entities[e] => v = customer
                                /\ <<"account", v>> \in entities[e] => v = e.account
    OBVIOUS
  <2>1. e \in history /\ entities[e] = Extract(ch, e) /\ e.customer = customer
    BY <1>1
  <2> HIDE DEF kept, entities
  <2> QED BY <1>3, <2>1, Named
<1> HIDE DEF entities, kept, g
<1>5. near = all \ {start} /\ \A x : NeighboursOf(g, x) \subseteq all
  <2>1. \A e \in kept : start \in entities[e]
    BY <1>4
  <2> HIDE DEF start
  <2> HIDE DEF all
  <2>2. JoinedAt(start, g, kept, entities)
    BY <1>2, <2>1, OneCentre
  <2> QED BY <2>2 DEF all, JoinedAt
<1> DEFINE hops == HopsToFraud(g, start, linked, GraphPolicy.maxNodes)
<1>6. hops >= 0 /\ hops <= NearFraudHops <=> start \in linked \/ near \cap linked # {}
  <2>1. start \notin near /\ \A x \in near : NeighboursOf(g, x) \subseteq {start} \cup near
    BY <1>5
  <2> HIDE DEF start, linked
  <2> QED BY <1>3, <2>1, FewHops
<1>7. near \cap linked # {} => \E acct \in {e.account : e \in kept} : <<"account", acct>> \in linked
  <2> SUFFICES ASSUME NEW y \in near, y \in linked
               PROVE  \E acct \in {e.account : e \in kept} : <<"account", acct>> \in linked
    OBVIOUS
  <2>1. PICK e \in kept : y \in entities[e]
    BY <1>5
  <2>2. PICK v : y = <<"customer", v>> \/ y = <<"account", v>>
    BY DEF KeyedEvidence
  <2>3. y # start
    BY <1>5
  <2>4. y = <<"account", e.account>>
    <3>1. CASE y = <<"customer", v>>
      BY <1>4, <2>1, <2>3, <3>1
    <3>2. CASE y = <<"account", v>>
      <4>1. v = e.account
        BY <1>4, <2>1, <3>2, Zenon
      <4> QED BY <3>2, <4>1
    <3> QED BY <2>2, <3>1, <3>2
  <2>5. e.account \in {x.account : x \in kept}
    OBVIOUS
  <2> HIDE DEF near, linked
  <2> QED BY <2>4, <2>5
<1>8. ASSUME NEW e \in kept, <<"account", e.account>> \in linked PROVE near \cap linked # {}
  <2>1. <<"account", e.account>> \in all /\ <<"account", e.account>> # start
    BY <1>4
  <2> QED BY <1>5, <1>8, <2>1
<1> HIDE DEF near, linked, start, hops
<1> QED BY <1>6, <1>7, <1>8 DEF entities, kept, g, start, linked, hops

\* What the code of nearby fraud tells of a score.
NearIsOwnIn(ctx, evidence, outcome) ==
    LET entities == [e \in ctx.history |-> Extract(ctx.event.channel, e)]
        accounts == {e.account : e \in KeptEvents(ctx.history, GraphPolicy, entities)}
        fraud    == {x.key : x \in evidence}
    IN  "graph" \notin outcome.failed =>
           (<<"NEAR_FRAUD_LINKED_ENTITY">> \in {c.code : c \in outcome.codes} <=>
               \/ <<"customer", ctx.event.customer>> \in fraud
               \/ \E acct \in accounts : <<"account", acct>> \in fraud)

-----------------------------------------------------------------------------
(* The score.                                                               *)

\* What score_source_alert returns has its floors, its explanation and its flag.
LEMMA ScoringHolds ==
    ASSUME NEW ctx, NEW evidence, NEW failed \in SUBSET Layers, NEW answer, ctx.event.channel \in Channels
    PROVE  /\ Floored(Scored(ctx, evidence, failed, answer))
           /\ MandatoryReasonsAreOwn => Explained(Scored(ctx, evidence, failed, answer))
           /\ /\ \A e \in ctx.history : e.customer = ctx.event.customer
              /\ \A x \in evidence : KeyedEvidence(x)
              => NearIsOwnIn(ctx, evidence, Scored(ctx, evidence, failed, answer))
<1> DEFINE event    == ctx.event
           context  == ConditionContext(event.payload, Features(ctx), IntrinsicFields(event))
           readable == "rules" \notin failed
           rules    == Evaluate(readable, Rules[event.channel], event.channel, context)
           links    == Graph(ctx.history, GraphPolicy, [e \in ctx.history |-> Extract(event.channel, e)])
           customer == <<"customer", event.customer>>
           devices  == {<<"device", d>> : d \in event.device}
           others   == CounterpartyKeys(Extract(event.channel, event))
           linked   == {x.key : x \in evidence}
           hops     == HopsToFraud(links, customer, linked, GraphPolicy.maxNodes)
           Unless(layer, value) == IF layer \in failed THEN 0 ELSE value
           score    == PriorityScore(rules.score, Unless("gbm", answer.gbm),
                           Unless("anomaly", answer.anomaly),
                           Unless("graph", GraphRisk(links, customer, devices, others, linked, GraphPolicy)),
                           PriorityPolicy)
           gbm     == [status |-> Answering("gbm", failed), contributions |-> answer.contributions]
           anomaly == [status |-> Answering("anomaly", failed), score |-> answer.anomaly]
           graph   == [status |-> Answering("graph", failed), devices |-> SharedDeviceCount(links, devices),
                       fanIn |-> FanInCount(links, others),
                       hops |-> hops]
<1>1. Scored(ctx, evidence, failed, answer) = Outcome(event, failed, rules, score, gbm, anomaly, graph)
  BY DEF Scored, Outcome, Answering
<1>2. /\ gbm.status = Answering("gbm", failed)
      /\ anomaly.status = Answering("anomaly", failed)
      /\ graph.status = Answering("graph", failed)
  OBVIOUS
<1>3. /\ readable => "rules" \notin failed
      /\ rules = Evaluate(readable, Rules[ctx.event.channel], ctx.event.channel, context)
  OBVIOUS
<1>4. graph.hops = hops
  OBVIOUS
<1> HIDE DEF context, readable, rules, score, gbm, anomaly, graph
<1>5. Floored(Outcome(event, failed, rules, score, gbm, anomaly, graph))
  BY <1>3, FloorsHold, Zenon
<1>6. MandatoryReasonsAreOwn => Explained(Outcome(event, failed, rules, score, gbm, anomaly, graph))
  BY <1>2, <1>3, CodesExplain, Zenon
<1>7. ASSUME \A e \in ctx.history : e.customer = event.customer, \A x \in evidence : KeyedEvidence(x)
      PROVE  NearIsOwnIn(ctx, evidence, Outcome(event, failed, rules, score, gbm, anomaly, graph))
  <2> DEFINE o == Outcome(event, failed, rules, score, gbm, anomaly, graph)
             code == <<"NEAR_FRAUD_LINKED_ENTITY">>
             entities == [e \in ctx.history |-> Extract(event.channel, e)]
             own == \/ <<"customer", event.customer>> \in {x.key : x \in evidence}
                    \/ \E acct \in {e.account : e \in KeptEvents(ctx.history, GraphPolicy, entities)} :
                          <<"account", acct>> \in {x.key : x \in evidence}
  <2>1. /\ o.failed = IF rules.status = "OK" THEN failed ELSE failed \cup {"rules"}
        /\ o.codes = BuildCodes(event.upstream, rules, gbm, anomaly, graph, AnomalyFlag)
    BY Zenon DEF Outcome
  <2>2. "graph" \notin o.failed => graph.status = "OK"
    <3>1. "graph" \in failed => "graph" \in o.failed
      BY <2>1
    <3> QED BY <1>2, <3>1 DEF Answering
  <2>3. hops >= 0 /\ hops <= NearFraudHops <=> own
    <3> HIDE DEF own
    <3> QED BY <1>7, NearIsOwn, Zenon DEF own
  <2>4. graph.status = "OK" =>
          (code \in {c.code : c \in BuildCodes(event.upstream, rules, gbm, anomaly, graph, AnomalyFlag)}
             <=> hops >= 0 /\ hops <= NearFraudHops)
    <3> HIDE DEF hops
    <3> QED BY <1>4, NearCode, Zenon
  <2>5. "graph" \notin o.failed => (code \in {c.code : c \in o.codes} <=> own)
    <3> HIDE DEF o, own, hops, code
    <3> QED BY <2>1, <2>2, <2>3, <2>4, Zenon
  <2> HIDE DEF o
  <2>6. NearIsOwnIn(ctx, evidence, o)
    BY <2>5, Zenon DEF NearIsOwnIn
  <2> QED BY <2>6 DEF o
<1> QED BY <1>1, <1>5, <1>6, <1>7, Zenon

-----------------------------------------------------------------------------
(* What is generated.                                                       *)

Events == UNION {Generated(ch, Draws[ch]) : ch \in Channels}

Dated(e) == e.time \in Nat /\ e.alertedAt \in Nat /\ e.channel \in Channels

LEMMA EventsAreDated == \A e \in Events : Dated(e)
<1> SUFFICES ASSUME NEW ch \in Channels, NEW e \in Generated(ch, Draws[ch]) PROVE Dated(e)
  BY DEF Events
<1>1. ch \in ChannelNames /\ \A d \in Draws[ch] : d.time \in Nat
  BY AssessmentAssumption DEF Channels, ValidDraw
<1>2. ASSUME NEW d \in Draws[ch], NEW amount, NEW device, NEW payload
      PROVE  Dated(EventOf(d, ch, amount, device, payload))
  BY <1>1 DEF EventOf, Dated
<1>3. \E d \in Draws[ch] : \E amount, device, payload :
        e = EventOf(d, ch, amount, device, payload)
  <2>1. CASE ch = "p2p"
    <3>1. PICK d \in Draws[ch] : e = P2PEvent(d)
      BY <2>1 DEF Generated
    <3> QED BY <2>1, <3>1, Zenon DEF P2PEvent
  <2>2. CASE ch = "wire"
    <3>1. PICK d \in Draws[ch] : e = WireEvent(d)
      BY <2>2 DEF Generated
    <3> QED BY <2>2, <3>1, Zenon DEF WireEvent
  <2>3. CASE ch = "ach"
    <3>1. PICK d \in Draws[ch] : e = ACHEvent(d)
      BY <2>3 DEF Generated
    <3> QED BY <2>3, <3>1, Zenon DEF ACHEvent
  <2>4. CASE ch = "atm"
    <3>1. PICK d \in Draws[ch] : e = ATMEvent(d)
      BY <2>4 DEF Generated
    <3> QED BY <2>4, <3>1, Zenon DEF ATMEvent
  <2>5. CASE ch = "debit_card"
    <3>1. PICK d \in Draws[ch] : e = DebitCardEvent(d)
      BY <2>5 DEF Generated
    <3> QED BY <2>5, <3>1, Zenon DEF DebitCardEvent
  <2>6. CASE ch = "mobile_deposit"
    <3>1. PICK d \in Draws[ch] : e = MobileDepositEvent(d)
      BY <2>6 DEF Generated
    <3> QED BY <2>6, <3>1, Zenon DEF MobileDepositEvent
  <2>7. CASE ch = "online_banking"
    <3>1. PICK d \in Draws[ch] : e = OnlineBankingEvent(d)
      BY <2>7 DEF Generated
    <3> QED BY <2>7, <3>1, Zenon DEF OnlineBankingEvent
  <2> QED BY <1>1, <2>1, <2>2, <2>3, <2>4, <2>5, <2>6, <2>7 DEF ChannelNames
<1> QED BY <1>2, <1>3

-----------------------------------------------------------------------------
(* The inductive invariant.  An alert's outcome is opaque in its type.      *)

JobLike(x) == x \in [pc : {"idle", "pending", "history", "alerts", "listed", "scored", "raised"},
                     target : {x.target}, pool : {x.pool}, alerts : {x.alerts}, asOf : {x.asOf},
                     linked : {x.linked}, outcome : {x.outcome}]

TypeOK ==
    /\ generated \subseteq Channels
    /\ \A a \in assessed : a.basis \in Nat
    /\ JobLike(job)
    /\ job.pc # "idle" => job.target \in Events
    /\ job.pool \subseteq Events
    /\ \A x \in job.linked : x.basis \in Nat

\* What was read of the alerts and of the assessments is earlier than the event.
ReadEarlier ==
    /\ \A a \in job.alerts : a.alertedAt < job.target.time
    /\ \A x \in job.linked : x.basis < job.target.time

\* The evidence is what the newest of the earlier fraud assessments say.
EvidenceIsNewest ==
    job.pc \in {"listed", "scored"} =>
        job.linked = UNION {Linked(a) : a \in NewestOf(FraudBefore(job.asOf, job.target.time))}

\* The evidence is of customers and accounts.
EvidenceIsKeyed == \A x \in job.linked : KeyedEvidence(x)

IInv == /\ TypeOK /\ ReadEarlier /\ EvidenceIsKeyed /\ EvidenceIsNewest /\ ListedNeverLeaks
        /\ job.pc = "scored" => /\ Floored(job.outcome)
                                /\ MandatoryReasonsAreOwn => Explained(job.outcome)
                                /\ NearIsOwnIn(Context, job.linked, job.outcome)

LEMMA InitHolds == Init => IInv
BY DEF Init, IInv, TypeOK, ReadEarlier, EvidenceIsKeyed, EvidenceIsNewest, ListedNeverLeaks, JobLike, Idle

LEMMA StoredEvents == ASSUME TypeOK PROVE Stored \subseteq Events
BY DEF TypeOK, Stored, Events

\* What is selected is in order, whatever the limits cut.
LEMMA NothingListedLeaks ==
    ASSUME TypeOK, ReadEarlier, job.pc # "idle"
    PROVE  ~EvidenceLeaks(job.linked, job.target.time) /\ ValidContext(Context)
              /\ ~LeaksInto(Context.history, job.target.time)
<1>1. job.target.time \in Nat
  BY EventsAreDated DEF TypeOK, Dated
<1>2. /\ Context.event = job.target /\ Context.alerts = job.alerts
      /\ \A e \in Context.history : e \in job.pool /\ e.id # job.target.id /\ e.time < job.target.time
  BY DEF Context, SelectEvents, FirstNewest
<1>3. \A e \in Context.history : e.time \in Nat
  BY <1>2, EventsAreDated DEF TypeOK, Dated
<1>4. ~LeaksInto(Context.history, job.target.time)
  BY <1>1, <1>2, <1>3 DEF LeaksInto
<1>5. ~EvidenceLeaks(job.linked, job.target.time)
  BY <1>1 DEF EvidenceLeaks, TypeOK, ReadEarlier
<1>6. ValidContext(Context)
  BY <1>2 DEF ValidContext, ReadEarlier
<1> QED BY <1>4, <1>5, <1>6

LEMMA ScoreHolds ==
    ASSUME TypeOK, EvidenceIsKeyed, NEW parts \in Failing, NEW answer \in Answers, job.pc = "listed"
    PROVE  LET o == Scored(Context, job.linked, Failures(parts), answer)
           IN  /\ Floored(o) /\ (MandatoryReasonsAreOwn => Explained(o))
               /\ NearIsOwnIn(Context, job.linked, o)
<1>1. Failures(parts) \in SUBSET Layers
  BY DEF Failing, Failures, Layers
<1>2. Context.event.channel \in Channels
  BY EventsAreDated DEF TypeOK, Dated, Context
<1>3. \A e \in Context.history : e.customer = Context.event.customer
  BY DEF Context, SelectEvents, FirstNewest
<1> QED BY <1>1, <1>2, <1>3, ScoringHolds, Zenon DEF EvidenceIsKeyed

LEMMA StepKeeps == IInv /\ Next => IInv'
<1> SUFFICES ASSUME IInv, Next PROVE IInv'
  OBVIOUS
<1> USE DEF IInv
<1>1. CASE \E ch \in Channels : Generate(ch)
  BY <1>1 DEF Generate, Context, TypeOK, ReadEarlier, EvidenceIsKeyed, EvidenceIsNewest, ListedNeverLeaks
<1>2. ASSUME NEW e \in Alerted(Stored), NEW lag \in Lags, NEW fraud \in BOOLEAN,
             NEW place \in 1..MaxAssessments, Assess(e, lag, fraud, place)
      PROVE  IInv'
  <2>1. e.alertedAt + lag \in Nat
    BY StoredEvents, EventsAreDated, AssessmentAssumption DEF Alerted, Dated
  <2>2. \A a \in assessed' : a.basis \in Nat
    <3> DEFINE row == [event |-> e, basis |-> e.alertedAt + lag, fraud |-> fraud, evaluated |-> place]
    <3>1. assessed' = assessed \cup {row}
      BY <1>2, Zenon DEF Assess
    <3>2. row.basis \in Nat
      BY <2>1
    <3>3. \A a \in assessed : a.basis \in Nat
      BY DEF TypeOK
    <3> HIDE DEF row
    <3> QED BY <3>1, <3>2, <3>3, Zenon
  <2> QED BY <1>2, <2>2 DEF Assess, Context, TypeOK, ReadEarlier, EvidenceIsKeyed, EvidenceIsNewest,
                            ListedNeverLeaks
<1>3. ASSUME NEW e \in Alerted(Stored), Begin(e) PROVE IInv'
  <2>1. e \in Events
    BY StoredEvents DEF Alerted
  <2> QED BY <1>3, <2>1 DEF Begin, Idle, TypeOK, JobLike, ReadEarlier, EvidenceIsKeyed, EvidenceIsNewest, ListedNeverLeaks
<1>4. CASE ReadHistory
  BY <1>4, StoredEvents DEF ReadHistory, TypeOK, JobLike, ReadEarlier, EvidenceIsKeyed, EvidenceIsNewest, ListedNeverLeaks
<1>5. CASE ReadAlerts
  BY <1>5 DEF ReadAlerts, TypeOK, JobLike, ReadEarlier, EvidenceIsKeyed, EvidenceIsNewest, ListedNeverLeaks,
              SelectAlerts, FirstNewest
<1>6. CASE ReadEvidence
  <2> DEFINE rows == NewestOf(FraudBefore(assessed, job.target.time))
  <2>1. \A a \in assessed : \A x \in Linked(a) : x.basis = a.basis
    BY DEF Linked
  <2>2. \A a \in rows : a \in assessed /\ a.basis < job.target.time
    BY DEF NewestOf, FraudBefore
  <2>3. /\ job' = [job EXCEPT !.pc = "listed", !.asOf = assessed, !.linked = UNION {Linked(a) : a \in rows}]
        /\ UNCHANGED <<generated, assessed>>
    BY <1>6, Zenon DEF ReadEvidence
  <2> HIDE DEF rows
  <2>4. /\ job'.pc = "listed" /\ job'.target = job.target /\ job'.pool = job.pool
        /\ job'.alerts = job.alerts /\ job'.asOf = assessed
        /\ job'.linked = UNION {Linked(a) : a \in rows} /\ JobLike(job')
    BY <2>3 DEF TypeOK, JobLike
  <2>5. \A x \in job'.linked : x.basis \in Nat /\ x.basis < job.target.time
    BY <2>1, <2>2, <2>4 DEF TypeOK
  <2>6. EvidenceIsKeyed'
    <3>1. \A a : \A x \in Linked(a) : KeyedEvidence(x)
      BY DEF Linked, KeyedEvidence
    <3> QED BY <2>4, <3>1 DEF EvidenceIsKeyed
  <2>7. EvidenceIsNewest'
    BY <2>4, Zenon DEF EvidenceIsNewest, rows
  <2>8. job.target \in Events
    BY <1>6 DEF ReadEvidence, TypeOK
  <2>9. TypeOK' /\ ReadEarlier' /\ ListedNeverLeaks' /\ job'.pc # "scored"
    BY <2>3, <2>4, <2>5, <2>8 DEF TypeOK, ReadEarlier, ListedNeverLeaks
  <2> QED BY <2>6, <2>7, <2>9
<1>7. ASSUME NEW parts \in Failing, NEW answer \in Answers, Score(parts, answer) PROVE IInv'
  <2>1. job' = [job EXCEPT !.pc = "scored", !.outcome = Scored(Context, job.linked, Failures(parts), answer)]
    BY <1>7, NothingListedLeaks DEF Score
  <2>2. PICK o : o = Scored(Context, job.linked, Failures(parts), answer)
    OBVIOUS
  <2>3. Floored(o) /\ (MandatoryReasonsAreOwn => Explained(o)) /\ NearIsOwnIn(Context, job.linked, o)
    BY <1>7, <2>2, ScoreHolds DEF Score
  <2>4. job' = [job EXCEPT !.pc = "scored", !.outcome = o] /\ UNCHANGED <<generated, assessed>>
    BY <1>7, <2>1, <2>2 DEF Score
  <2>5. /\ job'.pc = "scored" /\ job'.outcome = o /\ job'.target = job.target /\ job'.pool = job.pool
        /\ job'.alerts = job.alerts /\ job'.asOf = job.asOf /\ job'.linked = job.linked /\ JobLike(job')
    BY <2>4 DEF TypeOK, JobLike
  <2>6. job.target \in Events
    BY <1>7 DEF Score, TypeOK
  <2>7. TypeOK' /\ ReadEarlier' /\ ListedNeverLeaks'
    BY <2>4, <2>5, <2>6 DEF TypeOK, ReadEarlier, ListedNeverLeaks
  <2>8. Context' = Context
    BY <2>5 DEF Context
  <2>9. EvidenceIsKeyed' /\ EvidenceIsNewest'
    BY <1>7, <2>5 DEF EvidenceIsKeyed, EvidenceIsNewest, Score
  <2> QED BY <2>3, <2>5, <2>7, <2>8, <2>9, Zenon
<1>8. CASE Finish
  BY <1>8 DEF Finish, Idle, TypeOK, JobLike, ReadEarlier, EvidenceIsKeyed, EvidenceIsNewest, ListedNeverLeaks
<1> QED BY <1>1, <1>2, <1>3, <1>4, <1>5, <1>6, <1>7, <1>8 DEF Next

THEOREM Inductive == Spec => []IInv
<1>1. IInv /\ UNCHANGED vars => IInv'
  BY DEF vars, Context, IInv, TypeOK, ReadEarlier, EvidenceIsKeyed, EvidenceIsNewest, ListedNeverLeaks
<1>2. IInv /\ [Next]_vars => IInv'
  BY <1>1, StepKeeps
<1> QED BY <1>2, InitHolds, PTL DEF Spec

-----------------------------------------------------------------------------
(* The theorems.                                                            *)

\* The generated channels, the assessments and the job in hand keep their types.
THEOREM TypeCorrect == Spec => []TypeOK
<1>1. IInv => TypeOK
  BY DEF IInv
<1> QED BY <1>1, Inductive, PTL

\* Whatever the generators draw and whatever runs beside the listing, no
\* component's leak check trips, so no alert is scored catastrophically.
THEOREM ListingsNeverLeak == Spec => []ListedNeverLeaks
<1>1. IInv => ListedNeverLeaks
  BY DEF IInv
<1> QED BY <1>1, Inductive, PTL

\* Whatever parts fail together and whatever the others answer, a degraded alert
\* keeps its floor, and so does one with a mandatory review.
THEOREM DegradedAlertsKeepTheirFloor == Spec => []DegradedIsNeverLow
<1>1. IInv => DegradedIsNeverLow
  BY DEF IInv, DegradedIsNeverLow, Floored
<1> QED BY <1>1, Inductive, PTL

KeysOf(linked) == {x.key : x \in linked}

\* Who is of the evidence read is of one of its rows.
LEMMA EvidenceNames ==
    ASSUME NEW rows, NEW linked, linked = UNION {Linked(a) : a \in rows}
    PROVE  /\ \A c : <<"customer", c>> \in KeysOf(linked) <=> \E a \in rows : a.event.customer = c
           /\ \A c : <<"account", c>> \in KeysOf(linked) <=> \E a \in rows : a.event.account = c
<1> DEFINE Names(a, k) == \E x \in Linked(a) : k = x.key
<1>1. \A k : k \in KeysOf(linked) <=> \E a \in rows : Names(a, k)
  BY DEF KeysOf
<1>2. /\ \A a, c : Names(a, <<"customer", c>>) <=> a.event.customer = c
      /\ \A a, c : Names(a, <<"account", c>>) <=> a.event.account = c
  BY DEF Linked
<1> HIDE DEF Names
<1> QED BY <1>1, <1>2

\* Whatever is assessed, in whatever order, and however the history and the evidence
\* are cut, the flag of nearby fraud is about the newest assessments of the customer
\* and of the accounts of its kept events.
THEOREM NearFraudIsOwn == Spec => []NearFraudIsOwnFraud
<1>1. IInv => NearFraudIsOwnFraud
  <2> DEFINE entities == [e \in Context.history |-> Extract(job.target.channel, e)]
             accounts == {e.account : e \in KeptEvents(Context.history, GraphPolicy, entities)}
             OwnRow(a) == a.event.customer = job.target.customer \/ a.event.account \in accounts
             fraud    == {a \in job.asOf : a.fraud /\ a.basis < job.target.time}
             keys     == KeysOf(job.linked)
  <2> SUFFICES ASSUME IInv, job.pc = "scored", "graph" \notin job.outcome.failed
               PROVE  <<"NEAR_FRAUD_LINKED_ENTITY">> \in Codes <=>
                         \E a \in fraud : OwnRow(a) /\ Cardinality({b \in fraud : b.evaluated > a.evaluated}) < MaxEvidence
    BY Zenon DEF NearFraudIsOwnFraud
  <2>1. Context.event = job.target
    BY DEF Context
  <2>2. <<"NEAR_FRAUD_LINKED_ENTITY">> \in Codes <=>
            \/ <<"customer", job.target.customer>> \in keys
            \/ \E acct \in accounts : <<"account", acct>> \in keys
    <3>1. NearIsOwnIn(Context, job.linked, job.outcome)
      BY DEF IInv
    <3> QED BY <2>1, <3>1, Zenon DEF NearIsOwnIn, Codes, KeysOf
  <2>3. FraudBefore(job.asOf, job.target.time) = fraud
    BY Zenon DEF FraudBefore
  <2>4. job.linked = UNION {Linked(a) : a \in NewestOf(fraud)}
    BY <2>3 DEF IInv, EvidenceIsNewest
  <2>5. NewestOf(fraud) = {a \in fraud : Cardinality({b \in fraud : b.evaluated > a.evaluated}) < MaxEvidence}
    BY Zenon DEF NewestOf, NewerThan
  <2> HIDE DEF accounts, fraud
  <2>6. /\ <<"customer", job.target.customer>> \in keys <=>
              \E a \in NewestOf(fraud) : a.event.customer = job.target.customer
        /\ \A acct : <<"account", acct>> \in keys <=> \E a \in NewestOf(fraud) : a.event.account = acct
    BY <2>4, EvidenceNames
  <2>7. <<"NEAR_FRAUD_LINKED_ENTITY">> \in Codes <=> \E a \in NewestOf(fraud) : OwnRow(a)
    <3> HIDE DEF keys
    <3> QED BY <2>2, <2>6, Zenon
  <2> QED BY <2>5, <2>7, Zenon
<1> QED BY <1>1, Inductive, PTL

\* With rule files whose mandatory rules have reason codes of their own, the
\* codes name exactly the failed parts and show every mandatory review.
THEOREM FailedPartsAreNamed ==
    ASSUME MandatoryReasonsAreOwn
    PROVE  Spec => []FailuresAreExplained
<1>1. IInv => FailuresAreExplained
  BY DEF IInv, FailuresAreExplained, Explained, Codes
<1> QED BY <1>1, Inductive, PTL
=============================================================================
