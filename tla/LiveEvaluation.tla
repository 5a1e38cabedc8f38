--------------------------- MODULE LiveEvaluation ---------------------------
(***************************************************************************)
(* `aidp fraud-intel evaluate` (cli/__main__.py:311-570) over the tables    *)
(* that scoring, label and promotion runs keep changing: the operational    *)
(* bundle, the resolved population and the candidate's scoring contexts are *)
(* read by separate transactions (cli_data_access.py:478-751), and every    *)
(* score of the candidate stays in memory.  Here a scoring run and a label  *)
(* run are one step each; AlertScoring and LabelEligibility have theirs.    *)
(***************************************************************************)
EXTENDS EvaluationMetrics

CONSTANTS Alerts,         \* a finite set of naturals, the alert ids
          EventTime,      \* [Alerts -> Nat]
          Bundles,        \* a finite set of naturals, the bundle versions
          Reports,        \* [Bundles -> the training-time report]
          Pinned,         \* [Bundles -> the policy version a bundle pins]
          Policies,       \* [policy versions -> ensemble policy]
          Scores,         \* bound: [Bundles -> [Alerts -> what scoring it may conclude: [score, rules, band]]]
          Truths,         \* bound: [Alerts -> label] the generator may have recorded
          Requests,       \* bound: the arguments: [candidate, capacity, target]
          MinClassCount,  \* MIN_CLASS_COUNT_FOR_GATE
          Generation, Dataset,      \* --generation-run-id and its dataset version
          MaxBad,         \* bound on the alerts a scoring pass fails on
          MaxRelabels,    \* bound on the labels that change after the label run
          None

Verdicts == {"RESOLVED_FRAUD", "RESOLVED_LEGITIMATE"}

ASSUME EvaluationAssumption ==
    /\ Alerts \subseteq Nat /\ Bundles \subseteq Nat /\ None \notin Alerts \cup Bundles
    /\ Truths \subseteq [Alerts -> Verdicts]
    /\ \A r \in Requests : r.candidate \in Bundles \cup {None} /\ 0 < r.target[1] /\ r.target[1] <= r.target[2]
    /\ \A v \in DOMAIN Policies : ValidEnsemblePolicy(Policies[v])

VARIABLES status,     \* [Bundles -> "CANDIDATE" | "OPERATIONAL" | "RETIRED"]
          policy,     \* the version of the local policy files
          evidence,   \* alert_evidence: [alert, bundle, score, rules, band, newest]
          label,      \* [Alerts -> the latest assessment's verdict, or "none"]
          relabels,
          job         \* the evaluation being made

vars == <<status, policy, evidence, label, relabels, job>>

Operational == {b \in Bundles : status[b] = "OPERATIONAL"}

Idle == [pc |-> "idle", bundle |-> None, candidate |-> None, capacity |-> None, target |-> None,
         outcomes |-> {}, contexts |-> {}, shadow |-> {}, gate |-> FALSE,
         moved |-> {}]      \* history: the alerts relabelled since the population was read

Init == /\ status = [b \in Bundles |-> "CANDIDATE"]
        /\ policy \in DOMAIN Policies
        /\ evidence = {} /\ label = [a \in Alerts |-> "none"] /\ relabels = 0
        /\ job = Idle

-----------------------------------------------------------------------------
(* What other commands do meanwhile.  Bound: they rest while an evaluation  *)
(* that has ended is still on record.                                       *)

Ended == job.pc \in {"evaluated", "compared", "gated", "refused", "raised"}

Promote(b) ==
    /\ ~Ended /\ status[b] = "CANDIDATE"
    /\ status' = [x \in Bundles |-> IF x = b THEN "OPERATIONAL"
                                    ELSE IF status[x] = "OPERATIONAL" THEN "RETIRED" ELSE status[x]]
    /\ UNCHANGED <<policy, evidence, label, relabels, job>>

EditPolicies(v) ==
    /\ ~Ended /\ v # policy
    /\ policy' = v
    /\ UNCHANGED <<status, evidence, label, relabels, job>>

Unscored(b) == {a \in Alerts : ~\E e \in evidence : e.alert = a /\ e.bundle = b}

\* What a pass over some alerts may conclude, failing on at most MaxBad of them.
Conclusions(alerts, b, failures) ==
    {f \in [alerts -> UNION Range(Scores[b]) \cup failures] :
        /\ \A a \in alerts : f[a] \in Scores[b][a] \cup failures
        /\ Cardinality({a \in alerts : f[a] \in failures}) <= MaxBad}

\* A catastrophic row has neither a score nor a band.
Catastrophic == [score |-> None, rules |-> 0, band |-> None]
Unrecorded   == [score |-> None, rules |-> 0, band |-> "unrecorded"]

\* A run under a bundle that is operational, or was when the run began.
ScoreRun(b) ==
    /\ ~Ended /\ status[b] \in {"OPERATIONAL", "RETIRED"} /\ Unscored(b) # {}
    /\ \E f \in Conclusions(Unscored(b), b, {Catastrophic, Unrecorded}) :
         LET rows == {[alert |-> a, bundle |-> b, score |-> f[a].score, rules |-> f[a].rules,
                       band |-> f[a].band, newest |-> TRUE] : a \in {x \in Unscored(b) : f[x] # Unrecorded}}
             redone == {r.alert : r \in rows}
         IN  evidence' = rows \cup {[e EXCEPT !.newest = e.newest /\ e.alert \notin redone] : e \in evidence}
    /\ UNCHANGED <<status, policy, label, relabels, job>>

Reading    == job.pc \in {"evaluating", "candidate", "contexts"}
Moved(alerts) == job' = IF Reading THEN [job EXCEPT !.moved = @ \cup alerts] ELSE job

\* The first label run: synthetic labels mature at once.
LabelRun(truth) ==
    /\ ~Ended /\ evidence # {} /\ label = [a \in Alerts |-> "none"]
    /\ label' = truth
    /\ Moved(Alerts)
    /\ UNCHANGED <<status, policy, evidence, relabels>>

\* A later one, after an analyst's disposition.
Relabel(a, l) ==
    /\ ~Ended /\ label[a] \notin {"none", l} /\ relabels < MaxRelabels
    /\ label' = [label EXCEPT ![a] = l] /\ relabels' = relabels + 1
    /\ Moved({a})
    /\ UNCHANGED <<status, policy, evidence>>

-----------------------------------------------------------------------------
(* The evaluation.                                                          *)

Env == <<status, policy, evidence, label, relabels>>

\* _handle_fraud_intel_evaluate up to the read of the operational bundle.
Begin(r) ==
    /\ job.pc = "idle"
    /\ job' = [Idle EXCEPT !.candidate = r.candidate, !.capacity = r.capacity, !.target = r.target,
                  !.bundle = IF Operational = {} THEN None ELSE CHOOSE b \in Operational : TRUE,
                  !.pc = IF Operational # {} THEN "live" ELSE IF r.candidate # None THEN "cold" ELSE "refused"]
    /\ UNCHANGED Env

\* _evaluate_candidate_cold_start: the report of the candidate's own training.
EvaluateColdStart ==
    /\ job.pc = "cold"
    /\ LET report == Reports[job.candidate]
       IN  job' = IF report.intact /\ report.generation = Generation /\ report.dataset = Dataset
                  THEN [job EXCEPT !.pc = "gated", !.gate = ColdStartGate(report, MinClassCount)]
                  ELSE [job EXCEPT !.pc = "refused"]
    /\ UNCHANGED Env

\* The criteria both population reads share.
ResolvedAlerts == {a \in Alerts : label[a] \in Verdicts}

CurrentEvidenceOf(a, b) ==      \* variant: the alert's newest row, whatever its bundle
    {e \in evidence : e.alert = a /\ e.newest}

\* The latest row of an alert under a bundle (this model has one row per alert and bundle).
EvidenceOf(a, b) == {e \in evidence : e.alert = a /\ e.bundle = b}

\* The rules-only baseline, with the local policy and the other weights at 0.
BaselineScore(rules) == PriorityScore(rules, 0, 0, 0, Policies[policy])

OutcomeOf(e) == [alert |-> e.alert, bundle |-> e.bundle, time |-> EventTime[e.alert],
                 score |-> e.score, band |-> e.band, baseline |-> BaselineScore(e.rules),
                 fraud |-> label[e.alert] = "RESOLVED_FRAUD"]

\* load_resolved_alert_outcomes: refused when a resolved alert lacks evidence
\* under the bundle; a row without a score is no AlertOutcome (ValidationError).
LoadOutcomes ==
    /\ job.pc = "live"
    /\ LET rows == UNION {EvidenceOf(a, job.bundle) : a \in ResolvedAlerts}
       IN  job' = IF \E a \in ResolvedAlerts : EvidenceOf(a, job.bundle) = {}
                  THEN [job EXCEPT !.pc = "refused"]
                  ELSE IF \E e \in rows : e.score = None
                  THEN [job EXCEPT !.pc = "raised"]
                  ELSE [job EXCEPT !.pc = IF job.candidate = None THEN "evaluated" ELSE "evaluating",
                                   !.outcomes = {OutcomeOf(e) : e \in rows}, !.moved = {}]
    /\ UNCHANGED Env

\* The candidate's bundle row, whatever its status by now, and its pinned policies.
LoadCandidate ==
    /\ job.pc = "evaluating"
    /\ job' = [job EXCEPT !.pc = IF Pinned[job.candidate] = policy THEN "candidate" ELSE "refused"]
    /\ UNCHANGED Env

\* load_resolved_alert_scoring_contexts: a transaction of its own.
LoadContexts ==
    /\ job.pc = "candidate"
    /\ job' = [job EXCEPT !.pc = "contexts", !.contexts = ResolvedAlerts]
    /\ UNCHANGED Env

\* score_candidate_shadow and the comparison: an alert that raises has no score.
ScoreShadow ==
    /\ job.pc = "contexts"
    /\ \E f \in Conclusions(job.contexts, job.candidate, {Catastrophic}) :
         job' = [job EXCEPT !.pc = "compared",
                    !.shadow = {[alert |-> a, score |-> f[a].score, band |-> f[a].band] :
                                  a \in {x \in job.contexts : f[x] # Catastrophic}}]
    /\ UNCHANGED Env

Finish ==
    /\ Ended
    /\ job' = Idle
    /\ UNCHANGED Env

Next == \/ \E b \in Bundles : Promote(b) \/ ScoreRun(b)
        \/ \E v \in DOMAIN Policies : EditPolicies(v)
        \/ \E truth \in Truths : LabelRun(truth)
        \/ \E a \in Alerts, l \in Verdicts \cup {"UNRESOLVED"} : Relabel(a, l)
        \/ \E r \in Requests : Begin(r)
        \/ EvaluateColdStart \/ LoadOutcomes \/ LoadCandidate \/ LoadContexts \/ ScoreShadow
        \/ Finish

Spec == Init /\ [][Next]_vars

-----------------------------------------------------------------------------
(* Properties.                                                              *)

Evaluation == EvaluateChannel(job.outcomes, job.capacity, job.target)
Comparison == Compare(job.outcomes, job.shadow, job.capacity, job.target)
Returned   == Reading \/ job.pc \in {"evaluated", "compared"}

(* Whatever is promoted, rescored or relabelled between the reads, what is *)
(* evaluated is every resolved alert under the one bundle that is          *)
(* reported, and what the candidate rescored are the same alerts: only one *)
(* relabelled since may be on one side and not on the other                *)
(* (cli_data_access.py:478-564, 584-592).                                  *)
PopulationIsWhole ==
    Returned =>
        /\ \A o \in job.outcomes : o.bundle = job.bundle
        /\ Reading => {o.alert : o \in job.outcomes} \ job.moved = ResolvedAlerts \ job.moved
        /\ job.pc = "compared" =>
              Cardinality(({s.alert : s \in job.shadow} \ {o.alert : o \in job.outcomes}) \ job.moved) = 0
        /\ job.pc = "compared" =>
              Cardinality(({o.alert : o \in job.outcomes} \ {s.alert : s \in job.shadow}) \ job.moved) <= MaxBad

(* The two parts of a report that answer "how much must be reviewed"       *)
(* agree: the recall at capacity reaches the target exactly when the       *)
(* capacity covers the minimum review volume, and reviewing everything     *)
(* finds every fraud (cross_channel.py:238-284).                           *)
CapacityMeetsTarget ==
    Returned =>
        LET e == Evaluation
        IN  /\ e.fraud > 0 =>
                 /\ e.minimum \in 1..e.total
                 /\ e.reviewed >= e.minimum <=> e.captured * job.target[2] >= job.target[1] * e.fraud
            /\ e.reviewed = e.total => e.captured = e.fraud

(* The comparison's books balance: what the candidate captures more is     *)
(* what it gains less what it loses, every matched alert migrates once,    *)
(* and when all alerts matched the operational side repeats what the       *)
(* evaluation itself found (shadow_candidate.py:275-379).                  *)
ComparisonBalances ==
    job.pc = "compared" =>
        LET c == Comparison
            e == Evaluation
        IN  /\ c.capturedCandidate - c.capturedOperational = c.gained - c.lost
            /\ MapThenSumSet(LAMBDA p : c.migration[p[1], p[2]], Bands \X Bands) = c.matched
            /\ c.matched + c.operationalOnly = e.total
            /\ c.operationalOnly = 0 => /\ c.capturedOperational = e.captured
                                        /\ c.precisionDelta.status = e.accuracy.status

(* What the documentation says of alerts whose scoring failed: "Degraded   *)
(* current-bundle evidence is NOT excluded ... and stays part of the       *)
(* evaluated population" (cli_data_access.py:496-500).                     *)
DegradedStaysEvaluated == job.pc # "raised"
=============================================================================
