-------------------------- MODULE AlertAssessment --------------------------
(***************************************************************************)
(* The assessment of one source alert: the three reads of                  *)
(* scoring/dispatch.py's list_pending, each a statement with a snapshot of *)
(* its own, and scoring/orchestrator.py's score_source_alert over what     *)
(* they returned, while generation runs insert events and label runs write *)
(* assessments.  AlertScoring has what a run does with the outcome.        *)
(***************************************************************************)
EXTENDS ChannelFeatures, ScenarioGenerator, EnsemblePolicy, ReasonCodes

CONSTANTS Draws,        \* [Channels -> sets of draws]: the random stream of a generation
          Rules,        \* [Channels -> rule set]: the local rule files
          GraphPolicy, PriorityPolicy,
          Answers,              \* what the models may answer: [gbm, anomaly, contributions]
          MaxFailures,          \* bound on the parts that fail together
          AnomalyFlag,          \* ANOMALY_FLAG_THRESHOLD_DEFAULT
          Lags,                 \* bound: how long after its alert an assessment may be based
          MaxAssessments,       \* bound on the label assessments
          MaxEvents, MaxAlerts, \* _MAX_HISTORICAL_EVENTS_, _MAX_SOURCE_ALERT_HISTORY_PER_ALERT
          MaxEvidence           \* _MAX_RESOLVED_FRAUD_EVIDENCE_ROWS

ASSUME AssessmentAssumption ==
    /\ DOMAIN Draws \subseteq ChannelNames
    /\ \A ch \in DOMAIN Draws : \A d \in Draws[ch] : ValidDraw(d, ch)
    /\ ValidGraphPolicy(GraphPolicy) /\ ValidEnsemblePolicy(PriorityPolicy)
    /\ DOMAIN Rules = DOMAIN Draws /\ \A ch \in DOMAIN Rules : DOMAIN Rules[ch].rules \subseteq Nat
    /\ Lags \subseteq Nat /\ MaxAssessments \in Nat /\ MaxFailures \in Nat
    /\ MaxEvents \in Nat \ {0} /\ MaxAlerts \in Nat \ {0} /\ MaxEvidence \in Nat \ {0}

Channels == DOMAIN Draws
Layers   == {"rules", "gbm", "anomaly", "graph"}

VARIABLES generated,    \* SUBSET Channels: the channels whose generation has committed
          assessed,     \* label_assessments: [event, basis, fraud, evaluated]
          job           \* the alert being listed and scored

vars == <<generated, assessed, job>>

Stored == UNION {Generated(ch, Draws[ch]) : ch \in generated}
Alerted(S) == {e \in S : e.alertedAt > 0}

NoOutcome == [band |-> "LOW", failed |-> {}, mandatory |-> FALSE, codes |-> {}]
\* asOf: label_assessments as the evidence's snapshot has it (history).
Idle == [pc |-> "idle", target |-> 0, pool |-> {}, alerts |-> {}, asOf |-> {}, linked |-> {},
         outcome |-> NoOutcome]

Init == generated = {} /\ assessed = {} /\ job = Idle

-----------------------------------------------------------------------------
(* The environment.                                                         *)

\* generate_and_write: a channel's events and alerts in one transaction.
Generate(ch) ==
    /\ ch \notin generated
    /\ generated' = generated \cup {ch}
    /\ UNCHANGED <<assessed, job>>

\* A label run, about any alert scored before, an alert assessed before included.
\* place orders evaluated_at: not in the order of the commits, and any order of a tie.
Assess(e, lag, fraud, place) ==
    /\ \A a \in assessed : a.evaluated # place
    /\ assessed' = assessed \cup {[event |-> e, basis |-> e.alertedAt + lag, fraud |-> fraud,
                                   evaluated |-> place]}
    /\ UNCHANGED <<generated, job>>

-----------------------------------------------------------------------------
(* list_pending, for one of the pending alerts.                             *)

Begin(e) ==
    /\ job.pc = "idle"
    /\ job' = [Idle EXCEPT !.pc = "pending", !.target = e]
    /\ UNCHANGED <<generated, assessed>>

\* SELECT * FROM channel_events WHERE customer_id = .. AND event_timestamp < ..
ReadHistory ==
    /\ job.pc = "pending"
    /\ job' = [job EXCEPT !.pc = "history",
                          !.pool = {e \in Stored : e.customer = job.target.customer
                                                   /\ e.time < job.target.time}]
    /\ UNCHANGED <<generated, assessed>>

\* The source alerts are read later: a generation may have committed since.
ReadAlerts ==
    /\ job.pc = "history"
    /\ LET found == {a \in Alerted(Stored) : a.customer = job.target.customer
                                             /\ a.alertedAt < job.target.time}
       IN  job' = [job EXCEPT !.pc = "alerts",
                              !.alerts = SelectAlerts(found, job.pool, job.target, MaxAlerts)]
    /\ UNCHANGED <<generated, assessed>>

Linked(row) == {[key |-> <<"customer", row.event.customer>>, basis |-> row.basis],
                [key |-> <<"account", row.event.account>>, basis |-> row.basis]}

FraudBefore(rows, now) == {a \in rows : a.fraud /\ a.basis < now}

\* ORDER BY evaluated_at DESC LIMIT, whichever customers and channels the rows are of.
NewerThan(a, rows)  == {b \in rows : b.evaluated > a.evaluated}
NewestOf(rows)      == {a \in rows : Cardinality(NewerThan(a, rows)) < MaxEvidence}

ReadEvidenceUpTo ==             \* variant: an assessment based at the event's own time counts
    /\ job.pc = "alerts"
    /\ LET rows == NewestOf({a \in assessed : a.fraud /\ a.basis <= job.target.time})
       IN  job' = [job EXCEPT !.pc = "listed", !.asOf = assessed,
                              !.linked = UNION {Linked(a) : a \in rows}]
    /\ UNCHANGED <<generated, assessed>>

ReadEvidenceAmongNewest ==      \* variant: the limit is applied before the filter
    /\ job.pc = "alerts"
    /\ LET rows == FraudBefore(NewestOf(assessed), job.target.time)
       IN  job' = [job EXCEPT !.pc = "listed", !.asOf = assessed,
                              !.linked = UNION {Linked(a) : a \in rows}]
    /\ UNCHANGED <<generated, assessed>>

\* The newest eligible RESOLVED_FRAUD rows based before the event, the latest of
\* their alert or not.
ReadEvidence ==
    /\ job.pc = "alerts"
    /\ LET rows == NewestOf(FraudBefore(assessed, job.target.time))
       IN  job' = [job EXCEPT !.pc = "listed", !.asOf = assessed,
                              !.linked = UNION {Linked(a) : a \in rows}]
    /\ UNCHANGED <<generated, assessed>>

-----------------------------------------------------------------------------
(* score_source_alert.  failed names the parts that raise on this alert: a  *)
(* row the preprocessor refuses fails both models that read it.             *)

Context == [event |-> job.target, alerts |-> job.alerts,
            history |-> SelectEvents(job.pool, job.target, MaxEvents)]

Raised == [job EXCEPT !.pc = "raised"]

\* A model without a booster answers without contributions.
Failing == {parts \in SUBSET (Layers \cup {"preprocessor"}) : Cardinality(parts) <= MaxFailures}

Failures(parts) == IF "preprocessor" \in parts THEN (parts \ {"preprocessor"}) \cup {"gbm", "anomaly"} ELSE parts

\* A part that is not OK has no score, no counts and no contributions.
Scored(ctx, evidence, failed, answer) ==
    LET event    == ctx.event
        features == Features(ctx)
        rules    == Evaluate("rules" \notin failed, Rules[event.channel], event.channel,
                        ConditionContext(event.payload, features, IntrinsicFields(event)))
        broken   == IF rules.status = "OK" THEN failed ELSE failed \cup {"rules"}
        graph    == Graph(ctx.history, GraphPolicy, [e \in ctx.history |-> Extract(event.channel, e)])
        customer == <<"customer", event.customer>>
        devices  == {<<"device", d>> : d \in event.device}
        others   == CounterpartyKeys(Extract(event.channel, event))
        linked   == {x.key : x \in evidence}
        Unless(layer, value) == IF layer \in failed THEN 0 ELSE value
        score    == PriorityScore(rules.score, Unless("gbm", answer.gbm), Unless("anomaly", answer.anomaly),
                        Unless("graph", GraphRisk(graph, customer, devices, others, linked, GraphPolicy)),
                        PriorityPolicy)
        mandatory == \E i \in DOMAIN rules.fired : rules.fired[i].category = "MANDATORY_REVIEW"
        banded   == BandPriority(score, mandatory, rules.status, rules.floor, PriorityPolicy)
        Status(layer) == IF layer \in failed THEN "ERROR" ELSE "OK"
    IN  [failed |-> broken, mandatory |-> mandatory,
         band |-> MaxBand(MaxBand(banded, IF "gbm" \in failed THEN "HIGH" ELSE "LOW"),
                          IF failed \cap {"anomaly", "graph"} # {} THEN "MEDIUM" ELSE "LOW"),
         codes |-> BuildCodes(event.upstream, rules,
                     [status |-> Status("gbm"), contributions |-> answer.contributions],
                     [status |-> Status("anomaly"), score |-> answer.anomaly],
                     [status |-> Status("graph"), devices |-> SharedDeviceCount(graph, devices),
                      fanIn |-> FanInCount(graph, others),
                      hops |-> HopsToFraud(graph, customer, linked, GraphPolicy.maxNodes)],
                     AnomalyFlag)]

Score(parts, answer) ==
    /\ job.pc = "listed"
    /\ job' = IF EvidenceLeaks(job.linked, job.target.time) \/ ~ValidContext(Context)
                 \/ LeaksInto(Context.history, job.target.time)
              THEN Raised
              ELSE [job EXCEPT !.pc = "scored",
                               !.outcome = Scored(Context, job.linked, Failures(parts), answer)]
    /\ UNCHANGED <<generated, assessed>>

Finish == /\ job.pc \in {"scored", "raised"}
          /\ job' = Idle
          /\ UNCHANGED <<generated, assessed>>

Next == \/ \E ch \in Channels : Generate(ch)
        \/ \E e \in Alerted(Stored), lag \in Lags, fraud \in BOOLEAN, place \in 1..MaxAssessments :
               Assess(e, lag, fraud, place)
        \/ \E e \in Alerted(Stored) : Begin(e)
        \/ ReadHistory \/ ReadAlerts \/ ReadEvidence
        \/ \E parts \in Failing, answer \in Answers : Score(parts, answer)
        \/ Finish

Spec == Init /\ [][Next]_vars

-----------------------------------------------------------------------------
(* Properties.                                                              *)

Codes == {c.code : c \in job.outcome.codes}

(* An alert scored without one of its parts never sinks to the bottom of   *)
(* the queue: HIGH without the GBM, at least MEDIUM without the rules, the *)
(* anomaly detector or the graph, whatever the other parts contributed     *)
(* (orchestrator.py:296-317, ensemble/policy.py:83-110).                   *)
DegradedIsNeverLow ==
    job.pc = "scored" =>
        /\ job.outcome.failed # {} => job.outcome.band # "LOW"
        /\ "gbm" \in job.outcome.failed \/ job.outcome.mandatory => job.outcome.band = "HIGH"

(* The analyst can tell a part that failed from one that found nothing:    *)
(* exactly the failed parts have an UNAVAILABLE code, no failed part has   *)
(* another code, and a mandatory review shows the rule that asked for it   *)
(* (reason_codes/builder.py:160-214).                                      *)
FailuresAreExplained ==
    job.pc = "scored" =>
        /\ {layer \in Layers : <<"UNAVAILABLE", layer>> \in Codes} = job.outcome.failed
        /\ \A c \in job.outcome.codes :
              c.layer \in job.outcome.failed => c.code = <<"UNAVAILABLE", c.layer>>
        /\ job.outcome.mandatory <=> \E c \in job.outcome.codes : c.severity = "mandatory"

(* What list_pending assembles from three snapshots never trips the leak   *)
(* checks of the context, of the graph or of the fraud evidence: no alert  *)
(* is scored catastrophically because of what ran beside it                *)
(* (core.py:101-133, entity_graph.py:100-115, 220-226).                    *)
ListedNeverLeaks == job.pc # "raised"

(* The near-fraud flag is about the customer's own past, within the limit  *)
(* of the evidence: it is raised exactly when a RESOLVED_FRAUD assessment  *)
(* based before the event, with fewer than MaxEvidence newer ones of       *)
(* anybody when it was read, is of this customer or of an account it used  *)
(* in an event the graph still holds - the most recent ones - since the    *)
(* history holds no one else's (dispatch.py:439-446,                       *)
(* entity_graph.py:277-301, builder.py:148-156).                           *)
NearFraudIsOwnFraud ==
    job.pc = "scored" /\ "graph" \notin job.outcome.failed =>
        LET entities == [e \in Context.history |-> Extract(job.target.channel, e)]
            accounts == {e.account : e \in KeptEvents(Context.history, GraphPolicy, entities)}
            OwnRow(a) == a.event.customer = job.target.customer \/ a.event.account \in accounts
            fraud    == {a \in job.asOf : a.fraud /\ a.basis < job.target.time}
        IN  <<"NEAR_FRAUD_LINKED_ENTITY">> \in Codes <=>
                \E a \in fraud : OwnRow(a) /\ Cardinality({b \in fraud : b.evaluated > a.evaluated}) < MaxEvidence

(* What the documentation says of the graph: a device used by several      *)
(* customers before this event shows as a ring                             *)
(* (AIDP_V1_3_FRAUD_INTELLIGENCE_BUILD_GUIDE.md:707-709).                  *)
SharedDeviceRingsAreSeen ==
    job.pc = "scored" /\ "graph" \notin job.outcome.failed =>
        \A d \in job.target.device :
            LET users == {e.customer : e \in {x \in Stored : x.time < job.target.time /\ d \in x.device}}
            IN  Cardinality(users) >= SharedDeviceFlag => <<"SHARED_DEVICE_RING">> \in Codes
=============================================================================
