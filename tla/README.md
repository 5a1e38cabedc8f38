# Specifications of the local AiDP platform

These modules specify this repository where it is hard to test: the tables, topics,
files and registries that several processes, threads or people work on at once,
and the calculations behind an alert's priority, its reason codes, a decision and
an evaluation report, in the setting in which the code performs them. They are
checked by TLC on small instances, and most of the state machines have theorems for
every instance that TLAPS checks.

Paths below are relative to the repository's root (`src/control_plane/runs.py` is
the Python package's file of that name). `PROJECT.json` lists, for every
definition, the lines it was translated from.

## 1. The system

Everything shared lives in PostgreSQL (`infrastructure/postgres/lib/schema.sql`);
the processes are short-lived CLI commands, a long-running stream consumer and an
HTTP API. Nothing runs in a common scheduler: two commands of the same kind may
always run at the same time, and any of them may die between two statements.

| Component | State it keeps | Operations | Hard behaviours |
|---|---|---|---|
| Run lifecycle (`src/control_plane/runs.py`) | `pipeline_runs` | `begin`, `heartbeat`, `succeed`, `fail`, `fail_from_exception`, `cancel` | compare-and-set and the read explaining its miss are two transactions; duplicates, late calls, lost acknowledgements |
| Bundles (`fraud_intel/models/bundle.py`, `promotion.py`) | `channel_model_bundles`, advisory locks | `register_candidate`, `promote_bundle` | concurrent numbering; promotions deciding on stale reads; commit before the run record |
| Alert scoring (`fraud_intel/scoring/dispatch.py`, `fraud_intel/alerts/queue.py`) | `fraud_alerts`, `alert_evidence` | `score_channel`, `score_and_record_alert` | overlapping runs, promotions and policy edits while scoring, two transactions per alert |
| Dispositions and labels (`alerts/queue.py`, `fraud_intel/labels/eligibility.py`, `fraud_intel/cli_data_access.py`) | `analyst_dispositions`, `label_assessments`, `fraud_alerts.status`, advisory locks | `record_disposition`, `assess_channel_labels`, `append_if_changed` | timestamps taken before waiting for a lock; bases loaded once and appended later |
| Stream consumer (`src/ingestion/consumer.py`, `common/scoring.py`, `common/retry.py`) | consumer-group offset, dead-letter topic, raw bucket, `transactions`, `fraud_scores`, `fraud_decisions` | `run_configured`, `DeadLetterPublisher.send`, `RawEventBuffer`, `score_and_persist` | redelivery, rebalance, asynchronous commits and deliveries, stop at any point |
| Online API (`src/api/main.py`, `common/scoring.py`, `common/feature_store.py`, `common/features.py`, `decisioning/engine.py`) | connection pool, `recent_events`, the scoring tables | `/score` and the reading endpoints | outages of PostgreSQL; features read before the transaction that extends them; retries |
| Alert context (`scoring/dispatch.py` `list_pending`, `features/history.py`, `fraud_intel/generator`) | `channel_events`, `source_alerts`, read | listing a pending alert with its history | three snapshots beside generation and labelling; as-of-time leakage |
| Orchestrator, ensemble, rules, graph, reason codes (`scoring/orchestrator.py` and its imports) | none | functions of one alert's context | components that fail, floors, rankings, bounds of the graph |
| Evaluation (`fraud_intel/evaluation`, `cli/__main__.py`, `cli_data_access.py`) | none, reads evidence and labels | `evaluate`, with or without a candidate bundle | several reads of a population that changes between them |
| Bundle training (`fraud_intel/models/training.py`) | MLflow | fit, register | its registration, see Bundles |
| Batch pipeline (`src/processing`) | layers and lookups under fixed names | raw, clean, enrich, lookups, write | concurrent runs and readers of the same files |
| Legacy training and serving (`src/ml/train.py`, `common/mlflow_setup.py`) | MLflow versions and alias, `model_versions` | train, register, load the champion | one champion in two systems without a common transaction |
| Dashboard, configuration, the remaining CLI, stream generators | none, or read-only | | |

How they interact: every workload keeps one row of `pipeline_runs` through
`RunLifecycle`. Training registers a bundle, promotion makes it OPERATIONAL,
scoring reads the OPERATIONAL bundle and writes alerts and evidence, analysts
dispose of alerts, label runs read dispositions and append assessments, and both
training and the graph component of scoring read eligible assessments. The stream
consumer and the API share `score_and_persist` and its tables. The batch pipeline
computes the features the legacy model is trained on with the function the API
serves with, and writes the risk lookups the API loads.

What makes each correct: a run record ends once and every caller is told the
truth about it; a channel has one OPERATIONAL bundle, replaced atomically by a
vetted one; an alert keeps its identity and first band, and evidence the policies
of its bundle; a closed alert has one verdict and an eligible label is the
verdict of the disposition it cites; no message is skipped or decided twice; a
failing component neither buries an alert nor goes unexplained; nothing later than
an event is used to score it; an evaluation is about one bundle's whole
population; serving and training compute the same features; a record names the
data, and a server the model, that were used.
`PROJECT.json` lists the individual hazards under `hazards`, each at its line
with the properties that cover it.

## 2. The modules

| Module | Models | Proofs |
|---|---|---|
| `RunRecords` | abstract: what a reader of `pipeline_runs` may rely on | |
| `RunLifecycle` | `runs.py`; implements `RunRecords` | `RunLifecycleProofs` |
| `OperationalSwitch` | abstract: what scoring may rely on about bundles | |
| `BundlePromotion` | `bundle.py`, `promotion.py`; implements `OperationalSwitch` and `RunRecords` | `BundlePromotionProofs` |
| `AlertScoring` | `score_channel`, `queue.py`; implements `RunRecords`, uses `OperationalSwitch` as its environment | `AlertScoringProofs` |
| `LabelEligibility` | `record_disposition`, `eligibility.py`, `load_alert_label_bases` | `LabelEligibilityProofs` |
| `StreamConsumer` | `consumer.py`, `score_and_persist`'s transaction; implements `RunRecords` | `StreamConsumerProofs` |
| `EntityGraph` | `entity_graph.py`: bounded graph, counts, distance, risk | |
| `RuleProvider` | `rules/provider.py`: condition operators, rule evaluation | |
| `EnsemblePolicy` | `ensemble/policy.py`: priority score, bands, floors | |
| `ReasonCodes` | `reason_codes/builder.py` | |
| `ChannelFeatures` | `features/`, the registry: history, shared and per-channel features and entities | |
| `ScenarioGenerator` | `generator/`: the events of the seven channels | |
| `AlertAssessment` | composes the six above with `list_pending` and `score_source_alert` | `AlertAssessmentProofs` |
| `EvaluationMetrics` | `evaluation/`: metrics, capacity, comparison, cold-start gate | |
| `LiveEvaluation` | composes them with `evaluate` and the reads of `cli_data_access.py` | |
| `TransactionFeatures` | `features.py`, `feature_store.py`, `engine.py`, `risk_lookups.py` | |
| `OnlineScoring` | the API's pool and requests, `score_and_persist` beside the stream | `OnlineScoringProofs` |
| `BatchTraining` | `pipeline.py`, `raw.py`, `clean.py`, `enrich.py`, `train.py`, `mlflow_setup.py` | `BatchTrainingProofs` |
| `MC*` | constants and symmetry sets for TLC | |

The composition of the bundle side goes through the two abstract modules.
`AlertScoring` does not contain promotion: its `Promotion` action is
`OperationalSwitch!Next`, and `BundlePromotion` is proved to implement
`OperationalSwitch`. All workloads record their run by assigning a status;
`RunLifecycle` implements `RunRecords` for the operations themselves, and a
workload implements `RunRecords` for the order in which it calls them. The modules
of pure operators are composed by EXTENDS into a state machine in which their
inputs arise the way they do in the code, so that a property of theirs is about
reachable inputs.

Conventions. A step is one SQL statement, one transaction or one call whose
effect others can see in between; where a lock makes several statements
unobservable they are one step, and the comment says so. Operators marked
`variant` are plausible bugs in the definition below them; no specification uses
them, they exist so that each property can be shown to notice one. Variables
whose comment says `(history)` only remember what happened. Scores, weights and
ratios are hundredths or exact fractions where the code has floats.

### RunLifecycle
`row` is the table, `call[c]` the call a thread is in. `CasHit` and `CasMiss` are
the UPDATE; `Reread` the second transaction of `_transition`, with other callers'
steps possible in between; `CasFailed`, `RereadFailed` a failing statement;
`CasAckLost` a commit its caller does not learn of. Columns other than `status`
are `ending` (written with the final status) and `beat` (written by heartbeats).
`_ALLOWED_TRANSITIONS` permits PENDING -> RUNNING, but no code performs it, so no
action does. `begin` inserts one row; a `begin` whose acknowledgement is lost
leaves a row nobody holds the id of, which is a `Begin` without later calls.

### BundlePromotion
`Train`, `TakeLock`, `ReadMaxVersion`, `Insert` are `register_candidate`;
`Begin`, `ReadCandidate`, `Verify`, `CheckGate`, `TakeSnapshot`,
`LockAndPromote`, `RecordOutcome` are `promote_bundle`. At READ COMMITTED
`SELECT ... FOR UPDATE` chooses rows by the snapshot of its start (`visible`) and
returns their contents as of each lock, so `TakeSnapshot` and `LockAndPromote`
are two steps. From the last lock to the commit no other promotion of the
channel can act, which makes the retire, the promote and the unique index one
step. `gate` is what `evaluate_cold_start_promotion_gate` says of the bundle's
report, `complete` whether the nine components are recorded, `rules` the policy
versions; MLflow's answers are external and may fail (`StepFails`).

An observation the runs make visible: a bundle registered and promoted by
another operator after `TakeSnapshot` is not among the locked rows, so its
OPERATIONAL row is not retired and the promotion is stopped by the unique index,
not by the row locks. That disjunct of `LockAndPromote` is taken in run
Promotion: the index is needed, the lock alone would not do.

### AlertScoring
`alert` and `evidence` are the tables; `run[r]` is a `score_channel` call. A run
reads the bundle (`ReadBundle`), compares the policy files (`CheckPolicies`; the
loaders cache per process, so what is compared is what is used), lists what is
pending (`ListPending`) and then, per alert, scores (`Score`: a band, or an
exception), inserts the alert (`CreateAlert`) and its evidence
(`RecordEvidence`). The alert and the evidence of a raised attempt go through the
same two steps with band `None`. `WriteFails` is a failing or unacknowledged
write of either.

### LabelEligibility
`StartDisposition` fixes `disposed_at`, `RecordDisposition` gets the row lock and
commits; likewise `StartAppend` fixes `evaluated_at` and `TakeLock`, `Compare`,
`Insert` follow under the advisory lock. `BasisOf` is `load_alert_label_bases`
for one alert, `Assess` is `assess_label`, `LatestIn` the `ORDER BY ... DESC
LIMIT 1` of both tables. An observation: the row an append inserts need not be
the latest one by `(evaluated_at, assessment_id)`, when its transaction started
before that of a row committed meanwhile; `append_if_changed` then compares the
next proposal with the other row. `SoleRunSettles` says this heals.

### StreamConsumer
The broker is external and modelled by how the code uses it: `Assign`, `Revoke`,
`CommitLands`, `Deliver`, `DeliveryFails`. `asked` is the last offset passed to
`consumer.commit(msg)`, which is asynchronous and never looked at. `ScoredBy` is
the transaction of `score_and_persist`, all of whose inserts do nothing on
conflict. `AttemptFails` may or may not have committed. `Stop` is a duration that
expires or Ctrl+C, anywhere in the loop; the `finally` block is `Flush`,
`Close`, `Drain`, each of which may fail as the code lets it. `LeaveQueue` is
what a dying process does with undelivered dead letters.

### AlertAssessment and the modules it composes
`Generate` draws an event of a channel and stores it with its source alert
(`generate_and_write`), `Assess` appends a label assessment - an alert may be
assessed twice, and `evaluated` gives a row a place in the order of `evaluated_at`
that need not be the order of the commits - and one job lists and scores an alert:
`ReadHistory`, `ReadAlerts` and `ReadEvidence` are the three statements of
`list_pending`. `ReadEvidence` keeps the newest `MaxEvidence` (500 in the code) of
the fraud assessments based before the event, of all customers and channels
(`dispatch.py:439-446`); `job.asOf` (history) is the table as that statement saw it.
`Score` is `score_source_alert` with the set of components that raise and the answers
of the two models as inputs. All seven channels generate; the rules are those of
`config/fraud_intel/rules_*.yaml` (except the debit card's, a file of another channel,
so that the check for that slip is exercised). A random draw is a record given by the configuration.

Observations. The limit of the evidence is one for all customers: once as many newer
fraud assessments of others exist, a customer's own older fraud is no longer
evidence, and `NEAR_FRAUD` is not raised although the customer was assessed as fraud
before. `NearFraudIsOwnFraud` states the flag with this limit. The extractor of the
*scored* channel reads the whole cross-channel history, so an event of another channel contributes only the entities both
channels name. With one customer's history the distance to a fraud-linked entity is
0, 1 or none (theorem `NearFraudIsOwn`): every account and device is adjacent to the customer. The mandatory
rules of online banking, wire, ACH and P2P combine conditions the generators never
produce together. `ne` and `not_in` match an absent field (`provider.py:190-191,
214-215`), although `_rule_matches` says an absent field never matches (241-243).
Two rules that share a `reason_code` would be deduplicated to one code; no
checked-in file has two.

### LiveEvaluation and EvaluationMetrics
One channel with two bundles. `EvaluateColdStart` and `Begin` are the branches of
`_handle_fraud_intel_evaluate`; `LoadOutcomes`, `LoadCandidate`, `LoadContexts` the
reads of a live evaluation, each a transaction of its own; `ScoreShadow` rescoring
by the candidate with the local ensemble policy; `ScoreRun`, `LabelRun`,
`Relabel`, `Promote` and `EditPolicies` what happens in between. `job.moved`
(history) remembers the alerts relabelled since. `Catastrophic` is the evidence of
an alert whose scoring raised: no score, no band.

Observations. The rules-only baseline is weighed with the local, unpinned policy
file. `get_bundle` accepts a candidate of any status. The operational and the
candidate population are read by two statements, so an alert relabelled in between
is on one side only: `PopulationIsWhole` excepts it.

### OnlineScoring and TransactionFeatures
A worker is a request or a stream message being scored. `GetConn`, `Ping`,
`Replace`, `PingAgain`, `PutConn` and `GivesBack` are the pool as
`_checkout_validated_connection` and `get_conn` use psycopg2's; `Outage` severs
every connection, `Recover` ends it. A scoring stamps its time (`Stamp`), reads
profile and recent events (`Read`) and commits everything in one transaction
(`Persist`), which may fail or be retried by its client.

Observations. `record_event` only ever writes `transaction_success`, so
`failed_attempts_1h` is 0 online and `MULTIPLE_RECENT_ATTEMPTS` never fires there
(`schema.sql:26-28` lists the failed kind); they have a window of their own,
`WindowFailed1h`. A second ping that fails leaves a connection borrowed for ever,
against the docstring of `_checkout_validated_connection` (82-85), and so does a
ROLLBACK that raises on the way back to the pool; a `getconn` that fails after the
first connection was discarded leaves nothing borrowed. `leaked` counts the lost
ones, and `OnlyOutagesCostConnections` says there is no other way to lose one. `/model` reports the loaded version's name beside the
metrics of the latest active row.

### BatchTraining
`batch[b]` is a `run_pipeline_configured` call, `trainer[t]` a `train_configured`
call, `server[s]` an API process. `Inputs` are the successive contents of
`historical_transactions.csv`, `input` the one it has; `ReplaceInput` is the seed
generator writing it anew (`customers.parquet` and the failed attempts do not
change). `HashInput` and `Raw` are the two reads a batch makes of it. `Raw` and
`Clean` keep rows and report others as rejected, each a set of its own
(`RawRejected`, `CleanRejected`), so that it is a property, and no definition, that
the two account for the input. `BatchFails` is any stage raising, an upload after the
features file was written too, with the rows rejected so far. `files` holds the
layers under their fixed names with the run that wrote them. A row keeps the place it
has in the input through the stages. `Enrich` replays the rows in time order with the
shared feature function, the failed attempts among the recent events at places below
the rows'; `HashFile` and `LoadDataset` are the trainer's two reads of the features
file; `Register`, `SetAlias`, `RecordVersion` its three systems.
`contended` (history) says that the last training to move the alias did so while
another had not recorded its version, or that one failed there since.

Observations. Offline an earlier row of the *same* instant counts towards the
velocity features, online only strictly earlier ones do: `FeaturesMatchServing`
excepts ties. The lookups are written before the features, so a reader may see
the two of different runs. A FAILED batch run may have put its features file in
place. What overlapping or failing trainings leave in `model_versions` the next
training that is alone puts right: `ActiveRowIsTheChampion` requires it.

## 3. The runs

| Run | Instance | Shows |
|---|---|---|
| `RunLifecycle` | 1 run, 3 callers, 2 argument values | replies stay true, refusals are never contradicted, ended rows are final; deadlock-free |
| `Promotion` | 2 bundles of one channel, 2 attempts, 2 policy versions, unlimited faults | one OPERATIONAL bundle, contiguous numbers, vetted promotions, truthful audit records; implements `OperationalSwitch` and `RunRecords` |
| `Scoring` | 3 alerts, 2 runs, 2 bundles pinning different policies, 2 bands, limit 2, 1 fault | accounting, frozen identity, pinned policies, idempotent sequential retries, no success that leaves an alert uncounted |
| `Labels` | 1 alert, 2 analysts, 3 runs, 2 clock values, 1 fault | one verdict, earned labels, no repeated rows, a run on its own settles |
| `Stream` | 3 messages (one malformed, one unreadable), 2 sessions, batch of 2, 2 attempts, 1 fault, 1 rebalance | nothing skipped, nothing decided twice, a success kept its raw events |
| `StreamLiveness` | 2 messages (one malformed), 2 sessions, 2 attempts, 1 rebalance | every message is handled, or nobody consumes |
| `Assessment` | 9 possible events over 7 channels, 2 customers sharing an account and a device, 2 assessments based 15 ticks after their alert and evaluated in either order, 1 row of evidence, up to 2 failing components, history of 3 events and 2 alerts, graph of 2 events | degraded alerts keep their floor, failures are explained, nothing leaks, near-fraud is own fraud |
| `Evaluation` | 3 alerts, 2 bundles, 2 policies, 2 requests (fraction and count), 1 failed scoring, 1 relabelling | one bundle's whole population, consistent capacity figures, a comparison that balances |
| `Online` | 2 interchangeable scorings, 1 query, 1 stream message of one customer, pool of 1 to 2, 2 outages, 2 tries | velocity sees earlier answers, only outages cost connections |
| `Training` | 2 batch runs, an input with ties, duplicates, invalid and unpayable rows that is replaced by another, 2 trainings, 1 server, 1 fault | same features offline and online, records name their data, one champion |
| `Rings`, `EvaluationDegraded` | the instances of `Assessment` and `Evaluation` | one counterexample each, see below |

Bounds and why they suffice. Races over one row need two actors, and a third
only when two of them leave a state behind that misleads it: hence three callers,
three label runs, and two everywhere else. `MaxFaults` limits faults to one where
each step can fail (a second fault meets a run that has already been abandoned, or
one whose history does not matter to the other); `Promotion` has no limit, and
three bundles or two channels are left to the proofs, which hold for every number.
`MaxRevocations` is one, since the two sessions then exchange the partition once
and the group's member leaving exchanges it again. `MaxClock` is one in `Labels`:
with `Window` one, a basis is immature, then mature; equal timestamps and reversed
ones both occur. In `Scoring` (1.2 million states) the limit of two is below the
number of alerts, so the `LIMIT` cuts a list of three, a later run finds the rest, and
a list of one or two is worked off without having been cut, its items failing or not;
`OnlyFirstVaries` leaves the dispositions and the band `High` to the first alert, the
others being there to fill lists. Evidence in `Assessment` is limited to one row, so
that a newer fraud of the other customer pushes out the customer's own, in any order
of evaluation and commit. Two runs save states, neither by leaving out behaviour a
property could tell. In `Assessment`, `EnvironmentWaits` lets the other writers wait
while a listed job is scored, which looks at nothing but the job, and label runs wait
while the listing's reads are of tables they do not write; `ListedView` compares
listed jobs only, since the tables they leave behind are reachable without them. In
`Training`, `BatchesGoFirst` lets trainings and servers wait while a batch is before
its first write or only has its end to record, nothing of which they can see or
disturb; `EndedAlike` forgets what a run that has ended kept, which no step reads,
but not whether `SuccessNamesItsData` held of it. In `StreamLiveness` the
disturbance is the rebalance and failing attempts; crashes are in `Stream`. The
bounds of the graph in `Assessment` are below the bounds of the history, so
truncation happens; two customers share what the generators' identifiers may make
them share. In `Evaluation` the two capacities cover less, exactly and more than
the minimum. `MaxOutages` is two, so that a connection may be cut before and after
its replacement. Only states reachable by the code's own steps are initial.
`RunLifecycle`, `Assessment` and `Rings` check for deadlock: every other system
really stops when its finitely many runs, attempts, sessions or requests are over.

Findings (`PROJECT.json`, `findings`):
- `EvaluationDegraded`: one labelled alert whose scoring failed makes every
  evaluation of its channel raise until the next bundle, while the docstring says
  such evidence stays part of the population.
- `Rings`: shared devices and fan-in across customers cannot be seen in a history
  of one customer, while the build guide promises these counts.

Known divergences without a run of their own; each follows from the model's actions
and the lines named:
- two scoring runs that overlap both record evidence for one alert and bundle:
  `UNIQUE (alert_id, score_execution_id)` never meets the other run's id
  (`RUNBOOK.md:346-350` promises no duplicate);
- a verdict that starts before and commits after another disposition closes the
  alert and is never its basis, which is the latest by `disposed_at`
  (`cli_data_access.py:765-767, 815-816`);
- a server that starts while the alias moves looks the alias up twice and may report,
  and store with its scores, the version of another model than it scores with
  (`mlflow_setup.py:39-67`); `ServedVersionIsItsModel` excepts it as `moved`;
- trainings that overlap, or one that fails between alias and row, leave two active
  rows or none for the alias until a training runs alone (`train.py:230, 270-275`);
  `ActiveRowIsTheChampion` excepts it as `contended`;
- an input rewritten between a batch run's hash and its read makes the run name
  contents it did not process (`pipeline.py:104, 107`); `BatchesAccountForRows`
  excepts it as `replaced`;
- an upload that fails in the `finally` block leaves a gracefully stopped run
  RUNNING (`consumer.py:272-276` says never; 287-289);
- a dead letter that is not delivered is lost, its offset being committed
  (`consumer.py:9-12`; 75, 293);
- JSON that is no object, or bytes that are no UTF-8, fail the run for good instead
  of being dead-lettered (`consumer.py:7-8`; 207-216).

Fairness. Only `StreamConsumer` states any: weak fairness of each session's own
steps (a thread goes on while it can) and of the assignment of a free partition
(the group coordinator assigns partitions to live members). Commits, deliveries,
`Begin` and all disturbances are unfair: a commit may never land, nobody need
start another session. Attempts of a message may fail as often as they like; the
code gives up after `MaxAttempts`. Everything else is one command or one request
that ends by itself; nothing in the code promises that an operator starts another.

## 4. The proofs

`RunLifecycleProofs`, for any sets of runs, callers and arguments, under
`SentinelsDistinct`:
- the inductive invariant `IInv` is the type invariant, `ReturnedRowIsTheEnding`
  and `RefusalIsFinal`, strengthened by `MissedIsBlocked`: once a
  compare-and-set has missed a row, that row is in a status the operation may
  never write over, and stays in one. Without it the replies are not inductive,
  since the second read happens after other callers' writes; the two
  `...RunExists` conjuncts keep calls with a run id never issued apart.
- `EndedRowsStay` and `LifecycleImplementsRecords` follow step by step from it.

`BundlePromotionProofs`, for any finite set of bundles and any channels, attempts
and policies, with faults or without, under `BundlesAssumption`:
- `NInv`, the numbering: the holder of the advisory lock is the one between
  `TakeLock` and `Insert`, the number it computed is still the next one, and the
  registered versions of a channel are `1 .. Cardinality`. Contiguity alone is not
  inductive: `Insert` needs to know that the number read earlier is not taken.
- `PInv`, the promotion: `NInv`, the unique index, every row signed by an attempt
  is promoted, and for each attempt what it has established so far
  (`VettedSoFar`): the candidate it read is complete, its policies are the ones
  seen, and, past the gate, the gate passed or the channel has had an
  operational bundle. The last is stable because no action un-promotes a
  channel, which is why a premise read two transactions earlier suffices.
- `OneOperationalBundle`, `RecordsTellPromotion`, `PromotionsAreVetted`,
  `PromotionKeepsRunRecords` and `PromotionImplementsSwitch` rest on `PInv`.

`AlertScoringProofs`, for any numbers of source alerts and runs, any limit,
bundles and policy versions and any number of faults, under `ScoringAssumption`.
Its `IInv` holds, beside the type invariant and the properties about evidence, one
conjunct of facts for each run, `RInv(r)`:
- `Settled`: the bundle it read has been operational, and the policies it goes on
  with are those the bundle pins, although both may have changed since;
- `LeftBehind`: nothing is recorded for an alert still on its list, except the row
  of the alert whose evidence comes next, with the band of that attempt;
- `Accounted`: processed, rejected and what is left add up to the list;
- `Later`: the runs over before it began are over, and recorded nothing for its
  bundle about what is on its list;
- `Recorded` and `Complete`: the run record follows the run, and if its list was not
  cut, what is pending although the run is through with it, and its catastrophic
  rows, are no more than what it has counted as rejected. At the end the list is
  empty, and this is `SuccessRejectsWhatItLeaves`.

A step of one run leaves the facts of every other run alone (`BystanderKeeps`), since
tables only grow and rows name their run; so each action needs a proof for its own
run only. The properties alone are not inductive: that two rows of one alert and
bundle never come from sequential runs needs `Later`, which a run establishes when
it lists and the others keep. `ShortListIsWhole` (a list shorter than the limit was
not cut) rests on well-founded induction over the naturals.

`StreamConsumerProofs`, for any numbers of messages, sessions, attempts, faults and
rebalances and any batch size, under `StreamAssumption`. `NothingIsSkipped` alone is
not inductive: the offset that lands was asked for by a session earlier, perhaps
before it lost the partition. Its `IInv` has, for each session,
- `Progress`: everything up to the offset it asked for, and everything it polled
  before the message it works on, is handed on; nothing it works on counts before;
- `Kept`: what it counted as processed has a score, and is in its buffer or in the
  bucket, and only in the bucket once the buffer is flushed;
- `Recorded`: its run record follows it.

These are stable because of `Grows`, which every action satisfies: rows stay, topics
and bucket grow, and what leaves a producer's queue is delivered or counted as lost.
`CommittedIsHandedOn`, `SuccessHasStoredItsEvents`, the action property
`FirstDecisionStays` and the refinement `RecordsAreImplemented` follow.

`LabelEligibilityProofs`, for any finite set of alerts, any numbers of analysts'
tickets and runs, any maturity window, clock and number of faults, under
`LabelAssumption`. Its `IInv` holds, for each run:
- `Based`: the bases it loaded once are still what the cited dispositions say,
  since dispositions are only appended;
- `Holds`: from the comparison to the insert the run has the alert's lock, and what
  it is about to insert differs from the latest row - which other runs, lacking the
  lock, leave alone. `ChangesAreAppended` is this fact at the insert;
- `Counted`: inserted, unchanged and what is left add up to the alerts, and the
  inserted are the run's rows, counted as a set (`RowsBy`);
- `Timed` and `Stamped`: timestamps are not later than the clock. They serve
  `EligibleIsEarned`, whose window is between two timestamps of different
  transactions, and
- `Alone`: a run nobody overlaps stamps its rows no earlier than those it finds, so
  its rows are the latest ones and stay so while it is alone (`SoleRunsSettle`).

`OnlineScoringProofs`, for any finite set of requests, any bounds of the pool and
any number of outages and tries, under `OnlineAssumption`: the books of the pool.
`OnlyOutagesCostConnections` is inductive only with
- `Placed`: where a request is tells whether it holds a connection;
- `Balanced`: what is borrowed is held or leaked, what is borrowed or idle is within
  the bound, and the leaked, the cut idle and the cut held ones together are no more
  than outages have severed. So a request that loses a cut connection moves it
  from one account to another;
- `Severed`: no connection lives while the server is down, which is why a ping that
  fails is of a cut one.

A second invariant, `VInv`, is about what the scorings saw
(`DecisionsSeeEarlierAnswers`, for any scores and retried messages). The property
compares two counts taken at different times: the recent scores a decision read, and
the answers given before its request took its time. Neither says anything of the
other, so `Informed` relates them through the tables: the requests a scoring knows to
be answered have a committed score, timed before its own (`EveryAnswerIsInformed`); a
row it carries towards its commit counts no fewer than those of its customer and no
more than all scored so far (`Ranged`); and every stored event is that of the one score of its transaction (`OneEventEach`),
so that a retry that finds its score stored adds nothing to a later count. Between
two reads the tables only grow (`OthersGrow`).

`BatchTrainingProofs`, for any numbers of batch runs, trainings and servers, any
inputs, any split and any number of faults, under `BatchAssumption`:
- `Traced`: what a training hashed, loaded and registered is from one batch run,
  while the file is not replaced between its two reads (`TrainingsTellTheirData`,
  the second conjunct of `SuccessNamesItsData`);
- `Settling`: unless contended, at most one training is between its alias and its row,
  the alias is at its version, and once it has begun its UPDATE it has seen every
  active row. A training that moves the alias alone starts this afresh, whatever it
  found. This is what makes `OneChampion` inductive;
- `Honest`: a server's two lookups agree unless the alias moved in between
  (`ServersReportTheirModel`).

What the files hold is a second invariant on top of these types, `DInv`. The stages of
a batch are functions of the contents it read (`ValidRows`, `LookupsOf`, `Enrich`), each
run carries what they keep and counts what they report (`Accounted`), and every file holds the
content of the run that wrote it, up to the order in which `Enrich` replays rows of
one instant (`FilesTell`, theorem `FilesTellTheirInput`). From it
- `SuccessIsTruthful`: rows keep the places they have in the input, and the places
  CLEAN keeps, those RAW reports and those CLEAN reports partition it (`RowsKept`,
  `TwoParts`), so the three counts add up to its length (`RowsCounted`); `Truthful`
  ties the hash a run names to the contents it read unless they were `replaced`;
- `TrainingSeesWhatServingSees`: a row without another of its customer and instant has
  the same rows before it in every order (`SameCounts`); the window's counts are then
  cardinalities of the same set of places, the profile, device and country features
  those of the same profile, and the risks those of the train partition
  (`EnrichedAgrees`). `FeaturesMatchServing` is this at every write of a file.

`AlertAssessmentProofs`, for any draws of the generators, any rule files, policies
and answers of the models, any bounds and any number of failing components and
assessments, under `AssessmentAssumption` and `FeatureAssumption`:
- `ListingsNeverLeak`: `ReadEarlier` (what the second and the third statement of a
  listing selected is earlier than the alert's event) is what an interleaved writer
  could break; a cut at the bounds keeps it, since it only drops rows;
- `DegradedAlertsKeepTheirFloor`: the bands are ordered, a floor only raises one
  (`HigherBand`, `BandIsKept`), and every failed component brings a floor;
- `FailedPartsAreNamed`: each layer's codes are told apart by their layer, and an
  `UNAVAILABLE` code is there exactly when the layer failed. That a mandatory rule
  leaves a mandatory code is true only under the theorem's hypothesis
  `MandatoryReasonsAreOwn`: of two rules with one `reason_code` the first decides
  the severity. All checked-in rule files meet it (their codes are all distinct),
  and so do the rules of the run;
- `NearFraudIsOwn`: the search's rounds are a recursive function, which the prover
  knows only as a `CHOOSE`; `Iterable` shows, by a smallest counterexample, that a
  function with its equations exists, so that `RoundsAre` may use them. Every event of
  the history names the customer (`Named`), so the customer is next to all that the
  kept events name and nothing else is (`OneCentre`); the first round finds it all and
  the second nothing (`FewHops`). The flag is therefore raised at distance 0 or 1 or
  not at all, and evidence, being of customers and accounts only (`EvidenceIsKeyed`,
  a conjunct of the invariant), is met as the customer or as an account it used. Which
  rows are evidence is `EvidenceIsNewest`, another conjunct: those a listing read are
  the newest `MaxEvidence` of the table it saw, so the theorem speaks of the customer's
  fraud rows among these.

Only model-checked, and why:
- `EveryMessageIsHandled` of `StreamConsumer`: liveness under fairness is out of the
  prover's reach;
- `CapacityMeetsTarget` and `ComparisonBalances` of `LiveEvaluation`: they speak of
  sorted sequences (`SetToSortSeq`) and sums (`MapThenSumSet`), whose definitions
  recur over their data: what they compute for every input needs an induction the
  prover does not do. TLC evaluates them on every population the run reaches;
- `PopulationIsWhole` of `LiveEvaluation`: it needs no such induction and is the first
  thing left to prove (section 6);
- `SharedDeviceRingsAreSeen` and `DegradedStaysEvaluated` do not hold (section 3).

`TypeOK` of every module but `RunLifecycle` and `ImplementsRunRecords` of
`AlertScoring` and `LabelEligibility` are in no run of the list, but proved; TLC has
checked each inductive invariant on the instance of its module's run.

## 5. Assumptions and what is left out

- PostgreSQL at READ COMMITTED, one clock for the database and the processes
  (`LabelEligibility`), constraints as in `schema.sql`.
- `StreamConsumer` has one partition whose committed position starts at 0, as with
  `--from-beginning` or a group that has committed before; partitions are
  independent in the code. The best-effort heartbeat is left out: its failure
  is caught and it writes no column other workloads read.
- Ctrl+C outside the loop (during set-up, or inside a handler) ends the process
  with its record RUNNING: it is `Die`.
- `LabelEligibility` is checked with one alert: runs hold one alert's lock at a
  time and share nothing between alerts but their counters.
- In the workflow modules scores are a band and a report a Boolean; the modules of
  pure operators say how they come about. Model probabilities are inputs.
- The proofs rest on the assumptions the modules name and on nothing else:
  `SentinelsDistinct`, `BundlesAssumption`, `ScoringAssumption`, `StreamAssumption`,
  `LabelAssumption`, `OnlineAssumption` and `WindowAssumption` (scores have a time,
  the windows are nested), `BatchAssumption` (the contents of the input are a nonempty sequence of
  sequences of rows, whose valid rows have a time; the failed attempts of the online store are of the failed
  kind), `AssessmentAssumption` and `FeatureAssumption`. TLC evaluates each on the
  constants of its run. `FailedPartsAreNamed` has the one further hypothesis above.
- In `BatchTraining` a file is replaced in one step: a torn read of a Parquet file
  is not modelled, nor its copy in MinIO. The stratified split is any function of
  the rows.

Not modelled:
- bundle training's fitting and calibration (numerical, one process; its only
  shared effect is the registration, which is modelled). Of note when reading it:
  the calibrator fitted for the GBM is never persisted (`training.py`, about
  425-433);
- `_summarize` and `evaluate_cross_channel` (averages of reports), `drift.py`,
  scikit-learn's PR-AUC, ROC-AUC and Brier score (only their status is kept),
  `assign_chronological_split`;
- the legacy generators of the transaction stream and of histories: seeded random
  rows without shared state. `generate_and_write` of the fraud-intelligence
  population checks for foreign runs and then inserts with `ON CONFLICT DO
  NOTHING`; two generators at once are not modelled;
- configuration parsing, provenance hashing and redaction, thin clients, the
  dashboard and printing: formatting and pass-through, with no property of their
  own that a model would add to.

## 6. Plan

In this order:
1. Proofs about `LiveEvaluation`, beginning with the whole population, and about the
   operators of `EvaluationMetrics` that do not recur.
2. Concurrent generation, and the training population read beside label runs.
