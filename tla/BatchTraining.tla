--------------------------- MODULE BatchTraining ---------------------------
(***************************************************************************)
(* processing/pipeline.py with its stages, ml/train.py and the loading of  *)
(* their results by the serving processes (common/mlflow_setup.py,         *)
(* api/main.py's lifespan): batch runs write fixed files, training runs    *)
(* read one of them, register a model, move the "champion" alias and then  *)
(* record the version in PostgreSQL, servers load model and lookups.       *)
(*                                                                         *)
(* A hash of the input is its place among the contents the generator       *)
(* writes there, one of the features file the batch run that wrote it; so  *)
(* is what a model learned from.  The split is a function                  *)
(* of the rows, its seed being fixed.  The end of a run is recorded by one *)
(* write that succeeds; RunLifecycle models the others.  What nothing      *)
(* reads, the other layers and all copies in MinIO, can only fail here.    *)
(***************************************************************************)
EXTENDS TransactionFeatures

CONSTANTS Batches, Trainers, Servers,
          Inputs,       \* the successive contents of historical_transactions.csv
          SplitOf(_),   \* assign_split: [rows -> {"train", "val", "test"}]
          Profiles,     \* customers.parquet
          Failed,       \* historical_failed_attempts.csv: a sequence of failed events
          MaxFaults,    \* bound on failing steps, XGBoost's among them
          None

ASSUME BatchAssumption == /\ Batches \cap Trainers = {} /\ None \notin Nat
                          /\ MaxFaults \in Nat /\ Inputs # <<>> /\ Inputs \in Seq(Range(Inputs))
                          /\ \A rows \in Range(Inputs) : /\ rows \in Seq(Range(rows))
                                                         /\ \A r \in Range(rows) : r.valid => r.at \in Int
                          /\ Failed \in Seq({e \in ToSet(Failed) : e.kind = "failed"})

VARIABLES faults,    \* failing steps so far
          input,     \* which of the contents the input file has
          files,     \* [Layers -> [by, content] or None]: the fixed file names
          batch,     \* [Batches -> BatchType]: run_pipeline_configured in progress
          trainer,   \* [Trainers -> TrainerType]: train_configured in progress
          registry,  \* MLflow: the sequence of registered models [data, flavor]
          alias,     \* MLflow: the version behind "champion", 0 before the first
          active,    \* the versions of model_versions with is_active
          recorded,  \* the versions model_versions has
          contended, \* the last training to move the alias did so beside another, or one failed
                     \* there since (history)
          run,       \* [Batches \cup Trainers -> the run's record]
          server     \* [Servers -> ServerType]

vars == <<faults, input, files, batch, trainer, registry, alias, active, recorded, contended, run, server>>
models == <<registry, alias, active, recorded, contended>>

Layers == {"lookups", "features"}   \* those that are read

\* hash and data: the contents a run hashed and read; seen: the versions its
\* UPDATE read; replaced and moved (history): the file written, or the alias
\* moved, between two reads of it.
IdleBatch   == [pc |-> "idle", hash |-> None, data |-> 0, replaced |-> FALSE, rows |-> <<>>,
                processed |-> 0, rejected |-> 0, lookups |-> NoLookups]
IdleTrainer == [pc |-> "idle", hash |-> None, data |-> None, version |-> 0, seen |-> {},
                replaced |-> FALSE]
IdleServer  == [pc |-> "stopped", version |-> 0, model |-> None, lookups |-> NoLookups, moved |-> FALSE]
NotRun      == [status |-> "ABSENT", processed |-> 0, rejected |-> 0, dataset |-> None, model |-> 0]

Init == /\ faults = 0 /\ input = 1
        /\ files = [l \in Layers |-> None]
        /\ batch = [b \in Batches |-> IdleBatch]
        /\ trainer = [t \in Trainers |-> IdleTrainer]
        /\ registry = <<>> /\ alias = 0 /\ active = {} /\ recorded = {} /\ contended = FALSE
        /\ run = [r \in Batches \cup Trainers |-> NotRun]
        /\ server = [s \in Servers |-> IdleServer]

Fault == faults < MaxFaults /\ faults' = faults + 1

Fails(r, rejected, dataset) ==
    /\ Fault
    /\ run' = [run EXCEPT ![r].status = "FAILED", ![r].rejected = rejected, ![r].dataset = dataset]

-----------------------------------------------------------------------------
(* The stages, as functions of the rows.  Rows have their places of the     *)
(* input, of which later stages leave some empty.                           *)

\* raw.py: rows the schema accepts, and those it reports.
RawStage(rows)    == RestrictValues(rows, LAMBDA r : r.valid)
RawRejected(rows) == {i \in DOMAIN rows : ~rows[i].valid}

\* clean.py: known payment methods, and of those the first row of an id.  (RAW
\* leaves no null.)
Methods          == {"CARD", "UPI", "NETBANKING", "WALLET"}
Paid(rows)       == RestrictValues(rows, LAMBDA r : r.method \in Methods)
Unpaid(rows)     == {i \in DOMAIN rows : rows[i].method \notin Methods}
Duplicates(rows) == {i \in DOMAIN rows : \E j \in DOMAIN rows : j < i /\ rows[j].id = rows[i].id}

CleanStage(rows) == RestrictDomain(Paid(rows), LAMBDA i : i \notin Duplicates(Paid(rows)))

CleanRejectedAtOnce(rows) == Unpaid(rows) \cup Duplicates(rows)   \* variant: duplicates of all rows
CleanRejected(rows) == Unpaid(rows) \cup Duplicates(Paid(rows))

\* The rows by timestamp; polars leaves the order of equal ones open.
Sorted(rows) == {s \in SetToSeqs(Range(rows)) : \A i, j \in DOMAIN s : i < j => s[i].at <= s[j].at}

Success(r) == [id |-> r.id, customer |-> r.customer, kind |-> "success", at |-> r.at]

HistoryWithItself(order, i) ==   \* variant: appended before its features are computed
    {j \in 1 .. i : order[j].customer = order[i].customer}

\* tx_history: the customer's rows before this one, one of the same time among them.
History(order, i) == {j \in 1 .. i - 1 : order[j].customer = order[i].customer}

\* Those rows at their places, and the customer's earlier failures below zero.
RecentOf(order, i) ==
    LET failures == {k \in DOMAIN Failed : /\ Failed[k].customer = order[i].customer
                                           /\ Failed[k].at < order[i].at}
    IN  [p \in History(order, i) \cup {-k : k \in failures} |->
            IF p > 0 THEN Success(order[p]) ELSE Failed[-p]]

\* enrich.py.
Enrich(order, split, lookups) ==
    [i \in DOMAIN order |->
        [tx |-> order[i], split |-> split[order[i]],
         features |-> ComputeFeatures(order[i], ProfileOf(Profiles, order[i].customer),
                                      RecentOf(order, i), lookups)]]

-----------------------------------------------------------------------------
(* run_pipeline_configured.                                                 *)

Write(b, layer, content) == files' = [files EXCEPT ![layer] = [by |-> b, content |-> content]]
BatchGoes(b, pc) == batch' = [batch EXCEPT ![b].pc = pc]

\* generator/seed.py writes the history anew.
ReplaceInput ==
    /\ input < Len(Inputs)
    /\ input' = input + 1
    /\ batch' = [b \in Batches |-> IF batch[b].pc = "raw" THEN [batch[b] EXCEPT !.replaced = TRUE]
                                                          ELSE batch[b]]
    /\ UNCHANGED <<faults, files, trainer, models, run, server>>

BeginBatch(b) ==
    /\ batch[b].pc = "idle"
    /\ BatchGoes(b, "hashing")
    /\ run' = [run EXCEPT ![b].status = "RUNNING"]
    /\ UNCHANGED <<faults, input, files, trainer, models, server>>

\* The input is hashed, and then read once more by RAW.
HashInput(b) ==
    /\ batch[b].pc = "hashing"
    /\ batch' = [batch EXCEPT ![b] = [@ EXCEPT !.pc = "raw", !.hash = input]]
    /\ UNCHANGED <<faults, input, files, trainer, models, run, server>>

Raw(b) ==
    /\ batch[b].pc = "raw"
    /\ batch' = [batch EXCEPT ![b] = [@ EXCEPT !.pc = "clean", !.data = input,
                                               !.rows = RawStage(Inputs[input]),
                                               !.rejected = Cardinality(RawRejected(Inputs[input]))]]
    /\ UNCHANGED <<faults, input, files, trainer, models, run, server>>

Clean(b) ==
    /\ batch[b].pc = "clean"
    /\ LET raw == batch[b].rows
       IN  batch' = [batch EXCEPT ![b].pc = "lookups", ![b].rows = CleanStage(raw),
                                  ![b].rejected = batch[b].rejected + Cardinality(CleanRejected(raw))]
    /\ UNCHANGED <<faults, input, files, trainer, models, run, server>>

TrainRows(rows) == {r \in Range(rows) : SplitOf(rows)[r] = "train"}

\* Fitted on the train partition only, and written before the features are.
WriteLookups(b) ==
    /\ batch[b].pc = "lookups"
    /\ LET lookups == ComputeRiskLookups(TrainRows(batch[b].rows))
       IN  /\ Write(b, "lookups", lookups)
           /\ batch' = [batch EXCEPT ![b] = [@ EXCEPT !.pc = "features", !.lookups = lookups]]
    /\ UNCHANGED <<faults, input, trainer, models, run, server>>

\* CURATED and FEATURES, two projections of one enrichment pass.
WriteFeatures(b) ==
    /\ batch[b].pc = "features"
    /\ \E order \in Sorted(batch[b].rows) :
          Write(b, "features", Enrich(order, SplitOf(batch[b].rows), batch[b].lookups))
    /\ batch' = [batch EXCEPT ![b] = [@ EXCEPT !.pc = "succeeding", !.rows = <<>>, !.lookups = NoLookups,
                                               !.processed = Cardinality(DOMAIN batch[b].rows)]]
    /\ trainer' = [t \in Trainers |-> IF trainer[t].pc = "loading" THEN [trainer[t] EXCEPT !.replaced = TRUE]
                                                                    ELSE trainer[t]]
    /\ UNCHANGED <<faults, input, models, run, server>>

FinishBatch(b) ==
    /\ batch[b].pc = "succeeding"
    /\ BatchGoes(b, "ended")
    /\ run' = [run EXCEPT ![b] = [@ EXCEPT !.status = "SUCCESS", !.processed = batch[b].processed,
                                           !.rejected = batch[b].rejected, !.dataset = batch[b].hash]]
    /\ UNCHANGED <<faults, input, files, trainer, models, server>>

\* Any stage may raise, an upload to MinIO after its file was written too: the
\* rows the stages before it rejected are recorded, none as processed.
BatchFails(b) ==
    /\ batch[b].pc \in {"hashing", "raw", "clean", "lookups", "features", "succeeding"}
    /\ batch' = [batch EXCEPT ![b] = [@ EXCEPT !.pc = "ended", !.rows = <<>>, !.lookups = NoLookups]]
    /\ Fails(b, batch[b].rejected, batch[b].hash)
    /\ UNCHANGED <<input, files, trainer, models, server>>

-----------------------------------------------------------------------------
(* train_configured.                                                        *)

TrainerGoes(t, new) == trainer' = [trainer EXCEPT ![t] = new]

BeginTraining(t) ==
    /\ trainer[t].pc = "idle" /\ files["features"] # None
    /\ TrainerGoes(t, [trainer[t] EXCEPT !.pc = "hashing"])
    /\ run' = [run EXCEPT ![t].status = "RUNNING"]
    /\ UNCHANGED <<faults, input, files, batch, models, server>>

\* _dataset_version and _load_dataset each read the file.
HashFile(t) ==
    /\ trainer[t].pc = "hashing"
    /\ TrainerGoes(t, [trainer[t] EXCEPT !.pc = "loading", !.hash = files["features"].by])
    /\ UNCHANGED <<faults, input, files, batch, models, run, server>>

LoadDataset(t) ==
    /\ trainer[t].pc = "loading"
    /\ TrainerGoes(t, [trainer[t] EXCEPT !.pc = "fitting", !.data = files["features"].by])
    /\ UNCHANGED <<faults, input, files, batch, models, run, server>>

\* Fit (the random forest when XGBoost raises), evaluate, log and register.
Register(t) ==
    /\ trainer[t].pc = "fitting"
    /\ \E flavor \in {"xgboost", "random_forest_fallback"} :
          /\ IF flavor = "xgboost" THEN UNCHANGED faults ELSE Fault
          /\ registry' = Append(registry, [data |-> trainer[t].data, flavor |-> flavor])
    /\ TrainerGoes(t, [trainer[t] EXCEPT !.pc = "registered", !.data = None,
                                         !.version = Len(registry) + 1])
    /\ UNCHANGED <<input, files, batch, alias, active, recorded, contended, run, server>>

Unsettled == {t \in Trainers : trainer[t].pc \in {"aliased", "updating", "updated"}}

SetAlias(t) ==
    /\ trainer[t].pc = "registered"
    /\ alias' = trainer[t].version
    /\ contended' = (Unsettled # {})
    /\ server' = [s \in Servers |-> IF server[s].pc = "resolved" THEN [server[s] EXCEPT !.moved = TRUE]
                                                                 ELSE server[s]]
    /\ TrainerGoes(t, [trainer[t] EXCEPT !.pc = "aliased"])
    /\ UNCHANGED <<faults, input, files, batch, registry, active, recorded, run>>

\* UPDATE ... SET is_active = false: the rows its snapshot has, each locked.
Update(t) ==
    /\ trainer[t].pc = "aliased"
    /\ TrainerGoes(t, [trainer[t] EXCEPT !.pc = "updating", !.seen = recorded])
    /\ UNCHANGED <<faults, input, files, batch, models, run, server>>

Locked(t) ==
    /\ trainer[t].pc = "updating"
    /\ \A u \in Trainers \ {t} : trainer[u].pc = "updated" => trainer[u].seen \cap trainer[t].seen = {}
    /\ TrainerGoes(t, [trainer[t] EXCEPT !.pc = "updated"])
    /\ UNCHANGED <<faults, input, files, batch, models, run, server>>

AlsoActive(t) == active \cup {trainer[t].version}   \* variant: no UPDATE before the INSERT

ActiveAfter(t) == (active \ trainer[t].seen) \cup {trainer[t].version}

\* INSERT and COMMIT.
RecordVersion(t) ==
    /\ trainer[t].pc = "updated"
    /\ active' = ActiveAfter(t)
    /\ recorded' = recorded \cup {trainer[t].version}
    /\ TrainerGoes(t, [trainer[t] EXCEPT !.pc = "succeeding"])
    /\ UNCHANGED <<faults, input, files, batch, registry, alias, contended, run, server>>

FinishTraining(t) ==
    /\ trainer[t].pc = "succeeding"
    /\ TrainerGoes(t, [trainer[t] EXCEPT !.pc = "ended"])
    /\ run' = [run EXCEPT ![t] = [@ EXCEPT !.status = "SUCCESS", !.dataset = trainer[t].hash,
                                           !.model = trainer[t].version]]
    /\ UNCHANGED <<faults, input, files, batch, models, server>>

TrainingFails(t) ==
    /\ trainer[t].pc \in {"hashing", "loading", "fitting", "registered", "aliased", "updating", "updated"}
    /\ contended' = (contended \/ t \in Unsettled)
    /\ TrainerGoes(t, [trainer[t] EXCEPT !.pc = "ended"])
    /\ Fails(t, 0, trainer[t].hash)
    /\ UNCHANGED <<input, files, batch, registry, alias, active, recorded, server>>

-----------------------------------------------------------------------------
(* load_champion_model and the lifespan of a server.                        *)

ServerGoes(s, new) == /\ server' = [server EXCEPT ![s] = new]
                      /\ UNCHANGED <<faults, input, files, batch, trainer, models, run>>

NewestVersion == Len(registry)   \* variant: the latest registered version
ChampionVersion == alias

\* The version behind the alias, its run and flavor.
Resolve(s) ==
    /\ server[s].pc = "stopped" /\ alias # 0
    /\ ServerGoes(s, [server[s] EXCEPT !.pc = "resolved", !.version = ChampionVersion])

\* No alias yet: the server starts without a model.
StartWithoutModel(s) ==
    /\ server[s].pc = "stopped" /\ alias = 0
    /\ ServerGoes(s, [server[s] EXCEPT !.pc = "loading"])

\* models:/name@champion resolves the alias once more; another flavor's loader
\* raises, and then there is no model.
LoadModel(s) ==
    /\ server[s].pc = "resolved"
    /\ ServerGoes(s, IF registry[alias].flavor = registry[server[s].version].flavor
                     THEN [server[s] EXCEPT !.pc = "loading", !.model = alias]
                     ELSE [server[s] EXCEPT !.pc = "loading", !.version = 0])

LookupsIn(written) == IF written["lookups"] = None THEN NoLookups ELSE written["lookups"].content

LoadLookups(s) ==
    /\ server[s].pc = "loading"
    /\ ServerGoes(s, [server[s] EXCEPT !.pc = "ready", !.lookups = LookupsIn(files)])

Restart(s) == server[s].pc = "ready" /\ ServerGoes(s, IdleServer)

Next == \/ ReplaceInput
        \/ \E b \in Batches : \/ BeginBatch(b) \/ HashInput(b) \/ Raw(b) \/ Clean(b) \/ WriteLookups(b)
                              \/ WriteFeatures(b) \/ FinishBatch(b) \/ BatchFails(b)
        \/ \E t \in Trainers : \/ BeginTraining(t) \/ HashFile(t) \/ LoadDataset(t) \/ Register(t)
                               \/ SetAlias(t) \/ Update(t) \/ Locked(t) \/ RecordVersion(t)
                               \/ FinishTraining(t) \/ TrainingFails(t)
        \/ \E s \in Servers : Resolve(s) \/ StartWithoutModel(s) \/ LoadModel(s) \/ LoadLookups(s) \/ Restart(s)

Spec == Init /\ [][Next]_vars

-----------------------------------------------------------------------------
(* Properties.                                                              *)

ServingAgrees(written) ==
    written["features"] # None =>
        LET rows   == written["features"].content
            train  == ComputeRiskLookups({r.tx : r \in {x \in ToSet(rows) : x.split = "train"}})
            store  == [i \in DOMAIN rows |-> Success(rows[i].tx)]
            OnlineOf(tx) == ComputeFeatures(tx, ProfileOf(Profiles, tx.customer),
                                            RecentEvents(store, tx.customer, tx.at), LookupsIn(written))
            Tied(i) == \E j \in DOMAIN rows \ {i} : /\ rows[j].tx.customer = rows[i].tx.customer
                                                   /\ rows[j].tx.at = rows[i].tx.at
            Agree(i, names) == LET online == OnlineOf(rows[i].tx)
                               IN  \A n \in names : rows[i].features[n] = online[n]
        IN  \A i \in DOMAIN rows :
              /\ Agree(i, {"ratio", "zscore", "newDevice", "newCountry", "night"})
              /\ Tied(i) \/ Agree(i, {"last10m", "last1h", "last24h"})
              /\ written["lookups"] # None /\ written["lookups"].by = written["features"].by
                    => Agree(i, {"merchantRisk", "countryRisk"})
              /\ rows[i].features.merchantRisk = RiskOf(train.merchant, rows[i].tx.merchant, train.default)

\* At every write the features a model is trained on are those serving would
\* have computed: for each row of the features file, the online store holding
\* the same rows gives the same values, whether the batch or the API asks.  The velocity counts are
\* excepted for rows of one customer at one instant, the failed attempts
\* altogether (nothing writes them to recent_events), the risks while the two
\* files are of different batch runs.  And the risks are those of the very
\* partition the row's file marks as "train".
FeaturesMatchServing == [][files' # files => ServingAgrees(files')]_files

\* A successful batch run names the contents it processed, unless the file was
\* replaced between its two reads, and its counters account for every row of them,
\* each of which one stage has kept, reported or refused ...
BatchesAccountForRows ==
    \A b \in Batches : run[b].status = "SUCCESS" =>
        /\ run[b].dataset = batch[b].data \/ batch[b].replaced
        /\ run[b].processed + run[b].rejected = Len(Inputs[batch[b].data])

\* ... and a successful training run names the data the version it names learned
\* from, unless a batch run replaced the file between its two reads.
TrainingsNameTheirData ==
    \A t \in Trainers : run[t].status = "SUCCESS" =>
        registry[run[t].model].data = run[t].dataset \/ trainer[t].replaced

\* A run that succeeds records truthfully what it was made of.
SuccessNamesItsData == BatchesAccountForRows /\ TrainingsNameTheirData

\* MLflow and PostgreSQL agree on the champion: one active row, for the version
\* behind the alias, unless the last training to move it did so while another had
\* not recorded its own yet, or one failed there since.  A training that is alone
\* puts right what overlapping or failing ones before it left.
ActiveRowIsTheChampion ==
    ~contended /\ Unsettled = {} /\ alias # 0 => active = {alias}

\* A server reports, and stores with each score, the version of the model it
\* scores with, unless the alias moved between its two lookups.
ServedVersionIsItsModel ==
    \A s \in Servers : server[s].pc = "ready" =>
        server[s].version = (IF server[s].model = None THEN 0 ELSE server[s].model) \/ server[s].moved
=============================================================================
