------------------------ MODULE BatchTrainingProofs ------------------------
(***************************************************************************)
(* Theorems about BatchTraining for any number of batch runs, trainings    *)
(* and servers, any input files, any split and any bound on failing steps: *)
(* who wrote what, and then what the files hold.                           *)
(***************************************************************************)
EXTENDS BatchTraining, TLAPS, FiniteSetTheorems

-----------------------------------------------------------------------------
(* The inductive invariant.  Rows and lookups are opaque: what these        *)
(* theorems say of files and models is who wrote them.                      *)

Flavors    == {"xgboost", "random_forest_fallback"}
Names      == Batches \cup {None}
BatchPcs   == {"idle", "hashing", "raw", "clean", "lookups", "features", "succeeding", "ended"}
Contents   == 1 .. Len(Inputs)
TrainerPcs == {"idle", "hashing", "loading", "fitting", "registered", "aliased", "updating", "updated",
               "succeeding", "ended"}
ServerPcs  == {"stopped", "resolved", "loading", "ready"}

TrainerType == [pc : TrainerPcs, hash : Names, data : Names, version : Nat, seen : SUBSET Nat,
                replaced : BOOLEAN]
Model       == [data : Names, flavor : Flavors]

\* The types of all but what is opaque, which is whatever it is.
BatchLike(x)  == x \in [pc : BatchPcs, hash : Contents \cup {None}, data : Contents \cup {0},
                        replaced : BOOLEAN, rows : {x.rows}, processed : {x.processed},
                        rejected : {x.rejected}, lookups : {x.lookups}]
RunLike(x)    == x \in [status : {"ABSENT", "RUNNING", "SUCCESS", "FAILED"}, processed : {x.processed},
                        rejected : {x.rejected}, dataset : Names \cup Contents, model : Nat]
ServerLike(x) == x \in [pc : ServerPcs, version : Nat, model : Nat \cup {None}, lookups : {x.lookups},
                        moved : BOOLEAN]

TypeOK ==
    /\ faults \in 0 .. MaxFaults /\ input \in Contents
    /\ DOMAIN files = Layers /\ \A l \in Layers : files[l] = None \/ files[l].by \in Batches
    /\ DOMAIN batch = Batches /\ \A b \in Batches : BatchLike(batch[b])
    /\ trainer \in [Trainers -> TrainerType]
    /\ registry \in Seq(Model)
    /\ alias \in Nat /\ active \subseteq Nat /\ recorded \subseteq Nat /\ contended \in BOOLEAN
    /\ DOMAIN run = Batches \cup Trainers /\ \A r \in Batches \cup Trainers : RunLike(run[r])
    /\ DOMAIN server = Servers /\ \A s \in Servers : ServerLike(server[s])

\* A training remembers the file it hashed and the one it loaded, which are the
\* same while nobody replaces it; once registered, its version tells.
Traced(t) ==
    /\ trainer[t].pc \in {"hashing", "loading"} => files["features"].by \in Batches
    /\ trainer[t].replaced
       \/ /\ trainer[t].pc = "loading" => files["features"].by = trainer[t].hash
          /\ trainer[t].pc = "fitting" => trainer[t].data = trainer[t].hash
          /\ trainer[t].pc \in {"registered", "aliased", "updating", "updated", "succeeding"} =>
                registry[trainer[t].version].data = trainer[t].hash
          /\ run[t].status = "SUCCESS" => registry[run[t].model].data = run[t].dataset
    /\ trainer[t].pc \in {"registered", "aliased", "updating", "updated", "succeeding"} =>
          trainer[t].version \in 1 .. Len(registry)
    /\ run[t].status = "SUCCESS" => run[t].model \in 1 .. Len(registry)

\* Until trainings meet between alias and record, at most one is there: the alias
\* is at its version, and what its UPDATE saw holds every active row.
Settling ==
    /\ active \subseteq recorded
    /\ ~ contended =>
         /\ \A t, u \in Unsettled : t = u
         /\ \A t \in Unsettled : /\ alias = trainer[t].version
                                 /\ trainer[t].pc # "aliased" => active \subseteq trainer[t].seen
         /\ Unsettled = {} /\ alias # 0 => active = {alias}

\* What a server took from the first lookup and from the second.
Honest(s) ==
    /\ server[s].pc = "stopped" => server[s].model = None /\ server[s].version = 0
    /\ server[s].pc = "resolved" => /\ server[s].model = None
                                    /\ server[s].version = alias \/ server[s].moved
    /\ server[s].pc \in {"loading", "ready"} =>
          \/ server[s].version = (IF server[s].model = None THEN 0 ELSE server[s].model)
          \/ server[s].moved

IInv == /\ TypeOK
        /\ \A t \in Trainers : Traced(t)
        /\ Settling
        /\ \A s \in Servers : Honest(s)

-----------------------------------------------------------------------------
(* Types of steps.                                                          *)

LEMMA TrainerUpdates ==
    /\ \A x \in TrainerType, v \in TrainerPcs : [x EXCEPT !.pc = v] \in TrainerType
    /\ \A x \in TrainerType, v \in Names : /\ [x EXCEPT !.hash = v] \in TrainerType
                                           /\ [x EXCEPT !.data = v] \in TrainerType
    /\ \A x \in TrainerType, v \in Nat : [x EXCEPT !.version = v] \in TrainerType
    /\ \A x \in TrainerType, v \in SUBSET Nat : [x EXCEPT !.seen = v] \in TrainerType
    /\ \A x \in TrainerType : [x EXCEPT !.replaced = TRUE] \in TrainerType
BY DEF TrainerType

LEMMA TrainerTyped ==
    ASSUME TypeOK, NEW t \in Trainers
    PROVE  /\ trainer[t] \in TrainerType
           /\ trainer[t].pc \in TrainerPcs /\ trainer[t].hash \in Names /\ trainer[t].data \in Names
           /\ trainer[t].version \in Nat /\ trainer[t].seen \subseteq Nat /\ trainer[t].replaced \in BOOLEAN
<1>1. trainer[t] \in TrainerType
  BY DEF TypeOK
<1> QED BY <1>1 DEF TrainerType

\* A new state for one training leaves the others theirs.
LEMMA OneTrainer ==
    ASSUME TypeOK, NEW t \in Trainers, NEW new \in TrainerType, TrainerGoes(t, new)
    PROVE  /\ trainer' \in [Trainers -> TrainerType] /\ trainer'[t] = new
           /\ \A u \in Trainers \ {t} : trainer'[u] = trainer[u]
BY DEF TypeOK, TrainerGoes

\* The types of what belongs to no training: the files, the records, the servers.
Kept == /\ faults' \in 0 .. MaxFaults /\ input' \in Contents
        /\ DOMAIN files' = Layers /\ \A l \in Layers : files'[l] = None \/ files'[l].by \in Batches
        /\ DOMAIN batch' = Batches /\ \A b \in Batches : BatchLike(batch'[b])

RunsKept    == DOMAIN run' = Batches \cup Trainers /\ \A r \in Batches \cup Trainers : RunLike(run'[r])
ServersKept == DOMAIN server' = Servers /\ \A s \in Servers : ServerLike(server'[s])
ModelsKept  == /\ registry' \in Seq(Model)
               /\ alias' \in Nat /\ active' \subseteq Nat /\ recorded' \subseteq Nat
               /\ contended' \in BOOLEAN

LEMMA TypesOfStep ==
    ASSUME Kept, RunsKept, ServersKept, ModelsKept, trainer' \in [Trainers -> TrainerType]
    PROVE  TypeOK'
BY DEF TypeOK, Kept, RunsKept, ServersKept, ModelsKept, BatchLike, RunLike, ServerLike

LEMMA KeptByLeaving ==
    ASSUME TypeOK
    PROVE  /\ UNCHANGED <<faults, input, files, batch>> => Kept
           /\ UNCHANGED run => RunsKept
           /\ UNCHANGED server => ServersKept
           /\ UNCHANGED models => ModelsKept
BY DEF TypeOK, Kept, RunsKept, ServersKept, ModelsKept, models

\* A record a step rewrites, and the records it leaves.
LEMMA OneRun ==
    ASSUME TypeOK, NEW r \in Batches \cup Trainers, NEW new, RunLike(new), run' = [run EXCEPT ![r] = new]
    PROVE  /\ RunsKept /\ run'[r] = new
           /\ \A q \in (Batches \cup Trainers) \ {r} : run'[q] = run[q]
BY DEF TypeOK, RunsKept

LEMMA OneBatch ==
    ASSUME TypeOK, NEW b \in Batches, NEW new, BatchLike(new), batch' = [batch EXCEPT ![b] = new]
    PROVE  DOMAIN batch' = Batches /\ \A c \in Batches : BatchLike(batch'[c])
BY DEF TypeOK

\* What the run operations write.
LEMMA Started ==
    ASSUME TypeOK, NEW r \in Batches \cup Trainers
    PROVE  /\ RunLike([run[r] EXCEPT !.status = "RUNNING"])
           /\ [run[r] EXCEPT !.status = "RUNNING"].status = "RUNNING"
BY DEF TypeOK, RunLike

LEMMA Failure ==
    ASSUME TypeOK, NEW r \in Batches \cup Trainers, NEW rejected, NEW dataset \in Names \cup Contents,
           Fails(r, rejected, dataset)
    PROVE  /\ RunsKept /\ run'[r].status = "FAILED"
           /\ \A q \in (Batches \cup Trainers) \ {r} : run'[q] = run[q]
           /\ faults' \in 0 .. MaxFaults
<1> DEFINE new == [[[run[r] EXCEPT !.status = "FAILED"] EXCEPT !.rejected = rejected]
                     EXCEPT !.dataset = dataset]
<1>1. run' = [run EXCEPT ![r] = new]
  BY DEF Fails, TypeOK
<1>2. RunLike(new) /\ new.status = "FAILED"
  <2>1. RunLike(run[r])
    BY DEF TypeOK
  <2> QED BY <2>1 DEF RunLike
<1>3. faults' \in 0 .. MaxFaults
  BY BatchAssumption DEF Fails, Fault, TypeOK
<1> HIDE DEF new
<1> QED BY <1>1, <1>2, <1>3, OneRun

-----------------------------------------------------------------------------
(* What a step need not look at.                                            *)

\* A training that nobody touches, while its file and its record stay.
LEMMA TracedKeeps ==
    ASSUME TypeOK, NEW t \in Trainers, Traced(t), files'["features"] = files["features"],
           trainer'[t] = trainer[t], run'[t] = run[t],
           \/ registry' = registry
           \/ \E m \in Model : registry' = Append(registry, m)
    PROVE  Traced(t)'
<1>1. Len(registry) \in Nat /\ registry \in Seq(Model)
  BY DEF TypeOK
<1>2. /\ 1 .. Len(registry) \subseteq 1 .. Len(registry')
      /\ \A v \in 1 .. Len(registry) : registry'[v] = registry[v]
  BY <1>1
<1> QED BY <1>2 DEF Traced

\* Nothing between alias and record.
LEMMA SettlingKeeps ==
    ASSUME Settling, UNCHANGED <<alias, active, recorded, contended>>,
           \A t \in Trainers : \/ t \notin Unsettled /\ t \notin Unsettled'
                               \/ /\ trainer'[t].pc = trainer[t].pc
                                  /\ trainer'[t].version = trainer[t].version
                                  /\ trainer'[t].seen = trainer[t].seen
    PROVE  Settling'
<1>1. Unsettled' = Unsettled
  BY DEF Unsettled
<1>2. \A t \in Unsettled : /\ trainer'[t].pc = trainer[t].pc /\ trainer'[t].version = trainer[t].version
                           /\ trainer'[t].seen = trainer[t].seen
  BY DEF Unsettled
<1> QED BY <1>1, <1>2 DEF Settling

LEMMA HonestKeeps ==
    ASSUME UNCHANGED <<alias, server>>, NEW s \in Servers, Honest(s)
    PROVE  Honest(s)'
BY DEF Honest

\* A batch run's step that leaves the features file.
LEMMA BatchStep ==
    ASSUME IInv, Kept, RunsKept, files'["features"] = files["features"],
           UNCHANGED <<trainer, models, server>>, \A t \in Trainers : run'[t] = run[t]
    PROVE  IInv'
<1>1. TypeOK
  BY DEF IInv
<1>2. TypeOK'
  <2>1. ServersKept /\ ModelsKept /\ trainer' \in [Trainers -> TrainerType]
    BY <1>1, KeptByLeaving DEF TypeOK
  <2> QED BY <2>1, TypesOfStep
<1>3. UNCHANGED <<registry, alias, active, recorded, contended>>
  BY DEF models
<1>4. \A t \in Trainers : Traced(t)'
  BY <1>1, <1>3, TracedKeeps DEF IInv
<1>5. Settling'
  BY <1>3, SettlingKeeps DEF IInv
<1>6. \A s \in Servers : Honest(s)'
  BY <1>3, HonestKeeps DEF IInv
<1> QED BY <1>2, <1>4, <1>5, <1>6 DEF IInv

\* A training's step that leaves the alias, the rows and the records' tables.
LEMMA TrainerStep ==
    ASSUME IInv, NEW t \in Trainers, NEW new \in TrainerType, TrainerGoes(t, new),
           Kept, RunsKept, ModelsKept, UNCHANGED <<files, alias, server>>,
           \A u \in Trainers \ {t} : run'[u] = run[u],
           \/ registry' = registry
           \/ \E m \in Model : registry' = Append(registry, m),
           trainer'[t] = new => Traced(t)',
           Settling'
    PROVE  IInv'
<1>1. TypeOK
  BY DEF IInv
<1>2. /\ trainer' \in [Trainers -> TrainerType] /\ trainer'[t] = new
      /\ \A u \in Trainers \ {t} : trainer'[u] = trainer[u]
  BY <1>1, OneTrainer
<1>3. TypeOK'
  BY <1>1, <1>2, KeptByLeaving, TypesOfStep
<1>4. \A u \in Trainers : Traced(u)'
  <2>1. \A u \in Trainers \ {t} : Traced(u)'
    BY <1>1, <1>2, TracedKeeps DEF IInv
  <2> QED BY <1>2, <2>1
<1>5. \A s \in Servers : Honest(s)'
  BY HonestKeeps DEF IInv
<1> QED BY <1>3, <1>4, <1>5 DEF IInv

-----------------------------------------------------------------------------
(* One lemma for each action of a batch run.                                *)

LEMMA BatchUpdates ==
    ASSUME NEW x, BatchLike(x)
    PROVE  /\ \A v \in BatchPcs : BatchLike([x EXCEPT !.pc = v])
           /\ \A v \in Contents : BatchLike([x EXCEPT !.hash = v]) /\ BatchLike([x EXCEPT !.data = v])
           /\ BatchLike([x EXCEPT !.replaced = TRUE])
           /\ \A v : /\ BatchLike([x EXCEPT !.rows = v]) /\ BatchLike([x EXCEPT !.lookups = v])
                     /\ BatchLike([x EXCEPT !.rejected = v]) /\ BatchLike([x EXCEPT !.processed = v])
BY DEF BatchLike

LEMMA BatchValues == /\ \A p \in {"hashing", "raw", "clean", "lookups", "features", "succeeding", "ended"} : p \in BatchPcs
                     /\ BatchLike(IdleBatch)
BY DEF BatchPcs, BatchLike, IdleBatch

LEMMA BeginBatchKeeps ==
    ASSUME IInv, NEW b \in Batches, BeginBatch(b)
    PROVE  IInv'
<1> DEFINE started == [run[b] EXCEPT !.status = "RUNNING"]
           begun   == [batch[b] EXCEPT !.pc = "hashing"]
<1>1. TypeOK
  BY DEF IInv
<1>2. run' = [run EXCEPT ![b] = started] /\ RunLike(started)
  BY <1>1, Started DEF BeginBatch
<1>3. batch' = [batch EXCEPT ![b] = begun] /\ BatchLike(begun)
  BY <1>1, BatchUpdates, BatchValues DEF BeginBatch, BatchGoes, TypeOK
<1> HIDE DEF started, begun
<1>4. RunsKept /\ \A t \in Trainers : run'[t] = run[t]
  BY <1>1, <1>2, OneRun, BatchAssumption
<1>5. Kept
  BY <1>1, <1>3, OneBatch DEF BeginBatch, Kept, TypeOK
<1> QED BY <1>4, <1>5, BatchStep DEF BeginBatch

\* The steps of a batch run up to its first write.
LEMMA ReadingKeeps ==
    ASSUME IInv, NEW b \in Batches, NEW new, BatchLike(new), batch' = [batch EXCEPT ![b] = new],
           UNCHANGED <<faults, input, files, trainer, models, run, server>>
    PROVE  IInv'
<1>1. TypeOK
  BY DEF IInv
<1>2. Kept
  BY <1>1, OneBatch DEF Kept, TypeOK
<1> QED BY <1>1, <1>2, KeptByLeaving, BatchStep

LEMMA HashInputKeeps ==
    ASSUME IInv, NEW b \in Batches, HashInput(b)
    PROVE  IInv'
<1> DEFINE new == [[batch[b] EXCEPT !.pc = "raw"] EXCEPT !.hash = input]
<1>1. BatchLike(batch[b]) /\ input \in Contents
  BY DEF IInv, TypeOK
<1>2. BatchLike([batch[b] EXCEPT !.pc = "raw"])
  BY <1>1, BatchUpdates, BatchValues
<1>3. BatchLike(new)
  BY <1>1, <1>2, BatchUpdates
<1>4. batch' = [batch EXCEPT ![b] = new]
  BY DEF HashInput
<1> HIDE DEF new
<1> QED BY <1>3, <1>4, ReadingKeeps DEF HashInput

LEMMA RawKeeps ==
    ASSUME IInv, NEW b \in Batches, Raw(b)
    PROVE  IInv'
<1>1. BatchLike(batch[b]) /\ input \in Contents
  BY DEF IInv, TypeOK
<1>2. PICK rows, rejected :
         batch' = [batch EXCEPT ![b] = [batch[b] EXCEPT !.pc = "clean", !.data = input,
                                                        !.rows = rows, !.rejected = rejected]]
  BY DEF Raw
<1> DEFINE read == [[batch[b] EXCEPT !.pc = "clean"] EXCEPT !.data = input]
           new  == [[read EXCEPT !.rows = rows] EXCEPT !.rejected = rejected]
<1>3. BatchLike([batch[b] EXCEPT !.pc = "clean"])
  BY <1>1, BatchUpdates, BatchValues
<1>4. BatchLike(read)
  BY <1>1, <1>3, BatchUpdates
<1>5. batch' = [batch EXCEPT ![b] = new]
  BY <1>2
<1> HIDE DEF read
<1>6. BatchLike(new)
  <2>1. BatchLike([read EXCEPT !.rows = rows])
    BY <1>4, BatchUpdates
  <2> QED BY <2>1, BatchUpdates
<1> HIDE DEF new
<1> QED BY <1>5, <1>6, ReadingKeeps DEF Raw

LEMMA CleanKeeps ==
    ASSUME IInv, NEW b \in Batches, Clean(b)
    PROVE  IInv'
<1>1. BatchLike(batch[b])
  BY DEF IInv, TypeOK
<1>2. PICK rows, rejected :
         batch' = [batch EXCEPT ![b] = [batch[b] EXCEPT !.pc = "lookups", !.rows = rows,
                                                        !.rejected = rejected]]
  BY DEF Clean
<1> DEFINE new == [[[batch[b] EXCEPT !.pc = "lookups"] EXCEPT !.rows = rows] EXCEPT !.rejected = rejected]
<1>3. BatchLike([batch[b] EXCEPT !.pc = "lookups"])
  BY <1>1, BatchUpdates, BatchValues
<1>4. BatchLike(new)
  <2>1. BatchLike([[batch[b] EXCEPT !.pc = "lookups"] EXCEPT !.rows = rows])
    BY <1>3, BatchUpdates
  <2> QED BY <2>1, BatchUpdates
<1>5. batch' = [batch EXCEPT ![b] = new]
  BY <1>2
<1> HIDE DEF new
<1> QED BY <1>4, <1>5, ReadingKeeps DEF Clean

\* New contents of the input file are seen by the batch runs between its two reads.
LEMMA ReplaceInputKeeps ==
    ASSUME IInv, ReplaceInput
    PROVE  IInv'
<1>1. TypeOK
  BY DEF IInv
<1>2. input' \in Contents
  <2>1. Len(Inputs) \in Nat
    BY BatchAssumption
  <2> QED BY <1>1, <2>1 DEF ReplaceInput, Contents, TypeOK
<1>3. DOMAIN batch' = Batches /\ \A b \in Batches : BatchLike(batch'[b])
  <2>1. ASSUME NEW b \in Batches PROVE BatchLike(batch'[b])
    <3>1. BatchLike(batch[b]) /\ BatchLike([batch[b] EXCEPT !.replaced = TRUE])
      BY <1>1, BatchUpdates DEF TypeOK
    <3>2. batch'[b] = batch[b] \/ batch'[b] = [batch[b] EXCEPT !.replaced = TRUE]
      BY DEF ReplaceInput
    <3> QED BY <3>1, <3>2
  <2> QED BY <2>1 DEF ReplaceInput
<1>4. Kept
  BY <1>1, <1>2, <1>3 DEF ReplaceInput, Kept, TypeOK
<1> QED BY <1>1, <1>4, KeptByLeaving, BatchStep DEF ReplaceInput

LEMMA WriteLookupsKeeps ==
    ASSUME IInv, NEW b \in Batches, WriteLookups(b)
    PROVE  IInv'
<1>1. TypeOK
  BY DEF IInv
<1>2. PICK content : /\ files' = [files EXCEPT !["lookups"] = [by |-> b, content |-> content]]
                     /\ batch' = [batch EXCEPT ![b] =
                                    [batch[b] EXCEPT !.pc = "features", !.lookups = content]]
  BY DEF WriteLookups, Write
<1> DEFINE new == [[batch[b] EXCEPT !.pc = "features"] EXCEPT !.lookups = content]
<1>3. batch' = [batch EXCEPT ![b] = new] /\ BatchLike(new)
  <2>1. BatchLike([batch[b] EXCEPT !.pc = "features"])
    BY <1>1, BatchUpdates, BatchValues DEF TypeOK
  <2>2. BatchLike(new)
    BY <2>1, BatchUpdates
  <2> QED BY <1>2, <2>2
<1> HIDE DEF new
<1>4. /\ DOMAIN files' = Layers /\ \A l \in Layers : files'[l] = None \/ files'[l].by \in Batches
      /\ files'["features"] = files["features"]
  BY <1>1, <1>2 DEF TypeOK, Layers
<1>5. Kept
  BY <1>1, <1>3, <1>4, OneBatch DEF WriteLookups, Kept, TypeOK
<1> QED BY <1>1, <1>4, <1>5, KeptByLeaving, BatchStep DEF WriteLookups

LEMMA FinishBatchKeeps ==
    ASSUME IInv, NEW b \in Batches, FinishBatch(b)
    PROVE  IInv'
<1> DEFINE ended  == [batch[b] EXCEPT !.pc = "ended"]
           record == [run[b] EXCEPT !.status = "SUCCESS", !.processed = batch[b].processed,
                                    !.rejected = batch[b].rejected, !.dataset = batch[b].hash]
<1>1. TypeOK
  BY DEF IInv
<1>2. run' = [run EXCEPT ![b] = record] /\ RunLike(record)
  <2>1. RunLike(run[b]) /\ batch[b].hash \in Names \cup Contents
    BY <1>1 DEF TypeOK, BatchLike, Names
  <2>2. RunLike(record)
    BY <2>1 DEF RunLike
  <2> QED BY <2>2 DEF FinishBatch
<1>3. batch' = [batch EXCEPT ![b] = ended] /\ BatchLike(ended)
  BY <1>1, BatchUpdates, BatchValues DEF FinishBatch, BatchGoes, TypeOK
<1> HIDE DEF ended, record
<1>4. RunsKept /\ \A t \in Trainers : run'[t] = run[t]
  BY <1>1, <1>2, OneRun, BatchAssumption
<1>5. Kept
  BY <1>1, <1>3, OneBatch DEF FinishBatch, Kept, TypeOK
<1> QED BY <1>4, <1>5, BatchStep DEF FinishBatch

LEMMA BatchFailsKeeps ==
    ASSUME IInv, NEW b \in Batches, BatchFails(b)
    PROVE  IInv'
<1> DEFINE rowless == [[batch[b] EXCEPT !.pc = "ended"] EXCEPT !.rows = <<>>]
           ended   == [rowless EXCEPT !.lookups = NoLookups]
<1>1. TypeOK /\ BatchLike(batch[b])
  BY DEF IInv, TypeOK
<1>2. batch[b].hash \in Names \cup Contents
  BY <1>1 DEF BatchLike, Names
<1>3. /\ RunsKept /\ faults' \in 0 .. MaxFaults
      /\ \A t \in Trainers : run'[t] = run[t]
  BY <1>1, <1>2, Failure, BatchAssumption DEF BatchFails
<1>4. batch' = [batch EXCEPT ![b] = ended]
  BY DEF BatchFails
<1>5. BatchLike(ended)
  <2>1. BatchLike([batch[b] EXCEPT !.pc = "ended"])
    BY <1>1, BatchUpdates, BatchValues
  <2>2. BatchLike(rowless)
    BY <2>1, BatchUpdates
  <2> HIDE DEF rowless
  <2> QED BY <2>2, BatchUpdates
<1> HIDE DEF ended
<1>6. Kept
  BY <1>1, <1>3, <1>4, <1>5, OneBatch DEF BatchFails, Kept, TypeOK
<1> QED BY <1>3, <1>6, BatchStep DEF BatchFails

\* The write every training that has hashed the file and not loaded it remembers.
LEMMA WriteFeaturesKeeps ==
    ASSUME IInv, NEW b \in Batches, WriteFeatures(b)
    PROVE  IInv'
<1>1. TypeOK
  BY DEF IInv
<1>2. PICK content, processed :
         /\ files' = [files EXCEPT !["features"] = [by |-> b, content |-> content]]
         /\ batch' = [batch EXCEPT ![b] = [batch[b] EXCEPT !.pc = "succeeding", !.rows = <<>>,
                                                           !.lookups = NoLookups, !.processed = processed]]
  BY DEF WriteFeatures, Write
<1> DEFINE rowless == [[batch[b] EXCEPT !.pc = "succeeding"] EXCEPT !.rows = <<>>]
           new     == [[rowless EXCEPT !.lookups = NoLookups] EXCEPT !.processed = processed]
<1>3. batch' = [batch EXCEPT ![b] = new] /\ BatchLike(new)
  <2>1. BatchLike([batch[b] EXCEPT !.pc = "succeeding"])
    BY <1>1, BatchUpdates, BatchValues DEF TypeOK
  <2>2. BatchLike(rowless)
    BY <2>1, BatchUpdates
  <2>3. batch' = [batch EXCEPT ![b] = new]
    BY <1>2
  <2> HIDE DEF rowless
  <2>4. BatchLike([rowless EXCEPT !.lookups = NoLookups])
    BY <2>2, BatchUpdates
  <2>5. BatchLike(new)
    BY <2>4, BatchUpdates
  <2> QED BY <2>3, <2>5
<1> HIDE DEF new
<1>4. /\ DOMAIN files' = Layers /\ \A l \in Layers : files'[l] = None \/ files'[l].by \in Batches
      /\ files'["features"].by = b
  BY <1>1, <1>2 DEF TypeOK, Layers
<1>5. Kept
  BY <1>1, <1>3, <1>4, OneBatch DEF WriteFeatures, Kept, TypeOK
<1>6. /\ trainer' \in [Trainers -> TrainerType]
      /\ \A t \in Trainers :
            /\ trainer[t].pc = "loading" => trainer'[t] = [trainer[t] EXCEPT !.replaced = TRUE]
            /\ trainer[t].pc # "loading" => trainer'[t] = trainer[t]
  BY <1>1, TrainerUpdates DEF WriteFeatures, TypeOK
<1>7. UNCHANGED <<registry, alias, active, recorded, contended, run, server>>
  BY DEF WriteFeatures, models
<1>8. TypeOK'
  BY <1>1, <1>5, <1>6, <1>7, KeptByLeaving, TypesOfStep DEF models
<1>9. ASSUME NEW t \in Trainers, trainer[t].pc = "loading"
      PROVE  /\ trainer'[t].pc = "loading" /\ trainer'[t].replaced
             /\ trainer'[t].version = trainer[t].version /\ trainer'[t].seen = trainer[t].seen
  <2>1. trainer[t] \in TrainerType
    BY <1>1, TrainerTyped
  <2> QED BY <1>6, <1>9, <2>1 DEF TrainerType
<1>10. ASSUME NEW t \in Trainers PROVE Traced(t)'
  <2>1. Traced(t)
    BY DEF IInv
  <2>2. CASE trainer[t].pc = "loading"
    BY <1>4, <1>7, <1>9, <2>1, <2>2 DEF Traced
  <2>3. CASE trainer[t].pc # "loading"
    <3>1. trainer'[t] = trainer[t]
      BY <1>6, <2>3
    <3> QED BY <1>4, <1>7, <2>1, <2>3, <3>1 DEF Traced
  <2> QED BY <2>2, <2>3
<1>11. Settling'
  BY <1>6, <1>7, <1>9, SettlingKeeps DEF IInv
<1>12. \A s \in Servers : Honest(s)'
  BY <1>7, HonestKeeps DEF IInv
<1> QED BY <1>8, <1>10, <1>11, <1>12 DEF IInv

-----------------------------------------------------------------------------
(* One lemma for each action of a training.                                 *)

LEMMA TrainerValues ==
    \A p \in {"hashing", "loading", "fitting", "registered", "aliased", "updating", "updated", "succeeding",
              "ended"} : p \in TrainerPcs
BY DEF TrainerPcs

LEMMA BeginTrainingKeeps ==
    ASSUME IInv, NEW t \in Trainers, BeginTraining(t)
    PROVE  IInv'
<1> DEFINE started == [run[t] EXCEPT !.status = "RUNNING"]
           new     == [trainer[t] EXCEPT !.pc = "hashing"]
<1>1. TypeOK /\ Traced(t) /\ Settling /\ trainer[t] \in TrainerType
  BY TrainerTyped DEF IInv
<1>2. new \in TrainerType
  BY <1>1, TrainerUpdates, TrainerValues
<1>3. new.pc = "hashing"
  BY <1>1 DEF TrainerType
<1>4. run' = [run EXCEPT ![t] = started] /\ RunLike(started) /\ started.status = "RUNNING"
  BY <1>1, Started DEF BeginTraining
<1>5. TrainerGoes(t, new)
  BY DEF BeginTraining
<1> HIDE DEF new, started
<1>6. RunsKept /\ run'[t].status = "RUNNING" /\ \A u \in Trainers \ {t} : run'[u] = run[u]
  BY <1>1, <1>4, OneRun
<1>7. Kept /\ ModelsKept /\ UNCHANGED <<files, registry, alias, active, recorded, contended, server>>
  BY <1>1, KeptByLeaving DEF BeginTraining, models
<1>8. files["features"].by \in Batches
  BY <1>1 DEF TypeOK, BeginTraining, Layers
<1>9. ASSUME trainer'[t] = new PROVE Traced(t)'
  BY <1>3, <1>6, <1>7, <1>8, <1>9 DEF Traced
<1>10. Settling'
  BY <1>1, <1>2, <1>3, <1>5, <1>7, OneTrainer, SettlingKeeps DEF Unsettled, BeginTraining
<1> QED BY <1>2, <1>5, <1>6, <1>7, <1>9, <1>10, TrainerStep

LEMMA HashFileKeeps ==
    ASSUME IInv, NEW t \in Trainers, HashFile(t)
    PROVE  IInv'
<1> DEFINE new == [[trainer[t] EXCEPT !.pc = "loading"] EXCEPT !.hash = files["features"].by]
<1>1. TypeOK /\ Traced(t) /\ Settling /\ trainer[t] \in TrainerType
  BY TrainerTyped DEF IInv
<1>2. files["features"].by \in Batches
  BY <1>1 DEF Traced, HashFile
<1>3. new \in TrainerType
  BY <1>1, <1>2, TrainerUpdates, TrainerValues DEF Names
<1>4. new.pc = "loading" /\ new.hash = files["features"].by
  BY <1>1 DEF TrainerType
<1>5. TrainerGoes(t, new)
  BY DEF HashFile, TrainerGoes
<1> HIDE DEF new
<1>6. /\ Kept /\ RunsKept /\ ModelsKept
      /\ UNCHANGED <<files, registry, alias, active, recorded, contended, run, server>>
  BY <1>1, KeptByLeaving DEF HashFile, models
<1>7. run[t].status = "SUCCESS" => run[t].model \in 1 .. Len(registry)
  BY <1>1 DEF Traced
<1>8. trainer[t].replaced \/ (run[t].status = "SUCCESS" => registry[run[t].model].data = run[t].dataset)
  BY <1>1 DEF Traced
<1>9. new.replaced = trainer[t].replaced
  BY <1>1 DEF TrainerType, new
<1>10. ASSUME trainer'[t] = new PROVE Traced(t)'
  BY <1>2, <1>4, <1>6, <1>7, <1>8, <1>9, <1>10 DEF Traced
<1>11. Settling'
  BY <1>1, <1>3, <1>4, <1>5, <1>6, OneTrainer, SettlingKeeps DEF Unsettled, HashFile
<1> QED BY <1>3, <1>5, <1>6, <1>10, <1>11, TrainerStep

LEMMA LoadDatasetKeeps ==
    ASSUME IInv, NEW t \in Trainers, LoadDataset(t)
    PROVE  IInv'
<1> DEFINE new == [[trainer[t] EXCEPT !.pc = "fitting"] EXCEPT !.data = files["features"].by]
<1>1. TypeOK /\ Traced(t) /\ Settling /\ trainer[t] \in TrainerType
  BY TrainerTyped DEF IInv
<1>2. files["features"].by \in Batches
  BY <1>1 DEF Traced, LoadDataset
<1>3. new \in TrainerType
  BY <1>1, <1>2, TrainerUpdates, TrainerValues DEF Names
<1>4. /\ new.pc = "fitting" /\ new.data = files["features"].by
      /\ new.hash = trainer[t].hash /\ new.replaced = trainer[t].replaced
  BY <1>1 DEF TrainerType
<1>5. TrainerGoes(t, new)
  BY DEF LoadDataset, TrainerGoes
<1> HIDE DEF new
<1>6. /\ Kept /\ RunsKept /\ ModelsKept
      /\ UNCHANGED <<files, registry, alias, active, recorded, contended, run, server>>
  BY <1>1, KeptByLeaving DEF LoadDataset, models
<1>7. ASSUME trainer'[t] = new PROVE Traced(t)'
  BY <1>1, <1>2, <1>4, <1>6, <1>7 DEF Traced, LoadDataset
<1>8. Settling'
  BY <1>1, <1>3, <1>4, <1>5, <1>6, OneTrainer, SettlingKeeps DEF Unsettled, LoadDataset
<1> QED BY <1>3, <1>5, <1>6, <1>7, <1>8, TrainerStep

\* The version is a new row of the registry, with the data the training loaded.
LEMMA RegisterKeeps ==
    ASSUME IInv, NEW t \in Trainers, Register(t)
    PROVE  IInv'
<1> DEFINE new == [[[trainer[t] EXCEPT !.pc = "registered"] EXCEPT !.data = None]
                     EXCEPT !.version = Len(registry) + 1]
<1>1. TypeOK /\ Traced(t) /\ Settling /\ trainer[t] \in TrainerType
  BY TrainerTyped DEF IInv
<1>2. registry \in Seq(Model) /\ Len(registry) \in Nat /\ trainer[t].data \in Names
  BY <1>1, TrainerTyped DEF TypeOK
<1>3. new \in TrainerType
  <2>1. "registered" \in TrainerPcs /\ None \in Names /\ Len(registry) + 1 \in Nat
    BY <1>2, TrainerValues DEF Names
  <2>2. [trainer[t] EXCEPT !.pc = "registered"] \in TrainerType
    BY <1>1, <2>1, TrainerUpdates
  <2>3. [[trainer[t] EXCEPT !.pc = "registered"] EXCEPT !.data = None] \in TrainerType
    BY <2>1, <2>2, TrainerUpdates
  <2> QED BY <2>1, <2>3, TrainerUpdates
<1>4. /\ new.pc = "registered" /\ new.version = Len(registry) + 1
      /\ new.hash = trainer[t].hash /\ new.replaced = trainer[t].replaced
  BY <1>1 DEF TrainerType
<1>5. TrainerGoes(t, new)
  BY DEF Register, TrainerGoes
<1> HIDE DEF new
<1>6. PICK m \in Model : registry' = Append(registry, m) /\ m.data = trainer[t].data
  <2>1. PICK flavor \in Flavors :
           registry' = Append(registry, [data |-> trainer[t].data, flavor |-> flavor])
    BY DEF Register, Flavors
  <2>2. [data |-> trainer[t].data, flavor |-> flavor] \in Model
    BY <1>2 DEF Model
  <2> QED BY <2>1, <2>2
<1>7. /\ registry' \in Seq(Model) /\ Len(registry') = Len(registry) + 1
      /\ registry'[Len(registry) + 1] = m
      /\ \A v \in 1 .. Len(registry) : registry'[v] = registry[v] /\ v \in 1 .. Len(registry')
      /\ Len(registry) + 1 \in 1 .. Len(registry')
  BY <1>2, <1>6
<1>8. faults' \in 0 .. MaxFaults
  BY <1>1, BatchAssumption DEF Register, Fault, TypeOK
<1>9. UNCHANGED <<input, files, batch, alias, active, recorded, contended, run, server>>
  BY DEF Register
<1>10. Kept /\ RunsKept /\ ModelsKept
  <2>1. Kept
    BY <1>1, <1>8, <1>9 DEF Kept, TypeOK
  <2>2. RunsKept
    BY <1>1, <1>9, KeptByLeaving
  <2>3. ModelsKept
    BY <1>1, <1>7, <1>9 DEF ModelsKept, TypeOK
  <2> QED BY <2>1, <2>2, <2>3
<1>11. ASSUME trainer'[t] = new PROVE Traced(t)'
  BY <1>1, <1>4, <1>6, <1>7, <1>9, <1>11 DEF Traced, Register
<1>12. Settling'
  BY <1>1, <1>3, <1>4, <1>5, <1>9, OneTrainer, SettlingKeeps DEF Unsettled, Register
<1> QED BY <1>3, <1>5, <1>6, <1>9, <1>10, <1>11, <1>12, TrainerStep

LEMMA UpdateKeeps ==
    ASSUME IInv, NEW t \in Trainers, Update(t)
    PROVE  IInv'
<1> DEFINE new == [[trainer[t] EXCEPT !.pc = "updating"] EXCEPT !.seen = recorded]
<1>1. TypeOK /\ Traced(t) /\ Settling /\ trainer[t] \in TrainerType
  BY TrainerTyped DEF IInv
<1>2. recorded \in SUBSET Nat
  BY <1>1 DEF TypeOK
<1>3. new \in TrainerType
  BY <1>1, <1>2, TrainerUpdates, TrainerValues
<1>4. /\ new.pc = "updating" /\ new.seen = recorded /\ new.version = trainer[t].version
      /\ new.hash = trainer[t].hash /\ new.replaced = trainer[t].replaced
  BY <1>1 DEF TrainerType
<1>5. TrainerGoes(t, new)
  BY DEF Update, TrainerGoes
<1> HIDE DEF new
<1>6. /\ Kept /\ RunsKept /\ ModelsKept
      /\ UNCHANGED <<files, registry, alias, active, recorded, contended, run, server>>
  BY <1>1, KeptByLeaving DEF Update, models
<1>7. ASSUME trainer'[t] = new PROVE Traced(t)'
  BY <1>1, <1>4, <1>6, <1>7 DEF Traced, Update
<1>8. trainer'[t] = new /\ \A u \in Trainers \ {t} : trainer'[u] = trainer[u]
  BY <1>1, <1>3, <1>5, OneTrainer
<1>9. Unsettled' = Unsettled /\ t \in Unsettled
  BY <1>4, <1>8 DEF Unsettled, Update
<1>10. Settling'
  BY <1>1, <1>4, <1>6, <1>8, <1>9 DEF Settling, Unsettled
<1> QED BY <1>3, <1>5, <1>6, <1>7, <1>10, TrainerStep

LEMMA LockedKeeps ==
    ASSUME IInv, NEW t \in Trainers, Locked(t)
    PROVE  IInv'
<1> DEFINE new == [trainer[t] EXCEPT !.pc = "updated"]
<1>1. TypeOK /\ Traced(t) /\ Settling /\ trainer[t] \in TrainerType
  BY TrainerTyped DEF IInv
<1>2. new \in TrainerType
  BY <1>1, TrainerUpdates, TrainerValues
<1>3. /\ new.pc = "updated" /\ new.seen = trainer[t].seen /\ new.version = trainer[t].version
      /\ new.hash = trainer[t].hash /\ new.replaced = trainer[t].replaced
  BY <1>1 DEF TrainerType
<1>4. TrainerGoes(t, new)
  BY DEF Locked
<1> HIDE DEF new
<1>5. /\ Kept /\ RunsKept /\ ModelsKept
      /\ UNCHANGED <<files, registry, alias, active, recorded, contended, run, server>>
  BY <1>1, KeptByLeaving DEF Locked, models
<1>6. ASSUME trainer'[t] = new PROVE Traced(t)'
  BY <1>1, <1>3, <1>5, <1>6 DEF Traced, Locked
<1>7. trainer'[t] = new /\ \A u \in Trainers \ {t} : trainer'[u] = trainer[u]
  BY <1>1, <1>2, <1>4, OneTrainer
<1>8. Unsettled' = Unsettled /\ t \in Unsettled
  BY <1>3, <1>7 DEF Unsettled, Locked
<1>9. Settling'
  BY <1>1, <1>3, <1>5, <1>7, <1>8 DEF Settling, Unsettled, Locked
<1> QED BY <1>2, <1>4, <1>5, <1>6, <1>9, TrainerStep

\* A lone training's row takes the place of every other.
LEMMA RecordVersionKeeps ==
    ASSUME IInv, NEW t \in Trainers, RecordVersion(t)
    PROVE  IInv'
<1> DEFINE new == [trainer[t] EXCEPT !.pc = "succeeding"]
<1>1. TypeOK /\ Traced(t) /\ Settling /\ trainer[t] \in TrainerType
  BY TrainerTyped DEF IInv
<1>2. new \in TrainerType
  BY <1>1, TrainerUpdates, TrainerValues
<1>3. /\ new.pc = "succeeding" /\ new.version = trainer[t].version
      /\ new.hash = trainer[t].hash /\ new.replaced = trainer[t].replaced
  BY <1>1 DEF TrainerType
<1>4. TrainerGoes(t, new)
  BY DEF RecordVersion
<1> HIDE DEF new
<1>5. /\ active' = (active \ trainer[t].seen) \cup {trainer[t].version}
      /\ recorded' = recorded \cup {trainer[t].version}
      /\ UNCHANGED <<faults, input, files, batch, registry, alias, contended, run, server>>
      /\ trainer[t].pc = "updated" /\ trainer[t].version \in Nat
  BY <1>1, TrainerTyped DEF RecordVersion, ActiveAfter
<1>6. Kept /\ RunsKept
  BY <1>1, <1>5, KeptByLeaving
<1>7. ModelsKept
  BY <1>1, <1>5 DEF ModelsKept, TypeOK
<1>8. ASSUME trainer'[t] = new PROVE Traced(t)'
  BY <1>1, <1>3, <1>5, <1>8 DEF Traced
<1>9. trainer'[t] = new /\ \A u \in Trainers \ {t} : trainer'[u] = trainer[u]
  BY <1>1, <1>2, <1>4, OneTrainer
<1>10. t \in Unsettled /\ Unsettled' = Unsettled \ {t}
  BY <1>3, <1>5, <1>9 DEF Unsettled
<1>11. active' \subseteq recorded'
  BY <1>1, <1>5 DEF Settling
<1>12. ASSUME ~ contended PROVE Unsettled' = {} /\ active' = {alias}
  <2>1. \A u \in Unsettled : u = t
    BY <1>1, <1>10, <1>12 DEF Settling
  <2>2. alias = trainer[t].version /\ active \subseteq trainer[t].seen
    BY <1>1, <1>5, <1>10, <1>12 DEF Settling
  <2> QED BY <1>5, <1>10, <2>1, <2>2
<1>13. Settling'
  BY <1>5, <1>11, <1>12 DEF Settling
<1> QED BY <1>2, <1>4, <1>5, <1>6, <1>7, <1>8, <1>13, TrainerStep

LEMMA FinishTrainingKeeps ==
    ASSUME IInv, NEW t \in Trainers, FinishTraining(t)
    PROVE  IInv'
<1> DEFINE new    == [trainer[t] EXCEPT !.pc = "ended"]
           record == [[[run[t] EXCEPT !.status = "SUCCESS"] EXCEPT !.dataset = trainer[t].hash]
                        EXCEPT !.model = trainer[t].version]
<1>1. TypeOK /\ Traced(t) /\ Settling /\ trainer[t] \in TrainerType
  BY TrainerTyped DEF IInv
<1>2. new \in TrainerType
  BY <1>1, TrainerUpdates, TrainerValues
<1>3. new.pc = "ended" /\ new.replaced = trainer[t].replaced
  BY <1>1 DEF TrainerType
<1>4. TrainerGoes(t, new)
  BY DEF FinishTraining
<1>5. run' = [run EXCEPT ![t] = record]
  BY DEF FinishTraining
<1>6. /\ RunLike(record) /\ record.dataset = trainer[t].hash /\ record.model = trainer[t].version
  BY <1>1, TrainerTyped DEF TypeOK, RunLike
<1> HIDE DEF new, record
<1>7. RunsKept /\ run'[t] = record /\ \A u \in Trainers \ {t} : run'[u] = run[u]
  BY <1>1, <1>5, <1>6, OneRun
<1>8. Kept /\ ModelsKept /\ UNCHANGED <<files, registry, alias, active, recorded, contended, server>>
  BY <1>1, KeptByLeaving DEF FinishTraining, models
<1>9. ASSUME trainer'[t] = new PROVE Traced(t)'
  BY <1>1, <1>3, <1>6, <1>7, <1>8, <1>9 DEF Traced, FinishTraining
<1>10. Settling'
  BY <1>1, <1>2, <1>3, <1>4, <1>8, OneTrainer, SettlingKeeps DEF Unsettled, FinishTraining
<1> QED BY <1>2, <1>4, <1>7, <1>8, <1>9, <1>10, TrainerStep

LEMMA TrainingFailsKeeps ==
    ASSUME IInv, NEW t \in Trainers, TrainingFails(t)
    PROVE  IInv'
<1> DEFINE new == [trainer[t] EXCEPT !.pc = "ended"]
<1>1. TypeOK /\ Traced(t) /\ Settling /\ trainer[t] \in TrainerType
  BY TrainerTyped DEF IInv
<1>2. new \in TrainerType
  BY <1>1, TrainerUpdates, TrainerValues
<1>3. new.pc = "ended"
  BY <1>1 DEF TrainerType
<1>4. TrainerGoes(t, new)
  BY DEF TrainingFails
<1>5. trainer[t].hash \in Names /\ Fails(t, 0, trainer[t].hash)
  BY <1>1, TrainerTyped DEF TrainingFails
<1>6. /\ RunsKept /\ run'[t].status = "FAILED" /\ faults' \in 0 .. MaxFaults
      /\ \A u \in Trainers \ {t} : run'[u] = run[u]
  BY <1>1, <1>5, Failure
<1>7. UNCHANGED <<input, files, batch, registry, alias, active, recorded, server>>
  BY DEF TrainingFails
<1>8. contended' = (contended \/ t \in Unsettled)
  BY DEF TrainingFails
<1> HIDE DEF new
<1>9. Kept
  BY <1>1, <1>6, <1>7 DEF Kept, TypeOK
<1>10. contended \in BOOLEAN /\ contended' \in BOOLEAN
  <2>1. contended \in BOOLEAN
    BY <1>1 DEF TypeOK
  <2> QED BY <1>8, <2>1, Zenon
<1>11. ModelsKept
  BY <1>1, <1>7, <1>10 DEF ModelsKept, TypeOK
<1>12. trainer'[t] = new /\ \A u \in Trainers \ {t} : trainer'[u] = trainer[u]
  BY <1>1, <1>2, <1>4, OneTrainer
<1>13. Traced(t)'
  BY <1>3, <1>6, <1>12 DEF Traced
<1>14. Settling'
  <2>1. CASE t \in Unsettled
    <3>1. contended'
      BY <1>8, <2>1, Zenon
    <3>2. active' \subseteq recorded'
      BY <1>1, <1>7 DEF Settling
    <3> QED BY <3>1, <3>2, Zenon DEF Settling
  <2>2. CASE t \notin Unsettled
    <3>1. contended' = contended
      BY <1>8, <1>10, <2>2, Zenon
    <3> QED BY <1>1, <1>3, <1>7, <1>12, <2>2, <3>1, SettlingKeeps DEF Unsettled
  <2> QED BY <2>1, <2>2
<1> QED BY <1>2, <1>4, <1>6, <1>7, <1>9, <1>11, <1>13, <1>14, TrainerStep

\* The alias moves: servers between their two lookups remember it.
LEMMA SetAliasKeeps ==
    ASSUME IInv, NEW t \in Trainers, SetAlias(t)
    PROVE  IInv'
<1> DEFINE new == [trainer[t] EXCEPT !.pc = "aliased"]
<1>1. TypeOK /\ Traced(t) /\ Settling /\ trainer[t] \in TrainerType /\ trainer[t].version \in Nat
  BY TrainerTyped DEF IInv
<1>2. new \in TrainerType
  BY <1>1, TrainerUpdates, TrainerValues
<1>3. /\ new.pc = "aliased" /\ new.version = trainer[t].version
      /\ new.hash = trainer[t].hash /\ new.replaced = trainer[t].replaced
  BY <1>1 DEF TrainerType
<1>4. TrainerGoes(t, new)
  BY DEF SetAlias
<1>5. /\ alias' = trainer[t].version /\ trainer[t].pc = "registered"
      /\ UNCHANGED <<faults, input, files, batch, registry, active, recorded, run>>
  BY DEF SetAlias
<1>6. contended' = (Unsettled # {})
  BY DEF SetAlias
<1>7. server' = [s \in Servers |-> IF server[s].pc = "resolved" THEN [server[s] EXCEPT !.moved = TRUE]
                                                                ELSE server[s]]
  BY DEF SetAlias
<1> HIDE DEF new
<1>8. /\ trainer' \in [Trainers -> TrainerType] /\ trainer'[t] = new
      /\ \A u \in Trainers \ {t} : trainer'[u] = trainer[u]
  BY <1>1, <1>2, <1>4, OneTrainer
<1>9. contended' \in BOOLEAN
  BY <1>6, Zenon
<1>10. ModelsKept
  BY <1>1, <1>5, <1>9 DEF ModelsKept, TypeOK
<1>11. ASSUME NEW s \in Servers
       PROVE  /\ ServerLike(server'[s])
              /\ server'[s].pc = server[s].pc /\ server'[s].version = server[s].version
              /\ server'[s].model = server[s].model
              /\ server[s].pc = "resolved" => server'[s].moved
              /\ server[s].pc # "resolved" => server'[s] = server[s]
  <2>1. ServerLike(server[s])
    BY <1>1 DEF TypeOK
  <2> QED BY <1>7, <2>1 DEF ServerLike
<1>12. ServersKept
  BY <1>7, <1>11 DEF ServersKept
<1>13. TypeOK'
  BY <1>1, <1>5, <1>8, <1>10, <1>12, KeptByLeaving, TypesOfStep
<1>14. ASSUME NEW u \in Trainers PROVE Traced(u)'
  <2>1. CASE u = t
    BY <1>1, <1>3, <1>5, <1>8, <2>1 DEF Traced
  <2>2. CASE u # t
    BY <1>1, <1>5, <1>8, <2>2, TracedKeeps DEF IInv
  <2> QED BY <2>1, <2>2
<1>15. Settling'
  <2>1. active' \subseteq recorded'
    BY <1>1, <1>5 DEF Settling
  <2>2. Unsettled' = Unsettled \cup {t}
    BY <1>3, <1>8 DEF Unsettled
  <2>3. ~ contended' => Unsettled' = {t}
    <3>1. ~ contended' => Unsettled = {}
      BY <1>6, Zenon
    <3> QED BY <2>2, <3>1
  <2>4. alias' = trainer'[t].version /\ trainer'[t].pc = "aliased"
    BY <1>3, <1>5, <1>8
  <2> QED BY <2>1, <2>3, <2>4 DEF Settling
<1>16. ASSUME NEW s \in Servers PROVE Honest(s)'
  <2>1. Honest(s)
    BY DEF IInv
  <2>2. CASE server[s].pc = "resolved"
    BY <1>11, <2>1, <2>2 DEF Honest
  <2>3. CASE server[s].pc # "resolved"
    <3>1. server'[s] = server[s]
      BY <1>11, <2>3
    <3> QED BY <2>1, <2>3, <3>1 DEF Honest
  <2> QED BY <2>2, <2>3
<1> QED BY <1>13, <1>14, <1>15, <1>16 DEF IInv

-----------------------------------------------------------------------------
(* The actions of a server.                                                 *)

LEMMA ServerStep ==
    ASSUME IInv, NEW s \in Servers, NEW new, ServerLike(new), ServerGoes(s, new),
           server'[s] = new => Honest(s)'
    PROVE  IInv'
<1>1. TypeOK
  BY DEF IInv
<1>2. /\ DOMAIN server' = Servers /\ server'[s] = new
      /\ \A q \in Servers \ {s} : server'[q] = server[q]
  BY <1>1 DEF ServerGoes, TypeOK
<1>3. UNCHANGED <<faults, input, files, batch, trainer, models, run>>
  BY DEF ServerGoes
<1>4. UNCHANGED <<registry, alias, active, recorded, contended>>
  BY <1>3 DEF models
<1>5. ServersKept
  BY <1>1, <1>2 DEF ServersKept, TypeOK
<1>6. trainer' \in [Trainers -> TrainerType]
  BY <1>1, <1>3 DEF TypeOK
<1>7. TypeOK'
  BY <1>1, <1>3, <1>5, <1>6, KeptByLeaving, TypesOfStep
<1>8. \A t \in Trainers : Traced(t)'
  BY <1>1, <1>3, <1>4, TracedKeeps DEF IInv
<1>9. Settling'
  BY <1>3, <1>4, SettlingKeeps DEF IInv
<1>10. \A q \in Servers : Honest(q)'
  <2>1. ASSUME NEW q \in Servers \ {s} PROVE Honest(q)'
    BY <1>2, <1>4, <2>1 DEF IInv, Honest
  <2> QED BY <1>2, <2>1
<1> QED BY <1>7, <1>8, <1>9, <1>10 DEF IInv

LEMMA ResolveKeeps ==
    ASSUME IInv, NEW s \in Servers, Resolve(s)
    PROVE  IInv'
<1> DEFINE new == [[server[s] EXCEPT !.pc = "resolved"] EXCEPT !.version = alias]
<1>1. ServerLike(server[s]) /\ alias \in Nat /\ Honest(s)
  BY DEF IInv, TypeOK
<1>2. /\ ServerLike(new) /\ new.pc = "resolved" /\ new.version = alias /\ new.model = server[s].model
  BY <1>1 DEF ServerLike, ServerPcs
<1>3. ServerGoes(s, new) /\ UNCHANGED alias
  BY DEF Resolve, ChampionVersion, ServerGoes, models
<1> HIDE DEF new
<1>4. ASSUME server'[s] = new PROVE Honest(s)'
  BY <1>1, <1>2, <1>3, <1>4 DEF Honest, Resolve
<1> QED BY <1>2, <1>3, <1>4, ServerStep

LEMMA StartWithoutModelKeeps ==
    ASSUME IInv, NEW s \in Servers, StartWithoutModel(s)
    PROVE  IInv'
<1> DEFINE new == [server[s] EXCEPT !.pc = "loading"]
<1>1. ServerLike(server[s]) /\ Honest(s)
  BY DEF IInv, TypeOK
<1>2. /\ ServerLike(new) /\ new.pc = "loading" /\ new.version = server[s].version
      /\ new.model = server[s].model
  BY <1>1 DEF ServerLike, ServerPcs
<1>3. ServerGoes(s, new)
  BY DEF StartWithoutModel
<1> HIDE DEF new
<1>4. ASSUME server'[s] = new PROVE Honest(s)'
  BY <1>1, <1>2, <1>4 DEF Honest, StartWithoutModel
<1> QED BY <1>2, <1>3, <1>4, ServerStep

LEMMA LoadModelKeeps ==
    ASSUME IInv, NEW s \in Servers, LoadModel(s)
    PROVE  IInv'
<1> DEFINE loaded == [[server[s] EXCEPT !.pc = "loading"] EXCEPT !.model = alias]
           raised == [[server[s] EXCEPT !.pc = "loading"] EXCEPT !.version = 0]
<1>1. ServerLike(server[s]) /\ alias \in Nat /\ Honest(s) /\ server[s].pc = "resolved"
  BY DEF IInv, TypeOK, LoadModel
<1>2. server[s].model = None /\ (server[s].version = alias \/ server[s].moved)
  BY <1>1 DEF Honest
<1>3. /\ ServerLike(loaded) /\ loaded.pc = "loading" /\ loaded.model = alias
      /\ loaded.version = server[s].version /\ loaded.moved = server[s].moved
      /\ ServerLike(raised) /\ raised.pc = "loading" /\ raised.version = 0
      /\ raised.model = server[s].model
  BY <1>1 DEF ServerLike, ServerPcs
<1>4. ServerGoes(s, loaded) \/ ServerGoes(s, raised)
  BY DEF LoadModel, ServerGoes
<1> HIDE DEF loaded, raised
<1>5. CASE ServerGoes(s, loaded)
  <2>1. alias # None
    BY <1>1, BatchAssumption
  <2>2. ASSUME server'[s] = loaded PROVE Honest(s)'
    BY <1>2, <1>3, <2>1, <2>2 DEF Honest
  <2> QED BY <1>3, <1>5, <2>2, ServerStep
<1>6. CASE ServerGoes(s, raised)
  <2>1. ASSUME server'[s] = raised PROVE Honest(s)'
    BY <1>2, <1>3, <2>1 DEF Honest
  <2> QED BY <1>3, <1>6, <2>1, ServerStep
<1> QED BY <1>4, <1>5, <1>6

LEMMA LoadLookupsKeeps ==
    ASSUME IInv, NEW s \in Servers, LoadLookups(s)
    PROVE  IInv'
<1> DEFINE new == [[server[s] EXCEPT !.pc = "ready"] EXCEPT !.lookups = LookupsIn(files)]
<1>1. ServerLike(server[s]) /\ Honest(s)
  BY DEF IInv, TypeOK
<1>2. /\ ServerLike(new) /\ new.pc = "ready" /\ new.version = server[s].version
      /\ new.model = server[s].model /\ new.moved = server[s].moved
  BY <1>1 DEF ServerLike, ServerPcs
<1>3. ServerGoes(s, new)
  BY DEF LoadLookups, ServerGoes
<1> HIDE DEF new
<1>4. ASSUME server'[s] = new PROVE Honest(s)'
  BY <1>1, <1>2, <1>4 DEF Honest, LoadLookups
<1> QED BY <1>2, <1>3, <1>4, ServerStep

LEMMA RestartKeeps ==
    ASSUME IInv, NEW s \in Servers, Restart(s)
    PROVE  IInv'
<1>1. ServerLike(IdleServer) /\ IdleServer.pc = "stopped"
  BY DEF ServerLike, ServerPcs, IdleServer
<1>2. IdleServer.model = None /\ IdleServer.version = 0
  BY DEF IdleServer
<1>3. ServerGoes(s, IdleServer)
  BY DEF Restart
<1>4. ASSUME server'[s] = IdleServer PROVE Honest(s)'
  BY <1>1, <1>2, <1>4 DEF Honest
<1> QED BY <1>1, <1>3, <1>4, ServerStep

-----------------------------------------------------------------------------
(* The invariant of the specification.                                      *)

LEMMA InitHolds == Init => IInv
<1> SUFFICES ASSUME Init PROVE IInv
  OBVIOUS
<1>1. \A t \in Trainers : trainer[t] = IdleTrainer /\ run[t] = NotRun
  BY DEF Init
<1>2. IdleTrainer \in TrainerType /\ IdleTrainer.pc = "idle" /\ NotRun.status = "ABSENT"
  BY DEF IdleTrainer, TrainerType, TrainerPcs, Names, NotRun
<1>3. RunLike(NotRun)
  BY DEF RunLike, NotRun, Names
<1>4. ServerLike(IdleServer) /\ IdleServer.pc = "stopped"
      /\ IdleServer.model = None /\ IdleServer.version = 0
  BY DEF ServerLike, ServerPcs, IdleServer
<1>5. TypeOK
  <2>1. /\ faults \in 0 .. MaxFaults /\ input \in Contents /\ registry \in Seq(Model)
        /\ alias \in Nat /\ active \subseteq Nat /\ recorded \subseteq Nat /\ contended \in BOOLEAN
    <3>1. /\ faults = 0 /\ input = 1 /\ registry = <<>> /\ alias = 0 /\ active = {} /\ recorded = {}
          /\ contended = FALSE
      BY DEF Init
    <3>2. faults \in 0 .. MaxFaults /\ input \in Contents
      <4>1. Len(Inputs) \in Nat \ {0}
        BY BatchAssumption
      <4> QED BY <3>1, <4>1, BatchAssumption DEF Contents
    <3>3. registry \in Seq(Model)
      BY <3>1
    <3>4. contended \in BOOLEAN
      BY <3>1, Zenon
    <3> QED BY <3>1, <3>2, <3>3, <3>4
  <2>2. DOMAIN files = Layers /\ \A l \in Layers : files[l] = None \/ files[l].by \in Batches
    BY DEF Init
  <2>3. DOMAIN batch = Batches /\ \A b \in Batches : BatchLike(batch[b])
    BY BatchValues DEF Init
  <2>4. trainer \in [Trainers -> TrainerType]
    BY <1>2 DEF Init
  <2>5. DOMAIN run = Batches \cup Trainers /\ \A r \in Batches \cup Trainers : RunLike(run[r])
    BY <1>3 DEF Init
  <2>6. DOMAIN server = Servers /\ \A s \in Servers : ServerLike(server[s])
    BY <1>4 DEF Init
  <2> QED BY <2>1, <2>2, <2>3, <2>4, <2>5, <2>6 DEF TypeOK
<1>6. Unsettled = {}
  BY <1>1, <1>2 DEF Unsettled
<1>7. Settling
  BY <1>6 DEF Init, Settling
<1>8. \A t \in Trainers : Traced(t)
  BY <1>1, <1>2 DEF Traced
<1>9. \A s \in Servers : Honest(s)
  BY <1>4 DEF Init, Honest
<1> QED BY <1>5, <1>7, <1>8, <1>9 DEF IInv

LEMMA StutterKeeps == IInv /\ UNCHANGED vars => IInv'
<1> SUFFICES ASSUME IInv, UNCHANGED vars PROVE IInv'
  OBVIOUS
<1>1. TypeOK
  BY DEF IInv
<1>2. RunsKept /\ \A t \in Trainers : run'[t] = run[t]
  BY <1>1, KeptByLeaving DEF vars
<1> QED BY <1>1, <1>2, KeptByLeaving, BatchStep DEF vars, models

LEMMA StepKeeps == IInv /\ Next => IInv'
<1> SUFFICES ASSUME IInv, Next PROVE IInv'
  OBVIOUS
<1>1. ASSUME NEW b \in Batches,
             BeginBatch(b) \/ HashInput(b) \/ Raw(b) \/ Clean(b) \/ WriteLookups(b)
               \/ WriteFeatures(b) \/ FinishBatch(b) \/ BatchFails(b)
      PROVE  IInv'
  BY <1>1, BeginBatchKeeps, HashInputKeeps, RawKeeps, CleanKeeps, WriteLookupsKeeps, WriteFeaturesKeeps,
     FinishBatchKeeps, BatchFailsKeeps
<1>2. ASSUME NEW t \in Trainers,
             BeginTraining(t) \/ HashFile(t) \/ LoadDataset(t) \/ Register(t) \/ SetAlias(t) \/ Update(t)
               \/ Locked(t) \/ RecordVersion(t) \/ FinishTraining(t) \/ TrainingFails(t)
      PROVE  IInv'
  BY <1>2, BeginTrainingKeeps, HashFileKeeps, LoadDatasetKeeps, RegisterKeeps, SetAliasKeeps, UpdateKeeps,
     LockedKeeps, RecordVersionKeeps, FinishTrainingKeeps, TrainingFailsKeeps
<1>3. ASSUME NEW s \in Servers,
             Resolve(s) \/ StartWithoutModel(s) \/ LoadModel(s) \/ LoadLookups(s) \/ Restart(s)
      PROVE  IInv'
  BY <1>3, ResolveKeeps, StartWithoutModelKeeps, LoadModelKeeps, LoadLookupsKeeps, RestartKeeps
<1> QED BY <1>1, <1>2, <1>3, ReplaceInputKeeps DEF Next

\* The inductive invariant holds in every state, for any number of batch runs,
\* trainings and servers, with any number of failing steps.
THEOREM Inductive == Spec => []IInv
<1>1. IInv /\ [Next]_vars => IInv'
  BY StepKeeps, StutterKeeps
<1> QED BY <1>1, InitHolds, PTL DEF Spec

\* Registry, alias, table of versions, runs and servers keep their types, rows and
\* lookups aside.
THEOREM TypeCorrect == Spec => []TypeOK
<1>1. IInv => TypeOK
  BY DEF IInv
<1> QED BY <1>1, Inductive, PTL

\* The dataset a successful training run names is the one its version learned
\* from, unless the file was replaced between the two reads of train_configured.
THEOREM TrainingsTellTheirData == Spec => []TrainingsNameTheirData
<1>1. IInv => TrainingsNameTheirData
  BY DEF IInv, Traced, TrainingsNameTheirData
<1> QED BY <1>1, Inductive, PTL

\* With any number of trainings, MLflow's alias and the active row agree whenever
\* none is between them, the last to move the alias met no other there, and none has
\* failed there since: whatever overlapping or failing trainings left before it.
THEOREM OneChampion == Spec => []ActiveRowIsTheChampion
<1>1. IInv => ActiveRowIsTheChampion
  BY DEF IInv, Settling, ActiveRowIsTheChampion
<1> QED BY <1>1, Inductive, PTL

\* A server scores with the model whose version it reports, unless the alias moved
\* between the two lookups of load_champion_model.
THEOREM ServersReportTheirModel == Spec => []ServedVersionIsItsModel
<1>1. IInv => ServedVersionIsItsModel
  BY DEF IInv, Honest, ServedVersionIsItsModel
<1> QED BY <1>1, Inductive, PTL

-----------------------------------------------------------------------------
(* What the files hold.  The stages are functions of the contents d read,   *)
(* and so is every file, up to the order of equal times.                    *)

ValidRows(d)  == CleanStage(RawStage(Inputs[d]))
Reported(d)   == Cardinality(RawRejected(Inputs[d])) + Cardinality(CleanRejected(RawStage(Inputs[d])))
LookupsOf(d)  == ComputeRiskLookups(TrainRows(ValidRows(d)))

\* Which places of the input the stages keep and which they report.
LEMMA RowsKept ==
    ASSUME NEW d \in Contents
    PROVE  /\ Inputs[d] \in Seq(Range(Inputs[d])) /\ Len(Inputs[d]) \in Nat
           /\ DOMAIN RawStage(Inputs[d]) = (1 .. Len(Inputs[d])) \ RawRejected(Inputs[d])
           /\ RawRejected(Inputs[d]) \subseteq 1 .. Len(Inputs[d])
           /\ CleanRejected(RawStage(Inputs[d])) \subseteq DOMAIN RawStage(Inputs[d])
           /\ DOMAIN ValidRows(d) = DOMAIN RawStage(Inputs[d]) \ CleanRejected(RawStage(Inputs[d]))
           /\ \A i \in DOMAIN ValidRows(d) : ValidRows(d)[i].at \in Int
<1> DEFINE raw  == RawStage(Inputs[d])
           paid == Paid(raw)
<1>1. Inputs[d] \in Range(Inputs)
  BY BatchAssumption DEF Contents, Range
<1>2. /\ Inputs[d] \in Seq(Range(Inputs[d]))
      /\ \A r \in Range(Inputs[d]) : r.valid => r.at \in Int
  BY <1>1, BatchAssumption
<1>3. DOMAIN Inputs[d] = 1 .. Len(Inputs[d]) /\ Len(Inputs[d]) \in Nat
  BY <1>2
<1>4. /\ DOMAIN raw = {i \in DOMAIN Inputs[d] : Inputs[d][i].valid}
      /\ \A i \in DOMAIN raw : raw[i] = Inputs[d][i] /\ raw[i].valid
  BY DEF RawStage, RestrictValues, Restrict
<1>5. RawRejected(Inputs[d]) = {i \in DOMAIN Inputs[d] : ~ Inputs[d][i].valid}
  BY DEF RawRejected
<1>6. /\ DOMAIN paid = DOMAIN raw \ Unpaid(raw) /\ Unpaid(raw) \subseteq DOMAIN raw
      /\ \A i \in DOMAIN paid : paid[i] = raw[i]
  BY DEF Paid, Unpaid, RestrictValues, Restrict
<1>7. Duplicates(paid) \subseteq DOMAIN paid
  BY DEF Duplicates
<1>8. /\ DOMAIN ValidRows(d) = DOMAIN paid \ Duplicates(paid)
      /\ \A i \in DOMAIN ValidRows(d) : ValidRows(d)[i] = paid[i]
  BY DEF ValidRows, CleanStage, RestrictDomain, Restrict
<1>9. CleanRejected(raw) = Unpaid(raw) \cup Duplicates(paid)
  BY DEF CleanRejected
<1>10. \A i \in DOMAIN Inputs[d] : Inputs[d][i].valid => Inputs[d][i].at \in Int
  BY <1>2 DEF Range
<1> HIDE DEF raw, paid
<1>11. DOMAIN raw = (1 .. Len(Inputs[d])) \ RawRejected(Inputs[d])
  BY <1>3, <1>4, <1>5
<1>12. RawRejected(Inputs[d]) \subseteq 1 .. Len(Inputs[d])
  BY <1>3, <1>5
<1>13. CleanRejected(raw) \subseteq DOMAIN raw /\ DOMAIN ValidRows(d) = DOMAIN raw \ CleanRejected(raw)
  BY <1>6, <1>7, <1>8, <1>9
<1>14. ASSUME NEW i \in DOMAIN ValidRows(d) PROVE ValidRows(d)[i].at \in Int
  <2>1. i \in DOMAIN paid /\ ValidRows(d)[i] = paid[i]
    BY <1>8
  <2>2. i \in DOMAIN raw /\ paid[i] = raw[i]
    BY <1>6, <2>1
  <2>3. i \in DOMAIN Inputs[d] /\ raw[i] = Inputs[d][i] /\ Inputs[d][i].valid
    BY <1>4, <2>2
  <2> QED BY <1>10, <2>1, <2>2, <2>3
<1> QED BY <1>2, <1>3, <1>11, <1>12, <1>13, <1>14 DEF raw

\* A part of a finite set and the rest of it.
LEMMA TwoParts ==
    ASSUME NEW S, NEW T, T \subseteq S, IsFiniteSet(S)
    PROVE  /\ IsFiniteSet(T) /\ IsFiniteSet(S \ T)
           /\ Cardinality(S) \in Nat /\ Cardinality(T) \in Nat /\ Cardinality(S \ T) \in Nat
           /\ Cardinality(S) = Cardinality(T) + Cardinality(S \ T)
<1>1. IsFiniteSet(T) /\ IsFiniteSet(S \ T)
  BY FS_Subset
<1>2. Cardinality(S) \in Nat /\ Cardinality(T) \in Nat /\ Cardinality(S \ T) \in Nat
  BY <1>1, FS_CardinalityType
<1>3. S \cap T = T
  OBVIOUS
<1>4. Cardinality(S \ T) = Cardinality(S) - Cardinality(T)
  BY <1>3, FS_Difference
<1> QED BY <1>1, <1>2, <1>4

LEMMA Places ==
    ASSUME NEW n \in Nat
    PROVE  IsFiniteSet(1 .. n) /\ Cardinality(1 .. n) = n
<1>1. IsFiniteSet(1 .. n) /\ Cardinality(1 .. n) = (IF 1 > n THEN 0 ELSE n - 1 + 1)
  BY FS_Interval
<1> QED BY <1>1

\* The stages keep or report each row of the input, and none twice.
LEMMA RowsCounted ==
    ASSUME NEW d \in Contents
    PROVE  /\ IsFiniteSet(DOMAIN ValidRows(d)) /\ Cardinality(DOMAIN ValidRows(d)) \in Nat
           /\ Cardinality(DOMAIN ValidRows(d)) + Reported(d) = Len(Inputs[d])
<1> DEFINE all == 1 .. Len(Inputs[d])
           refused == RawRejected(Inputs[d])
           raw == DOMAIN RawStage(Inputs[d])
           unclean == CleanRejected(RawStage(Inputs[d]))
           kept == DOMAIN ValidRows(d)
<1>1. /\ raw = all \ refused /\ refused \subseteq all /\ unclean \subseteq raw /\ kept = raw \ unclean
      /\ Len(Inputs[d]) \in Nat
  BY RowsKept
<1>2. IsFiniteSet(all) /\ Cardinality(all) = Len(Inputs[d])
  BY <1>1, Places
<1>3. Reported(d) = Cardinality(refused) + Cardinality(unclean)
  BY DEF Reported
<1> HIDE DEF all, refused, raw, unclean, kept
<1>4. /\ IsFiniteSet(raw) /\ Cardinality(refused) \in Nat
      /\ Len(Inputs[d]) = Cardinality(refused) + Cardinality(raw)
  BY <1>1, <1>2, TwoParts
<1>5. /\ IsFiniteSet(kept) /\ Cardinality(unclean) \in Nat /\ Cardinality(kept) \in Nat
      /\ Cardinality(raw) = Cardinality(unclean) + Cardinality(kept)
  BY <1>1, <1>4, TwoParts
<1>6. Cardinality(kept) + Reported(d) = Len(Inputs[d])
  BY <1>3, <1>4, <1>5
<1> QED BY <1>5, <1>6 DEF kept

\* An order of the rows has each of them once.
LEMMA SortedRows ==
    ASSUME NEW rows, IsFiniteSet(DOMAIN rows), NEW order \in Sorted(rows)
    PROVE  /\ \E n \in Nat : DOMAIN order = 1 .. n
           /\ Range(order) = Range(rows)
           /\ \A i, j \in DOMAIN order : i < j => order[i].at <= order[j].at
<1> DEFINE n == Cardinality(Range(rows))
           places == [i \in DOMAIN rows |-> rows[i]]
<1>1. IsFiniteSet(Range(rows)) /\ n \in Nat
  <2>1. places \in Surjection(DOMAIN rows, Range(rows))
    BY DEF Surjection, Range
  <2>2. IsFiniteSet(Range(rows))
    BY <2>1, FS_Surjection
  <2> QED BY <2>2, FS_CardinalityType
<1>2. /\ order \in [1 .. n -> Range(rows)]
      /\ \A i, j \in 1 .. n : i # j => order[i] # order[j]
      /\ \A i, j \in DOMAIN order : i < j => order[i].at <= order[j].at
  BY DEF Sorted, SetToSeqs
<1> HIDE DEF n
<1>3. order \in Injection(1 .. n, Range(rows))
  BY <1>2 DEF Injection, IsInjective
<1>4. Cardinality(1 .. n) = n
  BY <1>1, FS_Interval
<1>5. order \in Surjection(1 .. n, Range(rows))
  BY <1>1, <1>3, <1>4, FS_Injection DEF n
<1>6. Range(order) = Range(rows)
  BY <1>2, <1>5 DEF Surjection, Range
<1> QED BY <1>1, <1>2, <1>6

\* For a row without a tie, the rows the batch run has seen within a window are
\* those the online store gives for it: both count the same places.
LEMMA SameCounts ==
    ASSUME NEW n \in Nat, NEW order, DOMAIN order = 1 .. n,
           \A j \in 1 .. n : order[j].at \in Int,
           \A j, k \in 1 .. n : j < k => order[j].at <= order[k].at,
           NEW i \in 1 .. n,
           \A j \in (1 .. n) \ {i} : ~ (order[j].customer = order[i].customer /\ order[j].at = order[i].at),
           NEW window \in Nat, window <= Lookback
    PROVE  CountWithin(RecentOf(order, i), "success", order[i].at, window)
             = CountWithin(RecentEvents([j \in 1 .. n |-> Success(order[j])], order[i].customer, order[i].at),
                           "success", order[i].at, window)
<1> DEFINE at      == order[i].at
           batched == RecentOf(order, i)
           online  == RecentEvents([j \in 1 .. n |-> Success(order[j])], order[i].customer, at)
           seen    == {j \in 1 .. n : /\ order[j].customer = order[i].customer
                                      /\ order[j].at < at /\ at - order[j].at <= window}
<1>1. \A j \in 1 .. n : /\ Success(order[j]).kind = "success" /\ Success(order[j]).at = order[j].at
                        /\ Success(order[j]).customer = order[j].customer
  BY DEF Success
<1>2. {j \in DOMAIN online : online[j].kind = "success" /\ at - online[j].at <= window} = seen
  <2>1. DOMAIN online = {j \in 1 .. n : /\ order[j].customer = order[i].customer
                                        /\ at - Lookback <= order[j].at /\ order[j].at < at}
    BY <1>1 DEF RecentEvents
  <2>2. \A j \in DOMAIN online : online[j].kind = "success" /\ online[j].at = order[j].at
    BY <1>1, <2>1 DEF RecentEvents
  <2>3. \A j \in 1 .. n : at - order[j].at <= window => at - Lookback <= order[j].at
    BY WindowAssumption
  <2> HIDE DEF online
  <2> QED BY <2>1, <2>2, <2>3
<1>3. {p \in DOMAIN batched : batched[p].kind = "success" /\ at - batched[p].at <= window} = seen
  <2>1. \A j \in 1 .. n : /\ order[j].customer = order[i].customer
                          => (j < i <=> order[j].at < at)
    OBVIOUS
  <2>2. ASSUME NEW p \in DOMAIN batched
        PROVE  \/ p \in History(order, i) /\ batched[p] = Success(order[p])
               \/ p \notin 1 .. n /\ batched[p].kind # "success"
    <3>1. CASE p \in History(order, i)
      BY <3>1 DEF RecentOf, History
    <3>2. CASE p \notin History(order, i)
      <4>1. PICK k \in DOMAIN Failed : p = -k
        BY <2>2, <3>2 DEF RecentOf
      <4>2. k \in 1 .. Len(Failed) /\ Len(Failed) \in Nat /\ Failed[k].kind = "failed"
        BY <4>1, BatchAssumption
      <4>3. ~ (p > 0) /\ -p = k
        BY <4>1, <4>2
      <4>4. batched[p] = Failed[k]
        BY <2>2, <4>3 DEF RecentOf
      <4> QED BY <4>2, <4>3, <4>4
    <3> QED BY <3>1, <3>2
  <2>3. History(order, i) \subseteq DOMAIN batched
    BY DEF RecentOf
  <2>4. \A j \in 1 .. n : j \in History(order, i) <=> order[j].customer = order[i].customer /\ j < i
    BY DEF History
  <2>5. History(order, i) \subseteq 1 .. n
    BY DEF History
  <2> HIDE DEF batched
  <2> QED BY <1>1, <2>1, <2>2, <2>3, <2>4, <2>5
<1> HIDE DEF at, batched, online, seen
<1> QED BY <1>2, <1>3 DEF CountWithin, at, batched, online

\* Files written from an order of the rows, and from the lookups of the rows that
\* its split sends to training, are what serving would have computed.
LEMMA EnrichedAgrees ==
    ASSUME NEW rows, IsFiniteSet(DOMAIN rows), \A i \in DOMAIN rows : rows[i].at \in Int,
           NEW order \in Sorted(rows), NEW split, NEW lookups,
           lookups = ComputeRiskLookups({r \in Range(rows) : split[r] = "train"}),
           NEW written, written["features"].content = Enrich(order, split, lookups),
           written["lookups"] # None /\ written["lookups"].by = written["features"].by
             => LookupsIn(written) = lookups
    PROVE  ServingAgrees(written)
<1> DEFINE content == written["features"].content
           train   == ComputeRiskLookups({r.tx : r \in {x \in ToSet(content) : x.split = "train"}})
           store   == [i \in DOMAIN content |-> Success(content[i].tx)]
           served  == LookupsIn(written)
           OnlineOf(tx) == ComputeFeatures(tx, ProfileOf(Profiles, tx.customer),
                                           RecentEvents(store, tx.customer, tx.at), served)
           Tied(i) == \E j \in DOMAIN content \ {i} : /\ content[j].tx.customer = content[i].tx.customer
                                                     /\ content[j].tx.at = content[i].tx.at
<1>1. PICK n \in Nat : DOMAIN order = 1 .. n
  BY SortedRows
<1>2. /\ Range(order) = Range(rows)
      /\ \A i, j \in 1 .. n : i < j => order[i].at <= order[j].at
  BY <1>1, SortedRows
<1>3. \A i \in 1 .. n : order[i].at \in Int
  BY <1>1, <1>2 DEF Range
<1>4. DOMAIN content = 1 .. n
  BY <1>1 DEF Enrich
<1>5. \A i \in 1 .. n : /\ content[i].tx = order[i] /\ content[i].split = split[order[i]]
                        /\ content[i].features = ComputeFeatures(order[i], ProfileOf(Profiles, order[i].customer),
                                                                 RecentOf(order, i), lookups)
  BY <1>1 DEF Enrich
<1>6. store = [i \in 1 .. n |-> Success(order[i])]
  BY <1>4, <1>5
<1>7. train = lookups
  <2>1. {r.tx : r \in {x \in ToSet(content) : x.split = "train"}} = {r \in Range(rows) : split[r] = "train"}
    <3> DEFINE marked == {x \in ToSet(content) : x.split = "train"}
    <3>1. ToSet(content) = {content[i] : i \in 1 .. n}
      BY <1>4 DEF ToSet
    <3>2. \A x : x \in marked <=> \E i \in 1 .. n : x = content[i] /\ content[i].split = "train"
      BY <3>1
    <3> HIDE DEF marked, content
    <3>3. \A r : r \in {x.tx : x \in marked} <=> \E i \in 1 .. n : r = order[i] /\ split[order[i]] = "train"
      BY <1>5, <3>2
    <3>4. \A r : r \in Range(rows) <=> \E i \in 1 .. n : r = order[i]
      BY <1>1, <1>2 DEF Range
    <3>5. {x.tx : x \in marked} = {r \in Range(rows) : split[r] = "train"}
      BY <3>3, <3>4
    <3> QED BY <3>5 DEF marked
  <2> QED BY <2>1
<1> HIDE DEF content, train, store, served
<1>8. ASSUME NEW i \in 1 .. n
      PROVE  /\ \A f \in {"ratio", "zscore", "newDevice", "newCountry", "night"} :
                   content[i].features[f] = OnlineOf(content[i].tx)[f]
             /\ Tied(i) \/ \A f \in {"last10m", "last1h", "last24h"} :
                              content[i].features[f] = OnlineOf(content[i].tx)[f]
             /\ written["lookups"] # None /\ written["lookups"].by = written["features"].by =>
                   \A f \in {"merchantRisk", "countryRisk"} : content[i].features[f] = OnlineOf(content[i].tx)[f]
             /\ content[i].features.merchantRisk = RiskOf(train.merchant, content[i].tx.merchant, train.default)
  <2> DEFINE online == OnlineOf(order[i])
             made   == content[i].features
  <2>1. content[i].tx = order[i]
    BY <1>5
  <2>2. made = ComputeFeatures(order[i], ProfileOf(Profiles, order[i].customer), RecentOf(order, i), lookups)
    BY <1>5
  <2>3. /\ made.ratio = online.ratio /\ made.zscore = online.zscore /\ made.newDevice = online.newDevice
        /\ made.newCountry = online.newCountry /\ made.night = online.night
    BY <2>2 DEF ComputeFeatures
  <2>4. ASSUME ~ Tied(i)
        PROVE  made.last10m = online.last10m /\ made.last1h = online.last1h /\ made.last24h = online.last24h
    <3>1. \A j \in (1 .. n) \ {i} : ~ (order[j].customer = order[i].customer /\ order[j].at = order[i].at)
      BY <2>4, <1>4, <1>5
    <3>2. ASSUME NEW window \in {Window10m, Window1h, Window24h}
          PROVE  CountWithin(RecentOf(order, i), "success", order[i].at, window)
                   = CountWithin(RecentEvents(store, order[i].customer, order[i].at),
                                 "success", order[i].at, window)
      <4>1. window \in Nat /\ window <= Lookback
        BY WindowAssumption
      <4> QED BY <1>1, <1>2, <1>3, <1>6, <3>1, <4>1, SameCounts
    <3> QED BY <2>2, <3>2 DEF ComputeFeatures
  <2>5. made.merchantRisk = RiskOf(train.merchant, order[i].merchant, train.default)
    BY <1>7, <2>2 DEF ComputeFeatures
  <2>6. ASSUME written["lookups"] # None, written["lookups"].by = written["features"].by
        PROVE  made.merchantRisk = online.merchantRisk /\ made.countryRisk = online.countryRisk
    <3>1. served = lookups
      BY <2>6 DEF served
    <3> QED BY <2>2, <3>1 DEF ComputeFeatures
  <2> HIDE DEF online, Tied
  <2>7. OnlineOf(content[i].tx) = online
    BY <2>1 DEF online
  <2> HIDE DEF made, OnlineOf
  <2> QED BY <2>1, <2>3, <2>4, <2>5, <2>6, <2>7 DEF made
<1> HIDE DEF Tied
<1> QED BY <1>4, <1>8 DEF ServingAgrees, content, train, store, served, Tied

-----------------------------------------------------------------------------
(* The second invariant, on top of the first one's types.                   *)

Reads  == {"clean", "lookups", "features", "succeeding"}
Writes == {"features", "succeeding", "ended"}

\* What a batch run carries, and reports, is what the contents it read make of it,
\* and those are the contents it hashed while nobody writes the input anew.
Accounted(b) ==
    /\ batch[b].pc = "raw" => batch[b].hash = input \/ batch[b].replaced
    /\ batch[b].pc \in Reads =>
          batch[b].data \in Contents /\ (batch[b].hash = batch[b].data \/ batch[b].replaced)
    /\ batch[b].pc = "clean" => /\ batch[b].rows = RawStage(Inputs[batch[b].data])
                                /\ batch[b].rejected = Cardinality(RawRejected(Inputs[batch[b].data]))
    /\ batch[b].pc \in {"lookups", "features"} => /\ batch[b].rows = ValidRows(batch[b].data)
                                                  /\ batch[b].rejected = Reported(batch[b].data)
    /\ batch[b].pc = "features" => batch[b].lookups = LookupsOf(batch[b].data)
    /\ batch[b].pc = "succeeding" =>
          /\ batch[b].processed = Cardinality(DOMAIN ValidRows(batch[b].data))
          /\ batch[b].rejected = Reported(batch[b].data)

\* What the record of its success says, and that nothing is done after it.
Truthful(b) ==
    run[b].status = "SUCCESS" =>
        /\ batch[b].pc = "ended" /\ batch[b].data \in Contents
        /\ run[b].dataset = batch[b].data \/ batch[b].replaced
        /\ run[b].processed = Cardinality(DOMAIN ValidRows(batch[b].data))
        /\ run[b].rejected = Reported(batch[b].data)

\* Each file holds what the contents read by the run that wrote it make of it.
WrittenBy(b) == batch[b].pc \in Writes /\ batch[b].data \in Contents

LookupsTell ==
    files["lookups"] # None =>
        /\ WrittenBy(files["lookups"].by)
        /\ files["lookups"].content = LookupsOf(batch[files["lookups"].by].data)

FeaturesTell ==
    files["features"] # None =>
        /\ WrittenBy(files["features"].by)
        /\ LET d == batch[files["features"].by].data
           IN  \E order \in Sorted(ValidRows(d)) :
                  files["features"].content = Enrich(order, SplitOf(ValidRows(d)), LookupsOf(d))

FilesTell == LookupsTell /\ FeaturesTell

DInv == FilesTell /\ \A b \in Batches : Accounted(b) /\ Truthful(b)

LEMMA AccountedKeeps ==
    ASSUME NEW b \in Batches, Accounted(b) /\ Truthful(b), input' = input, batch'[b] = batch[b],
           run'[b] = run[b]
    PROVE  Accounted(b)' /\ Truthful(b)'
BY DEF Accounted, Truthful

\* Files that stay, while a run that wrote keeps what it has read.
Steady == \A b \in Batches : WrittenBy(b) => batch'[b].pc \in Writes /\ batch'[b].data = batch[b].data

LEMMA FileStays ==
    ASSUME TypeOK, DInv, Steady
    PROVE  /\ files'["lookups"] = files["lookups"] => LookupsTell'
           /\ files'["features"] = files["features"] => FeaturesTell'
<1>1. LookupsTell /\ FeaturesTell
  BY DEF DInv, FilesTell
<1>2. \A l \in Layers : files[l] # None => files[l].by \in Batches
  BY DEF TypeOK
<1>3. "lookups" \in Layers /\ "features" \in Layers
  BY DEF Layers
<1>4. ASSUME files'["lookups"] = files["lookups"], files'["lookups"] # None PROVE LookupsTell'
  <2> DEFINE b == files["lookups"].by
  <2>1. b \in Batches /\ WrittenBy(b) /\ files["lookups"].content = LookupsOf(batch[b].data)
    BY <1>1, <1>2, <1>3, <1>4 DEF LookupsTell
  <2>2. batch'[b].pc \in Writes /\ batch'[b].data = batch[b].data /\ batch[b].data \in Contents
    BY <2>1 DEF Steady, WrittenBy
  <2> QED BY <1>4, <2>1, <2>2 DEF LookupsTell, WrittenBy
<1>5. ASSUME files'["features"] = files["features"], files'["features"] # None PROVE FeaturesTell'
  <2> DEFINE b == files["features"].by
  <2>1. b \in Batches /\ WrittenBy(b)
    BY <1>1, <1>2, <1>3, <1>5 DEF FeaturesTell
  <2>2. batch'[b].pc \in Writes /\ batch'[b].data = batch[b].data /\ batch[b].data \in Contents
    BY <2>1 DEF Steady, WrittenBy
  <2> QED BY <1>1, <1>5, <2>2 DEF FeaturesTell, WrittenBy
<1> QED BY <1>4, <1>5 DEF LookupsTell, FeaturesTell

\* A step that leaves the batch runs and the files.
LEMMA DataStays ==
    ASSUME TypeOK, DInv, UNCHANGED <<input, files, batch>>, \A b \in Batches : run'[b] = run[b]
    PROVE  DInv'
<1>1. FilesTell'
  BY FileStays DEF Steady, FilesTell, WrittenBy
<1> QED BY <1>1, AccountedKeeps DEF DInv

\* A step of one batch run, which writes no file or one of its own.
LEMMA OneAccount ==
    ASSUME TypeOK, DInv, NEW b \in Batches, NEW new,
           batch' = [batch EXCEPT ![b] = new], input' = input,
           \A c \in Batches \ {b} : run'[c] = run[c],
           WrittenBy(b) => new.pc \in Writes /\ new.data = batch[b].data,
           batch'[b] = new => Accounted(b)' /\ Truthful(b)',
           batch'[b] = new /\ ~ UNCHANGED files =>
              \/ LookupsTell' /\ files'["features"] = files["features"]
              \/ FeaturesTell' /\ files'["lookups"] = files["lookups"]
    PROVE  DInv'
<1>1. batch'[b] = new /\ \A c \in Batches \ {b} : batch'[c] = batch[c]
  BY DEF TypeOK
<1>2. \A c \in Batches \ {b} : Accounted(c)' /\ Truthful(c)'
  BY <1>1, AccountedKeeps DEF DInv
<1>3. Steady
  BY <1>1 DEF Steady, WrittenBy
<1>4. FilesTell'
  BY <1>1, <1>3, FileStays DEF FilesTell
<1> QED BY <1>1, <1>2, <1>4 DEF DInv

LEMMA BeginBatchAccounts ==
    ASSUME TypeOK, DInv, NEW b \in Batches, BeginBatch(b)
    PROVE  DInv'
<1> DEFINE new   == [batch[b] EXCEPT !.pc = "hashing"]
           begun == [run[b] EXCEPT !.status = "RUNNING"]
<1>1. new.pc = "hashing" /\ batch[b].pc = "idle"
  BY DEF TypeOK, BatchLike, BeginBatch
<1>2. begun.status = "RUNNING" /\ RunLike(begun)
  BY Started
<1>3. batch' = [batch EXCEPT ![b] = new] /\ run' = [run EXCEPT ![b] = begun] /\ UNCHANGED <<input, files>>
  BY DEF BeginBatch, BatchGoes
<1> HIDE DEF new, begun
<1>4. run'[b].status = "RUNNING" /\ \A c \in Batches \ {b} : run'[c] = run[c]
  BY <1>2, <1>3, OneRun
<1>5. ASSUME batch'[b] = new PROVE Accounted(b)' /\ Truthful(b)'
  BY <1>1, <1>4, <1>5 DEF Accounted, Truthful, Reads
<1>6. ~ WrittenBy(b)
  BY <1>1 DEF WrittenBy, Writes
<1> QED BY <1>3, <1>4, <1>5, <1>6, OneAccount

\* A run that has not ended has not succeeded, and will not by a step that leaves
\* the records.
LEMMA NotYet ==
    ASSUME DInv, NEW b \in Batches, batch[b].pc # "ended", UNCHANGED run
    PROVE  Truthful(b)'
BY DEF DInv, Truthful

LEMMA HashInputAccounts ==
    ASSUME TypeOK, DInv, NEW b \in Batches, HashInput(b)
    PROVE  DInv'
<1> DEFINE new == [batch[b] EXCEPT !.pc = "raw", !.hash = input]
<1>1. new.pc = "raw" /\ new.hash = input /\ batch[b].pc = "hashing"
  BY DEF TypeOK, BatchLike, HashInput
<1>2. batch' = [batch EXCEPT ![b] = new] /\ UNCHANGED <<input, files, run>>
  BY DEF HashInput
<1> HIDE DEF new
<1>3. ASSUME batch'[b] = new PROVE Accounted(b)' /\ Truthful(b)'
  BY <1>1, <1>2, <1>3, NotYet DEF Accounted, Reads
<1>4. ~ WrittenBy(b)
  BY <1>1 DEF WrittenBy, Writes
<1> QED BY <1>2, <1>3, <1>4, OneAccount

LEMMA RawAccounts ==
    ASSUME TypeOK, DInv, NEW b \in Batches, Raw(b)
    PROVE  DInv'
<1> DEFINE rows     == RawStage(Inputs[input])
           rejected == Cardinality(RawRejected(Inputs[input]))
           new == [batch[b] EXCEPT !.pc = "clean", !.data = input, !.rows = rows, !.rejected = rejected]
<1>1. batch' = [batch EXCEPT ![b] = new] /\ UNCHANGED <<input, files, run>> /\ batch[b].pc = "raw"
  BY DEF Raw
<1>2. input \in Contents
  BY DEF TypeOK
<1> HIDE DEF rows, rejected
<1>3. /\ new.pc = "clean" /\ new.data = input /\ new.rows = rows /\ new.rejected = rejected
      /\ new.hash = batch[b].hash /\ new.replaced = batch[b].replaced
  BY DEF TypeOK, BatchLike
<1>4. batch[b].hash = input \/ batch[b].replaced
  BY <1>1 DEF DInv, Accounted
<1> HIDE DEF new
<1>5. ASSUME batch'[b] = new PROVE Accounted(b)' /\ Truthful(b)'
  <2>1. Truthful(b)'
    BY <1>1, NotYet
  <2>2. batch'[b].hash = batch'[b].data \/ batch'[b].replaced
    BY <1>3, <1>4, <1>5
  <2> QED BY <1>2, <1>3, <1>5, <2>1, <2>2 DEF Accounted, rows, rejected
<1>6. ~ WrittenBy(b)
  BY <1>1 DEF WrittenBy, Writes
<1> QED BY <1>1, <1>5, <1>6, OneAccount

LEMMA CleanAccounts ==
    ASSUME TypeOK, DInv, NEW b \in Batches, Clean(b)
    PROVE  DInv'
<1> DEFINE d   == batch[b].data
           new == [batch[b] EXCEPT !.pc = "lookups", !.rows = ValidRows(d), !.rejected = Reported(d)]
<1>1. batch[b].pc = "clean" /\ UNCHANGED <<input, files, run>> /\ Accounted(b)
  BY DEF Clean, DInv
<1>2. /\ d \in Contents /\ batch[b].rows = RawStage(Inputs[d])
      /\ batch[b].rejected = Cardinality(RawRejected(Inputs[d]))
      /\ batch[b].hash = d \/ batch[b].replaced
  BY <1>1 DEF Accounted, Reads
<1>3. batch' = [batch EXCEPT ![b] = new]
  BY <1>2 DEF Clean, ValidRows, Reported
<1>4. /\ new.pc = "lookups" /\ new.rows = ValidRows(d) /\ new.rejected = Reported(d) /\ new.data = d
      /\ new.hash = batch[b].hash /\ new.replaced = batch[b].replaced
  BY DEF TypeOK, BatchLike
<1> HIDE DEF new, d
<1>5. ASSUME batch'[b] = new PROVE Accounted(b)' /\ Truthful(b)'
  <2>1. Truthful(b)'
    BY <1>1, NotYet
  <2>2. batch'[b].hash = batch'[b].data \/ batch'[b].replaced
    BY <1>2, <1>4, <1>5
  <2> QED BY <1>2, <1>4, <1>5, <2>1, <2>2 DEF Accounted
<1>6. ~ WrittenBy(b)
  BY <1>1 DEF WrittenBy, Writes
<1> QED BY <1>1, <1>3, <1>5, <1>6, OneAccount

LEMMA WriteLookupsAccounts ==
    ASSUME TypeOK, DInv, NEW b \in Batches, WriteLookups(b)
    PROVE  DInv'
<1> DEFINE d   == batch[b].data
           new == [batch[b] EXCEPT !.pc = "features", !.lookups = LookupsOf(d)]
<1>1. batch[b].pc = "lookups" /\ UNCHANGED <<input, run>> /\ Accounted(b)
  BY DEF DInv, WriteLookups
<1>2. /\ d \in Contents /\ batch[b].rows = ValidRows(d) /\ batch[b].rejected = Reported(d)
      /\ batch[b].hash = d \/ batch[b].replaced
  BY <1>1 DEF Accounted, Reads
<1>3. /\ new.pc = "features" /\ new.lookups = LookupsOf(d) /\ new.rows = batch[b].rows
      /\ new.rejected = batch[b].rejected /\ new.data = d
      /\ new.hash = batch[b].hash /\ new.replaced = batch[b].replaced
  BY DEF TypeOK, BatchLike
<1>4. /\ files' = [files EXCEPT !["lookups"] = [by |-> b, content |-> LookupsOf(d)]]
      /\ batch' = [batch EXCEPT ![b] = new]
  BY <1>2 DEF WriteLookups, Write, LookupsOf
<1> HIDE DEF new, d
<1>5. ASSUME batch'[b] = new PROVE Accounted(b)' /\ Truthful(b)'
  <2>1. Truthful(b)'
    BY <1>1, NotYet
  <2>2. batch'[b].hash = batch'[b].data \/ batch'[b].replaced
    BY <1>2, <1>3, <1>5
  <2> QED BY <1>2, <1>3, <1>5, <2>1, <2>2 DEF Accounted
<1>6. ~ WrittenBy(b)
  BY <1>1 DEF WrittenBy, Writes
<1>7. ASSUME batch'[b] = new PROVE LookupsTell' /\ files'["features"] = files["features"]
  <2>1. /\ files'["lookups"].content = LookupsOf(d) /\ files'["lookups"].by = b
        /\ files'["features"] = files["features"]
    BY <1>4 DEF TypeOK, Layers
  <2> QED BY <1>2, <1>3, <1>7, <2>1 DEF LookupsTell, WrittenBy, Writes
<1> QED BY <1>1, <1>4, <1>5, <1>6, <1>7, OneAccount

LEMMA WriteFeaturesAccounts ==
    ASSUME TypeOK, DInv, NEW b \in Batches, WriteFeatures(b)
    PROVE  DInv'
<1> DEFINE d == batch[b].data
           processed == Cardinality(DOMAIN ValidRows(d))
           new == [batch[b] EXCEPT !.pc = "succeeding", !.rows = <<>>, !.lookups = NoLookups,
                                   !.processed = processed]
<1>1. batch[b].pc = "features" /\ UNCHANGED <<input, run>> /\ Accounted(b)
  BY DEF DInv, WriteFeatures
<1>2. /\ d \in Contents /\ batch[b].rows = ValidRows(d) /\ batch[b].rejected = Reported(d)
      /\ batch[b].hash = d \/ batch[b].replaced
      /\ batch[b].lookups = LookupsOf(d)
  BY <1>1 DEF Accounted, Reads
<1>3. PICK order \in Sorted(ValidRows(d)) :
         files' = [files EXCEPT !["features"] =
                     [by |-> b, content |-> Enrich(order, SplitOf(ValidRows(d)), LookupsOf(d))]]
  BY <1>2 DEF WriteFeatures, Write
<1>4. batch' = [batch EXCEPT ![b] = new]
  BY <1>2 DEF WriteFeatures
<1>5. /\ new.pc = "succeeding" /\ new.processed = processed /\ new.rejected = batch[b].rejected
      /\ new.data = d /\ new.hash = batch[b].hash /\ new.replaced = batch[b].replaced
  <2> HIDE DEF processed
  <2> QED BY DEF TypeOK, BatchLike
<1> HIDE DEF new, d
<1>6. ASSUME batch'[b] = new PROVE Accounted(b)' /\ Truthful(b)'
  <2>1. Truthful(b)'
    BY <1>1, NotYet
  <2>2. batch'[b].hash = batch'[b].data \/ batch'[b].replaced
    BY <1>2, <1>5, <1>6
  <2> QED BY <1>2, <1>5, <1>6, <2>1, <2>2 DEF Accounted
<1>7. ASSUME batch'[b] = new PROVE FeaturesTell' /\ files'["lookups"] = files["lookups"]
  <2>1. /\ files'["features"].content = Enrich(order, SplitOf(ValidRows(d)), LookupsOf(d))
        /\ files'["features"].by = b /\ files'["lookups"] = files["lookups"]
    BY <1>3 DEF TypeOK, Layers
  <2>2. WrittenBy(b)' /\ batch'[b].data = d
    BY <1>2, <1>5, <1>7 DEF WrittenBy, Writes
  <2> QED BY <2>1, <2>2 DEF FeaturesTell
<1>8. new.pc \in Writes /\ new.data = batch[b].data
  BY <1>5 DEF Writes, d
<1> QED BY <1>1, <1>4, <1>6, <1>7, <1>8, OneAccount

LEMMA FinishBatchAccounts ==
    ASSUME TypeOK, DInv, NEW b \in Batches, FinishBatch(b)
    PROVE  DInv'
<1> DEFINE new    == [batch[b] EXCEPT !.pc = "ended"]
           record == [run[b] EXCEPT !.status = "SUCCESS", !.processed = batch[b].processed,
                                    !.rejected = batch[b].rejected, !.dataset = batch[b].hash]
<1>1. Accounted(b) /\ batch[b].pc = "succeeding"
  BY DEF DInv, FinishBatch
<1>2. new.pc = "ended" /\ new.data = batch[b].data /\ new.replaced = batch[b].replaced
  BY DEF TypeOK, BatchLike
<1>3. /\ record.dataset = batch[b].hash /\ record.processed = batch[b].processed
      /\ record.rejected = batch[b].rejected
  <2>1. RunLike(run[b])
    BY DEF TypeOK
  <2> QED BY <2>1 DEF RunLike
<1>4. batch' = [batch EXCEPT ![b] = new] /\ run' = [run EXCEPT ![b] = record] /\ UNCHANGED <<input, files>>
  BY DEF FinishBatch, BatchGoes
<1> HIDE DEF new, record
<1>5. run'[b] = record /\ \A c \in Batches \ {b} : run'[c] = run[c]
  BY <1>4 DEF TypeOK
<1>6. /\ batch[b].data \in Contents /\ (batch[b].hash = batch[b].data \/ batch[b].replaced)
      /\ batch[b].processed = Cardinality(DOMAIN ValidRows(batch[b].data))
      /\ batch[b].rejected = Reported(batch[b].data)
  BY <1>1 DEF Accounted, Reads
<1>7. ASSUME batch'[b] = new PROVE Accounted(b)' /\ Truthful(b)'
  <2>1. Accounted(b)'
    BY <1>2, <1>7 DEF Accounted, Reads
  <2>2. run'[b].dataset = batch'[b].data \/ batch'[b].replaced
    BY <1>2, <1>3, <1>5, <1>6, <1>7
  <2>3. Truthful(b)'
    BY <1>2, <1>3, <1>5, <1>6, <1>7, <2>2 DEF Truthful
  <2> QED BY <2>1, <2>3
<1>8. new.pc \in Writes /\ new.data = batch[b].data
  BY <1>2 DEF Writes
<1> QED BY <1>4, <1>5, <1>7, <1>8, OneAccount

LEMMA BatchFailsAccounts ==
    ASSUME TypeOK, DInv, NEW b \in Batches, BatchFails(b)
    PROVE  DInv'
<1> DEFINE new == [batch[b] EXCEPT !.pc = "ended", !.rows = <<>>, !.lookups = NoLookups]
<1>1. new.pc = "ended" /\ new.data = batch[b].data
  BY DEF TypeOK, BatchLike
<1>2. batch[b].hash \in Names \cup Contents
  BY DEF TypeOK, BatchLike, Names
<1>3. run'[b].status = "FAILED" /\ \A c \in Batches \ {b} : run'[c] = run[c]
  BY <1>2, Failure DEF BatchFails
<1>4. batch' = [batch EXCEPT ![b] = new] /\ UNCHANGED <<input, files>>
  BY DEF BatchFails
<1> HIDE DEF new
<1>5. ASSUME batch'[b] = new PROVE Accounted(b)' /\ Truthful(b)'
  BY <1>1, <1>3, <1>5 DEF Accounted, Truthful, Reads
<1>6. new.pc \in Writes /\ new.data = batch[b].data
  BY <1>1 DEF Writes
<1> QED BY <1>3, <1>4, <1>5, <1>6, OneAccount

\* The input is written anew: what runs have read is not what they will read.
LEMMA ReplaceInputAccounts ==
    ASSUME TypeOK, DInv, ReplaceInput
    PROVE  DInv'
<1>1. UNCHANGED <<files, run>>
  BY DEF ReplaceInput
<1>2. ASSUME NEW b \in Batches, batch[b].pc = "raw"
      PROVE  batch'[b].pc = "raw" /\ batch'[b].replaced
  <2>1. batch'[b] = [batch[b] EXCEPT !.replaced = TRUE]
    BY <1>2 DEF ReplaceInput
  <2> QED BY <1>2, <2>1 DEF TypeOK, BatchLike
<1>3. ASSUME NEW b \in Batches, batch[b].pc # "raw" PROVE batch'[b] = batch[b]
  BY <1>3 DEF ReplaceInput
<1>4. ASSUME NEW b \in Batches PROVE Accounted(b)' /\ Truthful(b)'
  <2>1. Accounted(b) /\ Truthful(b)
    BY DEF DInv
  <2>2. CASE batch[b].pc = "raw"
    <3>1. Truthful(b)'
      BY <1>1, <2>2, NotYet
    <3>2. Accounted(b)'
      BY <1>2, <2>2 DEF Accounted, Reads
    <3> QED BY <3>1, <3>2
  <2>3. CASE batch[b].pc # "raw"
    <3>1. batch'[b] = batch[b]
      BY <1>3, <2>3
    <3> QED BY <1>1, <2>1, <2>3, <3>1 DEF Accounted, Truthful
  <2> QED BY <2>2, <2>3
<1>5. Steady
  BY <1>3 DEF Steady, WrittenBy, Writes
<1>6. FilesTell'
  BY <1>1, <1>5, FileStays DEF FilesTell
<1> QED BY <1>4, <1>6 DEF DInv

LEMMA TrainerAccounts ==
    ASSUME TypeOK, DInv, NEW t \in Trainers,
           BeginTraining(t) \/ HashFile(t) \/ LoadDataset(t) \/ Register(t) \/ SetAlias(t) \/ Update(t)
             \/ Locked(t) \/ RecordVersion(t) \/ FinishTraining(t) \/ TrainingFails(t)
    PROVE  DInv'
<1>1. UNCHANGED <<input, files, batch>>
  BY DEF BeginTraining, HashFile, LoadDataset, Register, SetAlias, Update, Locked, RecordVersion,
         FinishTraining, TrainingFails
<1>2. UNCHANGED run \/ \E record : run' = [run EXCEPT ![t] = record]
  <2>1. CASE BeginTraining(t)
    BY <2>1 DEF BeginTraining
  <2>2. CASE FinishTraining(t)
    BY <2>2 DEF FinishTraining
  <2>3. CASE TrainingFails(t)
    BY <2>3 DEF TrainingFails, Fails
  <2>4. CASE HashFile(t) \/ LoadDataset(t) \/ Register(t) \/ SetAlias(t) \/ Update(t) \/ Locked(t)
               \/ RecordVersion(t)
    BY <2>4 DEF HashFile, LoadDataset, Register, SetAlias, Update, Locked, RecordVersion
  <2> QED BY <2>1, <2>2, <2>3, <2>4
<1>3. \A b \in Batches : run'[b] = run[b]
  BY <1>2, BatchAssumption DEF TypeOK
<1> QED BY <1>1, <1>3, DataStays

LEMMA ServerAccounts ==
    ASSUME TypeOK, DInv, NEW s \in Servers,
           Resolve(s) \/ StartWithoutModel(s) \/ LoadModel(s) \/ LoadLookups(s) \/ Restart(s)
    PROVE  DInv'
<1>1. UNCHANGED <<input, files, batch, run>>
  BY DEF Resolve, StartWithoutModel, LoadModel, LoadLookups, Restart, ServerGoes
<1> QED BY <1>1, DataStays

LEMMA InitAccounts == Init => DInv
<1> SUFFICES ASSUME Init PROVE DInv
  OBVIOUS
<1>1. FilesTell
  BY DEF Init, FilesTell, LookupsTell, FeaturesTell, Layers
<1>2. ASSUME NEW b \in Batches PROVE Accounted(b) /\ Truthful(b)
  <2>1. batch[b].pc = "idle" /\ run[b].status = "ABSENT"
    BY DEF Init, IdleBatch, NotRun
  <2> QED BY <2>1 DEF Accounted, Truthful, Reads
<1> QED BY <1>1, <1>2 DEF DInv

LEMMA StepAccounts == TypeOK /\ DInv /\ [Next]_vars => DInv'
<1> SUFFICES ASSUME TypeOK, DInv, [Next]_vars PROVE DInv'
  OBVIOUS
<1>1. ASSUME NEW b \in Batches,
             BeginBatch(b) \/ HashInput(b) \/ Raw(b) \/ Clean(b) \/ WriteLookups(b)
               \/ WriteFeatures(b) \/ FinishBatch(b) \/ BatchFails(b)
      PROVE  DInv'
  BY <1>1, BeginBatchAccounts, HashInputAccounts, RawAccounts, CleanAccounts, WriteLookupsAccounts,
     WriteFeaturesAccounts, FinishBatchAccounts, BatchFailsAccounts
<1>2. CASE UNCHANGED vars
  BY <1>2, DataStays DEF vars
<1> QED BY <1>1, <1>2, ReplaceInputAccounts, TrainerAccounts, ServerAccounts DEF Next

\* In every state, each file holds what the contents read by the run that wrote it
\* make of it, and each batch run carries what the contents it read make of it.
THEOREM FilesTellTheirInput == Spec => []DInv
<1> QED BY InitAccounts, StepAccounts, TypeCorrect, PTL DEF Spec

\* A successful batch run records the hash of the contents it processed, unless the
\* input was written anew between its two reads of it, and what its stages kept and
\* what they reported are together the rows of those contents; a successful training
\* names the data its version learned from.
THEOREM SuccessIsTruthful == Spec => []SuccessNamesItsData
<1>1. DInv => BatchesAccountForRows
  <2> SUFFICES ASSUME DInv, NEW b \in Batches, run[b].status = "SUCCESS"
               PROVE  /\ run[b].dataset = batch[b].data \/ batch[b].replaced
                      /\ run[b].processed + run[b].rejected = Len(Inputs[batch[b].data])
    BY DEF BatchesAccountForRows
  <2> DEFINE d == batch[b].data
             n == Cardinality(DOMAIN ValidRows(d))
  <2>1. Truthful(b)
    BY DEF DInv
  <2>2. run[b].dataset = d \/ batch[b].replaced
    BY <2>1 DEF Truthful
  <2>3. d \in Contents /\ run[b].processed = n /\ run[b].rejected = Reported(d)
    BY <2>1 DEF Truthful
  <2>4. n + Reported(d) = Len(Inputs[d])
    BY <2>3, RowsCounted
  <2> QED BY <2>2, <2>3, <2>4
<1> QED BY <1>1, FilesTellTheirInput, TrainingsTellTheirData, PTL DEF SuccessNamesItsData

\* Whatever the inputs, the split, the windows and the interleaving of runs, the
\* features a write leaves for training are those serving computes from the same
\* rows, whatever order the batch run gave the rows of one instant.
THEOREM TrainingSeesWhatServingSees == Spec => FeaturesMatchServing
<1> DEFINE Agrees == ServingAgrees(files)
<1>1. TypeOK /\ DInv => Agrees
  <2> SUFFICES ASSUME TypeOK, DInv, files["features"] # None PROVE ServingAgrees(files)
    BY DEF ServingAgrees
  <2> DEFINE b    == files["features"].by
             d    == batch[b].data
             rows == ValidRows(d)
  <2>1. d \in Contents
    BY DEF DInv, FilesTell, FeaturesTell, WrittenBy
  <2>2. PICK order \in Sorted(rows) :
           files["features"].content = Enrich(order, SplitOf(rows), LookupsOf(d))
    BY DEF DInv, FilesTell, FeaturesTell
  <2>3. IsFiniteSet(DOMAIN rows) /\ \A i \in DOMAIN rows : rows[i].at \in Int
    BY <2>1, RowsCounted, RowsKept
  <2>4. LookupsOf(d) = ComputeRiskLookups({r \in Range(rows) : SplitOf(rows)[r] = "train"})
    BY DEF LookupsOf, TrainRows
  <2>5. ASSUME files["lookups"] # None, files["lookups"].by = b PROVE LookupsIn(files) = LookupsOf(d)
    BY <2>5 DEF DInv, FilesTell, LookupsTell, LookupsIn
  <2> HIDE DEF rows
  <2> QED BY <2>2, <2>3, <2>4, <2>5, EnrichedAgrees
<1>2. Agrees' => [files' # files => ServingAgrees(files')]_files
  OBVIOUS
<1> HIDE DEF Agrees
<1> QED BY <1>1, <1>2, TypeCorrect, FilesTellTheirInput, PTL DEF FeaturesMatchServing
=============================================================================
