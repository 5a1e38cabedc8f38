--------------------------- MODULE BundlePromotion ---------------------------
(***************************************************************************)
(* The table channel_model_bundles and the two operations that write it:   *)
(* register_candidate (src/src/fraud_intel/models/bundle.py), run by the   *)
(* training run that produced the bundle, and promote_bundle               *)
(* (src/src/fraud_intel/models/promotion.py), run by an operator who names *)
(* one bundle.  Any number of both run at the same time, each statement is *)
(* a step, and promote_bundle keeps a model_promotion row in pipeline_runs.*)
(*                                                                         *)
(* The database runs at READ COMMITTED.  SELECT ... FOR UPDATE therefore   *)
(* fixes WHICH rows it returns when the statement starts, and WHAT is in   *)
(* them when it gets each lock: TakeSnapshot and LockAndPromote.           *)
(***************************************************************************)
EXTENDS Naturals, FiniteSets

CONSTANTS Channels,
          Bundles,       \* one per training run that registers a bundle
          ChannelOf,     \* [Bundles -> Channels]: the channel it is trained for
          Attempts,      \* calls of promote_bundle
          Policies,      \* versions of the local rule/graph/ensemble policy files
          Faults,        \* TRUE: database, MLflow or the process may fail anywhere
          None

ASSUME BundlesAssumption == /\ ChannelOf \in [Bundles -> Channels]
                            /\ IsFiniteSet(Bundles)
                            /\ None \notin Bundles \cup Attempts
                            /\ Faults \in BOOLEAN

VARIABLES row,           \* [Bundles -> RowType]: channel_model_bundles
          training,      \* [Bundles -> TrainingType]: register_candidate in progress
          lock,          \* [Channels -> Bundles \cup {None}]: advisory lock holder
          policy,        \* the policy version in the local files
          attempt,       \* [Attempts -> AttemptType]: promote_bundle in progress
          run            \* [Attempts -> status]: the model_promotion rows

vars == <<row, training, lock, policy, attempt, run>>

BundleStatus == {"ABSENT", "CANDIDATE", "OPERATIONAL", "RETIRED"}

\* complete: all nine required components are recorded; rules: the policy
\* versions pinned at training; gate: its held-out report passes the gate.
RowType == [status : BundleStatus, version : Nat, complete : BOOLEAN,
            rules : Policies, gate : BOOLEAN, by : Attempts \cup {None}]

TrainingType == [pc : {"idle", "trained", "locked", "numbered", "registered", "failed", "collided"},
                 next : Nat]

NoCandidate == [status |-> "ABSENT"]

AttemptType ==
    [pc : {"idle", "begun", "read", "verified", "gated", "locking", "promoted", "failing", "done"},
     bundle : Bundles \cup {None}, candidate : RowType \cup {NoCandidate},
     seen : Policies \cup {None}, visible : SUBSET Bundles,
     why : {"", "rejected", "race", "unique", "fault", "ack_lost"}]

Exists(b)      == row[b].status # "ABSENT"
OfChannel(c)   == {b \in Bundles : ChannelOf[b] = c /\ Exists(b)}
Operational(c) == {b \in OfChannel(c) : row[b].status = "OPERATIONAL"}
Promoted(c)    == {b \in OfChannel(c) : row[b].status \in {"OPERATIONAL", "RETIRED"}}

Init == /\ policy \in Policies
        /\ row = [b \in Bundles |-> [status |-> "ABSENT", version |-> 0, complete |-> FALSE,
                                     rules |-> policy, gate |-> FALSE, by |-> None]]
        /\ training = [b \in Bundles |-> [pc |-> "idle", next |-> 0]]
        /\ lock = [c \in Channels |-> None]
        /\ attempt = [p \in Attempts |-> [pc |-> "idle", bundle |-> None, candidate |-> NoCandidate,
                                          seen |-> None, visible |-> {}, why |-> ""]]
        /\ run = [p \in Attempts |-> "ABSENT"]

\* Somebody edits or deploys another version of the policy files.
EditPolicy == /\ policy' \in Policies \ {policy}
              /\ UNCHANGED <<row, training, lock, attempt, run>>

-----------------------------------------------------------------------------
(* register_candidate: advisory lock, MAX(bundle_version), INSERT, commit.  *)

\* Training pins the current policy versions; what else it found out about
\* the bundle (components, held-out report) is fixed from here on.
Train(b) ==
    /\ training[b].pc = "idle"
    /\ training' = [training EXCEPT ![b].pc = "trained"]
    /\ \E complete, gate \in BOOLEAN :
          row' = [row EXCEPT ![b].complete = complete, ![b].gate = gate, ![b].rules = policy]
    /\ UNCHANGED <<lock, policy, attempt, run>>

NoAdvisoryLock(b) == TRUE      \* variant: MAX and INSERT without the lock

LockFree(b) == lock[ChannelOf[b]] = None

TakeLock(b) == /\ training[b].pc = "trained"
               /\ LockFree(b)
               /\ lock' = [lock EXCEPT ![ChannelOf[b]] = b]
               /\ training' = [training EXCEPT ![b].pc = "locked"]
               /\ UNCHANGED <<row, policy, attempt, run>>

MaxVersion(c) == LET vs == {row[b].version : b \in OfChannel(c)} \cup {0}
                 IN  CHOOSE m \in vs : \A v \in vs : v <= m

ReadMaxVersion(b) ==
    /\ training[b].pc = "locked"
    /\ training' = [training EXCEPT ![b].pc = "numbered", ![b].next = MaxVersion(ChannelOf[b]) + 1]
    /\ UNCHANGED <<row, lock, policy, attempt, run>>

Unlocked(b) == [lock EXCEPT ![ChannelOf[b]] = IF @ = b THEN None ELSE @]

\* UNIQUE (channel, bundle_version) rejects a number already taken.
Insert(b) ==
    /\ training[b].pc = "numbered"
    /\ IF \E o \in OfChannel(ChannelOf[b]) : row[o].version = training[b].next
       THEN /\ training' = [training EXCEPT ![b].pc = "collided"]
            /\ UNCHANGED row
       ELSE /\ training' = [training EXCEPT ![b].pc = "registered"]
            /\ row' = [row EXCEPT ![b].status = "CANDIDATE", ![b].version = training[b].next]
    /\ lock' = Unlocked(b)
    /\ UNCHANGED <<policy, attempt, run>>

\* The connection or the process is lost; rollback releases the lock.
RegistrationLost(b) ==
    /\ Faults
    /\ training[b].pc \in {"trained", "locked", "numbered"}
    /\ training' = [training EXCEPT ![b].pc = "failed"]
    /\ lock' = Unlocked(b)
    /\ UNCHANGED <<row, policy, attempt, run>>

-----------------------------------------------------------------------------
(* promote_bundle.                                                          *)

Begin(p, b) ==
    /\ attempt[p].pc = "idle"
    /\ attempt' = [attempt EXCEPT ![p].pc = "begun", ![p].bundle = b]
    /\ run' = [run EXCEPT ![p] = "RUNNING"]
    /\ UNCHANGED <<row, training, lock, policy>>

\* promote_bundle leaves its try block: only its outcome matters from here.
Finish(p, pc, why) ==
    attempt' = [attempt EXCEPT ![p] = [@ EXCEPT !.pc = pc, !.why = why,
                                                !.candidate = NoCandidate, !.seen = None,
                                                !.visible = {}]]

\* The exception handler's entry: nothing was changed in the table.
GiveUp(p, why) == /\ Finish(p, "failing", why)
                  /\ UNCHANGED <<row, training, lock, policy, run>>

Proceed(p, pc) == /\ attempt' = [attempt EXCEPT ![p].pc = pc]
                  /\ UNCHANGED <<row, training, lock, policy, run>>

\* get_bundle and validate_promotion_eligible.
ReadCandidate(p) ==
    LET b == attempt[p].bundle
    IN  /\ attempt[p].pc = "begun"
        /\ IF Exists(b) /\ row[b].complete
           THEN /\ attempt' = [attempt EXCEPT ![p].pc = "read", ![p].candidate = row[b]]
                /\ UNCHANGED <<row, training, lock, policy, run>>
           ELSE GiveUp(p, "rejected")

\* verify_bundle_components: the policy files as they are now, and MLflow's
\* word (external; a refusal is StepFails) on the model versions.
Verify(p) ==
    /\ attempt[p].pc = "read"
    /\ \/ /\ attempt[p].candidate.rules = policy
          /\ attempt' = [attempt EXCEPT ![p].pc = "verified", ![p].seen = policy]
          /\ UNCHANGED <<row, training, lock, policy, run>>
       \/ attempt[p].candidate.rules # policy /\ GiveUp(p, "rejected")

CheckGateForLoneBundle(p) ==   \* variant: asks for any other bundle, not an operational one
    /\ attempt[p].pc = "verified"
    /\ IF OfChannel(ChannelOf[attempt[p].bundle]) # {attempt[p].bundle} \/ attempt[p].candidate.gate
       THEN Proceed(p, "gated")
       ELSE GiveUp(p, "rejected")

\* get_operational_bundle, and the gate for a channel that has none.
CheckGate(p) ==
    /\ attempt[p].pc = "verified"
    /\ IF Operational(ChannelOf[attempt[p].bundle]) # {} \/ attempt[p].candidate.gate
       THEN Proceed(p, "gated")
       ELSE GiveUp(p, "rejected")

\* promote_locked: SELECT ... FOR UPDATE starts.
TakeSnapshot(p) ==
    /\ attempt[p].pc = "gated"
    /\ attempt' = [attempt EXCEPT ![p].pc = "locking",
                                  ![p].visible = OfChannel(ChannelOf[attempt[p].bundle])]
    /\ UNCHANGED <<row, training, lock, policy, run>>

\* BundlePromotionRaceError otherwise.
StillTheCandidate(p) ==
    LET b == attempt[p].bundle
    IN  /\ b \in attempt[p].visible
        /\ row[b] = attempt[p].candidate
        /\ row[b].status = "CANDIDATE"

SwitchedDemoting(p) ==         \* variant: the bundle replaced becomes a candidate again
    [b \in Bundles |->
        IF b = attempt[p].bundle THEN [row[b] EXCEPT !.status = "OPERATIONAL", !.by = p]
        ELSE IF b \in attempt[p].visible /\ row[b].status = "OPERATIONAL"
             THEN [row[b] EXCEPT !.status = "CANDIDATE"] ELSE row[b]]

\* The table after retiring what the locked rows show as OPERATIONAL and
\* setting the candidate OPERATIONAL.
Switched(p) ==
    LET retire == {b \in attempt[p].visible : row[b].status = "OPERATIONAL"}
    IN  [b \in Bundles |->
            IF b = attempt[p].bundle THEN [row[b] EXCEPT !.status = "OPERATIONAL", !.by = p]
            ELSE IF b \in retire THEN [row[b] EXCEPT !.status = "RETIRED"]
            ELSE row[b]]

NoUniqueIndex(table) == TRUE   \* variant: the partial unique index dropped

\* uq_one_operational_bundle_per_channel accepts the table.
UniqueIndexHolds(table) ==
    \A a, b \in Bundles : (/\ ChannelOf[a] = ChannelOf[b]
                           /\ table[a].status = "OPERATIONAL"
                           /\ table[b].status = "OPERATIONAL") => a = b

\* The rest of promote_locked, from its last row lock to the commit: no
\* other promotion of the channel can be between the two.
LockAndPromote(p) ==
    /\ attempt[p].pc = "locking"
    /\ \/ ~StillTheCandidate(p) /\ GiveUp(p, "race")
       \/ /\ StillTheCandidate(p) /\ ~UniqueIndexHolds(Switched(p))
          /\ GiveUp(p, "unique")
       \/ /\ StillTheCandidate(p) /\ UniqueIndexHolds(Switched(p))
          /\ row' = Switched(p)
          /\ Finish(p, "promoted", "")
          /\ UNCHANGED <<training, lock, policy, run>>

\* The commit succeeds and its acknowledgement is lost: promote_bundle sees
\* an exception and fails the run.
CommitUnacknowledged(p) ==
    /\ Faults
    /\ attempt[p].pc = "locking"
    /\ StillTheCandidate(p) /\ UniqueIndexHolds(Switched(p))
    /\ row' = Switched(p)
    /\ Finish(p, "failing", "ack_lost")
    /\ UNCHANGED <<training, lock, policy, run>>

\* Any read, the verification or the lock fails with the service behind it.
StepFails(p) == /\ Faults
                /\ attempt[p].pc \in {"begun", "read", "verified", "gated", "locking"}
                /\ GiveUp(p, "fault")

RaceRecordedAsSuccess(p) ==    \* variant: losing a race to another attempt taken for success
    /\ attempt[p].pc \in {"promoted", "failing"}
    /\ run' = [run EXCEPT ![p] = IF attempt[p].pc = "promoted" \/ attempt[p].why = "race"
                                 THEN "SUCCESS" ELSE "FAILED"]
    /\ attempt' = [attempt EXCEPT ![p].pc = "done"]
    /\ UNCHANGED <<row, training, lock, policy>>

RecordedTwice(p) ==            \* variant: the outcome written again over an ended run
    /\ attempt[p].pc \in {"promoted", "failing", "done"}
    /\ run' = [run EXCEPT ![p] = IF attempt[p].pc = "promoted" THEN "SUCCESS" ELSE "FAILED"]
    /\ attempt' = [attempt EXCEPT ![p].pc = "done"]
    /\ UNCHANGED <<row, training, lock, policy>>

\* lifecycle.succeed, and fail_from_exception before the exception goes on.
RecordOutcome(p) ==
    /\ attempt[p].pc \in {"promoted", "failing"}
    /\ run' = [run EXCEPT ![p] = IF attempt[p].pc = "promoted" THEN "SUCCESS" ELSE "FAILED"]
    /\ attempt' = [attempt EXCEPT ![p].pc = "done"]
    /\ UNCHANGED <<row, training, lock, policy>>

\* The process dies, or the run record cannot be written: promote_locked has
\* already committed in its own transaction, the run record stays RUNNING.
Die(p) == /\ Faults
          /\ attempt[p].pc \notin {"idle", "done"}
          /\ Finish(p, "done", attempt[p].why)
          /\ UNCHANGED <<row, training, lock, policy, run>>

Register(b) == \/ Train(b) \/ TakeLock(b) \/ ReadMaxVersion(b)
               \/ Insert(b) \/ RegistrationLost(b)

Promote(p) == \/ \E b \in Bundles : Begin(p, b)
              \/ ReadCandidate(p) \/ Verify(p) \/ CheckGate(p)
              \/ TakeSnapshot(p) \/ LockAndPromote(p) \/ CommitUnacknowledged(p)
              \/ StepFails(p) \/ RecordOutcome(p) \/ Die(p)

Next == \/ EditPolicy
        \/ \E b \in Bundles : Register(b)
        \/ \E p \in Attempts : Promote(p)

Spec == Init /\ [][Next]_vars

-----------------------------------------------------------------------------
TypeOK == /\ row \in [Bundles -> RowType]
          /\ training \in [Bundles -> TrainingType]
          /\ lock \in [Channels -> Bundles \cup {None}]
          /\ policy \in Policies
          /\ attempt \in [Attempts -> AttemptType]
          /\ run \in [Attempts -> {"ABSENT", "RUNNING", "SUCCESS", "FAILED"}]

\* However promotions interleave, a channel has at most one OPERATIONAL bundle.
AtMostOneOperational == \A c \in Channels : Cardinality(Operational(c)) <= 1

\* Concurrent registrations number a channel's bundles 1, 2, 3, ... without
\* gaps, and the UNIQUE constraint behind the advisory lock never fires.
VersionsAreContiguous ==
    /\ \A c \in Channels :
          {row[b].version : b \in OfChannel(c)} = 1 .. Cardinality(OfChannel(c))
    /\ \A b \in Bundles : training[b].pc # "collided"

\* A bundle becomes OPERATIONAL only complete and with the policies that its
\* promotion verified, and when its channel has never had an operational
\* bundle, only with a passing gate, although the gate's premise was read
\* two transactions earlier.
EveryPromotionIsVetted ==
    [][\A b \in Bundles :
          (row[b].status # "OPERATIONAL" /\ row'[b].status = "OPERATIONAL") =>
              /\ row[b].complete
              /\ attempt[row'[b].by].seen = row[b].rules
              /\ Promoted(ChannelOf[b]) = {} => row[b].gate]_vars

\* The audit record tells the truth about the table: SUCCESS only for the
\* attempt that promoted the bundle, FAILED on a promoted bundle only when
\* the commit's acknowledgement was lost.
RunTellsPromotion ==
    \A p \in Attempts :
        /\ run[p] = "SUCCESS" =>
              /\ row[attempt[p].bundle].status \in {"OPERATIONAL", "RETIRED"}
              /\ row[attempt[p].bundle].by = p
        /\ (run[p] = "FAILED" /\ row[attempt[p].bundle].by = p) => attempt[p].why = "ack_lost"

CurrentOf(c) == IF Operational(c) = {} THEN None ELSE CHOOSE b \in Bundles : b \in Operational(c)
Current == [c \in Channels |-> CurrentOf(c)]
Retired == {b \in Bundles : row[b].status = "RETIRED"}

\* Scoring sees a switch between bundles and nothing in between.
Switch == INSTANCE OperationalSwitch WITH current <- Current, retired <- Retired
ImplementsSwitch == Switch!Spec

\* The model_promotion rows are records of runs as RunRecords has them.
Records == INSTANCE RunRecords WITH Runs <- Attempts, status <- run
ImplementsRunRecords == Records!Spec
=============================================================================
