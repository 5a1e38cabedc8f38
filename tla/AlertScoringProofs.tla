------------------------- MODULE AlertScoringProofs -------------------------
(***************************************************************************)
(* Theorems about AlertScoring for any number of source alerts and runs,   *)
(* any bundles and policy versions, and any number of faults.              *)
(***************************************************************************)
EXTENDS AlertScoring, FiniteSetTheorems, WellFoundedInduction, TLAPS

-----------------------------------------------------------------------------
(* The pending list and its oldest item.                                    *)

LEMMA SourceAlertsAreFinite == IsFiniteSet(SourceAlerts) /\ Cardinality(SourceAlerts) = N
BY FS_Interval, ScoringAssumption DEF SourceAlerts

\* A set of source alerts has an oldest one.
LEMMA OldestExists ==
    ASSUME NEW S \in SUBSET SourceAlerts, S # {}
    PROVE  \E s \in S : \A t \in S : s <= t
<1> DEFINE Less == {ss \in Nat \X Nat : ss[1] < ss[2]}
<1>1. S \subseteq Nat
  BY ScoringAssumption DEF SourceAlerts
<1>2. IsWellFoundedOn(Less, Nat)
  BY NatLessThanWellFounded DEF OpToRel
<1>3. PICK s \in S : \A t \in S : ~ (<<t, s>> \in Less)
  <2> HIDE DEF Less
  <2> QED BY <1>1, <1>2, WFMin
<1>4. \A t \in S : ~ (t < s)
  BY <1>1, <1>3
<1> QED BY <1>1, <1>4

\* The item a run works on is one of those it has left.
LEMMA ItemIsListed ==
    ASSUME NEW r \in Runs, run[r].todo \in SUBSET SourceAlerts, run[r].todo # {}
    PROVE  Item(r) \in run[r].todo
<1>1. \E s \in run[r].todo : \A t \in run[r].todo : s <= t
  BY OldestExists
<1> QED BY <1>1 DEF Item

\* A list shorter than the limit was not cut: it is everything pending.
LEMMA ShortListIsWhole ==
    ASSUME NEW S \in SUBSET SourceAlerts, Cardinality(FirstOnes(S)) < Limit
    PROVE  FirstOnes(S) = S
<1>1. FirstOnes(S) \subseteq S
  BY DEF FirstOnes
<1>2. SUFFICES ASSUME S \ FirstOnes(S) # {} PROVE FALSE
  BY <1>1
<1>3. PICK s \in S \ FirstOnes(S) : \A t \in S \ FirstOnes(S) : s <= t
  BY <1>2, OldestExists
<1> DEFINE before == {t \in S : t < s}
<1>4. Cardinality(FirstOnes(S)) \in Nat /\ IsFiniteSet(FirstOnes(S)) /\ IsFiniteSet(before)
  BY <1>1, SourceAlertsAreFinite, FS_Subset, FS_CardinalityType
<1>5. before \subseteq FirstOnes(S)
  <2>1. S \subseteq Nat
    BY ScoringAssumption DEF SourceAlerts
  <2>2. SUFFICES ASSUME NEW t \in S, t < s, t \notin FirstOnes(S) PROVE FALSE
    OBVIOUS
  <2>3. s <= t
    BY <1>3, <2>2
  <2> QED BY <1>3, <2>1, <2>2, <2>3
<1>6. Cardinality(before) <= Cardinality(FirstOnes(S)) /\ Cardinality(before) \in Nat
  BY <1>4, <1>5, FS_Subset, FS_CardinalityType
<1>7. ~ (Cardinality(before) < Limit)
  BY <1>3 DEF FirstOnes
<1> QED BY <1>4, <1>6, <1>7, ScoringAssumption

-----------------------------------------------------------------------------
(* The inductive invariant.                                                 *)

Early   == {"idle", "begun", "bundled", "checked"}
Bundled == {"bundled", "checked", "looping", "scored", "alerted"}
Checked == {"checked", "looping", "scored", "alerted"}
Looping == {"looping", "scored", "alerted"}
Over    == {"ended", "dead"}

Shown(band) == IF band = None THEN High ELSE band

\* The bundle a run has read has been operational, and the policies it goes
\* on with are those the bundle pins.
Settled(r) ==
    /\ run[r].pc \in Bundled => /\ run[r].bundle \in Bundles
                                /\ run[r].bundle \in retired \cup {current[Channel]}
    /\ run[r].pc \in Checked => run[r].rules = Pinned[run[r].bundle]

\* A run has left nothing behind before it loops, and nothing for the alerts it has left,
\* except the alert row of the item whose evidence it is about to record.
LeftBehind(r) ==
    /\ run[r].pc \in Early => /\ \A s \in SourceAlerts : alert[s].by # r
                              /\ \A e \in evidence : e.run # r
    /\ run[r].pc \in Looping =>
          \A s \in run[r].todo : /\ \A e \in evidence : e.run = r => e.alert # s
                                 /\ alert[s].by = r => run[r].pc = "alerted" /\ s = Item(r)
    /\ run[r].pc \in {"scored", "alerted"} => run[r].todo # {}
    /\ run[r].pc = "alerted" =>
          /\ alert[Item(r)].status # "ABSENT"
          /\ alert[Item(r)].by = r => alert[Item(r)].band = Shown(run[r].band)

\* The counters of a run and what it has left add up to its list.
Accounted(r) ==
    /\ run[r].pc \in Early => /\ run[r].todo = {} /\ run[r].listed = 0
                              /\ run[r].processed = 0 /\ run[r].rejected = 0
    /\ run[r].processed + run[r].rejected + Cardinality(run[r].todo) = run[r].listed
    /\ run[r].processed <= Cardinality(RowsOf(r, TRUE))
    /\ Cardinality(RowsOf(r, TRUE)) + Cardinality(RowsOf(r, FALSE))
          <= run[r].processed + run[r].rejected

\* The runs that ended before this one began are over, and it lists nothing
\* they recorded for its bundle.
Later(r) ==
    /\ \A q \in run[r].earlier : q # r /\ run[q].pc \in Over
    /\ run[r].pc \in Looping =>
          \A e \in evidence : e.alert \in run[r].todo /\ e.bundle = run[r].bundle
                                 => e.run \notin run[r].earlier

\* The run record follows the run.
Recorded(r) ==
    /\ status[r] = "ABSENT" <=> run[r].pc = "idle"
    /\ status[r] \in {"SUCCESS", "FAILED"} <=> run[r].pc = "ended"
    /\ status[r] = "SUCCESS" => run[r].todo = {}

\* What is pending although the run is through with it.
Left(r) == Pending(run[r].bundle) \ run[r].todo

\* A run whose list was not cut has rejected what it left, and each
\* catastrophic row is of one rejection more.
Complete(r) ==
    run[r].listed < Limit /\ (run[r].pc \in Looping \/ status[r] = "SUCCESS")
        => Cardinality(Left(r)) + Cardinality(RowsOf(r, FALSE)) <= run[r].rejected

RInv(r) == Settled(r) /\ LeftBehind(r) /\ Accounted(r) /\ Later(r) /\ Recorded(r) /\ Complete(r)

IInv == /\ TypeOK
        /\ IsFiniteSet(evidence)
        /\ InitialBandMatchesItsEvidence
        /\ EvidenceHonoursPins
        /\ SequentialRetriesAddNothing
        /\ \A r \in Runs : RInv(r)

LEMMA NoMoreThanBefore ==
    ASSUME NEW new \in Nat, NEW old \in Nat, NEW rows \in Nat, NEW bound \in Nat,
           new <= old, old + rows <= bound
    PROVE  new + rows <= bound
OBVIOUS

LEMMA NothingYet ==
    ASSUME NEW good \in Nat, NEW bad \in Nat, good + bad <= 0
    PROVE  bad = 0
OBVIOUS

LEMMA OneMoreRejected ==
    ASSUME NEW left \in Nat, NEW bad \in Nat, NEW bound \in Nat,
           NEW left2 \in Nat, NEW bad2 \in Nat, NEW bound2 \in Nat, left + bad <= bound,
           \/ left2 <= left /\ bad2 = bad /\ bound2 >= bound
           \/ left2 <= left /\ bad2 = bad + 1 /\ bound2 = bound + 1
           \/ left2 <= left + 1 /\ bad2 = bad /\ bound2 = bound + 1
    PROVE  left2 + bad2 <= bound2
OBVIOUS

LEMMA LeftIsFinite ==
    ASSUME NEW r
    PROVE  IsFiniteSet(Left(r)) /\ Cardinality(Left(r)) \in Nat
<1>1. Left(r) \subseteq SourceAlerts
  BY DEF Left, Pending
<1> QED BY <1>1, SourceAlertsAreFinite, FS_Subset, FS_CardinalityType

-----------------------------------------------------------------------------
(* What a step of one run leaves of the others.                             *)

\* The alerts stand as they stood, except that r may have added one.
AlertsKept(q) ==
    \A s \in SourceAlerts :
        \/ /\ alert'[s].by = alert[s].by
           /\ alert'[s].band = alert[s].band
           /\ alert[s].status # "ABSENT" => alert'[s].status # "ABSENT"
        \/ /\ alert[s].status = "ABSENT"
           /\ alert'[s].by # q

\* The evidence stands, except that a run that goes on may have added a row.
EvidenceKept(q) ==
    /\ evidence \subseteq evidence'
    /\ \A e \in evidence' \ evidence : e.run # q /\ e.run \in Runs /\ run[e.run].pc \notin Over

BundlesKept == (retired \cup {current[Channel]}) \cap Bundles
                  \subseteq (retired \cup {current[Channel]})'

OverKept == \A p \in Runs : run[p].pc \in Over => run'[p].pc \in Over

LEMMA BystanderKeeps ==
    ASSUME NEW q \in Runs, TypeOK, IsFiniteSet(evidence), RInv(q),
           run'[q] = run[q], status'[q] = status[q],
           AlertsKept(q), EvidenceKept(q), BundlesKept, OverKept
    PROVE  RInv(q)'
<1>1. run[q] \in RunType /\ faults \in Nat
  BY ScoringAssumption DEF TypeOK
<1>2. Item(q)' = Item(q)
  BY DEF Item
<1>3. Settled(q)'
  <2>1. SUFFICES ASSUME run[q].pc \in Bundled PROVE (run[q].bundle \in retired \cup {current[Channel]})'
    BY DEF RInv, Settled, Bundled, Checked
  <2>2. run[q].bundle \in (retired \cup {current[Channel]}) \cap Bundles
    BY <2>1 DEF RInv, Settled
  <2> QED BY <2>2 DEF BundlesKept
<1>4. LeftBehind(q)'
  <2>1. \A e \in evidence' : e.run = q => e \in evidence
    BY DEF EvidenceKept
  <2>2. \A s \in SourceAlerts : alert'[s].by = q => alert[s].by = q /\ alert'[s].band = alert[s].band
    BY DEF AlertsKept
  <2>3. run[q].pc = "alerted" => alert'[Item(q)].status # "ABSENT"
    <3>1. SUFFICES ASSUME run[q].pc = "alerted" PROVE alert'[Item(q)].status # "ABSENT"
      OBVIOUS
    <3>2. run[q].todo \in SUBSET SourceAlerts /\ run[q].todo # {}
      BY <1>1, <3>1 DEF RInv, LeftBehind, RunType
    <3>3. Item(q) \in SourceAlerts
      BY <3>2, ItemIsListed
    <3> QED BY <3>1, <3>3 DEF RInv, LeftBehind, AlertsKept
  <2>4. run[q].pc = "alerted" => Item(q) \in SourceAlerts
    BY <1>1, ItemIsListed DEF RInv, LeftBehind, RunType
  <2>5. LeftBehind(q)
    BY DEF RInv
  <2>6. run[q].todo \subseteq SourceAlerts
    BY <1>1 DEF RunType
  <2> QED BY <1>2, <2>1, <2>2, <2>3, <2>4, <2>5, <2>6 DEF LeftBehind
<1>5. Accounted(q)'
  <2>1. \A ok \in BOOLEAN : RowsOf(q, ok)' = RowsOf(q, ok)
    BY DEF RowsOf, EvidenceKept
  <2> QED BY <2>1 DEF RInv, Accounted
<1>6. Later(q)'
  <2>1. Later(q)
    BY DEF RInv
  <2>2. \A e \in evidence' \ evidence : e.run \notin run[q].earlier
    BY <2>1 DEF Later, EvidenceKept
  <2>3. run[q].earlier \subseteq Runs
    BY <1>1 DEF RunType
  <2> QED BY <2>1, <2>2, <2>3 DEF Later, OverKept
<1>7. Recorded(q)'
  BY DEF RInv, Recorded
<1>8. Complete(q)'
  <2>1. Left(q)' \subseteq Left(q)
    BY DEF Left, Pending, EvidenceKept
  <2>2. Cardinality(Left(q)') <= Cardinality(Left(q)) /\ Cardinality(Left(q)') \in Nat
    BY <2>1, LeftIsFinite, FS_Subset, FS_CardinalityType
  <2>3. RowsOf(q, FALSE)' = RowsOf(q, FALSE)
    BY DEF RowsOf, EvidenceKept
  <2>4. IsFiniteSet(RowsOf(q, FALSE)) /\ Cardinality(RowsOf(q, FALSE)) \in Nat
    BY FS_Subset, FS_CardinalityType DEF RowsOf
  <2>5. Cardinality(Left(q)) \in Nat /\ run[q].rejected \in Nat
    BY <1>1, LeftIsFinite, ScoringAssumption DEF RunType
  <2>6. SUFFICES ASSUME run[q].listed < Limit, run[q].pc \in Looping \/ status[q] = "SUCCESS"
                 PROVE  Cardinality(Left(q)') + Cardinality(RowsOf(q, FALSE)) <= run[q].rejected
    BY <2>3 DEF Complete
  <2>7. Cardinality(Left(q)) + Cardinality(RowsOf(q, FALSE)) <= run[q].rejected
    BY <2>6 DEF RInv, Complete
  <2> QED BY <2>2, <2>4, <2>5, <2>7, NoMoreThanBefore
<1> QED BY <1>3, <1>4, <1>5, <1>6, <1>7, <1>8 DEF RInv

-----------------------------------------------------------------------------
(* Steps that leave the alerts and their evidence alone.                    *)

\* What a step of r alone keeps, once it keeps the tables' invariants and r's own.
LEMMA StepOfOneRun ==
    ASSUME IInv, NEW r \in Runs, run[r].pc \notin Over,
           TypeOK', RInv(r)', IsFiniteSet(evidence)', InitialBandMatchesItsEvidence',
           EvidenceHonoursPins', SequentialRetriesAddNothing',
           \A q \in Runs \ {r} : /\ run'[q] = run[q] /\ status'[q] = status[q]
                                 /\ AlertsKept(q) /\ EvidenceKept(q),
           BundlesKept
    PROVE  IInv'
<1>1. OverKept
  BY DEF OverKept
<1>2. \A q \in Runs \ {r} : RInv(q)'
  BY <1>1, BystanderKeeps DEF IInv
<1> QED BY <1>2 DEF IInv

LEMMA QuietStep ==
    ASSUME IInv, NEW r \in Runs, run[r].pc \notin Over,
           TypeOK', RInv(r)', UNCHANGED tables, UNCHANGED files,
           \A q \in Runs \ {r} : run'[q] = run[q] /\ status'[q] = status[q],
           run[r].pc \in Early \/ run'[r].earlier = run[r].earlier
    PROVE  IInv'
<1> USE DEF tables, files
<1>1. \A q \in Runs \ {r} : AlertsKept(q) /\ EvidenceKept(q)
  BY DEF AlertsKept, EvidenceKept
<1>2. BundlesKept
  BY DEF BundlesKept
<1>3. IsFiniteSet(evidence)' /\ InitialBandMatchesItsEvidence' /\ EvidenceHonoursPins'
  BY DEF IInv, InitialBandMatchesItsEvidence, EvidenceHonoursPins
<1>4. SequentialRetriesAddNothing'
  <2>1. \A f \in evidence : f.run \in Runs
    BY DEF IInv, TypeOK, EvidenceType
  <2>2. \A f \in evidence : run'[f.run].earlier = run[f.run].earlier
    <3>1. run[r].pc \in Early => \A f \in evidence : f.run # r
      BY DEF IInv, RInv, LeftBehind
    <3> QED BY <2>1, <3>1
  <2> QED BY <2>2 DEF IInv, SequentialRetriesAddNothing
<1> QED BY <1>1, <1>2, <1>3, <1>4, StepOfOneRun

LEMMA BeginKeeps == ASSUME IInv, NEW r \in Runs, Begin(r) PROVE IInv'
<1> USE DEF Begin
<1> DEFINE past == {q \in Runs : run[q].pc \in {"ended", "dead"}}
<1>1. run' = [run EXCEPT ![r].pc = "begun", ![r].earlier = past] /\ run \in [Runs -> RunType]
      /\ status' = [status EXCEPT ![r] = "RUNNING"] /\ TypeOK /\ run[r].pc = "idle"
  BY DEF IInv, TypeOK
<1>2. past \in SUBSET Runs
  OBVIOUS
<1>3. past \subseteq {q \in Runs : run[q].pc \in {"ended", "dead"}}
  OBVIOUS
<1> HIDE DEF past
<1>4. run' \in [Runs -> RunType]
  <2> DEFINE new == [run[r] EXCEPT !.pc = "begun", !.earlier = past]
  <2> HIDE DEF Begin
  <2>1. new \in RunType
    <3>1. \A x \in RunType, p \in SUBSET Runs : [x EXCEPT !.pc = "begun", !.earlier = p] \in RunType
      BY DEF RunType
    <3> QED BY <1>2, <1>1, <3>1
  <2>2. run' = [run EXCEPT ![r] = new]
    BY <1>1
  <2> HIDE DEF new
  <2> QED BY <1>1, <2>1, <2>2
<1>5. TypeOK'
  BY <1>1, <1>4 DEF TypeOK, tables, environment, files
<1>6. /\ run'[r].pc = "begun" /\ run'[r].earlier = past /\ run'[r].todo = run[r].todo
      /\ run'[r].listed = run[r].listed /\ run'[r].processed = run[r].processed
      /\ run'[r].rejected = run[r].rejected /\ run'[r].bundle = run[r].bundle
      /\ \A q \in Runs \ {r} : run'[q] = run[q] /\ status'[q] = status[q]
      /\ status'[r] = "RUNNING"
  BY <1>1 DEF RunType, TypeOK
<1>7. RInv(r)
  BY DEF IInv
<1>8. Settled(r)' /\ Recorded(r)' /\ Complete(r)'
  BY <1>6 DEF Settled, Recorded, Complete, Bundled, Checked, Looping
<1>9. LeftBehind(r)'
  BY <1>1, <1>6, <1>7 DEF RInv, LeftBehind, Early, Looping, tables
<1>10. Accounted(r)'
  <2>1. \A ok \in BOOLEAN : RowsOf(r, ok)' = RowsOf(r, ok)
    BY DEF RowsOf, tables
  <2> QED BY <1>1, <1>6, <1>7, <2>1 DEF RInv, Accounted, Early
<1>11. Later(r)'
  BY <1>1, <1>6, <1>3 DEF Later, Looping, Over
<1>12. RInv(r)'
  BY <1>8, <1>9, <1>10, <1>11 DEF RInv
<1>13. UNCHANGED tables /\ UNCHANGED files
  BY <1>1, ScoringAssumption DEF environment, TypeOK
<1>14. run[r].pc \notin Over /\ run[r].pc \in Early
  BY <1>1 DEF Over, Early
<1> HIDE DEF Begin
<1> QED BY <1>5, <1>6, <1>12, <1>13, <1>14, QuietStep

\* A run that stops going on leaves its counters and its list as they are.
LEMMA LeaveKeeps ==
    ASSUME IInv, NEW r \in Runs, run[r].pc \notin Over \cup {"idle"},
           NEW p \in {"aborting", "ended", "dead"}, run' = [run EXCEPT ![r].pc = p],
           UNCHANGED tables, UNCHANGED files, faults' \in 0 .. MaxFaults,
           \/ p # "ended" /\ status' = status
           \/ p = "ended" /\ status' = [status EXCEPT ![r] = "FAILED"]
           \/ /\ p = "ended" /\ status' = [status EXCEPT ![r] = "SUCCESS"]
              /\ run[r].pc = "looping" /\ run[r].todo = {}
    PROVE  IInv'
<1>1. TypeOK /\ RInv(r) /\ faults \in Nat
  BY ScoringAssumption DEF IInv, TypeOK
<1>2. run \in [Runs -> RunType] /\ run[r] \in RunType
  BY <1>1 DEF TypeOK
<1>3. run' \in [Runs -> RunType]
  <2>1. \A x \in RunType : [x EXCEPT !.pc = p] \in RunType
    BY DEF RunType
  <2> QED BY <1>2, <2>1
<1>4. TypeOK'
  BY <1>1, <1>3 DEF TypeOK, tables, files
<1>5. /\ run'[r].pc = p /\ run'[r].earlier = run[r].earlier /\ run'[r].todo = run[r].todo
      /\ run'[r].listed = run[r].listed /\ run'[r].processed = run[r].processed
      /\ run'[r].rejected = run[r].rejected /\ run'[r].bundle = run[r].bundle
      /\ \A q \in Runs \ {r} : run'[q] = run[q] /\ status'[q] = status[q]
  BY <1>1, <1>2 DEF RunType, TypeOK
<1>6. Settled(r)' /\ LeftBehind(r)'
  BY <1>5 DEF Settled, LeftBehind, Bundled, Checked, Looping, Early
<1>7. Accounted(r)'
  <2>1. \A ok \in BOOLEAN : RowsOf(r, ok)' = RowsOf(r, ok)
    BY DEF RowsOf, tables
  <2> QED BY <1>1, <1>5, <2>1 DEF RInv, Accounted, Early
<1>8. Later(r)'
  BY <1>1, <1>5 DEF RInv, Later, Looping, Over
<1>9. Recorded(r)'
  BY <1>1, <1>5 DEF RInv, Recorded, Over, TypeOK
<1>10. Complete(r)'
  <2>1. Left(r)' = Left(r) /\ RowsOf(r, FALSE)' = RowsOf(r, FALSE)
    BY <1>5 DEF Left, Pending, RowsOf, tables
  <2>2. (status[r] = "SUCCESS")' => run[r].pc = "looping"
    BY <1>1, <1>5 DEF RInv, Recorded, Over, TypeOK
  <2> QED BY <1>1, <1>5, <2>1, <2>2 DEF RInv, Complete, Looping
<1>11. RInv(r)'
  BY <1>6, <1>7, <1>8, <1>9, <1>10 DEF RInv
<1> QED BY <1>4, <1>5, <1>11, QuietStep

LEMMA AbortKeeps == ASSUME IInv, NEW r \in Runs, run[r].pc = "begun" \/ run[r].pc = "bundled", Abort(r)
                    PROVE  IInv'
<1>1. faults \in 0 .. MaxFaults
  BY ScoringAssumption DEF IInv, TypeOK
<1> QED BY <1>1, LeaveKeeps DEF Abort, Over, environment

LEMMA SetupFailsKeeps == ASSUME IInv, NEW r \in Runs, SetupFails(r) PROVE IInv'
<1>1. faults' \in 0 .. MaxFaults
  BY ScoringAssumption DEF IInv, TypeOK, SetupFails, Fault
<1> QED BY <1>1, LeaveKeeps DEF SetupFails, Over

LEMMA DieKeeps == ASSUME IInv, NEW r \in Runs, Die(r) PROVE IInv'
<1>1. faults' \in 0 .. MaxFaults
  BY ScoringAssumption DEF IInv, TypeOK, Die, Fault
<1> QED BY <1>1, LeaveKeeps DEF Die, Over

LEMMA EndKeeps == ASSUME IInv, NEW r \in Runs, Finish(r) \/ RecordFailure(r) PROVE IInv'
<1>1. faults \in 0 .. MaxFaults
  BY ScoringAssumption DEF IInv, TypeOK
<1>2. CASE Finish(r)
  BY <1>1, <1>2, LeaveKeeps DEF Finish, End, Over, environment
<1>3. CASE RecordFailure(r)
  BY <1>1, <1>3, LeaveKeeps DEF RecordFailure, End, Over, environment
<1> QED BY <1>2, <1>3

\* A run on its way to its list has neither counters nor rows.
LEMMA EarlyStep ==
    ASSUME IInv, NEW r \in Runs, run[r].pc \in Early \ {"idle"}, UNCHANGED <<tables, status, environment>>,
           run' \in [Runs -> RunType], \A q \in Runs \ {r} : run'[q] = run[q],
           run'[r].pc \in Early \ {"idle"}, Settled(r)',
           /\ run'[r].todo = run[r].todo /\ run'[r].listed = run[r].listed
           /\ run'[r].processed = run[r].processed /\ run'[r].rejected = run[r].rejected
           /\ run'[r].earlier = run[r].earlier
    PROVE  IInv'
<1>1. TypeOK /\ RInv(r) /\ faults \in Nat
  BY ScoringAssumption DEF IInv, TypeOK
<1>2. TypeOK'
  BY <1>1 DEF TypeOK, tables, environment, files
<1>3. LeftBehind(r)'
  BY <1>1 DEF RInv, LeftBehind, Early, Looping, tables
<1>4. Accounted(r)'
  <2>1. \A ok \in BOOLEAN : RowsOf(r, ok)' = RowsOf(r, ok)
    BY DEF RowsOf, tables
  <2> QED BY <1>1, <2>1 DEF RInv, Accounted, Early
<1>5. Later(r)' /\ Recorded(r)' /\ Complete(r)'
  <2>1. run[r].earlier \subseteq Runs
    BY <1>1 DEF TypeOK, RunType
  <2>2. Later(r)'
    BY <1>1, <2>1 DEF RInv, Later, Early, Looping
  <2>3. Recorded(r)' /\ status'[r] # "SUCCESS"
    BY <1>1 DEF RInv, Recorded, Early
  <2>4. Complete(r)'
    BY <2>3 DEF Complete, Early, Looping
  <2> QED BY <2>2, <2>3, <2>4
<1>6. RInv(r)'
  BY <1>3, <1>4, <1>5 DEF RInv
<1>7. run[r].pc \notin Over
  BY <1>1 DEF Early, Over, environment
<1> QED BY <1>2, <1>6, <1>7, QuietStep DEF environment

LEMMA ReadBundleKeeps == ASSUME IInv, NEW r \in Runs, ReadBundle(r) PROVE IInv'
<1>1. CASE current[Channel] = None
  BY <1>1, AbortKeeps DEF ReadBundle
<1>2. CASE current[Channel] # None
  <2>1. current[Channel] \in Bundles /\ run \in [Runs -> RunType] /\ run[r].pc = "begun"
    BY <1>2 DEF IInv, TypeOK, ReadBundle
  <2>2. /\ run' = [run EXCEPT ![r].pc = "bundled", ![r].bundle = current[Channel]]
        /\ UNCHANGED <<tables, status, environment>>
    BY <1>2 DEF ReadBundle
  <2>3. run' \in [Runs -> RunType]
    <3>1. \A x \in RunType, b \in Bundles : [x EXCEPT !.pc = "bundled", !.bundle = b] \in RunType
      BY DEF RunType
    <3> QED BY <2>1, <2>2, <3>1
  <2>4. /\ run'[r].pc = "bundled" /\ run'[r].bundle = current[Channel]
        /\ run'[r].todo = run[r].todo /\ run'[r].listed = run[r].listed
        /\ run'[r].processed = run[r].processed /\ run'[r].rejected = run[r].rejected
        /\ run'[r].earlier = run[r].earlier /\ \A q \in Runs \ {r} : run'[q] = run[q]
    BY <2>1, <2>2 DEF RunType
  <2>5. Settled(r)'
    BY <2>1, <2>2, <2>4 DEF Settled, Checked, Bundled, environment, files
  <2> QED BY <2>1, <2>2, <2>3, <2>4, <2>5, EarlyStep DEF Early
<1> QED BY <1>1, <1>2

LEMMA CheckPoliciesKeeps == ASSUME IInv, NEW r \in Runs, CheckPolicies(r) PROVE IInv'
<1>1. CASE policy # Pinned[run[r].bundle]
  BY <1>1, AbortKeeps DEF CheckPolicies
<1>2. CASE policy = Pinned[run[r].bundle]
  <2>1. policy \in Policies /\ run \in [Runs -> RunType] /\ run[r].pc = "bundled" /\ Settled(r)
    BY <1>2 DEF IInv, TypeOK, CheckPolicies, RInv
  <2>2. /\ run' = [run EXCEPT ![r].pc = "checked", ![r].rules = policy]
        /\ UNCHANGED <<tables, status, environment>>
    BY <1>2 DEF CheckPolicies
  <2>3. run' \in [Runs -> RunType]
    <3>1. \A x \in RunType, v \in Policies : [x EXCEPT !.pc = "checked", !.rules = v] \in RunType
      BY DEF RunType
    <3> QED BY <2>1, <2>2, <3>1
  <2>4. /\ run'[r].pc = "checked" /\ run'[r].bundle = run[r].bundle /\ run'[r].rules = policy
        /\ run'[r].todo = run[r].todo /\ run'[r].listed = run[r].listed
        /\ run'[r].processed = run[r].processed /\ run'[r].rejected = run[r].rejected
        /\ run'[r].earlier = run[r].earlier /\ \A q \in Runs \ {r} : run'[q] = run[q]
    BY <2>1, <2>2 DEF RunType
  <2>5. Settled(r)'
    BY <1>2, <2>1, <2>2, <2>4 DEF Settled, Checked, Bundled, environment, files
  <2> QED BY <2>1, <2>2, <2>3, <2>4, <2>5, EarlyStep DEF Early
<1> QED BY <1>1, <1>2

LEMMA ListPendingKeeps == ASSUME IInv, NEW r \in Runs, ListPending(r) PROVE IInv'
<1> DEFINE items == FirstOnes(Pending(run[r].bundle))
<1>1. TypeOK /\ RInv(r) /\ run \in [Runs -> RunType] /\ run[r].pc = "checked" /\ faults \in Nat
  BY ScoringAssumption DEF IInv, TypeOK, ListPending
<1>2. items \subseteq Pending(run[r].bundle) /\ items \subseteq SourceAlerts
  BY DEF FirstOnes, Pending
<1>3. Cardinality(items) \in 0 .. N
  <2>1. Cardinality(items) \in Nat /\ Cardinality(items) <= Cardinality(SourceAlerts)
    BY <1>2, SourceAlertsAreFinite, FS_Subset, FS_CardinalityType
  <2> QED BY <2>1, SourceAlertsAreFinite, ScoringAssumption
<1>4. Cardinality(items) < Limit => items = Pending(run[r].bundle)
  BY ShortListIsWhole DEF Pending
<1>5. /\ run' = [run EXCEPT ![r].pc = "looping", ![r].todo = items, ![r].listed = Cardinality(items)]
      /\ UNCHANGED <<tables, status, environment>>
  BY DEF ListPending
<1> HIDE DEF items
<1>6. run' \in [Runs -> RunType]
  <2>1. \A x \in RunType, t \in SUBSET SourceAlerts, n \in 0 .. N :
           [x EXCEPT !.pc = "looping", !.todo = t, !.listed = n] \in RunType
    BY DEF RunType
  <2> QED BY <1>1, <1>2, <1>3, <1>5, <2>1
<1>7. /\ run'[r].pc = "looping" /\ run'[r].todo = items /\ run'[r].listed = Cardinality(items)
      /\ run'[r].bundle = run[r].bundle /\ run'[r].rules = run[r].rules
      /\ run'[r].processed = run[r].processed /\ run'[r].rejected = run[r].rejected
      /\ run'[r].earlier = run[r].earlier /\ \A q \in Runs \ {r} : run'[q] = run[q]
  BY <1>1, <1>5 DEF RunType
<1>8. TypeOK'
  BY <1>1, <1>5, <1>6 DEF TypeOK, tables, environment, files
<1>9. Settled(r)'
  BY <1>1, <1>5, <1>7 DEF RInv, Settled, Bundled, Checked, environment, files
<1>10. LeftBehind(r)'
  <2>1. /\ \A s \in items : alert[s].by # r
        /\ \A e \in evidence : e.run # r
    BY <1>1, <1>2 DEF RInv, LeftBehind, Early
  <2> QED BY <1>5, <1>7, <2>1 DEF LeftBehind, Early, Looping, tables
<1>11. Accounted(r)'
  <2>1. \A ok \in BOOLEAN : RowsOf(r, ok)' = RowsOf(r, ok)
    BY <1>5 DEF RowsOf, tables
  <2>2. run[r].processed = 0 /\ run[r].rejected = 0
    BY <1>1 DEF RInv, Accounted, Early
  <2>3. run'[r].processed + run'[r].rejected + Cardinality(run'[r].todo) = run'[r].listed
    BY <1>3, <1>7, <2>2
  <2>4. Cardinality(RowsOf(r, TRUE))' = Cardinality(RowsOf(r, TRUE))
        /\ Cardinality(RowsOf(r, FALSE))' = Cardinality(RowsOf(r, FALSE))
    BY <2>1
  <2> QED BY <1>1, <1>7, <2>3, <2>4 DEF RInv, Accounted, Early
<1>12. Later(r)'
  <2>1. run[r].earlier \subseteq Runs
    BY <1>1 DEF RunType
  <2>2. \A q \in run'[r].earlier : q # r /\ run'[q].pc \in Over
    BY <1>1, <1>7, <2>1 DEF RInv, Later
  <2>3. \A e \in evidence : e.bundle = run[r].bundle => e.alert \notin items
    BY <1>2 DEF Pending
  <2> QED BY <1>5, <1>7, <2>2, <2>3 DEF Later, tables
<1>13. Recorded(r)' /\ status'[r] # "SUCCESS"
  BY <1>1, <1>5, <1>7 DEF RInv, Recorded
<1>14. Complete(r)'
  <2>1. RowsOf(r, FALSE)' = RowsOf(r, FALSE)
    BY <1>5 DEF RowsOf, tables
  <2>2. Cardinality(RowsOf(r, FALSE)) = 0 /\ run'[r].rejected = 0
    <3>1. run[r].processed = 0 /\ run[r].rejected = 0
      BY <1>1 DEF RInv, Accounted, Early
    <3>2. IsFiniteSet(RowsOf(r, TRUE)) /\ IsFiniteSet(RowsOf(r, FALSE))
      BY FS_Subset DEF IInv, RowsOf
    <3>3. Cardinality(RowsOf(r, TRUE)) \in Nat /\ Cardinality(RowsOf(r, FALSE)) \in Nat
      BY <3>2, FS_CardinalityType
    <3>4. Cardinality(RowsOf(r, TRUE)) + Cardinality(RowsOf(r, FALSE)) <= 0
      <4>1. run[r].processed + run[r].rejected = 0
        BY <3>1
      <4>2. Cardinality(RowsOf(r, TRUE)) + Cardinality(RowsOf(r, FALSE)) <= run[r].processed + run[r].rejected
        BY <1>1 DEF RInv, Accounted
      <4> QED BY <4>1, <4>2
    <3>5. Cardinality(RowsOf(r, FALSE)) = 0
      BY <3>3, <3>4, NothingYet
    <3> QED BY <1>7, <3>1, <3>5
  <2>3. Cardinality(items) < Limit => Cardinality(Left(r)') = 0
    <3>1. Left(r)' = Pending(run[r].bundle) \ items
      BY <1>5, <1>7 DEF Left, Pending, tables
    <3>2. Cardinality(items) < Limit => Left(r)' = {}
      BY <1>4, <3>1
    <3> QED BY <3>2, FS_EmptySet
  <2>4. Cardinality(items) < Limit =>
           Cardinality(Left(r)') + Cardinality(RowsOf(r, FALSE)') <= run'[r].rejected
    <3>1. SUFFICES ASSUME Cardinality(items) < Limit
                   PROVE  Cardinality(Left(r)') + Cardinality(RowsOf(r, FALSE)') <= run'[r].rejected
      OBVIOUS
    <3>2. Cardinality(Left(r)') = 0 /\ Cardinality(RowsOf(r, FALSE)') = 0
      BY <2>1, <2>2, <2>3, <3>1
    <3>3. \A a, b, c : a = 0 /\ b = 0 /\ c = 0 => a + b <= c
      OBVIOUS
    <3> QED BY <2>2, <3>2, <3>3, Zenon
  <2>5. run'[r].listed < Limit =>
           Cardinality(Left(r)') + Cardinality(RowsOf(r, FALSE)') <= run'[r].rejected
    <3>1. SUFFICES ASSUME run'[r].listed < Limit
                   PROVE  Cardinality(Left(r)') + Cardinality(RowsOf(r, FALSE)') <= run'[r].rejected
      OBVIOUS
    <3>2. run'[r].listed = Cardinality(items)
      BY <1>7
    <3>3. Cardinality(items) < Limit
      BY <3>1, <3>2
    <3> QED BY <2>4, <3>3
  <2> QED BY <2>5 DEF Complete
<1>15. RInv(r)'
  BY <1>9, <1>10, <1>11, <1>12, <1>13, <1>14 DEF RInv
<1>16. run[r].pc \notin Over
  BY <1>1, <1>5 DEF Over, environment
<1> QED BY <1>1, <1>5, <1>7, <1>8, <1>15, <1>16, QuietStep DEF environment

LEMMA ScoreKeeps == ASSUME IInv, NEW r \in Runs, Score(r) PROVE IInv'
<1>1. TypeOK /\ RInv(r) /\ run \in [Runs -> RunType] /\ faults \in Nat
  BY ScoringAssumption DEF IInv, TypeOK
<1>2. PICK band \in Bands \cup {None} : run' = [run EXCEPT ![r].pc = "scored", ![r].band = band]
  BY DEF Score
<1>3. run[r].pc = "looping" /\ run[r].todo # {} /\ UNCHANGED <<tables, status, environment>>
  BY DEF Score
<1>4. run' \in [Runs -> RunType]
  <2>1. \A x \in RunType, w \in Bands \cup {None} : [x EXCEPT !.pc = "scored", !.band = w] \in RunType
    BY DEF RunType
  <2> QED BY <1>1, <1>2, <2>1
<1>5. /\ run'[r].pc = "scored" /\ run'[r].todo = run[r].todo /\ run'[r].listed = run[r].listed
      /\ run'[r].bundle = run[r].bundle /\ run'[r].rules = run[r].rules
      /\ run'[r].processed = run[r].processed /\ run'[r].rejected = run[r].rejected
      /\ run'[r].earlier = run[r].earlier /\ \A q \in Runs \ {r} : run'[q] = run[q]
  BY <1>1, <1>2 DEF RunType
<1>6. TypeOK'
  BY <1>1, <1>3, <1>4 DEF TypeOK, tables, environment, files
<1>7. Settled(r)'
  BY <1>1, <1>3, <1>5 DEF RInv, Settled, Bundled, Checked, environment, files
<1>8. LeftBehind(r)'
  BY <1>1, <1>3, <1>5 DEF RInv, LeftBehind, Early, Looping, tables
<1>9. Accounted(r)'
  <2>1. \A ok \in BOOLEAN : RowsOf(r, ok)' = RowsOf(r, ok)
    BY <1>3 DEF RowsOf, tables
  <2> QED BY <1>1, <1>5, <2>1 DEF RInv, Accounted, Early
<1>10. Later(r)'
  <2>1. run[r].earlier \subseteq Runs
    BY <1>1 DEF RunType
  <2> QED BY <1>1, <1>3, <1>5, <2>1 DEF RInv, Later, Looping, tables
<1>11. Recorded(r)'
  BY <1>1, <1>3, <1>5 DEF RInv, Recorded
<1>12. Complete(r)'
  <2>1. Left(r)' = Left(r) /\ RowsOf(r, FALSE)' = RowsOf(r, FALSE)
    BY <1>3, <1>5 DEF Left, Pending, RowsOf, tables
  <2> QED BY <1>1, <1>3, <1>5, <2>1 DEF RInv, Complete, Looping
<1>13. RInv(r)'
  BY <1>7, <1>8, <1>9, <1>10, <1>11, <1>12 DEF RInv
<1>14. run[r].pc \notin Over
  BY <1>1, <1>3 DEF Over, environment
<1> QED BY <1>3, <1>5, <1>6, <1>13, <1>14, QuietStep DEF environment

-----------------------------------------------------------------------------
(* Steps that write the alert row or the evidence of an item.               *)

LEMMA InsertedIs ==
    ASSUME NEW r \in Runs, NEW s \in SourceAlerts, TypeOK
    PROVE  /\ Inserted(s, r) \in [SourceAlerts -> AlertType]
           /\ \A t \in SourceAlerts : t # s \/ alert[s].status # "ABSENT" => Inserted(s, r)[t] = alert[t]
           /\ Inserted(s, r)[s].status # "ABSENT"
           /\ alert[s].status = "ABSENT" => /\ Inserted(s, r)[s].by = r
                                            /\ Inserted(s, r)[s].band = Shown(run[r].band)
<1>1. alert \in [SourceAlerts -> AlertType] /\ run[r].band \in Bands \cup {None}
  BY DEF TypeOK, RunType
<1> DEFINE row == [status |-> "OPEN", by |-> r, band |-> Shown(run[r].band)]
<1>2. row \in AlertType
  BY <1>1, ScoringAssumption DEF AlertType, Shown
<1>3. Inserted(s, r) = IF alert[s].status # "ABSENT" THEN alert ELSE [alert EXCEPT ![s] = row]
  BY DEF Inserted, Shown
<1>4. row.status = "OPEN" /\ row.by = r /\ row.band = Shown(run[r].band)
  OBVIOUS
<1> HIDE DEF row
<1> QED BY <1>1, <1>2, <1>3, <1>4

\* An insertion by r disturbs neither the other runs nor the evidence.
LEMMA InsertKeeps ==
    ASSUME IInv, NEW r \in Runs, NEW s \in SourceAlerts, alert' = Inserted(s, r),
           run[r].pc \notin Over, run[r].pc \in Looping \ {"alerted"}, s \in run[r].todo
    PROVE  /\ \A q \in Runs \ {r} : AlertsKept(q)
           /\ \A e \in evidence : /\ alert'[e.alert] = alert[e.alert]
                                  /\ alert'[e.alert].status # "ABSENT"
           /\ \A t \in SourceAlerts \ {s} : alert'[t] = alert[t]
           /\ alert'[s].status # "ABSENT"
           /\ alert'[s].by = r => alert'[s].band = Shown(run[r].band)
<1>1. TypeOK /\ RInv(r)
  BY DEF IInv
<1>2. /\ \A t \in SourceAlerts : t # s \/ alert[s].status # "ABSENT" => alert'[t] = alert[t]
      /\ alert'[s].status # "ABSENT"
      /\ alert[s].status = "ABSENT" => alert'[s].by = r /\ alert'[s].band = Shown(run[r].band)
  BY <1>1, InsertedIs
<1>3. \A q \in Runs \ {r} : AlertsKept(q)
  BY <1>2 DEF AlertsKept
<1>4. \A e \in evidence : e.alert \in SourceAlerts /\ alert[e.alert].status # "ABSENT"
  BY <1>1 DEF IInv, InitialBandMatchesItsEvidence, TypeOK, EvidenceType
<1>5. alert[s].by # r
  BY <1>1 DEF RInv, LeftBehind
<1> QED BY <1>2, <1>3, <1>4, <1>5

LEMMA CreateAlertKeeps == ASSUME IInv, NEW r \in Runs, CreateAlert(r) PROVE IInv'
<1>1. TypeOK /\ RInv(r) /\ run \in [Runs -> RunType] /\ run[r].pc = "scored" /\ faults \in Nat
  BY ScoringAssumption DEF IInv, TypeOK, CreateAlert
<1>2. run' = [run EXCEPT ![r].pc = "alerted"] /\ alert' = Inserted(Item(r), r)
      /\ UNCHANGED <<evidence, status, environment>>
  BY DEF CreateAlert
<1>3. run' \in [Runs -> RunType]
  <2>1. \A x \in RunType : [x EXCEPT !.pc = "alerted"] \in RunType
    BY DEF RunType
  <2> QED BY <1>1, <1>2, <2>1
<1>4. /\ run'[r].pc = "alerted" /\ run'[r].todo = run[r].todo /\ run'[r].listed = run[r].listed
      /\ run'[r].bundle = run[r].bundle /\ run'[r].rules = run[r].rules
      /\ run'[r].processed = run[r].processed /\ run'[r].rejected = run[r].rejected
      /\ run'[r].band = run[r].band
      /\ run'[r].earlier = run[r].earlier /\ \A q \in Runs \ {r} : run'[q] = run[q]
  BY <1>1, <1>2 DEF RunType
<1>5. run[r].todo # {} /\ run[r].todo \subseteq SourceAlerts /\ Item(r) \in run[r].todo
  <2>1. run[r].todo # {} /\ run[r].todo \subseteq SourceAlerts
    BY <1>1 DEF RInv, LeftBehind, RunType
  <2> QED BY <2>1, ItemIsListed
<1>6. run[r].pc \notin Over /\ run[r].pc \in Looping \ {"alerted"}
  BY <1>1, <1>2 DEF Over, Looping, environment
<1>7. /\ \A q \in Runs \ {r} : AlertsKept(q)
      /\ \A e \in evidence : alert'[e.alert] = alert[e.alert] /\ alert'[e.alert].status # "ABSENT"
      /\ \A t \in SourceAlerts \ {Item(r)} : alert'[t] = alert[t]
      /\ alert'[Item(r)].status # "ABSENT"
      /\ alert'[Item(r)].by = r => alert'[Item(r)].band = Shown(run[r].band)
  BY <1>2, <1>5, <1>6, InsertKeeps
<1>8. TypeOK'
  <2>1. alert' \in [SourceAlerts -> AlertType]
    BY <1>1, <1>2, <1>5, InsertedIs
  <2> QED BY <1>1, <1>2, <1>3, <2>1 DEF TypeOK, environment, files
<1>9. IsFiniteSet(evidence)' /\ InitialBandMatchesItsEvidence' /\ EvidenceHonoursPins'
  BY <1>2, <1>7 DEF IInv, InitialBandMatchesItsEvidence, EvidenceHonoursPins, environment, files
<1>10. SequentialRetriesAddNothing'
  <2>1. \A f \in evidence : run'[f.run].earlier = run[f.run].earlier
    BY <1>1, <1>4 DEF TypeOK, EvidenceType
  <2> QED BY <1>2, <2>1 DEF IInv, SequentialRetriesAddNothing
<1>11. LeftBehind(r)'
  <2>1. Item(r)' = Item(r)
    BY <1>4 DEF Item
  <2>2. \A s \in run[r].todo : alert'[s].by = r => s = Item(r)
    BY <1>1, <1>5, <1>7 DEF RInv, LeftBehind, Looping
  <2>3. \A s \in run[r].todo : \A e \in evidence : e.run = r => e.alert # s
    BY <1>1 DEF RInv, LeftBehind, Looping
  <2> QED BY <1>2, <1>4, <1>5, <1>7, <2>1, <2>2, <2>3 DEF LeftBehind, Early, Looping
<1>12. Settled(r)'
  BY <1>1, <1>2, <1>4 DEF RInv, Settled, Bundled, Checked, environment, files
<1>13. Accounted(r)'
  <2>1. \A ok \in BOOLEAN : RowsOf(r, ok)' = RowsOf(r, ok)
    BY <1>2 DEF RowsOf
  <2> QED BY <1>1, <1>4, <2>1 DEF RInv, Accounted, Early
<1>14. Later(r)'
  <2>1. run[r].earlier \subseteq Runs
    BY <1>1 DEF RunType
  <2> QED BY <1>1, <1>2, <1>4, <2>1 DEF RInv, Later, Looping
<1>15. Recorded(r)'
  BY <1>1, <1>2, <1>4 DEF RInv, Recorded
<1>16. Complete(r)'
  <2>1. Left(r)' = Left(r) /\ RowsOf(r, FALSE)' = RowsOf(r, FALSE)
    BY <1>2, <1>4 DEF Left, Pending, RowsOf
  <2> QED BY <1>1, <1>2, <1>4, <2>1 DEF RInv, Complete, Looping
<1>17. RInv(r)'
  BY <1>11, <1>12, <1>13, <1>14, <1>15, <1>16 DEF RInv
<1>18. BundlesKept /\ \A q \in Runs \ {r} : EvidenceKept(q)
  BY <1>2 DEF BundlesKept, EvidenceKept, environment, files
<1> QED BY <1>2, <1>4, <1>6, <1>7, <1>8, <1>9, <1>10, <1>17, <1>18, StepOfOneRun

\* One more row of a run is one more in the count of its kind.
LEMMA OneMoreRow ==
    ASSUME NEW r, NEW x, IsFiniteSet(evidence), x \notin evidence, x.run = r,
           evidence' = evidence \cup {x}
    PROVE  /\ Cardinality(RowsOf(r, TRUE)) \in Nat /\ Cardinality(RowsOf(r, FALSE)) \in Nat
           /\ x.band # None => /\ Cardinality(RowsOf(r, TRUE)') = Cardinality(RowsOf(r, TRUE)) + 1
                               /\ RowsOf(r, FALSE)' = RowsOf(r, FALSE)
           /\ x.band = None => /\ Cardinality(RowsOf(r, FALSE)') = Cardinality(RowsOf(r, FALSE)) + 1
                               /\ RowsOf(r, TRUE)' = RowsOf(r, TRUE)
<1>1. \A ok \in BOOLEAN : RowsOf(r, ok) \subseteq evidence /\ x \notin RowsOf(r, ok)
  BY DEF RowsOf
<1>2. \A ok \in BOOLEAN : IsFiniteSet(RowsOf(r, ok)) /\ Cardinality(RowsOf(r, ok)) \in Nat
  BY <1>1, FS_Subset, FS_CardinalityType
<1>3. \A ok \in BOOLEAN : Cardinality(RowsOf(r, ok) \cup {x}) = Cardinality(RowsOf(r, ok)) + 1
  BY <1>1, <1>2, FS_AddElement
<1>4. CASE x.band # None
  <2>1. RowsOf(r, TRUE)' = RowsOf(r, TRUE) \cup {x} /\ RowsOf(r, FALSE)' = RowsOf(r, FALSE)
    BY <1>4 DEF RowsOf
  <2> QED BY <1>2, <1>3, <1>4, <2>1
<1>5. CASE x.band = None
  <2>1. RowsOf(r, FALSE)' = RowsOf(r, FALSE) \cup {x} /\ RowsOf(r, TRUE)' = RowsOf(r, TRUE)
    BY <1>5 DEF RowsOf
  <2> QED BY <1>2, <1>3, <1>5, <2>1
<1> QED BY <1>4, <1>5

\* An item is counted once, with its row or, after a fault, perhaps without.
LEMMA CountedKeeps ==
    ASSUME IInv, NEW r \in Runs, NEW ok \in BOOLEAN, Counted(r, ok),
           run[r].pc \in {"scored", "alerted"}, ok => run[r].band # None,
           alert' \in {alert, Inserted(Item(r), r)},
           evidence' \in {evidence, evidence \cup {EvidenceRow(r)}},
           run[r].pc = "scored" => evidence' = evidence,
           run[r].pc = "alerted" => alert' = alert,
           ok => evidence' = evidence \cup {EvidenceRow(r)},
           faults' \in 0 .. MaxFaults, UNCHANGED <<status, files>>
    PROVE  IInv'
<1> DEFINE i == Item(r)
           row == EvidenceRow(r)
<1>1. TypeOK /\ RInv(r) /\ run \in [Runs -> RunType] /\ faults \in Nat /\ run[r] \in RunType
  BY ScoringAssumption DEF IInv, TypeOK
<1>2. run[r].pc \notin Over /\ run[r].pc \in Looping \cap Bundled \cap Checked
  BY DEF Over, Looping, Bundled, Checked
<1>3. run[r].todo \subseteq SourceAlerts /\ i \in run[r].todo
  <2>1. run[r].todo # {} /\ run[r].todo \subseteq SourceAlerts
    BY <1>1 DEF RInv, LeftBehind, RunType
  <2> QED BY <2>1, ItemIsListed
<1>4. /\ row.alert = i /\ row.run = r /\ row.bundle = run[r].bundle /\ row.band = run[r].band
      /\ row.rules = run[r].rules /\ row \in EvidenceType
  BY <1>1, <1>2, <1>3, ScoringAssumption DEF EvidenceRow, EvidenceType, RInv, Settled, RunType
<1>5. row \notin evidence
  BY <1>1, <1>2, <1>3, <1>4 DEF RInv, LeftBehind
<1> HIDE DEF row
<1>6. /\ run'[r].pc = "looping" /\ run'[r].todo = run[r].todo \ {i} /\ run'[r].listed = run[r].listed
      /\ run'[r].bundle = run[r].bundle /\ run'[r].rules = run[r].rules
      /\ run'[r].processed = IF ok THEN run[r].processed + 1 ELSE run[r].processed
      /\ run'[r].rejected = IF ok THEN run[r].rejected ELSE run[r].rejected + 1
      /\ run'[r].earlier = run[r].earlier /\ run'[r].band = None
      /\ \A q \in Runs \ {r} : run'[q] = run[q]
  BY <1>1 DEF Counted, RunType
<1> HIDE DEF i
<1>7. evidence' = evidence \/ evidence' = evidence \cup {row}
  BY DEF row
<1>8. IsFiniteSet(evidence)'
  BY <1>7, FS_AddElement DEF IInv
<1>9. Accounted(r)'
  <2>1. IsFiniteSet(run[r].todo)
    BY <1>3, SourceAlertsAreFinite, FS_Subset
  <2>2. Cardinality(run[r].todo) \in Nat /\ Cardinality(run[r].todo \ {i}) = Cardinality(run[r].todo) - 1
    BY <1>3, <2>1, FS_CardinalityType, FS_RemoveElement
  <2>3. run[r].processed \in Nat /\ run[r].rejected \in Nat /\ run[r].listed \in Nat
    BY <1>1, ScoringAssumption DEF RunType
  <2>4. run'[r].processed + run'[r].rejected + Cardinality(run'[r].todo) = run'[r].listed
    BY <1>1, <1>6, <2>2, <2>3 DEF RInv, Accounted
  <2>5. /\ run'[r].processed <= Cardinality(RowsOf(r, TRUE)')
        /\ Cardinality(RowsOf(r, TRUE)') + Cardinality(RowsOf(r, FALSE)')
              <= run'[r].processed + run'[r].rejected
    <3> DEFINE good == Cardinality(RowsOf(r, TRUE))
               bad  == Cardinality(RowsOf(r, FALSE))
    <3>1. run[r].processed <= good /\ good + bad <= run[r].processed + run[r].rejected
      BY <1>1 DEF RInv, Accounted
    <3>2. CASE evidence' = evidence
      <4>1. /\ Cardinality(RowsOf(r, TRUE)') = Cardinality(RowsOf(r, TRUE))
            /\ Cardinality(RowsOf(r, FALSE)') = Cardinality(RowsOf(r, FALSE))
        BY <3>2 DEF RowsOf
      <4>2. IsFiniteSet(RowsOf(r, TRUE)) /\ IsFiniteSet(RowsOf(r, FALSE))
        BY FS_Subset DEF IInv, RowsOf
      <4>3. Cardinality(RowsOf(r, TRUE)) \in Nat /\ Cardinality(RowsOf(r, FALSE)) \in Nat
        BY <4>2, FS_CardinalityType
      <4>4. ~ ok
        BY <1>5, <3>2 DEF row
      <4>5. run'[r].processed = run[r].processed /\ run'[r].rejected = run[r].rejected + 1
        BY <1>6, <4>4
      <4> HIDE DEF good, bad
      <4>6. good \in Nat /\ bad \in Nat
        BY <4>3 DEF good, bad
      <4>7. /\ run'[r].processed <= good
            /\ good + bad <= run'[r].processed + run'[r].rejected
        BY <2>3, <3>1, <4>5, <4>6
      <4> QED BY <4>1, <4>7 DEF good, bad
    <3>3. CASE evidence' = evidence \cup {row}
      <4>1. IsFiniteSet(evidence)
        BY DEF IInv
      <4>2. /\ Cardinality(RowsOf(r, TRUE)) \in Nat /\ Cardinality(RowsOf(r, FALSE)) \in Nat
            /\ run[r].band # None =>
                  /\ Cardinality(RowsOf(r, TRUE)') = Cardinality(RowsOf(r, TRUE)) + 1
                  /\ Cardinality(RowsOf(r, FALSE)') = Cardinality(RowsOf(r, FALSE))
            /\ run[r].band = None =>
                  /\ Cardinality(RowsOf(r, FALSE)') = Cardinality(RowsOf(r, FALSE)) + 1
                  /\ Cardinality(RowsOf(r, TRUE)') = Cardinality(RowsOf(r, TRUE))
        BY <1>4, <1>5, <3>3, <4>1, OneMoreRow
      <4> HIDE DEF good, bad
      <4>3. good \in Nat /\ bad \in Nat
        BY <4>2 DEF good, bad
      <4>4. CASE run[r].band # None
        <5>1. /\ run'[r].processed <= good + 1
              /\ good + 1 + bad <= run'[r].processed + run'[r].rejected
          BY <1>6, <2>3, <3>1, <4>3
        <5> QED BY <4>2, <4>4, <5>1 DEF good, bad
      <4>5. CASE run[r].band = None
        <5>1. /\ run'[r].processed <= good
              /\ good + (bad + 1) <= run'[r].processed + run'[r].rejected
          BY <1>6, <2>3, <3>1, <4>3, <4>5
        <5> QED BY <4>2, <4>5, <5>1 DEF good, bad
      <4> QED BY <4>4, <4>5
    <3> QED BY <1>7, <3>2, <3>3
  <2> QED BY <1>6, <2>4, <2>5 DEF Accounted, Early
<1>10. run' \in [Runs -> RunType]
  <2>1. Cardinality(run'[r].todo) \in Nat
    BY <1>3, <1>6, SourceAlertsAreFinite, FS_Subset, FS_CardinalityType
  <2>2. run[r].processed \in Nat /\ run[r].rejected \in Nat /\ run[r].listed \in 0 .. N
    BY <1>1, ScoringAssumption DEF RunType
  <2>3. run'[r].processed \in 0 .. N /\ run'[r].rejected \in 0 .. N
    BY <1>6, <1>9, <2>1, <2>2, ScoringAssumption DEF Accounted
  <2>4. \A x \in RunType, t \in SUBSET SourceAlerts, m \in 0 .. N, n \in 0 .. N :
           [x EXCEPT !.pc = "looping", !.todo = t, !.band = None, !.processed = m, !.rejected = n]
              \in RunType
    BY DEF RunType
  <2> DEFINE new == [run[r] EXCEPT !.pc = "looping", !.todo = run[r].todo \ {i}, !.band = None,
                                   !.processed = run'[r].processed, !.rejected = run'[r].rejected]
  <2>5. run' = [run EXCEPT ![r] = new]
    <3>1. run' = [run EXCEPT ![r] = [run[r] EXCEPT !.pc = "looping", !.todo = run[r].todo \ {i}, !.band = None,
                                         !.processed = IF ok THEN run[r].processed + 1 ELSE run[r].processed,
                                         !.rejected = IF ok THEN run[r].rejected ELSE run[r].rejected + 1]]
      BY <1>1 DEF Counted, i
    <3>2. /\ (IF ok THEN run[r].processed + 1 ELSE run[r].processed) = run'[r].processed
          /\ (IF ok THEN run[r].rejected ELSE run[r].rejected + 1) = run'[r].rejected
      BY <1>6
    <3> QED BY <3>1, <3>2, Zenon
  <2>6. new \in RunType
    <3>1. run[r].todo \ {i} \in SUBSET SourceAlerts
      BY <1>3
    <3> QED BY <1>1, <2>3, <2>4, <3>1
  <2> HIDE DEF new
  <2> QED BY <1>1, <2>5, <2>6
<1>11. TypeOK'
  <2>1. alert' \in [SourceAlerts -> AlertType]
    BY <1>1, <1>3, InsertedIs DEF i, TypeOK
  <2> QED BY <1>1, <1>4, <1>7, <1>10, <2>1 DEF TypeOK, files
<1>12. /\ \A q \in Runs \ {r} : AlertsKept(q)
       /\ \A e \in evidence : alert'[e.alert] = alert[e.alert] /\ alert'[e.alert].status # "ABSENT"
       /\ \A t \in SourceAlerts \ {i} : alert'[t] = alert[t]
  <2>1. CASE alert' = alert
    BY <2>1 DEF AlertsKept, IInv, InitialBandMatchesItsEvidence
  <2>2. CASE alert' = Inserted(Item(r), r) /\ run[r].pc = "scored"
    BY <1>2, <1>3, <2>2, InsertKeeps DEF i
  <2> QED BY <2>1, <2>2
<1>13. InitialBandMatchesItsEvidence'
  <2>1. SUFFICES ASSUME evidence' = evidence \cup {row}
                 PROVE  /\ alert'[row.alert].status # "ABSENT"
                        /\ alert'[row.alert].by = row.run =>
                              alert'[row.alert].band = Shown(row.band)
    BY <1>7, <1>12 DEF IInv, InitialBandMatchesItsEvidence, Shown
  <2>2. run[r].pc = "alerted" /\ alert' = alert
    BY <1>5, <2>1
  <2> QED BY <1>1, <1>4, <2>2 DEF RInv, LeftBehind, i
<1>14. EvidenceHonoursPins'
  <2>1. row.rules = Pinned[row.bundle] /\ row.bundle \in retired \cup {current[Channel]}
    BY <1>1, <1>2, <1>4 DEF RInv, Settled
  <2> QED BY <1>7, <2>1 DEF IInv, EvidenceHonoursPins, files
<1>15. SequentialRetriesAddNothing'
  <2>1. \A f \in evidence : f.run \in Runs /\ run'[f.run].earlier = run[f.run].earlier
    BY <1>1, <1>6 DEF TypeOK, EvidenceType
  <2>2. \A q \in Runs : r \notin run[q].earlier
    BY <1>2 DEF IInv, RInv, Later
  <2>3. \A e \in evidence : e.alert = row.alert /\ e.bundle = row.bundle => e.run \notin run'[r].earlier
    BY <1>1, <1>2, <1>3, <1>4, <1>6 DEF RInv, Later
  <2> QED BY <1>4, <1>6, <1>7, <2>1, <2>2, <2>3 DEF IInv, SequentialRetriesAddNothing
<1>16. Settled(r)'
  BY <1>1, <1>2, <1>6 DEF RInv, Settled, files
<1>17. LeftBehind(r)'
  <2>1. \A s \in run[r].todo \ {i} : /\ \A e \in evidence' : e.run = r => e.alert # s
                                     /\ alert'[s].by # r
    BY <1>1, <1>2, <1>3, <1>4, <1>7, <1>12 DEF RInv, LeftBehind, i
  <2> QED BY <1>6, <2>1 DEF LeftBehind, Early
<1>18. Later(r)'
  <2>1. run[r].earlier \subseteq Runs
    BY <1>1 DEF RunType
  <2>2. \A q \in run'[r].earlier : q # r /\ run'[q].pc \in Over
    BY <1>1, <1>6, <2>1 DEF RInv, Later
  <2>3. \A e \in evidence : e.alert \in run'[r].todo /\ e.bundle = run[r].bundle => e.run \notin run[r].earlier
    BY <1>1, <1>2, <1>6 DEF RInv, Later
  <2> QED BY <1>4, <1>6, <1>7, <2>2, <2>3 DEF Later
<1>19. Recorded(r)'
  BY <1>1, <1>6 DEF RInv, Recorded
<1>20. Complete(r)'
  <2>1. SUFFICES ASSUME run[r].listed < Limit
                 PROVE  Cardinality(Left(r)') + Cardinality(RowsOf(r, FALSE)') <= run'[r].rejected
    BY <1>6 DEF Complete
  <2>2. Cardinality(Left(r)) + Cardinality(RowsOf(r, FALSE)) <= run[r].rejected
    BY <1>1, <1>2, <2>1 DEF RInv, Complete
  <2>3. run[r].rejected \in Nat /\ run'[r].rejected \in Nat /\ run'[r].rejected >= run[r].rejected
    BY <1>1, <1>6, ScoringAssumption DEF RunType
  <2>4. /\ Cardinality(Left(r)) \in Nat /\ Cardinality(RowsOf(r, FALSE)) \in Nat
        /\ Cardinality(Left(r)') \in Nat /\ Cardinality(RowsOf(r, FALSE)') \in Nat
        /\ IsFiniteSet(Left(r))
    <3>1. IsFiniteSet(RowsOf(r, FALSE)) /\ IsFiniteSet(RowsOf(r, FALSE)')
      BY <1>8, FS_Subset DEF IInv, RowsOf
    <3>2. Left(r)' \subseteq SourceAlerts
      BY DEF Left, Pending
    <3> QED BY <3>1, <3>2, LeftIsFinite, SourceAlertsAreFinite, FS_Subset, FS_CardinalityType
  <2>5. CASE evidence' = evidence \cup {row}
    <3>1. Left(r)' \subseteq Left(r)
      BY <1>4, <1>6, <2>5 DEF Left, Pending
    <3>2. Cardinality(Left(r)') <= Cardinality(Left(r))
      BY <2>4, <3>1, FS_Subset
    <3>3. /\ run[r].band # None => Cardinality(RowsOf(r, FALSE)') = Cardinality(RowsOf(r, FALSE))
          /\ run[r].band = None => Cardinality(RowsOf(r, FALSE)') = Cardinality(RowsOf(r, FALSE)) + 1
      BY <1>4, <1>5, <2>5, OneMoreRow DEF IInv
    <3>4. run[r].band = None => run'[r].rejected = run[r].rejected + 1
      BY <1>6
    <3> QED BY <2>2, <2>3, <2>4, <3>2, <3>3, <3>4, OneMoreRejected
  <2>6. CASE evidence' = evidence
    <3>1. Left(r)' \subseteq Left(r) \cup {i}
      BY <1>6, <2>6 DEF Left, Pending
    <3>2. /\ IsFiniteSet(Left(r) \cup {i}) /\ Cardinality(Left(r)') <= Cardinality(Left(r) \cup {i})
          /\ Cardinality(Left(r) \cup {i}) \in Nat
      BY <2>4, <3>1, FS_AddElement, FS_Subset, FS_CardinalityType
    <3>3. Cardinality(Left(r) \cup {i}) = Cardinality(Left(r))
             \/ Cardinality(Left(r) \cup {i}) = Cardinality(Left(r)) + 1
      BY <2>4, FS_AddElement
    <3>4. Cardinality(Left(r)') <= Cardinality(Left(r)) + 1
      BY <2>4, <3>2, <3>3
    <3>5. Cardinality(RowsOf(r, FALSE)') = Cardinality(RowsOf(r, FALSE))
      BY <2>6 DEF RowsOf
    <3>6. run'[r].rejected = run[r].rejected + 1
      BY <1>5, <1>6, <2>6 DEF row
    <3> QED BY <2>2, <2>3, <2>4, <3>4, <3>5, <3>6, OneMoreRejected
  <2> QED BY <1>7, <2>5, <2>6
<1>21. RInv(r)'
  BY <1>9, <1>16, <1>17, <1>18, <1>19, <1>20 DEF RInv
<1>22. BundlesKept /\ \A q \in Runs \ {r} : EvidenceKept(q)
  BY <1>2, <1>4, <1>7 DEF BundlesKept, EvidenceKept, files
<1> QED BY <1>2, <1>6, <1>8, <1>11, <1>12, <1>13, <1>14, <1>15, <1>21, <1>22, StepOfOneRun

LEMMA RecordEvidenceKeeps == ASSUME IInv, NEW r \in Runs, RecordEvidence(r) PROVE IInv'
<1>1. faults \in 0 .. MaxFaults
  BY ScoringAssumption DEF IInv, TypeOK
<1>2. Counted(r, run[r].band # None)
  BY Zenon DEF RecordEvidence
<1>3. run[r].pc = "alerted" /\ evidence' = evidence \cup {EvidenceRow(r)}
      /\ alert' = alert /\ UNCHANGED <<status, files>> /\ faults' = faults
  BY DEF RecordEvidence, environment
<1>4. \A ok \in BOOLEAN : Counted(r, ok) /\ (ok => run[r].band # None) => IInv'
  BY <1>1, <1>3, CountedKeeps
<1> QED BY <1>2, <1>4, Zenon

LEMMA WriteFailsKeeps == ASSUME IInv, NEW r \in Runs, WriteFails(r) PROVE IInv'
<1>1. faults \in Nat /\ faults' = faults + 1 /\ faults' \in 0 .. MaxFaults
  BY ScoringAssumption DEF IInv, TypeOK, WriteFails, Fault
<1> QED BY <1>1, CountedKeeps DEF WriteFails

-----------------------------------------------------------------------------
(* The environment's steps.                                                 *)

LEMMA EnvironmentKeeps ==
    ASSUME IInv, TypeOK', UNCHANGED <<evidence, run, status, faults>>, BundlesKept,
           \A s \in SourceAlerts : /\ alert'[s].by = alert[s].by /\ alert'[s].band = alert[s].band
                                   /\ alert[s].status # "ABSENT" => alert'[s].status # "ABSENT"
    PROVE  IInv'
<1>1. \A q \in Runs : AlertsKept(q) /\ EvidenceKept(q)
  BY DEF AlertsKept, EvidenceKept
<1>2. OverKept
  BY DEF OverKept
<1>3. \A q \in Runs : RInv(q)'
  <2>1. SUFFICES ASSUME NEW q \in Runs PROVE RInv(q)'
    OBVIOUS
  <2>2. run'[q] = run[q] /\ status'[q] = status[q] /\ TypeOK /\ RInv(q) /\ IsFiniteSet(evidence)
    BY DEF IInv
  <2> QED BY <1>1, <1>2, <2>2, BystanderKeeps
<1>4. InitialBandMatchesItsEvidence'
  BY DEF IInv, TypeOK, EvidenceType, InitialBandMatchesItsEvidence
<1>5. EvidenceHonoursPins'
  BY DEF IInv, TypeOK, EvidenceType, EvidenceHonoursPins, BundlesKept
<1>6. SequentialRetriesAddNothing' /\ IsFiniteSet(evidence)'
  BY DEF IInv, SequentialRetriesAddNothing
<1> QED BY <1>3, <1>4, <1>5, <1>6 DEF IInv

LEMMA PromotionKeeps == ASSUME IInv, Promotion PROVE IInv'
<1>1. PICK b \in Bundles :
         /\ retired' = retired \cup ({current[Channel]} \ {None})
         /\ current' = [current EXCEPT ![Channel] = b]
  BY DEF Promotion, Bank!Next, Bank!Switch
<1>2. TypeOK
  BY DEF IInv
<1>3. TypeOK' /\ UNCHANGED <<alert, evidence, run, status, faults>>
  BY <1>1, <1>2 DEF TypeOK, Promotion
<1>4. BundlesKept
  <2>1. None \notin Bundles
    BY ScoringAssumption
  <2> QED BY <1>1, <1>2, <2>1 DEF BundlesKept, TypeOK
<1> QED BY <1>3, <1>4, EnvironmentKeeps

LEMMA EditPolicyKeeps == ASSUME IInv, EditPolicy PROVE IInv'
<1>1. TypeOK' /\ BundlesKept
  BY DEF IInv, TypeOK, EditPolicy, BundlesKept
<1> QED BY <1>1, EnvironmentKeeps DEF EditPolicy

LEMMA DisposeKeeps == ASSUME IInv, NEW s \in SourceAlerts, Dispose(s) PROVE IInv'
<1>1. PICK new \in {"IN_REVIEW", "CLOSED"} : alert' = [alert EXCEPT ![s].status = new]
  BY DEF Dispose
<1>2. alert \in [SourceAlerts -> AlertType] /\ UNCHANGED <<evidence, run, status, files, faults>>
  BY DEF IInv, TypeOK, Dispose, environment
<1>3. alert' \in [SourceAlerts -> AlertType]
  <2>1. \A x \in AlertType : [x EXCEPT !.status = new] \in AlertType
    BY DEF AlertType
  <2> QED BY <1>1, <1>2, <2>1
<1>4. TypeOK' /\ BundlesKept
  BY <1>2, <1>3 DEF IInv, TypeOK, BundlesKept, files
<1>5. \A t \in SourceAlerts : /\ alert'[t].by = alert[t].by /\ alert'[t].band = alert[t].band
                              /\ alert[t].status # "ABSENT" => alert'[t].status # "ABSENT"
  BY <1>1, <1>2 DEF AlertType
<1> QED BY <1>2, <1>4, <1>5, EnvironmentKeeps

-----------------------------------------------------------------------------
(* The theorems.                                                            *)

LEMMA InitEstablishes == ASSUME Init PROVE IInv
<1>1. TypeOK
  BY ScoringAssumption DEF Init, TypeOK, AlertType, EvidenceType, RunType, Bank!Init
<1>2. evidence = {} /\ IsFiniteSet(evidence)
  BY FS_EmptySet DEF Init
<1>3. InitialBandMatchesItsEvidence /\ EvidenceHonoursPins /\ SequentialRetriesAddNothing
  BY <1>2 DEF InitialBandMatchesItsEvidence, EvidenceHonoursPins, SequentialRetriesAddNothing
<1>4. ASSUME NEW r \in Runs PROVE RInv(r)
  <2>1. /\ run[r].pc = "idle" /\ run[r].todo = {} /\ run[r].listed = 0 /\ run[r].processed = 0
        /\ run[r].rejected = 0 /\ run[r].earlier = {} /\ status[r] = "ABSENT"
    BY DEF Init
  <2>2. \A s \in SourceAlerts : alert[s].by # r
    BY ScoringAssumption DEF Init
  <2>3. Settled(r) /\ LeftBehind(r) /\ Later(r) /\ Recorded(r) /\ Complete(r)
    BY <1>2, <2>1, <2>2 DEF Settled, LeftBehind, Later, Recorded, Complete, Bundled, Checked, Looping
  <2>4. Accounted(r)
    <3>1. RowsOf(r, TRUE) = {} /\ RowsOf(r, FALSE) = {} /\ Cardinality({}) = 0
      BY <1>2, FS_EmptySet DEF RowsOf
    <3>2. Cardinality(RowsOf(r, TRUE)) = 0 /\ Cardinality(RowsOf(r, FALSE)) = 0
          /\ Cardinality(run[r].todo) = 0
      BY <2>1, <3>1
    <3>3. run[r].processed + run[r].rejected + Cardinality(run[r].todo) = run[r].listed
      BY <2>1, <3>2
    <3> DEFINE good == Cardinality(RowsOf(r, TRUE))
               bad  == Cardinality(RowsOf(r, FALSE))
    <3>4. good = 0 /\ bad = 0
      BY <3>2
    <3> HIDE DEF good, bad
    <3>5. run[r].processed <= good /\ good + bad <= run[r].processed + run[r].rejected
      BY <2>1, <3>4
    <3> QED BY <2>1, <3>3, <3>5 DEF Accounted, good, bad
  <2> QED BY <2>3, <2>4 DEF RInv
<1> QED BY <1>1, <1>2, <1>3, <1>4 DEF IInv

LEMMA StutterKeeps == ASSUME IInv, UNCHANGED vars PROVE IInv'
<1>1. TypeOK' /\ BundlesKept
  BY DEF IInv, TypeOK, BundlesKept, vars
<1> QED BY <1>1, EnvironmentKeeps DEF vars

\* The invariant is inductive: every step of a run and of its environment keeps it.
THEOREM Inductive == Spec => []IInv
<1>1. Init => IInv
  BY InitEstablishes
<1>2. IInv /\ [Next]_vars => IInv'
  <2>1. SUFFICES ASSUME IInv, [Next]_vars PROVE IInv'
    OBVIOUS
  <2>2. CASE Promotion
    BY <2>1, <2>2, PromotionKeeps
  <2>3. CASE EditPolicy
    BY <2>1, <2>3, EditPolicyKeeps
  <2>4. CASE \E s \in SourceAlerts : Dispose(s)
    BY <2>1, <2>4, DisposeKeeps
  <2>5. ASSUME NEW r \in Runs, Continue(r) PROVE IInv'
    BY <2>1, <2>5, ReadBundleKeeps, CheckPoliciesKeeps, ListPendingKeeps, ScoreKeeps,
       CreateAlertKeeps, RecordEvidenceKeeps, EndKeeps DEF Continue
  <2>6. ASSUME NEW r \in Runs, Begin(r) \/ WriteFails(r) \/ SetupFails(r) \/ Die(r) PROVE IInv'
    BY <2>1, <2>6, BeginKeeps, WriteFailsKeeps, SetupFailsKeeps, DieKeeps
  <2>7. CASE UNCHANGED vars
    BY <2>1, <2>7, StutterKeeps
  <2> QED BY <2>1, <2>2, <2>3, <2>4, <2>5, <2>6, <2>7 DEF Next
<1> QED BY <1>1, <1>2, PTL DEF Spec

\* Every variable keeps its type, the counters of a run included: they never
\* exceed the number of source alerts.
THEOREM TypeCorrect == Spec => []TypeOK
<1>1. IInv => TypeOK
  BY DEF IInv
<1> QED BY <1>1, Inductive, PTL

\* Whatever bundles are promoted and policies edited while runs score, every
\* row of alert_evidence was computed with what its bundle pins.
THEOREM EvidenceIsPinned == Spec => []EvidenceHonoursPins
<1>1. IInv => EvidenceHonoursPins
  BY DEF IInv
<1> QED BY <1>1, Inductive, PTL

\* Any number of runs race for an alert: its initial band is that of the
\* evidence of the run whose INSERT won.
THEOREM BandIsTheWinners == Spec => []InitialBandMatchesItsEvidence
<1>1. IInv => InitialBandMatchesItsEvidence
  BY DEF IInv
<1> QED BY <1>1, Inductive, PTL

\* A retry begun after a run has ended or died scores for its bundle only
\* what that run left without evidence.
THEOREM RetriesAddNothing == Spec => []SequentialRetriesAddNothing
<1>1. IInv => SequentialRetriesAddNothing
  BY DEF IInv
<1> QED BY <1>1, Inductive, PTL

\* The counters of a run record never claim a row that was not written.
THEOREM CountersAccount == Spec => []RunAccountsForItsRows
<1>1. IInv => RunAccountsForItsRows
  <2>1. SUFFICES ASSUME IInv, NEW r \in Runs
                 PROVE  Accounted(r) /\ (status[r] = "SUCCESS" =>
                                            run[r].processed + run[r].rejected = run[r].listed)
    BY DEF RunAccountsForItsRows, Accounted
  <2>2. RInv(r) /\ run[r] \in RunType
    <3>1. TypeOK /\ RInv(r)
      BY <2>1 DEF IInv
    <3> QED BY <3>1 DEF TypeOK
  <2>3. Accounted(r) /\ Recorded(r)
    BY <2>2 DEF RInv
  <2>4. status[r] = "SUCCESS" => Cardinality(run[r].todo) = 0
    BY <2>3, FS_EmptySet DEF Recorded
  <2>5. run[r].processed + run[r].rejected \in Nat
    BY <2>2, ScoringAssumption DEF RunType
  <2>6. run[r].processed + run[r].rejected + Cardinality(run[r].todo) = run[r].listed
    BY <2>3 DEF Accounted
  <2>7. status[r] = "SUCCESS" => run[r].processed + run[r].rejected = run[r].listed
    BY <2>4, <2>5, <2>6
  <2> QED BY <2>3, <2>7
<1> QED BY <1>1, Inductive, PTL

\* Whatever writes fail and whoever scores beside it, a SUCCESS below the limit
\* has rejected every alert it leaves pending, over and above its catastrophic rows.
THEOREM SuccessIsComplete == Spec => []SuccessRejectsWhatItLeaves
<1>1. IInv => SuccessRejectsWhatItLeaves
  <2> SUFFICES ASSUME IInv, NEW r \in Runs, status[r] = "SUCCESS", run[r].listed < Limit
               PROVE  Cardinality(Pending(run[r].bundle)) + Cardinality(RowsOf(r, FALSE)) <= run[r].rejected
    BY DEF SuccessRejectsWhatItLeaves
  <2>1. Recorded(r) /\ Complete(r)
    BY DEF IInv, RInv
  <2>2. Left(r) = Pending(run[r].bundle)
    BY <2>1 DEF Recorded, Left
  <2> QED BY <2>1, <2>2 DEF Complete
<1> QED BY <1>1, Inductive, PTL

\* An alert that exists keeps its winner and its initial band, and CLOSED is
\* final, whatever runs and analysts do next.
THEOREM AlertsAreFrozen == Spec => AlertIdentityIsFrozen
<1> DEFINE Frozen(s) == alert[s].status # "ABSENT" =>
              /\ alert'[s].band = alert[s].band /\ alert'[s].by = alert[s].by
              /\ alert'[s].status # "OPEN" \/ alert[s].status = "OPEN"
              /\ alert[s].status = "CLOSED" => alert'[s].status = "CLOSED"
<1>1. IInv /\ [Next]_vars => [\A s \in SourceAlerts : Frozen(s)]_vars
  <2>1. SUFFICES ASSUME IInv, Next, NEW s \in SourceAlerts PROVE Frozen(s)
    OBVIOUS
  <2>2. alert \in [SourceAlerts -> AlertType]
    BY <2>1 DEF IInv, TypeOK
  <2>3. ASSUME NEW t \in SourceAlerts, Dispose(t) PROVE Frozen(s)
    BY <2>2, <2>3 DEF Dispose, AlertType
  <2>4. ASSUME NEW r \in Runs, alert' = Inserted(Item(r), r) PROVE Frozen(s)
    <3>1. alert[s].status # "ABSENT" => alert'[s] = alert[s]
      BY <2>2, <2>4 DEF Inserted
    <3> QED BY <3>1
  <2>5. CASE alert' = alert
    BY <2>5
  <2>6. \/ alert' = alert
        \/ \E t \in SourceAlerts : Dispose(t)
        \/ \E r \in Runs : alert' = Inserted(Item(r), r)
    BY <2>1 DEF Next, Promotion, EditPolicy, Begin, Continue, ReadBundle, CheckPolicies, ListPending,
                Score, CreateAlert, RecordEvidence, WriteFails, SetupFails, Die, Abort, Finish,
                RecordFailure, End, tables
  <2> QED BY <2>3, <2>4, <2>5, <2>6
<1> QED BY <1>1, Inductive, PTL DEF Spec, AlertIdentityIsFrozen

\* The fraud_score rows implement the run record: they appear RUNNING once
\* and are ended at most once, SUCCESS from RUNNING only.
THEOREM RecordsAreImplemented == Spec => ImplementsRunRecords
<1>1. Init => Records!Init
  BY DEF Init, Records!Init
<1>2. IInv /\ [Next]_vars => [Records!Next]_status
  <2>1. SUFFICES ASSUME IInv, Next, status' # status PROVE Records!Next
    BY DEF vars
  <2>2. PICK r \in Runs : Begin(r) \/ Finish(r) \/ RecordFailure(r)
    BY <2>1 DEF Next, Promotion, EditPolicy, Dispose, Continue, ReadBundle, CheckPolicies, ListPending,
                Score, CreateAlert, RecordEvidence, WriteFails, SetupFails, Die, Abort
  <2>3. Recorded(r) /\ status \in [Runs -> {"ABSENT", "RUNNING", "SUCCESS", "FAILED"}]
    <3>1. RInv(r) /\ TypeOK
      BY <2>1 DEF IInv
    <3> QED BY <3>1 DEF RInv, TypeOK
  <2>4. CASE Begin(r)
    <3>1. Records!Appear(r)
      BY <2>3, <2>4 DEF Begin, Recorded, Records!Appear, Records!Open
    <3> QED BY <3>1 DEF Records!Next
  <2>5. CASE Finish(r) \/ RecordFailure(r)
    <3>1. \E s \in {"SUCCESS", "FAILED"} : status' = [status EXCEPT ![r] = s] /\ status[r] = "RUNNING"
      BY <2>3, <2>5 DEF Finish, RecordFailure, End, Recorded
    <3>2. \E s \in Records!Terminal : Records!EndWith(r, s)
      BY <3>1 DEF Records!EndWith, Records!Terminal, Records!Open
    <3> QED BY <3>2 DEF Records!Next
  <2> QED BY <2>2, <2>4, <2>5
<1> QED BY <1>1, <1>2, Inductive, PTL DEF Spec, ImplementsRunRecords, Records!Spec
=============================================================================
