----------------------- MODULE LabelEligibilityProofs -----------------------
(***************************************************************************)
(* Theorems about LabelEligibility for any finite set of alerts, any       *)
(* number of analysts' tickets and runs, any window, and any clock.        *)
(***************************************************************************)
EXTENDS LabelEligibility, FiniteSetTheorems, WellFoundedInduction, TLAPS

-----------------------------------------------------------------------------
(* The inductive invariant.                                                 *)

Looping == {"looping", "waiting", "locked", "inserting"}
Working == {"waiting", "locked", "inserting"}
Over    == {"ended", "dead"}

\* A run past the load, or recorded as SUCCESS.
Loaded(r) == run[r].pc \in Looping \/ status[r] = "SUCCESS"

\* Every ticket under way has its alert and its verdict.
Filed(d) == ticket[d].pc # "idle" => ticket[d].alert \in Alerts /\ ticket[d].kind \in Kinds

\* A basis is the ground truth, or what a disposition still says.
Supported(a, b) ==
    IF b.source = 0 THEN b.label = Truth[a]
    ELSE /\ b.source \in DOMAIN dispositions[a]
         /\ b.since = dispositions[a][b.source].at
         /\ b.label = Resolve(dispositions[a][b.source].kind)

\* The clock never runs ahead of what was stamped with it.
Timed(r) == /\ run[r].now <= clock /\ run[r].at <= clock
            /\ run[r].pc \in Working => run[r].at >= run[r].now

\* The item at hand is locked from the comparison to the insert.
Holds(r) == /\ run[r].pc \in Working => run[r].item \in run[r].todo
            /\ run[r].pc \in {"locked", "inserting"} => lock[run[r].item] = r
            /\ run[r].pc = "inserting" => ~ Unchanged(r)

Based(r) == Loaded(r) => /\ run[r].bases \in [Alerts -> BasisType]
                         /\ \A a \in Alerts : Supported(a, run[r].bases[a])

\* The counters are what the run has done of its list.
Counted(r) ==
    /\ run[r].pc \in {"idle", "begun"} => /\ RowsBy(r) = {}
                                          /\ run[r].inserted = 0 /\ run[r].unchanged = 0
    /\ Loaded(r) => /\ run[r].inserted + run[r].unchanged + Cardinality(run[r].todo)
                          = Cardinality(Alerts)
                    /\ IsFiniteSet(RowsBy(r)) /\ Cardinality(RowsBy(r)) = run[r].inserted

\* No other run has overlapped this one.
Sole(r) == \A q \in Runs \ {r} : run[q].pc = "idle" \/ q \in run[r].earlier

Settled(r, a) ==
    assessments[a][LatestIn(assessments[a])].fields = Assess(run[r].bases[a], run[r].now)

Alone(r) ==
    /\ \A q \in run[r].earlier : q # r /\ run[q].pc \in Over
    /\ Sole(r) /\ Loaded(r) => \A a \in Alerts \ run[r].todo : Settled(r, a)
    /\ Sole(r) /\ run[r].pc \in Working =>
          \A a \in Alerts : \A i \in DOMAIN assessments[a] : assessments[a][i].at <= run[r].at

\* The run record follows the run.
Recorded(r) ==
    /\ status[r] = "ABSENT" <=> run[r].pc = "idle"
    /\ status[r] \in {"SUCCESS", "FAILED"} <=> run[r].pc = "ended"
    /\ status[r] = "SUCCESS" => run[r].todo = {}

RInv(r) == Timed(r) /\ Holds(r) /\ Based(r) /\ Counted(r) /\ Alone(r) /\ Recorded(r)

\* No row is stamped later than now.
Stamped == \A a \in Alerts : \A i \in DOMAIN assessments[a] : assessments[a][i].at <= clock

IInv == /\ TypeOK
        /\ ClosedByExactlyOneVerdict
        /\ EligibleLabelsAreEarned
        /\ Stamped
        /\ \A d \in Tickets : Filed(d)
        /\ \A r \in Runs : RInv(r)

-----------------------------------------------------------------------------
(* Rows in order of their timestamps.                                       *)

\* Row i is the one ORDER BY <timestamp> DESC, <id> DESC puts first.
IsLatest(rows, i) == \A j \in DOMAIN rows : \/ rows[j].at < rows[i].at
                                            \/ rows[j].at = rows[i].at /\ j <= i

LEMMA AppendKeeps ==
    ASSUME NEW S, NEW rows \in Seq(S), NEW x \in S
    PROVE  /\ Append(rows, x) \in Seq(S)
           /\ Len(Append(rows, x)) = Len(rows) + 1 /\ Len(rows) \in Nat
           /\ DOMAIN rows = 1 .. Len(rows)
           /\ DOMAIN Append(rows, x) = DOMAIN rows \cup {Len(rows) + 1}
           /\ Len(rows) + 1 \notin DOMAIN rows
           /\ \A i \in DOMAIN rows : Append(rows, x)[i] = rows[i]
           /\ Append(rows, x)[Len(rows) + 1] = x
<1>1. /\ Append(rows, x) \in Seq(S) /\ Len(Append(rows, x)) = Len(rows) + 1 /\ Len(rows) \in Nat
      /\ \A i \in 1 .. Len(rows) : Append(rows, x)[i] = rows[i]
      /\ Append(rows, x)[Len(rows) + 1] = x
  OBVIOUS
<1>2. DOMAIN rows = 1 .. Len(rows) /\ DOMAIN Append(rows, x) = 1 .. Len(rows) + 1
  BY <1>1
<1> QED BY <1>1, <1>2

\* No two rows come first.
LEMMA LatestIsUnique ==
    ASSUME NEW rows, DOMAIN rows \subseteq Nat, \A j \in DOMAIN rows : rows[j].at \in Nat,
           NEW i \in DOMAIN rows, IsLatest(rows, i)
    PROVE  LatestIn(rows) = i
<1>1. LatestIn(rows) = CHOOSE k \in DOMAIN rows : IsLatest(rows, k)
  BY DEF LatestIn, IsLatest
<1>2. ASSUME NEW k \in DOMAIN rows, IsLatest(rows, k) PROVE k = i
  BY <1>2 DEF IsLatest
<1> QED BY <1>1, <1>2

\* A non-empty set of naturals has a least element ...
LEMMA LeastExists ==
    ASSUME NEW S \in SUBSET Nat, S # {}
    PROVE  \E s \in S : \A t \in S : s <= t
<1> DEFINE Less == {ss \in Nat \X Nat : ss[1] < ss[2]}
<1>1. IsWellFoundedOn(Less, Nat)
  BY NatLessThanWellFounded DEF OpToRel
<1>2. PICK s \in S : \A t \in S : ~ (<<t, s>> \in Less)
  <2> HIDE DEF Less
  <2> QED BY <1>1, WFMin
<1>3. \A t \in S : ~ (t < s)
  BY <1>2
<1> QED BY <1>3

\* ... and a bounded one a greatest.
LEMMA GreatestExists ==
    ASSUME NEW n \in Nat, NEW S \in SUBSET (0 .. n), S # {}
    PROVE  \E s \in S : \A t \in S : t <= s
<1> DEFINE D == {n - s : s \in S}
<1>1. D \in SUBSET Nat /\ D # {}
  <2>1. \A s \in S : n - s \in Nat
    OBVIOUS
  <2>2. PICK s \in S : TRUE
    OBVIOUS
  <2> QED BY <2>1, <2>2
<1>2. PICK d \in D : \A e \in D : d <= e
  <2> HIDE DEF D
  <2> QED BY <1>1, LeastExists
<1>3. PICK s \in S : d = n - s
  OBVIOUS
<1>4. \A t \in S : n - s <= n - t
  BY <1>2, <1>3
<1> QED BY <1>3, <1>4

\* So a non-empty table has a latest row.
LEMMA LatestExists ==
    ASSUME NEW S, NEW rows \in Seq(S), rows # <<>>, NEW m \in Nat,
           \A j \in DOMAIN rows : rows[j].at \in 0 .. m
    PROVE  LatestIn(rows) \in DOMAIN rows
<1>1. Len(rows) \in Nat \ {0} /\ DOMAIN rows = 1 .. Len(rows)
  OBVIOUS
<1> DEFINE Times == {rows[j].at : j \in DOMAIN rows}
<1>2. Times \in SUBSET (0 .. m) /\ Times # {}
  BY <1>1
<1>3. PICK last \in Times : \A t \in Times : t <= last
  <2> HIDE DEF Times
  <2> QED BY <1>2, GreatestExists
<1> DEFINE Last == {j \in DOMAIN rows : rows[j].at = last}
<1>4. Last \in SUBSET (0 .. Len(rows)) /\ Last # {}
  BY <1>1, <1>3
<1>5. PICK i \in Last : \A j \in Last : j <= i
  <2> HIDE DEF Last
  <2> QED BY <1>1, <1>4, GreatestExists
<1>6. i \in DOMAIN rows /\ rows[i].at = last /\ last \in 0 .. m
  BY <1>2, <1>5
<1> HIDE DEF Last, Times
<1>7. ASSUME NEW j \in DOMAIN rows PROVE rows[j].at < last \/ (rows[j].at = last /\ j <= i)
  <2>1. rows[j].at <= last /\ rows[j].at \in 0 .. m
    BY <1>3 DEF Times
  <2>2. rows[j].at = last => j <= i
    BY <1>5 DEF Last
  <2>3. \A x, y \in 0 .. m : x <= y => x < y \/ x = y
    OBVIOUS
  <2> QED BY <1>6, <2>1, <2>2, <2>3, Zenon
<1>8. \E k \in DOMAIN rows : \A j \in DOMAIN rows :
        rows[j].at < rows[k].at \/ (rows[j].at = rows[k].at /\ j <= k)
  BY <1>6, <1>7
<1> QED BY <1>8 DEF LatestIn

-----------------------------------------------------------------------------
(* Types.                                                                   *)

Pcs == {"idle", "begun", "looping", "waiting", "locked", "inserting", "aborting", "ended", "dead"}

\* A run stays one when a field gets another value of its type.
LEMMA Updates ==
    /\ \A x \in RunType, v \in Pcs : [x EXCEPT !.pc = v] \in RunType
    /\ \A x \in RunType, v \in 0 .. MaxClock : /\ [x EXCEPT !.now = v] \in RunType
                                               /\ [x EXCEPT !.at = v] \in RunType
    /\ \A x \in RunType, v \in [Alerts -> BasisType] : [x EXCEPT !.bases = v] \in RunType
    /\ \A x \in RunType, v \in SUBSET Alerts : [x EXCEPT !.todo = v] \in RunType
    /\ \A x \in RunType, v \in Alerts \cup {None} : [x EXCEPT !.item = v] \in RunType
    /\ \A x \in RunType, v \in Nat : /\ [x EXCEPT !.inserted = v] \in RunType
                                     /\ [x EXCEPT !.unchanged = v] \in RunType
    /\ \A x \in RunType, v \in SUBSET Runs : [x EXCEPT !.earlier = v] \in RunType
BY DEF RunType, Pcs

LEMMA Values ==
    /\ \A p \in {"begun", "looping", "waiting", "locked", "inserting", "aborting", "ended", "dead"} :
          p \in Pcs
    /\ 0 \in 0 .. MaxClock /\ None \in Alerts \cup {None}
    /\ "begun" \in Pcs /\ "looping" \in Pcs /\ "waiting" \in Pcs /\ "locked" \in Pcs
    /\ "inserting" \in Pcs /\ "ended" \in Pcs
BY LabelAssumption DEF Pcs

LEMMA RunTyped ==
    ASSUME TypeOK, NEW r \in Runs
    PROVE  /\ run[r] \in RunType
           /\ run[r].now \in 0 .. MaxClock /\ run[r].at \in 0 .. MaxClock /\ clock \in 0 .. MaxClock
           /\ run[r].todo \subseteq Alerts /\ run[r].item \in Alerts \cup {None}
           /\ run[r].inserted \in Nat /\ run[r].unchanged \in Nat /\ run[r].earlier \subseteq Runs
           /\ status[r] \in {"ABSENT", "RUNNING", "SUCCESS", "FAILED"}
           /\ MaxClock \in Nat /\ Window \in Nat
<1>1. /\ run[r] \in RunType /\ clock \in 0 .. MaxClock
      /\ status[r] \in {"ABSENT", "RUNNING", "SUCCESS", "FAILED"}
  BY DEF TypeOK
<1> QED BY <1>1, LabelAssumption DEF RunType

LEMMA RowsTyped ==
    ASSUME TypeOK, NEW a \in Alerts
    PROVE  /\ assessments[a] \in Seq(AssessmentType) /\ DOMAIN assessments[a] \subseteq Nat
           /\ Len(assessments[a]) \in Nat
           /\ \A i \in DOMAIN assessments[a] : /\ assessments[a][i] \in AssessmentType
                                               /\ assessments[a][i].at \in 0 .. MaxClock
<1>1. assessments[a] \in Seq(AssessmentType)
  BY DEF TypeOK
<1>2. \A i \in DOMAIN assessments[a] : assessments[a][i] \in AssessmentType
  BY <1>1
<1>3. \A x \in AssessmentType : x.at \in 0 .. MaxClock
  BY DEF AssessmentType
<1> QED BY <1>1, <1>2, <1>3

\* A basis makes an assessment.
LEMMA AssessTyped ==
    ASSUME NEW b \in BasisType, NEW now \in 0 .. MaxClock
    PROVE  Assess(b, now) \in FieldsType
<1>1. b.source \in Nat /\ b.since \in 0 .. MaxClock /\ b.label \in Labels
  BY DEF BasisType
<1> QED BY <1>1, Zenon DEF Assess, FieldsType

LEMMA BasisTyped ==
    ASSUME TypeOK, NEW a \in Alerts
    PROVE  BasisOf(a) \in BasisType /\ Supported(a, BasisOf(a))
<1>1. Truth[a] \in Labels
  BY LabelAssumption DEF Labels
<1>2. CASE dispositions[a] = <<>>
  BY <1>1, <1>2, LabelAssumption DEF BasisOf, BasisType, Supported
<1>3. CASE dispositions[a] # <<>>
  <2>1. dispositions[a] \in Seq(DispositionType)
    BY DEF TypeOK
  <2>2. \A x \in DispositionType : x.at \in 0 .. MaxClock /\ Resolve(x.kind) \in Labels
    BY DEF DispositionType, Resolve, Labels, Resolved
  <2>3. \A j \in DOMAIN dispositions[a] : dispositions[a][j] \in DispositionType
    BY <2>1
  <2> DEFINE i == LatestIn(dispositions[a])
  <2>4. i \in DOMAIN dispositions[a]
    BY <1>3, <2>1, <2>2, <2>3, LatestExists, LabelAssumption
  <2>5. i \in Nat \ {0}
    BY <2>1, <2>4
  <2>6. BasisOf(a) = [source |-> i, since |-> dispositions[a][i].at,
                      label |-> Resolve(dispositions[a][i].kind)]
    BY <1>3 DEF BasisOf
  <2> HIDE DEF i
  <2>7. dispositions[a][i].at \in 0 .. MaxClock /\ Resolve(dispositions[a][i].kind) \in Labels
    BY <2>2, <2>3, <2>4
  <2> QED BY <2>4, <2>5, <2>6, <2>7 DEF BasisType, Supported
<1> QED BY <1>2, <1>3

-----------------------------------------------------------------------------
(* What a step of one run leaves of the rest.                               *)

\* Only r's own row of the run tables changes, and no disposition.
OnlyRun(r) ==
    /\ clock' = clock /\ UNCHANGED analysts
    /\ \A q \in Runs \ {r} : run'[q] = run[q] /\ status'[q] = status[q]
    /\ \A a \in Alerts, q \in Runs \ {r} : lock[a] = q => lock'[a] = q

\* Nothing is appended but the row r is inserting.
Appends(r) == \/ assessments' = assessments
              \/ run[r].pc = "inserting" /\ assessments' = Inserted(r)

\* While no disposition is added, the bases a run has loaded stay supported.
LEMMA BasedStays ==
    ASSUME NEW r \in Runs, Based(r), Loaded(r), dispositions' = dispositions,
           run'[r].bases = run[r].bases
    PROVE  Based(r)'
<1>1. run'[r].bases \in [Alerts -> BasisType]
  BY DEF Based
<1>2. \A a \in Alerts : Supported(a, run[r].bases[a])
  BY DEF Based
<1>3. \A a \in Alerts : Supported(a, run[r].bases[a])'
  BY <1>2 DEF Supported
<1> QED BY <1>1, <1>3 DEF Based

LEMMA InsertedIs ==
    ASSUME IInv, NEW r \in Runs, run[r].pc = "inserting"
    PROVE  LET a == run[r].item
               row == [fields |-> Proposed(r), at |-> run[r].at, by |-> r]
           IN  /\ a \in Alerts /\ lock[a] = r /\ row \in AssessmentType
               /\ Inserted(r) = [assessments EXCEPT ![a] = Append(assessments[a], row)]
               /\ Inserted(r) \in [Alerts -> Seq(AssessmentType)]
<1> DEFINE a == run[r].item
           row == [fields |-> Proposed(r), at |-> run[r].at, by |-> r]
<1>1. TypeOK /\ RInv(r)
  BY DEF IInv
<1>2. a \in Alerts /\ lock[a] = r
  BY <1>1, RunTyped DEF RInv, Holds, Working
<1>3. run[r].bases[a] \in BasisType /\ run[r].now \in 0 .. MaxClock /\ run[r].at \in 0 .. MaxClock
  BY <1>1, <1>2, RunTyped DEF RInv, Based, Loaded, Looping
<1>4. row \in AssessmentType
  BY <1>3, AssessTyped DEF Proposed, AssessmentType
<1>5. Append(assessments[a], row) \in Seq(AssessmentType)
  BY <1>1, <1>2, <1>4, RowsTyped, AppendKeeps
<1> QED BY <1>1, <1>2, <1>4, <1>5 DEF Inserted, TypeOK

\* Rows of the other alerts, and of the other runs, are what they were.
LEMMA AppendsLeave ==
    ASSUME IInv, NEW r \in Runs, Appends(r)
    PROVE  /\ assessments' \in [Alerts -> Seq(AssessmentType)]
           /\ \A a \in Alerts : /\ DOMAIN assessments[a] \subseteq DOMAIN assessments'[a]
                                /\ \A i \in DOMAIN assessments[a] : assessments'[a][i] = assessments[a][i]
           /\ \A a \in Alerts : \A i \in DOMAIN assessments'[a] \ DOMAIN assessments[a] :
                 /\ run[r].pc = "inserting" /\ a = run[r].item
                 /\ assessments'[a][i] = [fields |-> Proposed(r), at |-> run[r].at, by |-> r]
           /\ \A q \in Runs \ {r} : RowsBy(q)' = RowsBy(q)
<1>1. TypeOK
  BY DEF IInv
<1>2. CASE assessments' = assessments
  BY <1>1, <1>2 DEF TypeOK, RowsBy
<1>3. CASE run[r].pc = "inserting" /\ assessments' = Inserted(r)
  <2> DEFINE b == run[r].item
             row == [fields |-> Proposed(r), at |-> run[r].at, by |-> r]
  <2>1. /\ b \in Alerts /\ row \in AssessmentType
        /\ assessments' = [assessments EXCEPT ![b] = Append(assessments[b], row)]
        /\ assessments' \in [Alerts -> Seq(AssessmentType)]
    BY <1>3, InsertedIs
  <2>2. row.by = r
    OBVIOUS
  <2> HIDE DEF row
  <2>3. /\ DOMAIN Append(assessments[b], row) = DOMAIN assessments[b] \cup {Len(assessments[b]) + 1}
        /\ \A i \in DOMAIN assessments[b] : Append(assessments[b], row)[i] = assessments[b][i]
        /\ Append(assessments[b], row)[Len(assessments[b]) + 1] = row
    BY <1>1, <2>1, RowsTyped, AppendKeeps
  <2>4. /\ assessments'[b] = Append(assessments[b], row)
        /\ \A a \in Alerts \ {b} : assessments'[a] = assessments[a]
    BY <1>1, <2>1 DEF TypeOK
  <2>5. ASSUME NEW q \in Runs \ {r}, NEW a \in Alerts
        PROVE  {i \in DOMAIN assessments'[a] : assessments'[a][i].by = q}
                   = {i \in DOMAIN assessments[a] : assessments[a][i].by = q}
    <3>1. CASE a = b
      <4>1. /\ DOMAIN assessments'[b] = DOMAIN assessments[b] \cup {Len(assessments[b]) + 1}
            /\ \A i \in DOMAIN assessments[b] : assessments'[b][i] = assessments[b][i]
            /\ assessments'[b][Len(assessments[b]) + 1].by # q
        BY <2>2, <2>3, <2>4
      <4> QED BY <3>1, <4>1
    <3>2. CASE a # b
      BY <2>4, <3>2
    <3> QED BY <3>1, <3>2
  <2>6. ASSUME NEW q \in Runs \ {r} PROVE RowsBy(q)' = RowsBy(q)
    <3> DEFINE Own(rows) == {i \in DOMAIN rows : rows[i].by = q}
    <3>1. \A a \in Alerts : Own(assessments'[a]) = Own(assessments[a])
      BY <2>5
    <3>2. /\ RowsBy(q) = UNION {{a} \X Own(assessments[a]) : a \in Alerts}
          /\ RowsBy(q)' = UNION {{a} \X Own(assessments'[a]) : a \in Alerts}
      BY DEF RowsBy
    <3> HIDE DEF Own
    <3>3. {{a} \X Own(assessments'[a]) : a \in Alerts} = {{a} \X Own(assessments[a]) : a \in Alerts}
      BY <3>1
    <3> QED BY <3>2, <3>3
  <2> QED BY <1>3, <2>1, <2>3, <2>4, <2>6 DEF row
<1> QED BY <1>2, <1>3 DEF Appends

LEMMA BystanderKeeps ==
    ASSUME IInv, NEW r \in Runs, OnlyRun(r), Appends(r),
           run[r].pc \notin Over, run'[r].pc # "idle",
           NEW q \in Runs \ {r}
    PROVE  RInv(q)'
<1>1. TypeOK /\ RInv(q) /\ RInv(r)
  BY DEF IInv
<1>2. run'[q] = run[q] /\ status'[q] = status[q] /\ clock' = clock /\ dispositions' = dispositions
  BY DEF OnlyRun, analysts
<1>3. Timed(q)'
  BY <1>1, <1>2 DEF RInv, Timed, Working
<1>4. Holds(q)'
  <2>1. run[q].pc \in {"locked", "inserting"} => run[q].item \in Alerts /\ lock[run[q].item] = q
    BY <1>1, RunTyped DEF RInv, Holds, Working
  <2>2. run[q].pc \in {"locked", "inserting"} => lock'[run[q].item] = q
    BY <2>1 DEF OnlyRun
  <2>3. run[q].pc = "inserting" => assessments'[run[q].item] = assessments[run[q].item]
    <3>1. SUFFICES ASSUME run[q].pc = "inserting", assessments' # assessments
                   PROVE  assessments'[run[q].item] = assessments[run[q].item]
      OBVIOUS
    <3>2. run[r].pc = "inserting" /\ assessments' = Inserted(r)
      BY <3>1 DEF Appends
    <3>3. lock[run[r].item] = r
      BY <3>2, InsertedIs
    <3> QED BY <1>1, <2>1, <3>1, <3>2, <3>3 DEF Inserted, TypeOK
  <2>4. run[q].pc = "inserting" => ~ Unchanged(q)'
    BY <1>1, <1>2, <2>3 DEF RInv, Holds, Unchanged, Proposed
  <2> QED BY <1>1, <1>2, <2>2, <2>4 DEF RInv, Holds, Working
<1>5. Based(q)'
  BY <1>1, <1>2 DEF RInv, Based, Loaded, Looping, Supported
<1>6. Counted(q)'
  BY <1>1, <1>2, AppendsLeave DEF RInv, Counted, Loaded, Looping
<1>7. Alone(q)'
  <2>1. r \notin run[q].earlier
    BY <1>1 DEF RInv, Alone
  <2>2. ~ Sole(q)'
    BY <1>2, <2>1 DEF Sole
  <2>3. \A p \in run'[q].earlier : p # q /\ run'[p].pc \in Over
    BY <1>1, <1>2, <2>1, RunTyped DEF RInv, Alone, OnlyRun, Over
  <2> QED BY <2>2, <2>3 DEF Alone, Over
<1>8. Recorded(q)'
  BY <1>1, <1>2 DEF RInv, Recorded
<1> QED BY <1>3, <1>4, <1>5, <1>6, <1>7, <1>8 DEF RInv

\* What an eligible row says, of the dispositions as they stand.
Earned(a, row) ==
    row.fields.eligible =>
        IF row.fields.source = 0 THEN row.fields.label = Truth[a]
        ELSE /\ row.fields.source \in VerdictsOn(a)
             /\ row.fields.label = Resolve(dispositions[a][row.fields.source].kind)
             /\ row.at >= dispositions[a][row.fields.source].at + Window

LEMMA EligibleMeansEarned ==
    EligibleLabelsAreEarned <=>
        \A a \in Alerts : \A i \in DOMAIN assessments[a] : Earned(a, assessments[a][i])
BY DEF EligibleLabelsAreEarned, Earned

\* An assessment of a supported basis, stamped after it was made, is earned.
LEMMA AssessIsEarned ==
    ASSUME TypeOK, NEW a \in Alerts, NEW b \in BasisType, Supported(a, b), NEW now \in 0 .. MaxClock,
           NEW at \in 0 .. MaxClock, at >= now, NEW by
    PROVE  Earned(a, [fields |-> Assess(b, now), at |-> at, by |-> by])
<1> DEFINE f == Assess(b, now)
<1>1. /\ f.source = b.source /\ f.label = b.label /\ f.since = b.since
      /\ f.eligible => /\ b.source = 0 \/ now >= b.since + Window
                       /\ b.label \in Resolved
  BY DEF Assess
<1> HIDE DEF f
<1>2. SUFFICES ASSUME f.eligible
               PROVE  IF f.source = 0 THEN f.label = Truth[a]
                      ELSE /\ f.source \in VerdictsOn(a)
                           /\ f.label = Resolve(dispositions[a][f.source].kind)
                           /\ at >= dispositions[a][f.source].at + Window
  BY DEF Earned, f
<1>3. CASE b.source = 0
  BY <1>1, <1>3 DEF Supported
<1>4. CASE b.source # 0
  <2>1. /\ b.source \in DOMAIN dispositions[a] /\ b.since = dispositions[a][b.source].at
        /\ b.label = Resolve(dispositions[a][b.source].kind)
    BY <1>4 DEF Supported
  <2>2. b.source \in VerdictsOn(a)
    BY <1>1, <1>2, <2>1 DEF VerdictsOn, Resolve, Resolved, StatusAfter
  <2>3. b.since \in 0 .. MaxClock
    BY DEF BasisType
  <2>4. at >= b.since + Window
    BY <1>1, <1>2, <1>4, <2>3, LabelAssumption
  <2> QED BY <1>1, <1>4, <2>1, <2>2, <2>4
<1> QED BY <1>3, <1>4

\* A step of one run is done when it keeps the types and the run's own part.
LEMMA StepOfRun ==
    ASSUME IInv, NEW r \in Runs, OnlyRun(r), Appends(r),
           run[r].pc \notin Over, run'[r].pc # "idle",
           faults' \in 0 .. MaxFaults, lock' \in [Alerts -> Runs \cup {None}],
           run' \in [Runs -> RunType], status' \in [Runs -> {"ABSENT", "RUNNING", "SUCCESS", "FAILED"}],
           RInv(r)'
    PROVE  IInv'
<1>1. TypeOK /\ RInv(r) /\ Stamped /\ EligibleLabelsAreEarned /\ ClosedByExactlyOneVerdict
      /\ \A d \in Tickets : Filed(d)
  BY DEF IInv
<1>2. /\ clock' = clock /\ dispositions' = dispositions /\ alertStatus' = alertStatus
      /\ ticket' = ticket
  BY DEF OnlyRun, analysts
<1>3. TypeOK'
  BY <1>1, <1>2, AppendsLeave DEF TypeOK
<1>4. ClosedByExactlyOneVerdict' /\ \A d \in Tickets : Filed(d)'
  BY <1>1, <1>2 DEF ClosedByExactlyOneVerdict, VerdictsOn, Filed
<1>5. \A a \in Alerts : \A i \in DOMAIN assessments'[a] :
         Earned(a, assessments'[a][i]) /\ assessments'[a][i].at <= clock
  <2>1. SUFFICES ASSUME NEW a \in Alerts, NEW i \in DOMAIN assessments'[a]
                 PROVE  Earned(a, assessments'[a][i]) /\ assessments'[a][i].at <= clock
    OBVIOUS
  <2>2. CASE i \in DOMAIN assessments[a]
    <3>1. assessments'[a][i] = assessments[a][i]
      BY <2>2, AppendsLeave
    <3> QED BY <1>1, <2>2, <3>1, EligibleMeansEarned DEF Stamped
  <2>3. CASE i \notin DOMAIN assessments[a]
    <3>1. /\ run[r].pc = "inserting" /\ a = run[r].item
          /\ assessments'[a][i] = [fields |-> Proposed(r), at |-> run[r].at, by |-> r]
      BY <2>3, AppendsLeave
    <3>2. run[r].bases[a] \in BasisType /\ Supported(a, run[r].bases[a])
      BY <1>1, <3>1 DEF RInv, Based, Loaded, Looping
    <3>3. run[r].at >= run[r].now /\ run[r].at <= clock
      BY <1>1, <3>1 DEF RInv, Timed, Working
    <3>4. Proposed(r) = Assess(run[r].bases[a], run[r].now)
      BY <3>1 DEF Proposed
    <3>5. run[r].now \in 0 .. MaxClock /\ run[r].at \in 0 .. MaxClock
      BY <1>1, RunTyped
    <3>6. Earned(a, assessments'[a][i])
      BY <1>1, <3>1, <3>2, <3>3, <3>4, <3>5, AssessIsEarned
    <3> QED BY <3>1, <3>3, <3>6
  <2> QED BY <2>2, <2>3
<1>6. EligibleLabelsAreEarned'
  BY <1>2, <1>5 DEF EligibleLabelsAreEarned, Earned, VerdictsOn
<1>7. Stamped'
  BY <1>2, <1>5 DEF Stamped
<1>8. \A q \in Runs : RInv(q)'
  BY BystanderKeeps
<1> QED BY <1>3, <1>4, <1>6, <1>7, <1>8 DEF IInv

-----------------------------------------------------------------------------
(* One lemma for each action of a run.                                      *)

LEMMA BeginKeeps == ASSUME IInv, NEW r \in Runs, Begin(r) PROVE IInv'
<1>1. TypeOK /\ RInv(r) /\ run[r] \in RunType /\ Stamped
  BY RunTyped DEF IInv
<1> DEFINE new == [run[r] EXCEPT !.pc = "begun", !.now = clock,
                              !.earlier = {q \in Runs : run[q].pc \in {"ended", "dead"}}]
<1>2. run' = [run EXCEPT ![r] = new] /\ run[r].pc = "idle"
  BY DEF Begin
<1>3. clock \in 0 .. MaxClock /\ {q \in Runs : run[q].pc \in {"ended", "dead"}} \in SUBSET Runs
  BY <1>1, <1>2, RunTyped
<1>4. new \in RunType
  BY <1>1, <1>3, Updates, Values, Zenon
<1>5. /\ new.pc = "begun" /\ new.now = clock /\ new.bases = run[r].bases
      /\ new.todo = run[r].todo /\ new.item = run[r].item /\ new.at = run[r].at
      /\ new.inserted = run[r].inserted /\ new.unchanged = run[r].unchanged
      /\ new.earlier = {q \in Runs : run[q].pc \in {"ended", "dead"}}
  BY <1>1 DEF RunType
<1> HIDE DEF new
<1>6. /\ run' \in [Runs -> RunType] /\ run'[r] = new
      /\ \A q \in Runs \ {r} : run'[q] = run[q]
  BY <1>1, <1>2, <1>4 DEF TypeOK
<1>7. clock' = clock /\ faults' \in 0 .. MaxFaults /\ UNCHANGED analysts
  BY <1>1 DEF TypeOK, Begin, outside
<1>8. /\ UNCHANGED <<assessments, lock>> /\ status' = [status EXCEPT ![r] = "RUNNING"]
      /\ status'[r] = "RUNNING" /\ \A q \in Runs \ {r} : status'[q] = status[q]
  BY <1>1 DEF TypeOK, Begin
<1>9. /\ lock' \in [Alerts -> Runs \cup {None}]
      /\ status' \in [Runs -> {"ABSENT", "RUNNING", "SUCCESS", "FAILED"}]
  BY <1>1, <1>8 DEF TypeOK
<1>10. OnlyRun(r) /\ Appends(r)
  BY <1>1, <1>2, <1>6, <1>7, <1>8 DEF OnlyRun, Appends, TypeOK
<1>11. RInv(r)'
  <2>1. Timed(r)'
    BY <1>1, <1>2, <1>3, <1>5, <1>6, <1>7, <1>8, RunTyped DEF RInv, Timed, Working
  <2>2. Holds(r)'
    BY <1>1, <1>2, <1>3, <1>5, <1>6, <1>7, <1>8, RunTyped DEF RInv, Holds, Working
  <2>3. Based(r)'
    BY <1>1, <1>2, <1>3, <1>5, <1>6, <1>7, <1>8, RunTyped
       DEF RInv, Based, Loaded, Looping, Supported, analysts
  <2>4. Counted(r)'
    BY <1>1, <1>2, <1>3, <1>5, <1>6, <1>7, <1>8, RunTyped DEF RInv, Counted, Loaded, Looping, RowsBy
  <2>5. Alone(r)'
    BY <1>1, <1>2, <1>3, <1>5, <1>6, <1>7, <1>8, RunTyped
       DEF RInv, Alone, Sole, Loaded, Looping, Working, Settled, Over
  <2>6. Recorded(r)'
    BY <1>1, <1>2, <1>3, <1>5, <1>6, <1>7, <1>8, RunTyped DEF RInv, Recorded
  <2> QED BY <2>1, <2>2, <2>3, <2>4, <2>5, <2>6 DEF RInv
<1> QED BY <1>2, <1>5, <1>6, <1>7, <1>9, <1>10, <1>11, StepOfRun DEF Over

LEMMA LoadKeeps == ASSUME IInv, NEW r \in Runs, Load(r) PROVE IInv'
<1>1. TypeOK /\ RInv(r) /\ run[r] \in RunType /\ Stamped
  BY RunTyped DEF IInv
<1> DEFINE new == [run[r] EXCEPT !.pc = "looping", !.bases = [a \in Alerts |-> BasisOf(a)],
                              !.todo = Alerts]
<1>2. run' = [run EXCEPT ![r] = new] /\ run[r].pc = "begun"
  BY DEF Load
<1>3. [a \in Alerts |-> BasisOf(a)] \in [Alerts -> BasisType] /\ Alerts \in SUBSET Alerts
  BY <1>1, <1>2, RunTyped, BasisTyped
<1>4. new \in RunType
  BY <1>1, <1>3, Updates, Values, Zenon
<1>5. /\ new.pc = "looping" /\ new.now = run[r].now /\ new.bases = [a \in Alerts |-> BasisOf(a)]
      /\ new.todo = Alerts /\ new.item = run[r].item /\ new.at = run[r].at
      /\ new.inserted = run[r].inserted /\ new.unchanged = run[r].unchanged /\ new.earlier = run[r].earlier
  BY <1>1 DEF RunType
<1> HIDE DEF new
<1>6. /\ run' \in [Runs -> RunType] /\ run'[r] = new
      /\ \A q \in Runs \ {r} : run'[q] = run[q]
  BY <1>1, <1>2, <1>4 DEF TypeOK
<1>7. clock' = clock /\ faults' \in 0 .. MaxFaults /\ UNCHANGED analysts
  BY <1>1 DEF TypeOK, Load, outside
<1>8. UNCHANGED <<assessments, lock, status>>
  BY <1>1 DEF TypeOK, Load
<1>9. /\ lock' \in [Alerts -> Runs \cup {None}]
      /\ status' \in [Runs -> {"ABSENT", "RUNNING", "SUCCESS", "FAILED"}]
  BY <1>1, <1>8 DEF TypeOK
<1>10. OnlyRun(r) /\ Appends(r)
  BY <1>1, <1>2, <1>6, <1>7, <1>8 DEF OnlyRun, Appends, TypeOK
<1>11. RInv(r)'
  <2>1. Timed(r)'
    BY <1>1, <1>2, <1>3, <1>5, <1>6, <1>7, <1>8, RunTyped DEF RInv, Timed, Working
  <2>2. Holds(r)'
    BY <1>1, <1>2, <1>3, <1>5, <1>6, <1>7, <1>8, RunTyped DEF RInv, Holds, Working
  <2>3. Based(r)'
    <3>1. \A a \in Alerts : new.bases[a] \in BasisType /\ Supported(a, new.bases[a])
      BY <1>1, <1>5, BasisTyped
    <3> QED BY <1>3, <1>5, <1>6, <1>7, <3>1 DEF Based, Supported, analysts
  <2>4. Counted(r)'
    <3>1. RowsBy(r) = {} /\ RowsBy(r)' = RowsBy(r) /\ run[r].inserted = 0 /\ run[r].unchanged = 0
      BY <1>1, <1>2, <1>8 DEF RInv, Counted, RowsBy
    <3>2. IsFiniteSet({}) /\ Cardinality({}) = 0 /\ Cardinality(Alerts) \in Nat
      BY FS_EmptySet, FS_CardinalityType, LabelAssumption
    <3> QED BY <1>5, <1>6, <3>1, <3>2 DEF Counted
  <2>5. Alone(r)'
    BY <1>1, <1>2, <1>3, <1>5, <1>6, <1>7, <1>8, RunTyped
       DEF RInv, Alone, Sole, Loaded, Looping, Working, Settled, Over
  <2>6. Recorded(r)'
    BY <1>1, <1>2, <1>3, <1>5, <1>6, <1>7, <1>8, RunTyped DEF RInv, Recorded
  <2> QED BY <2>1, <2>2, <2>3, <2>4, <2>5, <2>6 DEF RInv
<1> QED BY <1>2, <1>5, <1>6, <1>7, <1>9, <1>10, <1>11, StepOfRun DEF Over

LEMMA TakeLockKeeps == ASSUME IInv, NEW r \in Runs, TakeLock(r) PROVE IInv'
<1>1. TypeOK /\ RInv(r) /\ run[r] \in RunType /\ Stamped
  BY RunTyped DEF IInv
<1> DEFINE new == [run[r] EXCEPT !.pc = "locked"]
<1>2. run' = [run EXCEPT ![r] = new] /\ run[r].pc = "waiting" /\ LockFree(r)
  BY DEF TakeLock
<1>3. run[r].item \in Alerts
  BY <1>1, <1>2, RunTyped DEF RInv, Holds, Working
<1>4. new \in RunType
  BY <1>1, <1>3, Updates, Values, Zenon
<1>5. /\ new.pc = "locked" /\ new.now = run[r].now /\ new.bases = run[r].bases
      /\ new.todo = run[r].todo /\ new.item = run[r].item /\ new.at = run[r].at
      /\ new.inserted = run[r].inserted /\ new.unchanged = run[r].unchanged /\ new.earlier = run[r].earlier
  BY <1>1 DEF RunType
<1> HIDE DEF new
<1>6. /\ run' \in [Runs -> RunType] /\ run'[r] = new
      /\ \A q \in Runs \ {r} : run'[q] = run[q]
  BY <1>1, <1>2, <1>4 DEF TypeOK
<1>7. clock' = clock /\ faults' \in 0 .. MaxFaults /\ UNCHANGED analysts
  BY <1>1 DEF TypeOK, TakeLock, outside
<1>8. /\ UNCHANGED <<assessments, status>> /\ lock[run[r].item] = None
      /\ lock' = [lock EXCEPT ![run[r].item] = r]
      /\ lock'[run[r].item] = r /\ \A a \in Alerts \ {run[r].item} : lock'[a] = lock[a]
  BY <1>1, <1>3 DEF TypeOK, TakeLock, LockFree
<1>9. /\ lock' \in [Alerts -> Runs \cup {None}]
      /\ status' \in [Runs -> {"ABSENT", "RUNNING", "SUCCESS", "FAILED"}]
  BY <1>1, <1>8 DEF TypeOK
<1>10. OnlyRun(r) /\ Appends(r)
  BY <1>1, <1>2, <1>6, <1>7, <1>8, LabelAssumption DEF OnlyRun, Appends, TypeOK
<1>11. RInv(r)'
  <2>1. Timed(r)'
    BY <1>1, <1>2, <1>3, <1>5, <1>6, <1>7, <1>8, RunTyped DEF RInv, Timed, Working
  <2>2. Holds(r)'
    BY <1>1, <1>2, <1>3, <1>5, <1>6, <1>7, <1>8, RunTyped DEF RInv, Holds, Working
  <2>3. Based(r)'
    <3>1. Loaded(r) /\ Based(r) /\ dispositions' = dispositions
      BY <1>1, <1>2, <1>7 DEF RInv, Loaded, Looping, analysts
    <3> QED BY <1>5, <1>6, <3>1, BasedStays
  <2>4. Counted(r)'
    BY <1>1, <1>2, <1>3, <1>5, <1>6, <1>7, <1>8, RunTyped DEF RInv, Counted, Loaded, Looping, RowsBy
  <2>5. Alone(r)'
    BY <1>1, <1>2, <1>3, <1>5, <1>6, <1>7, <1>8, RunTyped
       DEF RInv, Alone, Sole, Loaded, Looping, Working, Settled, Over
  <2>6. Recorded(r)'
    BY <1>1, <1>2, <1>3, <1>5, <1>6, <1>7, <1>8, RunTyped DEF RInv, Recorded
  <2> QED BY <2>1, <2>2, <2>3, <2>4, <2>5, <2>6 DEF RInv
<1> QED BY <1>2, <1>5, <1>6, <1>7, <1>9, <1>10, <1>11, StepOfRun DEF Over

LEMMA FinishKeeps == ASSUME IInv, NEW r \in Runs, Finish(r) PROVE IInv'
<1>1. TypeOK /\ RInv(r) /\ run[r] \in RunType /\ Stamped
  BY RunTyped DEF IInv
<1> DEFINE new == [run[r] EXCEPT !.pc = "ended"]
<1>2. run' = [run EXCEPT ![r] = new] /\ run[r].pc = "looping" /\ run[r].todo = {}
  BY DEF Finish
<1>3. new \in RunType
  BY <1>1, Updates, Values, Zenon
<1>4. /\ new.pc = "ended" /\ new.now = run[r].now /\ new.bases = run[r].bases
      /\ new.todo = run[r].todo /\ new.item = run[r].item /\ new.at = run[r].at
      /\ new.inserted = run[r].inserted /\ new.unchanged = run[r].unchanged /\ new.earlier = run[r].earlier
  BY <1>1 DEF RunType
<1> HIDE DEF new
<1>5. /\ run' \in [Runs -> RunType] /\ run'[r] = new
      /\ \A q \in Runs \ {r} : run'[q] = run[q]
  BY <1>1, <1>2, <1>3 DEF TypeOK
<1>6. clock' = clock /\ faults' \in 0 .. MaxFaults /\ UNCHANGED analysts
  BY <1>1 DEF TypeOK, Finish, outside
<1>7. /\ UNCHANGED <<assessments, lock>> /\ status' = [status EXCEPT ![r] = "SUCCESS"]
      /\ status'[r] = "SUCCESS" /\ \A q \in Runs \ {r} : status'[q] = status[q]
  BY <1>1 DEF TypeOK, Finish
<1>8. /\ lock' \in [Alerts -> Runs \cup {None}]
      /\ status' \in [Runs -> {"ABSENT", "RUNNING", "SUCCESS", "FAILED"}]
  BY <1>1, <1>7 DEF TypeOK
<1>9. OnlyRun(r) /\ Appends(r)
  BY <1>1, <1>2, <1>5, <1>6, <1>7 DEF OnlyRun, Appends, TypeOK
<1>10. RInv(r)'
  <2>1. Timed(r)'
    BY <1>1, <1>2, <1>4, <1>5, <1>6, <1>7, RunTyped DEF RInv, Timed, Working
  <2>2. Holds(r)'
    BY <1>1, <1>2, <1>4, <1>5, <1>6, <1>7, RunTyped DEF RInv, Holds, Working
  <2>3. Based(r)'
    <3>1. Loaded(r) /\ Based(r) /\ dispositions' = dispositions
      BY <1>1, <1>2, <1>6 DEF RInv, Loaded, Looping, analysts
    <3> QED BY <1>4, <1>5, <3>1, BasedStays
  <2>4. Counted(r)'
    <3>1. Loaded(r) /\ RowsBy(r)' = RowsBy(r)
      BY <1>2, <1>7 DEF Loaded, Looping, RowsBy
    <3> QED BY <1>1, <1>4, <1>5, <3>1 DEF RInv, Counted
  <2>5. Alone(r)'
    BY <1>1, <1>2, <1>4, <1>5, <1>6, <1>7, RunTyped
       DEF RInv, Alone, Sole, Loaded, Looping, Working, Settled, Over
  <2>6. Recorded(r)'
    BY <1>1, <1>2, <1>4, <1>5, <1>6, <1>7, RunTyped DEF RInv, Recorded
  <2> QED BY <2>1, <2>2, <2>3, <2>4, <2>5, <2>6 DEF RInv
<1> QED BY <1>2, <1>4, <1>5, <1>6, <1>8, <1>9, <1>10, StepOfRun DEF Over

LEMMA RecordFailureKeeps == ASSUME IInv, NEW r \in Runs, RecordFailure(r) PROVE IInv'
<1>1. TypeOK /\ RInv(r) /\ run[r] \in RunType /\ Stamped
  BY RunTyped DEF IInv
<1> DEFINE new == [run[r] EXCEPT !.pc = "ended"]
<1>2. run' = [run EXCEPT ![r] = new] /\ run[r].pc = "aborting"
  BY DEF RecordFailure
<1>3. new \in RunType
  BY <1>1, Updates, Values, Zenon
<1>4. /\ new.pc = "ended" /\ new.now = run[r].now /\ new.bases = run[r].bases
      /\ new.todo = run[r].todo /\ new.item = run[r].item /\ new.at = run[r].at
      /\ new.inserted = run[r].inserted /\ new.unchanged = run[r].unchanged /\ new.earlier = run[r].earlier
  BY <1>1 DEF RunType
<1> HIDE DEF new
<1>5. /\ run' \in [Runs -> RunType] /\ run'[r] = new
      /\ \A q \in Runs \ {r} : run'[q] = run[q]
  BY <1>1, <1>2, <1>3 DEF TypeOK
<1>6. clock' = clock /\ faults' \in 0 .. MaxFaults /\ UNCHANGED analysts
  BY <1>1 DEF TypeOK, RecordFailure, outside
<1>7. /\ UNCHANGED <<assessments, lock>> /\ status' = [status EXCEPT ![r] = "FAILED"]
      /\ status'[r] = "FAILED" /\ \A q \in Runs \ {r} : status'[q] = status[q]
  BY <1>1 DEF TypeOK, RecordFailure
<1>8. /\ lock' \in [Alerts -> Runs \cup {None}]
      /\ status' \in [Runs -> {"ABSENT", "RUNNING", "SUCCESS", "FAILED"}]
  BY <1>1, <1>7 DEF TypeOK
<1>9. OnlyRun(r) /\ Appends(r)
  BY <1>1, <1>2, <1>5, <1>6, <1>7 DEF OnlyRun, Appends, TypeOK
<1>10. RInv(r)'
  <2>1. Timed(r)'
    BY <1>1, <1>2, <1>4, <1>5, <1>6, <1>7, RunTyped DEF RInv, Timed, Working
  <2>2. Holds(r)'
    BY <1>1, <1>2, <1>4, <1>5, <1>6, <1>7, RunTyped DEF RInv, Holds, Working
  <2>3. Based(r)'
    BY <1>1, <1>2, <1>4, <1>5, <1>6, <1>7, RunTyped DEF RInv, Based, Loaded, Looping, Supported, analysts
  <2>4. Counted(r)'
    BY <1>1, <1>2, <1>4, <1>5, <1>6, <1>7, RunTyped DEF RInv, Counted, Loaded, Looping, RowsBy
  <2>5. Alone(r)'
    BY <1>1, <1>2, <1>4, <1>5, <1>6, <1>7, RunTyped
       DEF RInv, Alone, Sole, Loaded, Looping, Working, Settled, Over
  <2>6. Recorded(r)'
    BY <1>1, <1>2, <1>4, <1>5, <1>6, <1>7, RunTyped DEF RInv, Recorded
  <2> QED BY <2>1, <2>2, <2>3, <2>4, <2>5, <2>6 DEF RInv
<1> QED BY <1>2, <1>4, <1>5, <1>6, <1>8, <1>9, <1>10, StepOfRun DEF Over

\* append_if_changed takes its timestamp: nothing written so far is later.
LEMMA StartAppendKeeps == ASSUME IInv, NEW r \in Runs, StartAppend(r) PROVE IInv'
<1>1. TypeOK /\ RInv(r) /\ run[r] \in RunType /\ Stamped
  BY RunTyped DEF IInv
<1>2. PICK a \in run[r].todo :
         run' = [run EXCEPT ![r] = [run[r] EXCEPT !.pc = "waiting", !.item = a, !.at = clock]]
  BY DEF StartAppend
<1> DEFINE new == [run[r] EXCEPT !.pc = "waiting", !.item = a, !.at = clock]
<1>3. a \in Alerts /\ a \in Alerts \cup {None} /\ clock \in 0 .. MaxClock /\ run[r].pc = "looping"
  BY <1>1, <1>2, RunTyped DEF StartAppend
<1>4. new \in RunType
  BY <1>1, <1>3, Updates, Values, Zenon
<1>5. /\ new.pc = "waiting" /\ new.now = run[r].now /\ new.bases = run[r].bases
      /\ new.todo = run[r].todo /\ new.item = a /\ new.at = clock
      /\ new.inserted = run[r].inserted /\ new.unchanged = run[r].unchanged /\ new.earlier = run[r].earlier
  BY <1>1 DEF RunType
<1>6. run' = [run EXCEPT ![r] = new]
  BY <1>2
<1> HIDE DEF new
<1>7. /\ run' \in [Runs -> RunType] /\ run'[r] = new
      /\ \A q \in Runs \ {r} : run'[q] = run[q]
  BY <1>1, <1>4, <1>6 DEF TypeOK
<1>8. /\ clock' = clock /\ faults' \in 0 .. MaxFaults /\ UNCHANGED analysts
      /\ UNCHANGED <<assessments, lock, status>>
  BY <1>1 DEF TypeOK, StartAppend, outside
<1>9. /\ lock' \in [Alerts -> Runs \cup {None}]
      /\ status' \in [Runs -> {"ABSENT", "RUNNING", "SUCCESS", "FAILED"}]
  BY <1>1, <1>8 DEF TypeOK
<1>10. OnlyRun(r) /\ Appends(r)
  BY <1>7, <1>8 DEF OnlyRun, Appends
<1>11. RInv(r)'
  <2>1. Timed(r)'
    BY <1>1, <1>5, <1>7, <1>8, RunTyped DEF RInv, Timed
  <2>2. Holds(r)'
    BY <1>2, <1>5, <1>7 DEF Holds
  <2>3. Based(r)' /\ Counted(r)' /\ Recorded(r)'
    <3>1. Loaded(r) /\ RowsBy(r)' = RowsBy(r) /\ dispositions' = dispositions
      BY <1>3, <1>8 DEF Loaded, Looping, RowsBy, analysts
    <3>2. Based(r) /\ Counted(r) /\ Recorded(r)
      BY <1>1 DEF RInv
    <3>3. Based(r)'
      BY <1>5, <1>7, <3>1, <3>2, BasedStays
    <3>4. Counted(r)'
      BY <1>3, <1>5, <1>7, <3>1, <3>2 DEF Counted
    <3>5. Recorded(r)'
      BY <1>3, <1>5, <1>7, <1>8, <3>2 DEF Recorded
    <3> QED BY <3>3, <3>4, <3>5
  <2>4. Alone(r)'
    <3>1. Sole(r)' => Sole(r)
      BY <1>5, <1>7 DEF Sole
    <3>2. Loaded(r)
      BY <1>3 DEF Loaded, Looping
    <3>3. \A q \in run'[r].earlier : q # r /\ run'[q].pc \in Over
      BY <1>1, <1>5, <1>7, RunTyped DEF RInv, Alone
    <3>4. Sole(r)' => \A b \in Alerts \ run'[r].todo : Settled(r, b)'
      BY <1>1, <1>5, <1>7, <1>8, <3>1, <3>2 DEF RInv, Alone, Settled
    <3>5. \A b \in Alerts : \A i \in DOMAIN assessments'[b] : assessments'[b][i].at <= run'[r].at
      BY <1>1, <1>5, <1>7, <1>8 DEF Stamped
    <3> QED BY <3>3, <3>4, <3>5 DEF Alone
  <2> QED BY <2>1, <2>2, <2>3, <2>4 DEF RInv
<1> QED BY <1>3, <1>5, <1>7, <1>8, <1>9, <1>10, <1>11, StepOfRun DEF Over

\* The end of a transaction lets go of the run's own locks only.
LEMMA ReleaseTyped ==
    ASSUME TypeOK, NEW r \in Runs, lock' = Released(r)
    PROVE  /\ lock' \in [Alerts -> Runs \cup {None}]
           /\ \A a \in Alerts, q \in Runs \ {r} : lock[a] = q => lock'[a] = q
BY DEF TypeOK, Released

\* A set of alerts with one fewer has a cardinality one smaller.
LEMMA OneFewer ==
    ASSUME NEW S \in SUBSET Alerts, NEW a \in S
    PROVE  /\ Cardinality(S) \in Nat /\ Cardinality(S \ {a}) \in Nat
           /\ Cardinality(S) = Cardinality(S \ {a}) + 1
<1>1. IsFiniteSet(S)
  BY FS_Subset, LabelAssumption
<1>2. Cardinality(S \ {a}) = Cardinality(S) - 1 /\ IsFiniteSet(S \ {a})
  BY <1>1, FS_RemoveElement
<1> QED BY <1>1, <1>2, FS_CardinalityType

\* The latest row already says what the run would write.
LEMMA CompareKeeps == ASSUME IInv, NEW r \in Runs, Compare(r) PROVE IInv'
<1>1. TypeOK /\ RInv(r) /\ run[r] \in RunType
  BY RunTyped DEF IInv
<1> DEFINE a == run[r].item
<1>2. a \in run[r].todo /\ a \in Alerts /\ run[r].pc = "locked" /\ lock[a] = r /\ Loaded(r)
  BY <1>1, RunTyped DEF Compare, RInv, Holds, Working, Loaded, Looping
<1>3. /\ clock' = clock /\ faults' \in 0 .. MaxFaults /\ UNCHANGED analysts
      /\ UNCHANGED <<assessments, status>>
  BY <1>1 DEF TypeOK, Compare, outside
<1>4. /\ status' \in [Runs -> {"ABSENT", "RUNNING", "SUCCESS", "FAILED"}]
      /\ RowsBy(r)' = RowsBy(r) /\ dispositions' = dispositions
  BY <1>1, <1>3 DEF TypeOK, RowsBy, analysts
<1>5. CASE Unchanged(r)
  <2> DEFINE new == [run[r] EXCEPT !.pc = "looping", !.todo = @ \ {a}, !.item = None, !.at = 0,
                                   !.unchanged = @ + 1]
  <2>1. run' = [run EXCEPT ![r] = new] /\ lock' = Released(r)
    BY <1>5 DEF Compare
  <2>2. run[r].todo \ {a} \in SUBSET Alerts /\ run[r].unchanged + 1 \in Nat
    BY <1>1, RunTyped
  <2>3. new \in RunType
    BY <1>1, <2>2, Updates, Values, Zenon
  <2>4. /\ new.pc = "looping" /\ new.now = run[r].now /\ new.bases = run[r].bases
        /\ new.todo = run[r].todo \ {a} /\ new.at = 0
        /\ new.inserted = run[r].inserted /\ new.unchanged = run[r].unchanged + 1
        /\ new.earlier = run[r].earlier
    BY <1>1 DEF RunType
  <2> HIDE DEF new
  <2>5. /\ run' \in [Runs -> RunType] /\ run'[r] = new
        /\ \A q \in Runs \ {r} : run'[q] = run[q]
    BY <1>1, <2>1, <2>3 DEF TypeOK
  <2>6. OnlyRun(r) /\ Appends(r) /\ lock' \in [Alerts -> Runs \cup {None}]
    BY <1>1, <1>3, <2>1, <2>5, ReleaseTyped DEF OnlyRun, Appends
  <2>7. Timed(r)' /\ Holds(r)'
    BY <1>1, <1>3, <2>4, <2>5, RunTyped DEF RInv, Timed, Holds, Working
  <2>8. Based(r)' /\ Recorded(r)'
    <3>1. Based(r)'
      BY <1>1, <1>2, <1>4, <2>4, <2>5, BasedStays DEF RInv
    <3>2. Recorded(r)'
      BY <1>1, <1>2, <1>3, <2>4, <2>5 DEF RInv, Recorded
    <3> QED BY <3>1, <3>2
  <2>9. Counted(r)'
    <3>1. run[r].inserted \in Nat /\ run[r].unchanged \in Nat
      BY <1>1, RunTyped
    <3>2. /\ Cardinality(run[r].todo) = Cardinality(run[r].todo \ {a}) + 1
          /\ Cardinality(run[r].todo \ {a}) \in Nat
      BY <1>1, <1>2, RunTyped, OneFewer
    <3>3. /\ run[r].inserted + run[r].unchanged + Cardinality(run[r].todo) = Cardinality(Alerts)
          /\ IsFiniteSet(RowsBy(r)) /\ Cardinality(RowsBy(r)) = run[r].inserted
      BY <1>1, <1>2 DEF RInv, Counted
    <3>4. run[r].inserted + (run[r].unchanged + 1) + Cardinality(run[r].todo \ {a}) = Cardinality(Alerts)
      BY <3>1, <3>2, <3>3
    <3> QED BY <1>4, <2>4, <2>5, <3>3, <3>4 DEF Counted
  <2>10. Alone(r)'
    <3>1. Sole(r)' => Sole(r)
      BY <2>4, <2>5 DEF Sole
    <3>2. \A q \in run'[r].earlier : q # r /\ run'[q].pc \in Over
      BY <1>1, <2>4, <2>5, RunTyped DEF RInv, Alone
    <3>3. Settled(r, a)
      BY <1>5 DEF Unchanged, Settled, Proposed
    <3>4. Sole(r)' => \A b \in Alerts \ run'[r].todo : Settled(r, b)
      BY <1>1, <1>2, <2>4, <2>5, <3>1, <3>3 DEF RInv, Alone
    <3>5. Sole(r)' => \A b \in Alerts \ run'[r].todo : Settled(r, b)'
      BY <1>3, <2>4, <2>5, <3>4 DEF Settled
    <3> QED BY <2>4, <2>5, <3>2, <3>5 DEF Alone, Working
  <2> QED BY <1>2, <1>3, <1>4, <2>4, <2>5, <2>6, <2>7, <2>8, <2>9, <2>10, StepOfRun DEF Over, RInv
<1>6. CASE ~ Unchanged(r)
  <2> DEFINE new == [run[r] EXCEPT !.pc = "inserting"]
  <2>1. run' = [run EXCEPT ![r] = new] /\ lock' = lock
    BY <1>6 DEF Compare
  <2>2. new \in RunType
    BY <1>1, Updates, Values, Zenon
  <2>3. /\ new.pc = "inserting" /\ new.now = run[r].now /\ new.bases = run[r].bases
        /\ new.todo = run[r].todo /\ new.item = a /\ new.at = run[r].at
        /\ new.inserted = run[r].inserted /\ new.unchanged = run[r].unchanged
        /\ new.earlier = run[r].earlier
    BY <1>1 DEF RunType
  <2> HIDE DEF new
  <2>4. /\ run' \in [Runs -> RunType] /\ run'[r] = new
        /\ \A q \in Runs \ {r} : run'[q] = run[q]
    BY <1>1, <2>1, <2>2 DEF TypeOK
  <2>5. OnlyRun(r) /\ Appends(r) /\ lock' \in [Alerts -> Runs \cup {None}]
    BY <1>1, <1>3, <2>1, <2>4 DEF OnlyRun, Appends, TypeOK
  <2>6. Timed(r)' /\ Based(r)' /\ Recorded(r)' /\ Counted(r)'
    <3>1. Based(r)'
      BY <1>1, <1>2, <1>4, <2>3, <2>4, BasedStays DEF RInv
    <3>2. Timed(r)' /\ Recorded(r)'
      BY <1>1, <1>2, <1>3, <2>3, <2>4 DEF RInv, Timed, Working, Recorded
    <3>3. Counted(r)'
      BY <1>1, <1>2, <1>4, <2>3, <2>4 DEF RInv, Counted
    <3> QED BY <3>1, <3>2, <3>3
  <2>7. Holds(r)'
    <3>1. ~ Unchanged(r)'
      BY <1>3, <1>6, <2>3, <2>4 DEF Unchanged, Proposed
    <3> QED BY <1>2, <2>1, <2>3, <2>4, <3>1 DEF Holds
  <2>8. Alone(r)'
    <3>1. Sole(r)' => Sole(r)
      BY <2>3, <2>4 DEF Sole
    <3>2. \A q \in run'[r].earlier : q # r /\ run'[q].pc \in Over
      BY <1>1, <2>3, <2>4, RunTyped DEF RInv, Alone
    <3>3. Sole(r)' => \A b \in Alerts \ run'[r].todo : Settled(r, b)'
      BY <1>1, <1>2, <1>3, <2>3, <2>4, <3>1 DEF RInv, Alone, Settled
    <3>4. Sole(r)' => \A b \in Alerts : \A i \in DOMAIN assessments'[b] :
                         assessments'[b][i].at <= run'[r].at
      BY <1>1, <1>2, <1>3, <2>3, <2>4, <3>1 DEF RInv, Alone, Working
    <3> QED BY <3>2, <3>3, <3>4 DEF Alone
  <2> QED BY <1>2, <1>3, <1>4, <2>3, <2>4, <2>5, <2>6, <2>7, <2>8, StepOfRun DEF Over, RInv
<1> QED BY <1>5, <1>6

\* The row a run inserts is one of its own that was not there.
LEMMA InsertAddsOne ==
    ASSUME IInv, NEW r \in Runs, run[r].pc = "inserting", assessments' = Inserted(r)
    PROVE  LET a == run[r].item
           IN  /\ RowsBy(r)' = RowsBy(r) \cup {<<a, Len(assessments[a]) + 1>>}
               /\ <<a, Len(assessments[a]) + 1>> \notin RowsBy(r)
<1> DEFINE a == run[r].item
           n == Len(assessments[a]) + 1
           row == [fields |-> Proposed(r), at |-> run[r].at, by |-> r]
<1>1. /\ TypeOK /\ a \in Alerts /\ row \in AssessmentType /\ row.by = r
      /\ assessments' = [assessments EXCEPT ![a] = Append(assessments[a], row)]
  BY InsertedIs DEF IInv
<1> HIDE DEF row
<1>2. /\ DOMAIN Append(assessments[a], row) = DOMAIN assessments[a] \cup {n}
      /\ n \notin DOMAIN assessments[a]
      /\ \A i \in DOMAIN assessments[a] : Append(assessments[a], row)[i] = assessments[a][i]
      /\ Append(assessments[a], row)[n] = row
  BY <1>1, RowsTyped, AppendKeeps
<1>3. /\ assessments'[a] = Append(assessments[a], row)
      /\ \A b \in Alerts \ {a} : assessments'[b] = assessments[b]
  BY <1>1 DEF TypeOK
<1> HIDE DEF n
<1> DEFINE Own(rows) == {i \in DOMAIN rows : rows[i].by = r}
<1>4. /\ Own(assessments'[a]) = Own(assessments[a]) \cup {n}
      /\ \A b \in Alerts \ {a} : Own(assessments'[b]) = Own(assessments[b])
      /\ n \notin Own(assessments[a])
  <2>1. Own(assessments'[a]) = Own(assessments[a]) \cup {n}
    BY <1>1, <1>2, <1>3
  <2>2. \A b \in Alerts \ {a} : Own(assessments'[b]) = Own(assessments[b])
    BY <1>3
  <2>3. n \notin Own(assessments[a])
    BY <1>2
  <2> QED BY <2>1, <2>2, <2>3
<1>5. RowsBy(r) = UNION {{b} \X Own(assessments[b]) : b \in Alerts}
  BY DEF RowsBy
<1>6. RowsBy(r)' = UNION {{b} \X Own(assessments'[b]) : b \in Alerts}
  BY DEF RowsBy
<1> HIDE DEF Own
<1>7. ASSUME NEW x PROVE x \in RowsBy(r)' <=> x \in RowsBy(r) \cup {<<a, n>>}
  <2>1. x \in RowsBy(r)' <=> \E b \in Alerts : x \in {b} \X Own(assessments'[b])
    BY <1>6
  <2>2. x \in RowsBy(r) <=> \E b \in Alerts : x \in {b} \X Own(assessments[b])
    BY <1>5
  <2>3. x \in {a} \X Own(assessments'[a]) <=> x \in {a} \X Own(assessments[a]) \/ x = <<a, n>>
    BY <1>4
  <2> QED BY <1>1, <1>4, <2>1, <2>2, <2>3
<1>8. <<a, n>> \notin RowsBy(r)
  BY <1>4, <1>5
<1> QED BY <1>7, <1>8 DEF n

\* The row is new, and the latest if nobody else has written in between.
LEMMA InsertKeeps == ASSUME IInv, NEW r \in Runs, Insert(r) PROVE IInv'
<1>1. TypeOK /\ RInv(r) /\ run[r] \in RunType
  BY RunTyped DEF IInv
<1> DEFINE a == run[r].item
           new == [run[r] EXCEPT !.pc = "looping", !.todo = @ \ {a}, !.item = None, !.at = 0,
                                 !.inserted = @ + 1]
<1>2. a \in run[r].todo /\ a \in Alerts /\ run[r].pc = "inserting" /\ lock[a] = r /\ Loaded(r)
  BY <1>1, RunTyped DEF Insert, RInv, Holds, Working, Loaded, Looping
<1>3. /\ clock' = clock /\ faults' \in 0 .. MaxFaults /\ UNCHANGED analysts /\ status' = status
      /\ lock' = Released(r) /\ assessments' = Inserted(r) /\ dispositions' = dispositions
      /\ run' = [run EXCEPT ![r] = new]
  BY <1>1 DEF TypeOK, Insert, outside, analysts
<1>4. run[r].todo \ {a} \in SUBSET Alerts /\ run[r].inserted + 1 \in Nat
  BY <1>1, RunTyped
<1>5. new \in RunType
  BY <1>1, <1>4, Updates, Values, Zenon
<1>6. /\ new.pc = "looping" /\ new.now = run[r].now /\ new.bases = run[r].bases
      /\ new.todo = run[r].todo \ {a} /\ new.at = 0
      /\ new.inserted = run[r].inserted + 1 /\ new.unchanged = run[r].unchanged
      /\ new.earlier = run[r].earlier
  BY <1>1 DEF RunType
<1> HIDE DEF new
<1>7. /\ run' \in [Runs -> RunType] /\ run'[r] = new
      /\ \A q \in Runs \ {r} : run'[q] = run[q]
  BY <1>1, <1>3, <1>5 DEF TypeOK
<1>8. /\ OnlyRun(r) /\ Appends(r) /\ lock' \in [Alerts -> Runs \cup {None}]
      /\ status' \in [Runs -> {"ABSENT", "RUNNING", "SUCCESS", "FAILED"}]
  BY <1>1, <1>2, <1>3, <1>7, ReleaseTyped DEF OnlyRun, Appends, TypeOK
<1>9. Timed(r)' /\ Holds(r)'
  BY <1>1, <1>3, <1>6, <1>7, RunTyped DEF RInv, Timed, Holds, Working
<1>10. Based(r)' /\ Recorded(r)'
  <2>1. Based(r)'
    BY <1>1, <1>2, <1>3, <1>6, <1>7, BasedStays DEF RInv
  <2>2. Recorded(r)'
    BY <1>1, <1>2, <1>3, <1>6, <1>7 DEF RInv, Recorded
  <2> QED BY <2>1, <2>2
<1>11. Counted(r)'
  <2>1. run[r].inserted \in Nat /\ run[r].unchanged \in Nat
    BY <1>1, RunTyped
  <2>2. /\ Cardinality(run[r].todo) = Cardinality(run[r].todo \ {a}) + 1
        /\ Cardinality(run[r].todo \ {a}) \in Nat
    BY <1>1, <1>2, RunTyped, OneFewer
  <2>3. /\ run[r].inserted + run[r].unchanged + Cardinality(run[r].todo) = Cardinality(Alerts)
        /\ IsFiniteSet(RowsBy(r)) /\ Cardinality(RowsBy(r)) = run[r].inserted
    BY <1>1, <1>2 DEF RInv, Counted
  <2>4. (run[r].inserted + 1) + run[r].unchanged + Cardinality(run[r].todo \ {a}) = Cardinality(Alerts)
    BY <2>1, <2>2, <2>3
  <2>5. IsFiniteSet(RowsBy(r)') /\ Cardinality(RowsBy(r)') = run[r].inserted + 1
    <3> DEFINE x == <<a, Len(assessments[a]) + 1>>
    <3>1. RowsBy(r)' = RowsBy(r) \cup {x} /\ x \notin RowsBy(r)
      BY <1>2, <1>3, InsertAddsOne
    <3> HIDE DEF x
    <3> QED BY <2>3, <3>1, FS_AddElement
  <2> QED BY <1>6, <1>7, <2>4, <2>5 DEF Counted
<1>12. Alone(r)'
  <2>1. Sole(r)' => Sole(r)
    BY <1>6, <1>7 DEF Sole
  <2>2. \A q \in run'[r].earlier : q # r /\ run'[q].pc \in Over
    BY <1>1, <1>6, <1>7, RunTyped DEF RInv, Alone
  <2>3. ASSUME Sole(r)', NEW b \in Alerts \ run'[r].todo PROVE Settled(r, b)'
    <3>1. CASE b # a
      <4>1. assessments'[b] = assessments[b]
        <5>1. PICK row : assessments' = [assessments EXCEPT ![a] = Append(assessments[a], row)]
          BY <1>2, <1>3, InsertedIs
        <5> QED BY <1>1, <3>1, <5>1 DEF TypeOK
      <4>2. Settled(r, b)
        BY <1>1, <1>2, <1>6, <1>7, <2>1, <2>3, <3>1 DEF RInv, Alone
      <4> QED BY <1>6, <1>7, <4>1, <4>2 DEF Settled
    <3>2. CASE b = a
      <4> DEFINE row == [fields |-> Proposed(r), at |-> run[r].at, by |-> r]
                 n == Len(assessments[a]) + 1
      <4>1. /\ row \in AssessmentType /\ row.fields = Proposed(r) /\ row.at = run[r].at
            /\ assessments'[a] = Append(assessments[a], row)
        <5>1. row \in AssessmentType /\ assessments' = [assessments EXCEPT ![a] = Append(assessments[a], row)]
          BY <1>2, <1>3, InsertedIs
        <5>2. row.fields = Proposed(r) /\ row.at = run[r].at
          OBVIOUS
        <5>3. assessments \in [Alerts -> Seq(AssessmentType)] /\ a \in Alerts
          BY <1>1, <2>1, <3>2 DEF TypeOK
        <5> HIDE DEF row
        <5>4. assessments'[a] = Append(assessments[a], row)
          BY <5>1, <5>3
        <5> QED BY <5>1, <5>2, <5>4
      <4> HIDE DEF row
      <4>2. /\ assessments[a] \in Seq(AssessmentType) /\ run[r].at \in Nat
            /\ \A i \in DOMAIN assessments[a] : assessments[a][i].at \in Nat
                                               /\ assessments[a][i].at <= run[r].at
        BY <1>1, <1>2, <2>1, <2>3, RowsTyped, RunTyped DEF RInv, Alone, Working
      <4>3. /\ DOMAIN assessments[a] = 1 .. Len(assessments[a]) /\ Len(assessments[a]) \in Nat
            /\ DOMAIN assessments'[a] = DOMAIN assessments[a] \cup {n}
            /\ \A i \in DOMAIN assessments[a] : assessments'[a][i] = assessments[a][i]
            /\ assessments'[a][n] = row
        BY <4>1, <4>2, AppendKeeps
      <4>4. /\ \A j \in DOMAIN assessments'[a] : assessments'[a][j].at \in Nat
            /\ DOMAIN assessments'[a] \subseteq Nat
            /\ IsLatest(assessments'[a], n)
        <5>1. \A j \in DOMAIN assessments'[a] : assessments'[a][j].at \in Nat
          BY <4>1, <4>2, <4>3
        <5>2. DOMAIN assessments'[a] \subseteq Nat
          BY <4>1, <4>3
        <5>3. IsLatest(assessments'[a], n)
          BY <4>1, <4>2, <4>3 DEF IsLatest
        <5> QED BY <5>1, <5>2, <5>3
      <4>5. LatestIn(assessments'[a]) = n
        <5> HIDE DEF n
        <5> QED BY <4>3, <4>4, LatestIsUnique
      <4>6. assessments'[a][LatestIn(assessments'[a])].fields = Assess(run[r].bases[a], run[r].now)
        BY <4>1, <4>3, <4>5 DEF Proposed
      <4> QED BY <1>6, <1>7, <3>2, <4>6 DEF Settled
    <3> QED BY <3>1, <3>2
  <2> QED BY <1>6, <1>7, <2>2, <2>3 DEF Alone, Working
<1> QED BY <1>2, <1>3, <1>6, <1>7, <1>8, <1>9, <1>10, <1>11, <1>12, StepOfRun DEF Over, RInv

LEMMA FaultTyped == ASSUME TypeOK, Fault PROVE faults' \in 0 .. MaxFaults /\ clock' = clock
BY LabelAssumption DEF TypeOK, Fault

\* A run that gives up, with or without its last row, claims nothing any more.
LEMMA AbandonKeeps ==
    ASSUME IInv, NEW r \in Runs, NEW pc \in {"aborting", "dead"}, Abandon(r, pc), Fault,
           lock' = Released(r), Appends(r), UNCHANGED <<analysts, status>>,
           run[r].pc \notin {"idle"} \cup Over
    PROVE  IInv'
<1>1. TypeOK /\ RInv(r)
  BY DEF IInv
<1> DEFINE new == [IdleRun EXCEPT !.pc = pc]
<1>2. /\ new \in RunType /\ new.pc = pc /\ new.now = 0 /\ new.at = 0 /\ new.todo = {} /\ new.earlier = {}
  BY LabelAssumption DEF IdleRun, RunType
<1>3. run' = [run EXCEPT ![r] = new]
  BY DEF Abandon
<1> HIDE DEF new
<1>4. /\ run' \in [Runs -> RunType] /\ run'[r] = new
      /\ \A q \in Runs \ {r} : run'[q] = run[q]
  BY <1>1, <1>2, <1>3 DEF TypeOK
<1>5. /\ clock' = clock /\ faults' \in 0 .. MaxFaults /\ clock \in Nat
      /\ OnlyRun(r) /\ lock' \in [Alerts -> Runs \cup {None}]
      /\ status' \in [Runs -> {"ABSENT", "RUNNING", "SUCCESS", "FAILED"}]
  BY <1>1, <1>4, FaultTyped, ReleaseTyped, LabelAssumption DEF OnlyRun, TypeOK
<1>6. status[r] = "RUNNING" /\ ~ Loaded(r)'
  BY <1>1, <1>2, <1>4, RunTyped DEF RInv, Recorded, Over, Loaded, Looping
<1>7. Timed(r)' /\ Holds(r)' /\ Based(r)' /\ Counted(r)' /\ Alone(r)' /\ Recorded(r)'
  BY <1>2, <1>4, <1>5, <1>6 DEF Timed, Holds, Based, Counted, Alone, Recorded, Working, Over
<1> QED BY <1>2, <1>4, <1>5, <1>7, StepOfRun DEF RInv, Over

LEMMA StepFailsKeeps == ASSUME IInv, NEW r \in Runs, StepFails(r) PROVE IInv'
<1>1. /\ Fault /\ Abandon(r, "aborting") /\ lock' = Released(r) /\ UNCHANGED <<analysts, status>>
      /\ run[r].pc \in {"begun", "waiting", "locked", "inserting"} /\ Appends(r)
  BY DEF StepFails, Appends
<1> QED BY <1>1, AbandonKeeps DEF Over

LEMMA DieKeeps == ASSUME IInv, NEW r \in Runs, Die(r) PROVE IInv'
<1>1. /\ Fault /\ Abandon(r, "dead") /\ lock' = Released(r) /\ UNCHANGED <<analysts, status>>
      /\ run[r].pc \notin {"idle", "ended", "dead"} /\ Appends(r)
  BY DEF Die, Appends
<1> QED BY <1>1, AbandonKeeps DEF Over

-----------------------------------------------------------------------------
(* Analysts and the clock.                                                  *)

\* What a disposition said it goes on saying.
DispositionsStay ==
    \A a \in Alerts : \A i \in DOMAIN dispositions[a] :
        i \in DOMAIN dispositions'[a] /\ dispositions'[a][i] = dispositions[a][i]

\* A step that leaves the runs alone is done when it keeps the types and the verdicts.
LEMMA StepOfOthers ==
    ASSUME IInv, UNCHANGED <<assessments, lock, run, status>>, clock' >= clock, DispositionsStay,
           TypeOK', ClosedByExactlyOneVerdict', \A d \in Tickets : Filed(d)'
    PROVE  IInv'
<1>1. TypeOK /\ EligibleLabelsAreEarned /\ Stamped /\ \A r \in Runs : RInv(r)
  BY DEF IInv
<1>2. EligibleLabelsAreEarned'
  <2>1. \A a \in Alerts : \A n \in VerdictsOn(a) :
           n \in VerdictsOn(a)' /\ dispositions'[a][n] = dispositions[a][n]
    BY DEF VerdictsOn, DispositionsStay
  <2> SUFFICES ASSUME NEW a \in Alerts, NEW i \in DOMAIN assessments[a], assessments[a][i].fields.eligible
               PROVE  LET row == assessments[a][i]
                          f   == row.fields
                      IN  IF f.source = 0 THEN f.label = Truth[a]
                          ELSE /\ f.source \in VerdictsOn(a)'
                               /\ f.label = Resolve(dispositions'[a][f.source].kind)
                               /\ row.at >= dispositions'[a][f.source].at + Window
    BY assessments' = assessments DEF EligibleLabelsAreEarned
  <2>2. LET row == assessments[a][i]
            f   == row.fields
        IN  IF f.source = 0 THEN f.label = Truth[a]
            ELSE /\ f.source \in VerdictsOn(a)
                 /\ f.label = Resolve(dispositions[a][f.source].kind)
                 /\ row.at >= dispositions[a][f.source].at + Window
    BY <1>1 DEF EligibleLabelsAreEarned
  <2>3. /\ \A n \in VerdictsOn(a) : n \in VerdictsOn(a)'
        /\ \A n \in VerdictsOn(a) : dispositions'[a][n] = dispositions[a][n]
    BY <2>1
  <2> QED BY <2>2, <2>3
<1>3. Stamped'
  <2>1. clock \in Nat /\ clock' \in Nat
    BY <1>1, LabelAssumption DEF TypeOK
  <2>2. \A a \in Alerts : \A i \in DOMAIN assessments[a] : assessments[a][i].at \in Nat
    BY <1>1, RowsTyped, LabelAssumption
  <2> QED BY <1>1, <2>1, <2>2 DEF Stamped
<1>4. ASSUME NEW r \in Runs PROVE RInv(r)'
  <2>1. RInv(r)
    BY <1>1
  <2>2. Timed(r)'
    <3>1. clock \in Nat /\ clock' \in Nat /\ run[r].now \in Nat /\ run[r].at \in Nat
      BY <1>1, RunTyped, LabelAssumption DEF TypeOK
    <3> QED BY <2>1, <3>1 DEF RInv, Timed
  <2>3. Based(r)'
    BY <2>1 DEF RInv, Based, Loaded, Supported, DispositionsStay
  <2>4. Holds(r)' /\ Counted(r)' /\ Alone(r)' /\ Recorded(r)'
    BY <2>1 DEF RInv, Holds, Unchanged, Proposed, Counted, Loaded, RowsBy, Alone, Sole, Settled, Recorded
  <2> QED BY <2>2, <2>3, <2>4 DEF RInv
<1> QED BY <1>2, <1>3, <1>4 DEF IInv

LEMMA TickKeeps == ASSUME IInv, Tick PROVE IInv'
<1>1. /\ TypeOK /\ ClosedByExactlyOneVerdict /\ (\A d \in Tickets : Filed(d))
      /\ clock \in Nat /\ clock' = clock + 1
      /\ UNCHANGED <<faults, alertStatus, dispositions, ticket, assessments, lock, run, status>>
  BY LabelAssumption DEF IInv, Tick, analysts, TypeOK
<1>2. TypeOK'
  BY <1>1, LabelAssumption DEF TypeOK, Tick
<1>3. ClosedByExactlyOneVerdict' /\ DispositionsStay /\ \A d \in Tickets : Filed(d)'
  BY <1>1 DEF ClosedByExactlyOneVerdict, VerdictsOn, DispositionsStay, Filed
<1>4. clock' >= clock
  BY <1>1
<1> QED BY <1>1, <1>2, <1>3, <1>4, StepOfOthers

LEMMA StartDispositionKeeps == ASSUME IInv, NEW d \in Tickets, StartDisposition(d) PROVE IInv'
<1>1. /\ TypeOK /\ ClosedByExactlyOneVerdict /\ (\A c \in Tickets : Filed(c)) /\ clock \in 0 .. MaxClock
      /\ UNCHANGED <<clock, faults, alertStatus, dispositions, assessments, lock, run, status>>
  BY DEF IInv, StartDisposition, outside, TypeOK
<1>2. PICK a \in Alerts, k \in Kinds :
         ticket' = [ticket EXCEPT ![d] = [pc |-> "waiting", alert |-> a, kind |-> k, at |-> clock]]
  BY DEF StartDisposition
<1>3. ticket' \in [Tickets -> TicketType] /\ \A c \in Tickets : Filed(c)'
  BY <1>1, <1>2 DEF TypeOK, TicketType, Filed
<1>4. TypeOK' /\ ClosedByExactlyOneVerdict' /\ DispositionsStay /\ clock' >= clock
  BY <1>1, <1>3, LabelAssumption DEF TypeOK, ClosedByExactlyOneVerdict, VerdictsOn, DispositionsStay
<1> QED BY <1>1, <1>3, <1>4, StepOfOthers

\* A ticket that is settled keeps its alert and its verdict.
LEMMA SettleKeeps ==
    ASSUME TypeOK, (\A c \in Tickets : Filed(c)), NEW d \in Tickets, ticket[d].pc = "waiting",
           NEW outcome \in {"recorded", "rejected", "failed"}, Settle(d, outcome)
    PROVE  ticket' \in [Tickets -> TicketType] /\ \A c \in Tickets : Filed(c)'
<1>1. ticket[d] \in TicketType /\ Filed(d)
  BY DEF TypeOK
<1> DEFINE new == [ticket[d] EXCEPT !.pc = outcome]
<1>2. new \in TicketType /\ new.alert = ticket[d].alert /\ new.kind = ticket[d].kind
  BY <1>1 DEF TicketType
<1>3. ticket' = [ticket EXCEPT ![d] = new]
  BY DEF Settle
<1> HIDE DEF new
<1> QED BY <1>1, <1>2, <1>3 DEF TypeOK, Filed

\* The verdict that closes an alert is the last row, and the first verdict.
LEMMA AppendDispositionKeeps ==
    ASSUME IInv, NEW d \in Tickets, ticket[d].pc = "waiting", alertStatus[ticket[d].alert] # "CLOSED",
           NEW outcome \in {"recorded", "failed"}, AppendDisposition(d, outcome),
           faults' \in 0 .. MaxFaults, clock' = clock, UNCHANGED <<assessments, lock, run, status>>
    PROVE  IInv'
<1> PICK a \in Alerts : a = ticket[d].alert
  BY DEF IInv, Filed
<1> DEFINE row == [kind |-> ticket[d].kind, at |-> ticket[d].at]
<1>1. /\ TypeOK /\ ClosedByExactlyOneVerdict /\ (\A c \in Tickets : Filed(c)) /\ Settle(d, outcome)
      /\ alertStatus[a] # "CLOSED" /\ ticket[d].kind \in Kinds /\ ticket[d] \in TicketType
  BY DEF IInv, Filed, TypeOK, AppendDisposition
<1>2. row \in DispositionType /\ row.kind = ticket[d].kind
  BY <1>1 DEF DispositionType, TicketType
<1>3. /\ dispositions' = [dispositions EXCEPT ![a] = Append(dispositions[a], row)]
      /\ alertStatus' = [alertStatus EXCEPT ![a] = StatusAfter(ticket[d].kind)]
  BY DEF AppendDisposition
<1> HIDE DEF row
<1>4. dispositions[a] \in Seq(DispositionType)
  BY <1>1 DEF TypeOK
<1> DEFINE n == Len(dispositions[a]) + 1
<1>5. /\ Append(dispositions[a], row) \in Seq(DispositionType)
      /\ Len(Append(dispositions[a], row)) = n
      /\ DOMAIN Append(dispositions[a], row) = DOMAIN dispositions[a] \cup {n}
      /\ n \notin DOMAIN dispositions[a]
      /\ \A i \in DOMAIN dispositions[a] : Append(dispositions[a], row)[i] = dispositions[a][i]
      /\ Append(dispositions[a], row)[n] = row
  BY <1>2, <1>4, AppendKeeps
<1> HIDE DEF n
<1>6. /\ dispositions'[a] = Append(dispositions[a], row)
      /\ \A b \in Alerts \ {a} : dispositions'[b] = dispositions[b] /\ alertStatus'[b] = alertStatus[b]
      /\ dispositions' \in [Alerts -> Seq(DispositionType)]
      /\ alertStatus'[a] = StatusAfter(ticket[d].kind)
      /\ alertStatus' \in [Alerts -> {"OPEN", "IN_REVIEW", "CLOSED"}]
  BY <1>1, <1>3, <1>5 DEF TypeOK, StatusAfter
<1>7. ticket' \in [Tickets -> TicketType] /\ \A c \in Tickets : Filed(c)'
  BY <1>1, SettleKeeps
<1>8. TypeOK' /\ DispositionsStay /\ clock' >= clock
  <2>1. TypeOK'
    BY <1>1, <1>6, <1>7 DEF TypeOK
  <2>2. DispositionsStay
    <3>1. \A i \in DOMAIN dispositions[a] :
             i \in DOMAIN dispositions'[a] /\ dispositions'[a][i] = dispositions[a][i]
      BY <1>5, <1>6
    <3> QED BY <1>6, <3>1 DEF DispositionsStay
  <2> QED BY <1>1, <2>1, <2>2, LabelAssumption DEF TypeOK
<1>9. ClosedByExactlyOneVerdict'
  <2>1. VerdictsOn(a) = {}
    BY <1>1 DEF ClosedByExactlyOneVerdict
  <2>2. VerdictsOn(a)' = IF StatusAfter(ticket[d].kind) = "CLOSED" THEN {n} ELSE {}
    <3>1. /\ DOMAIN dispositions'[a] = DOMAIN dispositions[a] \cup {n}
          /\ \A i \in DOMAIN dispositions[a] : dispositions'[a][i] = dispositions[a][i]
          /\ dispositions'[a][n].kind = ticket[d].kind
      BY <1>2, <1>5, <1>6
    <3>2. \A i \in DOMAIN dispositions[a] : StatusAfter(dispositions[a][i].kind) # "CLOSED"
      BY <2>1 DEF VerdictsOn
    <3>3. VerdictsOn(a)' = {i \in DOMAIN dispositions'[a] : StatusAfter(dispositions'[a][i].kind) = "CLOSED"}
      BY DEF VerdictsOn
    <3> QED BY <3>1, <3>2, <3>3
  <2>3. VerdictsOn(a)' = IF alertStatus'[a] = "CLOSED" THEN {Len(dispositions'[a])} ELSE {}
    BY <1>5, <1>6, <2>2
  <2>4. \A b \in Alerts \ {a} : VerdictsOn(b)' = VerdictsOn(b)
    BY <1>6 DEF VerdictsOn
  <2> QED BY <1>1, <1>6, <2>3, <2>4 DEF ClosedByExactlyOneVerdict
<1> QED BY <1>7, <1>8, <1>9, StepOfOthers

\* A ticket turned away, or rolled back, changes no alert.
LEMMA OnlySettleKeeps ==
    ASSUME IInv, NEW d \in Tickets, ticket[d].pc = "waiting",
           NEW outcome \in {"recorded", "rejected", "failed"}, Settle(d, outcome),
           faults' \in 0 .. MaxFaults, clock' = clock,
           UNCHANGED <<alertStatus, dispositions, assessments, lock, run, status>>
    PROVE  IInv'
<1>1. TypeOK /\ ClosedByExactlyOneVerdict /\ \A c \in Tickets : Filed(c)
  BY DEF IInv
<1>2. ticket' \in [Tickets -> TicketType] /\ \A c \in Tickets : Filed(c)'
  BY <1>1, SettleKeeps
<1>3. TypeOK' /\ ClosedByExactlyOneVerdict' /\ DispositionsStay /\ clock' >= clock
  BY <1>1, <1>2, LabelAssumption DEF TypeOK, ClosedByExactlyOneVerdict, VerdictsOn, DispositionsStay
<1> QED BY <1>2, <1>3, StepOfOthers

LEMMA DisposeKeeps == ASSUME IInv, NEW d \in Tickets, Dispose(d) PROVE IInv'
<1>1. TypeOK /\ faults \in 0 .. MaxFaults
  BY DEF IInv, TypeOK
<1>2. CASE StartDisposition(d)
  BY <1>2, StartDispositionKeeps
<1>3. CASE RecordDisposition(d)
  <2>1. /\ ticket[d].pc = "waiting" /\ faults' = faults /\ clock' = clock
        /\ UNCHANGED <<assessments, lock, run, status>>
        /\ \/ alertStatus[ticket[d].alert] # "CLOSED" /\ AppendDisposition(d, "recorded")
           \/ Settle(d, "rejected") /\ UNCHANGED <<alertStatus, dispositions>>
    BY <1>3 DEF RecordDisposition, outside
  <2> QED BY <1>1, <2>1, AppendDispositionKeeps, OnlySettleKeeps
<1>4. CASE DispositionFails(d)
  <2>1. /\ ticket[d].pc = "waiting" /\ faults' \in 0 .. MaxFaults /\ clock' = clock
        /\ UNCHANGED <<assessments, lock, run, status>>
        /\ \/ alertStatus[ticket[d].alert] # "CLOSED" /\ AppendDisposition(d, "failed")
           \/ Settle(d, "failed") /\ UNCHANGED <<alertStatus, dispositions>>
    BY <1>1, <1>4, FaultTyped DEF DispositionFails
  <2> QED BY <2>1, AppendDispositionKeeps, OnlySettleKeeps
<1> QED BY <1>2, <1>3, <1>4 DEF Dispose

-----------------------------------------------------------------------------
(* The theorems.                                                            *)

LEMMA InitEstablishes == Init => IInv
<1> SUFFICES ASSUME Init PROVE IInv
  OBVIOUS
<1>1. IdleRun \in RunType
  BY LabelAssumption DEF IdleRun, RunType
<1>2. TypeOK
  <2>1. <<>> \in Seq(DispositionType) /\ <<>> \in Seq(AssessmentType)
    OBVIOUS
  <2>2. [pc |-> "idle", alert |-> None, kind |-> None, at |-> 0] \in TicketType
    BY LabelAssumption DEF TicketType
  <2> QED BY <1>1, <2>1, <2>2, LabelAssumption DEF Init, TypeOK
<1>3. ClosedByExactlyOneVerdict /\ EligibleLabelsAreEarned /\ Stamped
  BY DEF Init, ClosedByExactlyOneVerdict, VerdictsOn, EligibleLabelsAreEarned, Stamped
<1>4. \A d \in Tickets : Filed(d)
  BY DEF Init, Filed
<1>5. ASSUME NEW r \in Runs PROVE RInv(r)
  <2>1. /\ run[r].pc = "idle" /\ run[r].now = 0 /\ run[r].at = 0 /\ run[r].earlier = {}
        /\ run[r].inserted = 0 /\ run[r].unchanged = 0 /\ run[r].todo = {}
        /\ status[r] = "ABSENT" /\ clock = 0
    BY DEF Init, IdleRun
  <2>2. RowsBy(r) = {}
    BY DEF Init, RowsBy
  <2>3. ~ Loaded(r)
    BY <2>1 DEF Loaded, Looping
  <2> QED BY <2>1, <2>2, <2>3 DEF RInv, Timed, Holds, Based, Counted, Alone, Recorded, Working
<1> QED BY <1>2, <1>3, <1>4, <1>5 DEF IInv

LEMMA NextKeeps == IInv /\ [Next]_vars => IInv'
<1> SUFFICES ASSUME IInv, [Next]_vars PROVE IInv'
  OBVIOUS
<1>1. CASE Tick
  BY <1>1, TickKeeps
<1>2. CASE \E d \in Tickets : Dispose(d)
  BY <1>2, DisposeKeeps
<1>3. CASE \E r \in Runs : AssessRun(r)
  BY <1>3, BeginKeeps, LoadKeeps, StartAppendKeeps, TakeLockKeeps, CompareKeeps, InsertKeeps,
     StepFailsKeeps, FinishKeeps, RecordFailureKeeps, DieKeeps DEF AssessRun
<1>4. CASE UNCHANGED vars
  <2>1. TypeOK /\ ClosedByExactlyOneVerdict /\ (\A d \in Tickets : Filed(d)) /\ clock \in Nat
    BY LabelAssumption DEF IInv, TypeOK
  <2>2. UNCHANGED <<clock, faults, alertStatus, dispositions, ticket, assessments, lock, run, status>>
    BY <1>4 DEF vars
  <2>3. TypeOK' /\ ClosedByExactlyOneVerdict' /\ DispositionsStay /\ clock' >= clock
        /\ \A d \in Tickets : Filed(d)'
    BY <2>1, <2>2 DEF TypeOK, ClosedByExactlyOneVerdict, VerdictsOn, DispositionsStay, Filed
  <2> QED BY <2>2, <2>3, StepOfOthers
<1> QED BY <1>1, <1>2, <1>3, <1>4 DEF Next

\* The invariant holds of every behaviour of analysts and runs.
THEOREM Inductive == Spec => []IInv
BY InitEstablishes, NextKeeps, PTL DEF Spec

\* Every table keeps its type: an assessment's fields, source and timestamps
\* included, and every ticket and run in progress.
THEOREM TypeCorrect == Spec => []TypeOK
<1>1. IInv => TypeOK
  BY DEF IInv
<1> QED BY <1>1, Inductive, PTL

\* record_disposition's row lock: however many analysts decide at once, a
\* closed alert has exactly one verdict, its last disposition.
THEOREM OneVerdictCloses == Spec => []ClosedByExactlyOneVerdict
<1>1. IInv => ClosedByExactlyOneVerdict
  BY DEF IInv
<1> QED BY <1>1, Inductive, PTL

\* assess_label's maturity: whatever runs and analysts race, a label offered
\* for training is the verdict its row cites, one maturity window old.
THEOREM EligibleIsEarned == Spec => []EligibleLabelsAreEarned
<1>1. IInv => EligibleLabelsAreEarned
  BY DEF IInv
<1> QED BY <1>1, Inductive, PTL

\* A successful run's counters are the rows it wrote and the bases it loaded.
THEOREM CountsAreRows == Spec => []SuccessCountsItsRows
<1>1. IInv => SuccessCountsItsRows
  <2>1. SUFFICES ASSUME IInv, NEW r \in Runs, status[r] = "SUCCESS"
                 PROVE  /\ run[r].inserted + run[r].unchanged = Cardinality(Alerts)
                        /\ run[r].inserted = Cardinality(RowsBy(r))
    BY DEF SuccessCountsItsRows
  <2>2. TypeOK /\ RInv(r)
    BY <2>1 DEF IInv
  <2>3. run[r].inserted \in Nat /\ run[r].unchanged \in Nat /\ Cardinality(run[r].todo) = 0
    BY <2>1, <2>2, RunTyped, FS_EmptySet DEF RInv, Recorded
  <2> QED BY <2>1, <2>2, <2>3 DEF RInv, Counted, Loaded
<1> QED BY <1>1, Inductive, PTL

\* A run no other overlapped leaves every alert assessed as its basis says,
\* even where earlier runs wrote their rows out of timestamp order.
THEOREM SoleRunsSettle == Spec => []SoleRunSettles
<1>1. IInv => SoleRunSettles
  <2>1. SUFFICES ASSUME IInv, NEW r \in Runs, status[r] = "SUCCESS", Sole(r), NEW a \in Alerts
                 PROVE  Settled(r, a)
    BY DEF SoleRunSettles, Sole, Settled
  <2>2. RInv(r)
    BY <2>1 DEF IInv
  <2> QED BY <2>1, <2>2 DEF RInv, Alone, Recorded, Loaded
<1> QED BY <1>1, Inductive, PTL

\* append_if_changed: under the advisory lock no run inserts a row equal to
\* the latest one, though others compared and inserted in the meantime.
THEOREM ChangesAreAppended == Spec => OnlyChangesAreAppended
<1> DEFINE Changed(a) ==
              Len(assessments'[a]) > Len(assessments[a]) =>
                 \/ assessments[a] = <<>>
                 \/ assessments'[a][Len(assessments'[a])].fields
                       # assessments[a][LatestIn(assessments[a])].fields
<1>1. IInv /\ [Next]_vars => [\A a \in Alerts : Changed(a)]_vars
  <2>1. SUFFICES ASSUME IInv, Next, NEW a \in Alerts, Len(assessments'[a]) > Len(assessments[a])
                 PROVE  Changed(a)
    BY DEF vars
  <2>2. TypeOK /\ Len(assessments[a]) \in Nat
    BY <2>1, RowsTyped DEF IInv
  <2>3. assessments' # assessments
    BY <2>1, <2>2
  <2>4. PICK r \in Runs : Insert(r) \/ StepFails(r)
    BY <2>1, <2>3
       DEF Next, Tick, analysts, outside, Dispose, StartDisposition, RecordDisposition, DispositionFails,
           AssessRun, Begin, Load, StartAppend, TakeLock, Compare, Finish, RecordFailure, Die
  <2>5. run[r].pc = "inserting" /\ assessments' = Inserted(r)
    BY <2>3, <2>4 DEF Insert, StepFails
  <2> DEFINE row == [fields |-> Proposed(r), at |-> run[r].at, by |-> r]
             b == run[r].item
  <2>6. /\ b \in Alerts /\ row \in AssessmentType /\ row.fields = Proposed(r)
        /\ assessments' = [assessments EXCEPT ![b] = Append(assessments[b], row)]
    BY <2>1, <2>5, InsertedIs
  <2> HIDE DEF row
  <2>7. a = b /\ assessments'[a] = Append(assessments[a], row)
    <3>1. assessments'[a] # assessments[a]
      BY <2>1, <2>2
    <3> QED BY <2>2, <2>6, <3>1 DEF TypeOK
  <2>8. Append(assessments[a], row)[Len(Append(assessments[a], row))] = row
    BY <2>2, <2>6, RowsTyped, AppendKeeps
  <2>9. ~ Unchanged(r)
    BY <2>1, <2>5 DEF IInv, RInv, Holds
  <2> QED BY <2>6, <2>7, <2>8, <2>9 DEF Unchanged
<1> QED BY <1>1, Inductive, PTL DEF Spec, OnlyChangesAreAppended

\* The label_eligibility rows of pipeline_runs implement the run record.
THEOREM RecordsAreImplemented == Spec => ImplementsRunRecords
<1>1. Init => Records!Init
  BY DEF Init, Records!Init
<1>2. IInv /\ [Next]_vars => [Records!Next]_status
  <2>1. SUFFICES ASSUME IInv, Next, status' # status PROVE Records!Next
    BY DEF vars
  <2>2. PICK r \in Runs : Begin(r) \/ Finish(r) \/ RecordFailure(r)
    BY <2>1
       DEF Next, Tick, Dispose, StartDisposition, RecordDisposition, DispositionFails,
           AssessRun, Load, StartAppend, TakeLock, Compare, Insert, StepFails, Die
  <2>3. Recorded(r) /\ status[r] \in {"ABSENT", "RUNNING", "SUCCESS", "FAILED"}
    BY <2>1, RunTyped DEF IInv, RInv
  <2>4. CASE Begin(r)
    <3>1. Records!Appear(r)
      BY <2>3, <2>4 DEF Begin, Recorded, Records!Appear, Records!Open
    <3> QED BY <3>1 DEF Records!Next
  <2>5. CASE Finish(r) \/ RecordFailure(r)
    <3>1. \E s \in {"SUCCESS", "FAILED"} : status' = [status EXCEPT ![r] = s] /\ status[r] = "RUNNING"
      BY <2>3, <2>5 DEF Finish, RecordFailure, Recorded
    <3>2. \E s \in Records!Terminal : Records!EndWith(r, s)
      BY <3>1 DEF Records!EndWith, Records!Terminal, Records!Open
    <3> QED BY <3>2 DEF Records!Next
  <2> QED BY <2>2, <2>4, <2>5
<1> QED BY <1>1, <1>2, Inductive, PTL DEF Spec, ImplementsRunRecords, Records!Spec
=============================================================================
