-------------------------- MODULE LabelEligibility --------------------------
(***************************************************************************)
(* Analysts dispose of alerts (record_disposition in                       *)
(* src/src/fraud_intel/alerts/queue.py) while label_eligibility runs       *)
(* (src/src/fraud_intel/labels/eligibility.py) turn each alert's latest    *)
(* disposition, or its synthetic ground truth, into an append-only         *)
(* sequence of assessments, of which only the latest is ever read.         *)
(*                                                                         *)
(* disposed_at and evaluated_at default to now(), which PostgreSQL fixes   *)
(* when a transaction STARTS; both transactions may then wait for a lock,  *)
(* so commit order and timestamp order need not agree.                     *)
(***************************************************************************)
EXTENDS Naturals, FiniteSets, Sequences

CONSTANTS Alerts,
          Truth,         \* [Alerts -> verdicts]: the synthetic ground truth
          Tickets,       \* calls of record_disposition
          Kinds,         \* the dispositions analysts choose from
          Runs,
          Window,        \* ANALYST_MATURITY_WINDOW_DAYS, in ticks
          MaxClock,      \* bound on the clock
          MaxFaults,     \* bound on failing transactions and dying processes
          None

Resolved    == {"RESOLVED_FRAUD", "RESOLVED_LEGITIMATE"}
Dispositions == {"CONFIRMED_FRAUD", "CONFIRMED_LEGITIMATE", "NEEDS_MORE_INFO", "ESCALATED"}

ASSUME LabelAssumption == /\ IsFiniteSet(Alerts)
                          /\ Truth \in [Alerts -> Resolved]
                          /\ Kinds \subseteq Dispositions
                          /\ Window \in Nat /\ MaxClock \in Nat
                          /\ None \notin Alerts \cup Runs
                          /\ MaxFaults \in Nat

VARIABLES clock,         \* the database's and the processes' clock
          faults,        \* how many faults have happened
          alertStatus,   \* [Alerts -> status]: fraud_alerts.status
          dispositions,  \* [Alerts -> Seq(DispositionType)], in order of disposition_id
          ticket,        \* [Tickets -> TicketType]: record_disposition in progress
          assessments,   \* [Alerts -> Seq(AssessmentType)], in order of assessment_id
          lock,          \* [Alerts -> Runs \cup {None}]: the advisory lock on the alert
          run,           \* [Runs -> RunType]: assess_channel_labels in progress
          status         \* [Runs -> status]: the label_eligibility rows

vars == <<clock, faults, alertStatus, dispositions, ticket, assessments, lock, run, status>>
outside  == <<clock, faults>>
analysts == <<alertStatus, dispositions, ticket>>

Labels == Resolved \cup {"UNRESOLVED"}

\* source 0: the synthetic ground truth; since: basis_timestamp.
BasisType == [source : Nat, since : 0 .. MaxClock, label : Labels]
FieldsType == [source : Nat, since : 0 .. MaxClock, label : Labels,
               mature : BOOLEAN, eligible : BOOLEAN]
DispositionType == [kind : Kinds, at : 0 .. MaxClock]
AssessmentType  == [fields : FieldsType, at : 0 .. MaxClock, by : Runs]
TicketType == [pc : {"idle", "waiting", "recorded", "rejected", "failed"},
               alert : Alerts \cup {None}, kind : Kinds \cup {None}, at : 0 .. MaxClock]

\* earlier: the runs that had ended before this one began (history).
RunType == [pc : {"idle", "begun", "looping", "waiting", "locked", "inserting", "aborting",
                  "ended", "dead"},
            now : 0 .. MaxClock, bases : [Alerts -> BasisType] \cup {None},
            todo : SUBSET Alerts, item : Alerts \cup {None}, at : 0 .. MaxClock,
            inserted : Nat, unchanged : Nat, earlier : SUBSET Runs]

IdleRun == [pc |-> "idle", now |-> 0, bases |-> None, todo |-> {}, item |-> None, at |-> 0,
            inserted |-> 0, unchanged |-> 0, earlier |-> {}]

Init == /\ clock = 0
        /\ faults = 0
        /\ alertStatus = [a \in Alerts |-> "OPEN"]
        /\ dispositions = [a \in Alerts |-> <<>>]
        /\ ticket = [d \in Tickets |-> [pc |-> "idle", alert |-> None, kind |-> None, at |-> 0]]
        /\ assessments = [a \in Alerts |-> <<>>]
        /\ lock = [a \in Alerts |-> None]
        /\ run = [r \in Runs |-> IdleRun]
        /\ status = [r \in Runs |-> "ABSENT"]

Tick == /\ clock < MaxClock
        /\ clock' = clock + 1
        /\ UNCHANGED <<faults, analysts, assessments, lock, run, status>>

\* One more transaction or process fails.
Fault == /\ faults < MaxFaults
         /\ faults' = faults + 1
         /\ UNCHANGED clock

\* ORDER BY <timestamp> DESC, <id> DESC LIMIT 1, of a non-empty table.
LatestIn(rows) ==
    CHOOSE i \in DOMAIN rows : \A j \in DOMAIN rows :
        rows[j].at < rows[i].at \/ (rows[j].at = rows[i].at /\ j <= i)

-----------------------------------------------------------------------------
(* record_disposition: one transaction, the alert's row locked first.       *)

StartDisposition(d) ==
    /\ ticket[d].pc = "idle"
    /\ \E a \in Alerts, k \in Kinds :
          ticket' = [ticket EXCEPT ![d] = [pc |-> "waiting", alert |-> a, kind |-> k, at |-> clock]]
    /\ UNCHANGED <<outside, alertStatus, dispositions, assessments, lock, run, status>>

\* _STATUS_BY_DISPOSITION
StatusAfter(k) == IF k \in {"CONFIRMED_FRAUD", "CONFIRMED_LEGITIMATE"} THEN "CLOSED"
                  ELSE "IN_REVIEW"

Settle(d, outcome) == ticket' = [ticket EXCEPT ![d].pc = outcome]

AppendDisposition(d, outcome) ==
    LET t == ticket[d]
    IN  /\ dispositions' = [dispositions EXCEPT ![t.alert] = Append(@, [kind |-> t.kind, at |-> t.at])]
        /\ alertStatus' = [alertStatus EXCEPT ![t.alert] = StatusAfter(t.kind)]
        /\ Settle(d, outcome)

RecordUnlessResolved(d) ==     \* variant: only a second verdict is turned away
    /\ ticket[d].pc = "waiting"
    /\ IF alertStatus[ticket[d].alert] = "CLOSED" /\ StatusAfter(ticket[d].kind) = "CLOSED"
       THEN Settle(d, "rejected") /\ UNCHANGED <<alertStatus, dispositions>>
       ELSE AppendDisposition(d, "recorded")
    /\ UNCHANGED <<outside, assessments, lock, run, status>>

\* SELECT ... FOR UPDATE has the row: check, INSERT, UPDATE and commit.  The
\* lock keeps every other writer of the alert out until the commit.
RecordDisposition(d) ==
    /\ ticket[d].pc = "waiting"
    /\ IF alertStatus[ticket[d].alert] = "CLOSED"
       THEN Settle(d, "rejected") /\ UNCHANGED <<alertStatus, dispositions>>
       ELSE AppendDisposition(d, "recorded")
    /\ UNCHANGED <<outside, assessments, lock, run, status>>

\* Rolled back, or committed without the analyst knowing.
DispositionFails(d) ==
    /\ Fault
    /\ ticket[d].pc = "waiting"
    /\ \/ Settle(d, "failed") /\ UNCHANGED <<alertStatus, dispositions>>
       \/ alertStatus[ticket[d].alert] # "CLOSED" /\ AppendDisposition(d, "failed")
    /\ UNCHANGED <<assessments, lock, run, status>>

-----------------------------------------------------------------------------
(* assess_channel_labels.                                                   *)

\* resolve_label_from_disposition
Resolve(k) == CASE k = "CONFIRMED_FRAUD"      -> "RESOLVED_FRAUD"
                [] k = "CONFIRMED_LEGITIMATE" -> "RESOLVED_LEGITIMATE"
                [] OTHER                      -> "UNRESOLVED"

\* load_alert_label_bases, for one alert.
BasisOf(a) ==
    IF dispositions[a] = <<>> THEN [source |-> 0, since |-> 0, label |-> Truth[a]]
    ELSE LET i == LatestIn(dispositions[a])
         IN  [source |-> i, since |-> dispositions[a][i].at,
              label |-> Resolve(dispositions[a][i].kind)]

AssessFromEvent(b, now) ==     \* variant: maturity measured from the event, not the evidence
    LET mature == b.source = 0 \/ now >= Window
    IN  [source |-> b.source, since |-> b.since, label |-> b.label,
         mature |-> mature, eligible |-> mature /\ b.label \in Resolved]

\* assess_label
Assess(b, now) ==
    LET mature == b.source = 0 \/ now >= b.since + Window
    IN  [source |-> b.source, since |-> b.since, label |-> b.label,
         mature |-> mature, eligible |-> mature /\ b.label \in Resolved]

\* The run's record first, then effective_now.
Begin(r) ==
    /\ run[r].pc = "idle"
    /\ run' = [run EXCEPT ![r].pc = "begun", ![r].now = clock,
                          ![r].earlier = {q \in Runs : run[q].pc \in {"ended", "dead"}}]
    /\ status' = [status EXCEPT ![r] = "RUNNING"]
    /\ UNCHANGED <<outside, analysts, assessments, lock>>

\* One SELECT over all alerts of the generation.
Load(r) ==
    /\ run[r].pc = "begun"
    /\ run' = [run EXCEPT ![r].pc = "looping", ![r].bases = [a \in Alerts |-> BasisOf(a)],
                          ![r].todo = Alerts]
    /\ UNCHANGED <<outside, analysts, assessments, lock, status>>

\* append_if_changed starts its transaction; the rows come in no order.
StartAppend(r) ==
    /\ run[r].pc = "looping"
    /\ \E a \in run[r].todo :
          run' = [run EXCEPT ![r].pc = "waiting", ![r].item = a, ![r].at = clock]
    /\ UNCHANGED <<outside, analysts, assessments, lock, status>>

NoLock(r) == TRUE              \* variant: compare and insert without the advisory lock

LockFree(r) == lock[run[r].item] = None

TakeLock(r) ==
    /\ run[r].pc = "waiting"
    /\ LockFree(r)
    /\ lock' = [lock EXCEPT ![run[r].item] = r]
    /\ run' = [run EXCEPT ![r].pc = "locked"]
    /\ UNCHANGED <<outside, analysts, assessments, status>>

Proposed(r) == Assess(run[r].bases[run[r].item], run[r].now)

AlreadyAssessed(r) ==          \* variant: compared with every row, not with the latest
    LET rows == assessments[run[r].item]
    IN  \E i \in DOMAIN rows : rows[i].fields = Proposed(r)

\* The latest row has the proposed semantic fields.
Unchanged(r) ==
    LET rows == assessments[run[r].item]
    IN  rows # <<>> /\ rows[LatestIn(rows)].fields = Proposed(r)

\* COMMIT or ROLLBACK ends the transaction of the current item.
Released(r) == [a \in Alerts |-> IF lock[a] = r THEN None ELSE lock[a]]

Compare(r) ==
    /\ run[r].pc = "locked"
    /\ IF Unchanged(r)
       THEN /\ run' = [run EXCEPT ![r].pc = "looping", ![r].todo = @ \ {run[r].item},
                                  ![r].item = None, ![r].at = 0, ![r].unchanged = @ + 1]
            /\ lock' = Released(r)
       ELSE run' = [run EXCEPT ![r].pc = "inserting"] /\ UNCHANGED lock
    /\ UNCHANGED <<outside, analysts, assessments, status>>

Inserted(r) == [assessments EXCEPT ![run[r].item] =
                   Append(@, [fields |-> Proposed(r), at |-> run[r].at, by |-> r])]

InsertUncounted(r) ==          \* variant: a first assessment counted as unchanged
    /\ run[r].pc = "inserting"
    /\ assessments' = Inserted(r)
    /\ LET first == IF assessments[run[r].item] = <<>> THEN 1 ELSE 0
       IN run' = [run EXCEPT ![r].pc = "looping", ![r].todo = @ \ {run[r].item}, ![r].item = None,
                          ![r].at = 0, ![r].inserted = @ + 1 - first, ![r].unchanged = @ + first]
    /\ lock' = Released(r)
    /\ UNCHANGED <<outside, analysts, status>>

Insert(r) ==
    /\ run[r].pc = "inserting"
    /\ assessments' = Inserted(r)
    /\ run' = [run EXCEPT ![r].pc = "looping", ![r].todo = @ \ {run[r].item},
                          ![r].item = None, ![r].at = 0, ![r].inserted = @ + 1]
    /\ lock' = Released(r)
    /\ UNCHANGED <<outside, analysts, status>>

\* What the process knew of its run is gone with it.
Abandon(r, pc) == run' = [run EXCEPT ![r] = [IdleRun EXCEPT !.pc = pc]]

\* The load or an append fails, or a commit's acknowledgement is lost: the
\* run is abandoned, the rows it has already committed stay.
StepFails(r) ==
    /\ Fault
    /\ run[r].pc \in {"begun", "waiting", "locked", "inserting"}
    /\ \/ UNCHANGED assessments
       \/ run[r].pc = "inserting" /\ assessments' = Inserted(r)
    /\ Abandon(r, "aborting")
    /\ lock' = Released(r)
    /\ UNCHANGED <<analysts, status>>

Finish(r) == /\ run[r].pc = "looping" /\ run[r].todo = {}
             /\ status' = [status EXCEPT ![r] = "SUCCESS"]
             /\ run' = [run EXCEPT ![r].pc = "ended"]
             /\ UNCHANGED <<outside, analysts, assessments, lock>>

RecordFailure(r) == /\ run[r].pc = "aborting"
                    /\ status' = [status EXCEPT ![r] = "FAILED"]
                    /\ run' = [run EXCEPT ![r].pc = "ended"]
                    /\ UNCHANGED <<outside, analysts, assessments, lock>>

\* The process dies or its record cannot be written; it stays RUNNING.
Die(r) == /\ Fault
          /\ run[r].pc \notin {"idle", "ended", "dead"}
          /\ Abandon(r, "dead")
          /\ lock' = Released(r)
          /\ UNCHANGED <<analysts, assessments, status>>

Dispose(d)   == StartDisposition(d) \/ RecordDisposition(d) \/ DispositionFails(d)
AssessRun(r) == \/ Begin(r) \/ Load(r) \/ StartAppend(r) \/ TakeLock(r) \/ Compare(r)
                \/ Insert(r) \/ StepFails(r) \/ Finish(r) \/ RecordFailure(r) \/ Die(r)

Next == \/ Tick
        \/ \E d \in Tickets : Dispose(d)
        \/ \E r \in Runs : AssessRun(r)

Spec == Init /\ [][Next]_vars

-----------------------------------------------------------------------------
TypeOK == /\ clock \in 0 .. MaxClock
          /\ faults \in 0 .. MaxFaults
          /\ alertStatus \in [Alerts -> {"OPEN", "IN_REVIEW", "CLOSED"}]
          /\ dispositions \in [Alerts -> Seq(DispositionType)]
          /\ ticket \in [Tickets -> TicketType]
          /\ assessments \in [Alerts -> Seq(AssessmentType)]
          /\ lock \in [Alerts -> Runs \cup {None}]
          /\ run \in [Runs -> RunType]
          /\ status \in [Runs -> {"ABSENT", "RUNNING", "SUCCESS", "FAILED"}]

VerdictsOn(a) == {i \in DOMAIN dispositions[a] : StatusAfter(dispositions[a][i].kind) = "CLOSED"}

\* However many analysts decide at the same moment, an alert is CLOSED by
\* exactly one verdict, and nothing is recorded on it after that verdict.
ClosedByExactlyOneVerdict ==
    \A a \in Alerts :
        VerdictsOn(a) = IF alertStatus[a] = "CLOSED" THEN {Len(dispositions[a])} ELSE {}

\* A label offered for training is the verdict of the very disposition its
\* row cites, and an analyst's verdict is offered only once the maturity
\* window has passed between disposed_at and evaluated_at.
EligibleLabelsAreEarned ==
    \A a \in Alerts : \A i \in DOMAIN assessments[a] :
        LET row == assessments[a][i]
            f   == row.fields
        IN  f.eligible =>
                IF f.source = 0 THEN f.label = Truth[a]
                ELSE /\ f.source \in VerdictsOn(a)
                     /\ f.label = Resolve(dispositions[a][f.source].kind)
                     /\ row.at >= dispositions[a][f.source].at + Window

\* append_if_changed never inserts a row equal to the latest one, whatever
\* other runs compare and insert at the same time.
OnlyChangesAreAppended ==
    [][\A a \in Alerts : Len(assessments'[a]) > Len(assessments[a]) =>
          \/ assessments[a] = <<>>
          \/ assessments'[a][Len(assessments'[a])].fields
                # assessments[a][LatestIn(assessments[a])].fields]_vars

\* A run that overlaps no other run leaves as the latest assessment of every
\* alert the one its own basis calls for, whatever races came before it.
SoleRunSettles ==
    \A r \in Runs :
        (/\ status[r] = "SUCCESS"
         /\ \A q \in Runs \ {r} : run[q].pc = "idle" \/ q \in run[r].earlier) =>
            \A a \in Alerts :
                assessments[a][LatestIn(assessments[a])].fields = Assess(run[r].bases[a], run[r].now)

RowsBy(r) ==
    UNION {{a} \X {i \in DOMAIN assessments[a] : assessments[a][i].by = r} : a \in Alerts}

\* assessments_inserted of a successful run is the number of its rows, and
\* with assessments_unchanged accounts for every basis it loaded.
SuccessCountsItsRows ==
    \A r \in Runs : status[r] = "SUCCESS" =>
        /\ run[r].inserted + run[r].unchanged = Cardinality(Alerts)
        /\ run[r].inserted = Cardinality(RowsBy(r))

\* The label_eligibility rows are records of runs as RunRecords has them.
Records == INSTANCE RunRecords
ImplementsRunRecords == Records!Spec
=============================================================================
