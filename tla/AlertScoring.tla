---------------------------- MODULE AlertScoring ----------------------------
(***************************************************************************)
(* fraud_score runs (src/src/fraud_intel/scoring/dispatch.py) over the     *)
(* source alerts of one generation, and the alert queue they write         *)
(* (src/src/fraud_intel/alerts/queue.py), while analysts dispose of alerts *)
(* and an operator promotes bundles and edits policy files.                *)
(*                                                                         *)
(* A run reads the operational bundle once, lists the alerts that have no  *)
(* evidence for THAT bundle once, and then scores them one by one, in two  *)
(* transactions each: the alert row, then its evidence.                    *)
(***************************************************************************)
EXTENDS Naturals, FiniteSets

CONSTANTS N,            \* source alerts 1 .. N, by source_alert_created_at
          Limit,        \* _MAX_PENDING_ALERTS_PER_RUN
          Runs, Bundles,
          Policies,     \* versions of the local policy files
          Pinned,       \* [Bundles -> Policies]: the versions a bundle pins
          Bands,        \* priority bands, the conservative High among them
          High,
          MaxFaults,    \* bound on failing transactions and dying processes
          None

ASSUME ScoringAssumption == /\ N \in Nat /\ Limit \in Nat
                            /\ Pinned \in [Bundles -> Policies]
                            /\ High \in Bands
                            /\ None \notin Runs \cup Bundles \cup Policies \cup Bands
                            /\ MaxFaults \in Nat

VARIABLES alert,        \* [SourceAlerts -> AlertType]: fraud_alerts
          evidence,     \* SUBSET EvidenceType: alert_evidence
          run,          \* [Runs -> RunType]: score_channel in progress
          status,       \* [Runs -> status]: the fraud_score rows
          current, retired,     \* channel_model_bundles, as OperationalSwitch has it
          policy,       \* the policy version in the local files
          faults        \* how many faults have happened

vars == <<alert, evidence, run, status, current, retired, policy, faults>>
tables == <<alert, evidence>>
files == <<current, retired, policy>>
environment == <<files, faults>>

SourceAlerts == 1 .. N

AlertType == [status : {"ABSENT", "OPEN", "IN_REVIEW", "CLOSED"},
              band : Bands \cup {None},         \* initial_priority_band
              by : Runs \cup {None}]            \* the run whose INSERT won

\* band None: the row of an attempt that raised, _catastrophic_evidence_fields.
\* rules: the policy versions it was computed with.
EvidenceType == [alert : SourceAlerts, run : Runs, bundle : Bundles,
                 band : Bands \cup {None}, rules : Policies]

\* earlier: the runs that had ended before this one began (history).
RunType == [pc : {"idle", "begun", "bundled", "checked", "looping", "scored", "alerted",
                  "aborting", "ended", "dead"},
            bundle : Bundles \cup {None}, rules : Policies \cup {None},
            todo : SUBSET SourceAlerts, band : Bands \cup {None},
            listed : 0 .. N, processed : 0 .. N, rejected : 0 .. N, earlier : SUBSET Runs]

Channel == "channel"
Bank == INSTANCE OperationalSwitch WITH
            Channels <- {Channel}, ChannelOf <- [b \in Bundles |-> Channel]

Init == /\ alert = [s \in SourceAlerts |-> [status |-> "ABSENT", band |-> None, by |-> None]]
        /\ evidence = {}
        /\ run = [r \in Runs |-> [pc |-> "idle", bundle |-> None, rules |-> None, todo |-> {},
                                  band |-> None, listed |-> 0, processed |-> 0, rejected |-> 0,
                                  earlier |-> {}]]
        /\ status = [r \in Runs |-> "ABSENT"]
        /\ Bank!Init
        /\ policy \in Policies
        /\ faults = 0

-----------------------------------------------------------------------------
(* The environment: BundlePromotion implements the switch.                  *)

Promotion == /\ Bank!Next
             /\ UNCHANGED <<alert, evidence, run, status, policy, faults>>

EditPolicy == /\ policy' \in Policies \ {policy}
              /\ UNCHANGED <<alert, evidence, run, status, current, retired, faults>>

DisposeOfClosed(s) ==          \* variant: CLOSED not checked under the lock
    /\ alert[s].status # "ABSENT"
    /\ \E new \in {"IN_REVIEW", "CLOSED"} : alert' = [alert EXCEPT ![s].status = new]
    /\ UNCHANGED <<evidence, run, status, environment>>

\* record_disposition_and_update_status, one transaction under a row lock.
Dispose(s) ==
    /\ alert[s].status \in {"OPEN", "IN_REVIEW"}
    /\ \E new \in {"IN_REVIEW", "CLOSED"} : alert' = [alert EXCEPT ![s].status = new]
    /\ UNCHANGED <<evidence, run, status, environment>>

-----------------------------------------------------------------------------
(* score_channel.                                                           *)

Begin(r) ==
    /\ run[r].pc = "idle"
    /\ run' = [run EXCEPT ![r].pc = "begun",
                          ![r].earlier = {q \in Runs : run[q].pc \in {"ended", "dead"}}]
    /\ status' = [status EXCEPT ![r] = "RUNNING"]
    /\ UNCHANGED <<tables, environment>>

Abort(r) == /\ run' = [run EXCEPT ![r].pc = "aborting"]
            /\ UNCHANGED <<tables, status, environment>>

\* get_operational_bundle; NoOperationalBundleError.
ReadBundle(r) ==
    /\ run[r].pc = "begun"
    /\ \/ current[Channel] = None /\ Abort(r)
       \/ /\ current[Channel] # None
          /\ run' = [run EXCEPT ![r].pc = "bundled", ![r].bundle = current[Channel]]
          /\ UNCHANGED <<tables, status, environment>>

CheckNothing(r) ==             \* variant: the pinned versions are not compared
    /\ run[r].pc = "bundled"
    /\ run' = [run EXCEPT ![r].pc = "checked", ![r].rules = policy]
    /\ UNCHANGED <<tables, status, environment>>

\* load_and_validate_pinned_policies: each file is read once per process, so
\* what is compared here is what every alert of the run is scored with.
CheckPolicies(r) ==
    /\ run[r].pc = "bundled"
    /\ \/ policy # Pinned[run[r].bundle] /\ Abort(r)
       \/ /\ policy = Pinned[run[r].bundle]
          /\ run' = [run EXCEPT ![r].pc = "checked", ![r].rules = policy]
          /\ UNCHANGED <<tables, status, environment>>

PendingUnlessScored(b) ==      \* variant: a catastrophic row does not count as an attempt
    {s \in SourceAlerts : ~ \E e \in evidence : e.alert = s /\ e.bundle = b /\ e.band # None}

\* The alerts without evidence for the bundle, whatever other evidence they have.
Pending(b) == {s \in SourceAlerts : ~ \E e \in evidence : e.alert = s /\ e.bundle = b}

\* ORDER BY source_alert_created_at ASC LIMIT _MAX_PENDING_ALERTS_PER_RUN
FirstOnes(S) == {s \in S : Cardinality({t \in S : t < s}) < Limit}

ListWithinFirst(r) ==          \* variant: LIMIT applied before the alerts with evidence are left out
    /\ run[r].pc = "checked"
    /\ LET items == FirstOnes(SourceAlerts) \cap Pending(run[r].bundle)
       IN  run' = [run EXCEPT ![r].pc = "looping", ![r].todo = items,
                              ![r].listed = Cardinality(items)]
    /\ UNCHANGED <<tables, status, environment>>

ListPending(r) ==
    /\ run[r].pc = "checked"
    /\ LET items == FirstOnes(Pending(run[r].bundle))
       IN  run' = [run EXCEPT ![r].pc = "looping", ![r].todo = items,
                              ![r].listed = Cardinality(items)]
    /\ UNCHANGED <<tables, status, environment>>

Item(r) == CHOOSE s \in run[r].todo : \A t \in run[r].todo : s <= t

\* score_source_alert returns a band, or raises whatever it raises (None).
Score(r) ==
    /\ run[r].pc = "looping" /\ run[r].todo # {}
    /\ \E band \in Bands \cup {None} :
          run' = [run EXCEPT ![r].pc = "scored", ![r].band = band]
    /\ UNCHANGED <<tables, status, environment>>

InsertedOverwriting(s, r) ==   \* variant: ON CONFLICT DO UPDATE SET initial_priority_band
    LET band == IF run[r].band = None THEN High ELSE run[r].band
    IN  IF alert[s].status # "ABSENT" THEN [alert EXCEPT ![s].band = band]
        ELSE [alert EXCEPT ![s] = [status |-> "OPEN", by |-> r, band |-> band]]

\* INSERT ... ON CONFLICT DO NOTHING; the fallback row of a raise is HIGH.
Inserted(s, r) ==
    IF alert[s].status # "ABSENT" THEN alert
    ELSE [alert EXCEPT ![s] = [status |-> "OPEN", by |-> r,
                               band |-> IF run[r].band = None THEN High ELSE run[r].band]]

CreateAlert(r) ==
    /\ run[r].pc = "scored"
    /\ alert' = Inserted(Item(r), r)
    /\ run' = [run EXCEPT ![r].pc = "alerted"]
    /\ UNCHANGED <<evidence, status, environment>>

EvidenceRow(r) == [alert |-> Item(r), run |-> r, bundle |-> run[r].bundle,
                   band |-> run[r].band, rules |-> run[r].rules]

\* The loop goes on with the next item, having counted this one.
Counted(r, ok) ==
    run' = [run EXCEPT ![r].pc = "looping", ![r].todo = @ \ {Item(r)}, ![r].band = None,
                       ![r].processed = IF ok THEN @ + 1 ELSE @,
                       ![r].rejected = IF ok THEN @ ELSE @ + 1]

RecordEvidenceAllProcessed(r) ==    \* variant: a raise whose evidence was written is processed
    /\ run[r].pc = "alerted"
    /\ evidence' = evidence \cup {EvidenceRow(r)}
    /\ Counted(r, TRUE)
    /\ UNCHANGED <<alert, status, environment>>

\* A raised attempt goes on raising after its evidence is recorded.
RecordEvidence(r) ==
    /\ run[r].pc = "alerted"
    /\ evidence' = evidence \cup {EvidenceRow(r)}
    /\ Counted(r, run[r].band # None)
    /\ UNCHANGED <<alert, status, environment>>

\* One more transaction or process fails.
Fault == /\ faults < MaxFaults
         /\ faults' = faults + 1

\* Either write of the item fails, or commits without the run knowing: the
\* exception is counted as a rejection and the loop goes on.
WriteFails(r) ==
    /\ Fault
    /\ \/ /\ run[r].pc = "scored"
          /\ alert' \in {alert, Inserted(Item(r), r)}
          /\ UNCHANGED evidence
       \/ /\ run[r].pc = "alerted"
          /\ evidence' \in {evidence, evidence \cup {EvidenceRow(r)}}
          /\ UNCHANGED alert
    /\ Counted(r, FALSE)
    /\ UNCHANGED <<status, files>>

\* A read, the generation check or an artifact fails before the loop.
SetupFails(r) == /\ run[r].pc \in {"begun", "bundled", "checked"}
                 /\ Fault
                 /\ run' = [run EXCEPT ![r].pc = "aborting"]
                 /\ UNCHANGED <<tables, status, files>>

End(r, outcome) == /\ status' = [status EXCEPT ![r] = outcome]
                   /\ run' = [run EXCEPT ![r].pc = "ended"]
                   /\ UNCHANGED <<tables, environment>>

Finish(r) == /\ run[r].pc = "looping" /\ run[r].todo = {}
             /\ End(r, "SUCCESS")

RecordFailure(r) == run[r].pc = "aborting" /\ End(r, "FAILED")

\* The process dies or the run record cannot be written; it stays RUNNING.
Die(r) == /\ Fault
          /\ run[r].pc \notin {"idle", "ended", "dead"}
          /\ run' = [run EXCEPT ![r].pc = "dead"]
          /\ UNCHANGED <<tables, status, files>>

Continue(r) == \/ ReadBundle(r) \/ CheckPolicies(r) \/ ListPending(r) \/ Score(r)
               \/ CreateAlert(r) \/ RecordEvidence(r) \/ Finish(r) \/ RecordFailure(r)

Next == \/ Promotion \/ EditPolicy
        \/ \E s \in SourceAlerts : Dispose(s)
        \/ \E r \in Runs : Begin(r) \/ Continue(r) \/ WriteFails(r) \/ SetupFails(r) \/ Die(r)

Spec == Init /\ [][Next]_vars

-----------------------------------------------------------------------------
TypeOK == /\ alert \in [SourceAlerts -> AlertType]
          /\ evidence \subseteq EvidenceType
          /\ run \in [Runs -> RunType]
          /\ status \in [Runs -> {"ABSENT", "RUNNING", "SUCCESS", "FAILED"}]
          /\ current \in [{Channel} -> Bundles \cup {None}]
          /\ retired \subseteq Bundles
          /\ policy \in Policies
          /\ faults \in 0 .. MaxFaults

RowsOf(r, ok) == {e \in evidence : e.run = r /\ (e.band # None) = ok}

\* records_processed and records_rejected never claim a row that is not in
\* alert_evidence, and together account for every alert the run listed.
RunAccountsForItsRows ==
    \A r \in Runs :
        /\ run[r].processed <= Cardinality(RowsOf(r, TRUE))
        /\ run[r].processed + run[r].rejected + Cardinality(run[r].todo) = run[r].listed
        /\ Cardinality(RowsOf(r, TRUE)) + Cardinality(RowsOf(r, FALSE))
              <= run[r].processed + run[r].rejected
        /\ status[r] = "SUCCESS" => run[r].processed + run[r].rejected = run[r].listed

\* However many runs race for one source alert, its frozen initial band is
\* the band of the attempt whose INSERT won.
InitialBandMatchesItsEvidence ==
    \A e \in evidence :
        /\ alert[e.alert].status # "ABSENT"
        /\ alert[e.alert].by = e.run =>
              alert[e.alert].band = IF e.band = None THEN High ELSE e.band

\* Evidence is computed with the policy versions its bundle pins, and under
\* a bundle that was operational, although promotions and edits of the
\* policy files go on while the run scores.
EvidenceHonoursPins ==
    \A e \in evidence : /\ e.rules = Pinned[e.bundle]
                        /\ e.bundle \in retired \cup {current[Channel]}

\* A run begun after another one ended adds nothing to what that one wrote
\* for the same bundle, a catastrophic row included.
SequentialRetriesAddNothing ==
    \A e, f \in evidence :
        (e.alert = f.alert /\ e.bundle = f.bundle) => e.run \notin run[f.run].earlier

\* A successful run that was not cut off by the limit has counted as rejected
\* whatever it leaves without evidence for its bundle, besides its catastrophic
\* rows: nothing rejected, nothing pending, whichever writes failed.
SuccessRejectsWhatItLeaves ==
    \A r \in Runs : (status[r] = "SUCCESS" /\ run[r].listed < Limit) =>
        Cardinality(Pending(run[r].bundle)) + Cardinality(RowsOf(r, FALSE)) <= run[r].rejected

\* An alert's identity and initial band never change, and CLOSED is final,
\* however often the alert is scored again.
AlertIdentityIsFrozen ==
    [][\A s \in SourceAlerts : alert[s].status # "ABSENT" =>
          /\ alert'[s].band = alert[s].band /\ alert'[s].by = alert[s].by
          /\ alert'[s].status # "OPEN" \/ alert[s].status = "OPEN"
          /\ alert[s].status = "CLOSED" => alert'[s].status = "CLOSED"]_vars

\* The fraud_score rows are records of runs as RunRecords has them.
Records == INSTANCE RunRecords
ImplementsRunRecords == Records!Spec
=============================================================================
