----------------------------- MODULE RunRecords -----------------------------
(***************************************************************************)
(* What a reader of pipeline_runs may rely on, and nothing else: a run     *)
(* record appears open, as PENDING or as RUNNING, and is ended at most     *)
(* once, with SUCCESS reachable from RUNNING only.  RunLifecycle and every *)
(* workload that keeps a run record implement this specification.          *)
(***************************************************************************)
CONSTANT Runs

VARIABLE status         \* [Runs -> Statuses]: the status column of each run

Open     == {"PENDING", "RUNNING"}
Terminal == {"SUCCESS", "FAILED", "CANCELLED"}
Statuses == {"ABSENT"} \cup Open \cup Terminal

Init == status = [r \in Runs |-> "ABSENT"]

Appear(r) == /\ status[r] = "ABSENT"
             /\ \E s \in Open : status' = [status EXCEPT ![r] = s]

EndWith(r, s) == /\ s = "SUCCESS" => status[r] = "RUNNING"
                 /\ status[r] \in Open
                 /\ status' = [status EXCEPT ![r] = s]

Next == \E r \in Runs : Appear(r) \/ \E s \in Terminal : EndWith(r, s)

Spec == Init /\ [][Next]_status
=============================================================================
