---------------------------- MODULE RunLifecycle ----------------------------
(***************************************************************************)
(* src/src/control_plane/runs.py: the rows of pipeline_runs, written by    *)
(* begin, heartbeat, succeed, fail, fail_from_exception and cancel.        *)
(*                                                                         *)
(* Every transition is one UPDATE ... WHERE status = ANY(allowed) in a     *)
(* transaction of its own.  When it matches no row, a second transaction   *)
(* reads the row back to tell a duplicate from an illegal transition, and  *)
(* other callers may write between the two.  Either transaction may fail,  *)
(* and a commit may succeed although its caller sees an exception.         *)
(***************************************************************************)
CONSTANTS Runs,      \* run_id values the table hands out
          Callers,   \* threads and processes holding a RunLifecycle
          Args,      \* distinguishable column values one call may write
          NoArgs,    \* a column never written
          NoRun,     \* a run_id that no row has
          NoRow      \* the reply of a call that returned no row

ASSUME SentinelsDistinct == /\ NoArgs \notin Args
                            /\ NoRun \notin Runs

VARIABLES row,       \* [Runs -> RowType]: pipeline_runs
          call       \* [Callers -> CallType]: the call each caller is in

vars == <<row, call>>

Open     == {"PENDING", "RUNNING"}
Terminal == {"SUCCESS", "FAILED", "CANCELLED"}
Statuses == {"ABSENT"} \cup Open \cup Terminal

Ops == {"heartbeat", "succeed", "fail", "fail_from_exception", "cancel"}
Finalisers == Ops \ {"heartbeat"}

\* The status an operation writes, and the statuses it may write it over.
Target == [op \in Ops |-> CASE op = "heartbeat" -> "RUNNING"
                            [] op = "succeed"   -> "SUCCESS"
                            [] op = "cancel"    -> "CANCELLED"
                            [] OTHER            -> "FAILED"]

HeartbeatUnfiltered(op) ==          \* variant: heartbeat updates by run_id alone
    IF op = "heartbeat" THEN Statuses \ {"ABSENT"} ELSE IF op = "succeed" THEN {"RUNNING"} ELSE Open

SucceedFromPending(op) ==           \* variant: PENDING -> SUCCESS not ruled out
    IF op = "heartbeat" THEN {"RUNNING"} ELSE Open

AllowedFrom(op) == IF op \in {"heartbeat", "succeed"} THEN {"RUNNING"} ELSE Open

\* ending: what the terminal write stored (completed_at, counts, artifacts,
\* error); beat: what the last heartbeat stored in heartbeat_at.
RowType == [status : Statuses, ending : Args \cup {NoArgs}, beat : Args \cup {NoArgs}]

Progress == {"idle", "missed", "returned", "refused", "not_found", "raised", "swallowed"}

CallType == [pc : Progress, op : Ops, run : Runs \cup {NoRun},
             args : Args \cup {NoArgs}, reply : RowType \cup {NoRow}]

Idle == [pc |-> "idle", op |-> "heartbeat", run |-> NoRun, args |-> NoArgs, reply |-> NoRow]

Absent == [status |-> "ABSENT", ending |-> NoArgs, beat |-> NoArgs]

StatusOf(r) == IF r \in Runs THEN row[r].status ELSE "ABSENT"

Init == /\ row = [r \in Runs |-> Absent]
        /\ call = [c \in Callers |-> Idle]

-----------------------------------------------------------------------------
BeginReusingFailed(r) ==            \* variant: a failed run's row reopened for a retry
    /\ row[r].status \in {"ABSENT", "FAILED"}
    /\ \E s \in Open : row' = [row EXCEPT ![r] = [@ EXCEPT !.status = s]]
    /\ UNCHANGED call

\* begin: only PENDING and RUNNING are accepted as a first status.
Begin(r) == /\ row[r].status = "ABSENT"
            /\ \E s \in Open : row' = [row EXCEPT ![r] = [@ EXCEPT !.status = s]]
            /\ UNCHANGED call

UpdatedMisspelt(old, op, a) ==      \* variant: a status the schema's CHECK rejects
    IF op = "heartbeat" THEN [old EXCEPT !.beat = a]
    ELSE [old EXCEPT !.status = IF op = "cancel" THEN "CANCELED" ELSE Target[op], !.ending = a]

\* The columns a successful UPDATE leaves in the row.
Updated(old, op, a) ==
    IF op = "heartbeat" THEN [old EXCEPT !.beat = a]
    ELSE [old EXCEPT !.status = Target[op], !.ending = a]

\* fail_from_exception logs and swallows whatever its fail() call raises.
Raising(op, how) == IF op = "fail_from_exception" THEN "swallowed" ELSE how

Matches(op, r) == StatusOf(r) \in AllowedFrom(op)

\* Callers take their run ids from begin(), or pass one that was never issued.
Called(c, r) == /\ call[c].pc = "idle"
                /\ r \in Runs => row[r].status # "ABSENT"

CasHit(c, op, r, a) ==
    /\ Called(c, r) /\ Matches(op, r)
    /\ row' = [row EXCEPT ![r] = Updated(@, op, a)]
    /\ call' = [call EXCEPT ![c] = [pc |-> "returned", op |-> op, run |-> r, args |-> a,
                                    reply |-> Updated(row[r], op, a)]]

CasMiss(c, op, r, a) ==
    /\ Called(c, r) /\ ~Matches(op, r)
    /\ call' = [call EXCEPT ![c] = [pc |-> "missed", op |-> op, run |-> r, args |-> a,
                                    reply |-> NoRow]]
    /\ UNCHANGED row

\* The statement never reached the database, or was rolled back.
CasFailed(c, op, r, a) ==
    /\ Called(c, r)
    /\ call' = [call EXCEPT ![c] = [pc |-> Raising(op, "raised"), op |-> op, run |-> r,
                                    args |-> a, reply |-> NoRow]]
    /\ UNCHANGED row

\* The server committed; the connection broke before the caller knew.
CasAckLost(c, op, r, a) ==
    /\ Called(c, r) /\ Matches(op, r)
    /\ row' = [row EXCEPT ![r] = Updated(@, op, a)]
    /\ call' = [call EXCEPT ![c] = [pc |-> Raising(op, "raised"), op |-> op, run |-> r,
                                    args |-> a, reply |-> NoRow]]

RereadAnyEnding(c) ==               \* variant: any ended run taken for a duplicate
    /\ call[c].pc = "missed"
    /\ StatusOf(call[c].run) \in Terminal
    /\ call' = [call EXCEPT ![c].pc = "returned", ![c].reply = row[call[c].run]]
    /\ UNCHANGED row

\* What the second transaction makes of the row it finds.
Reread(c) ==
    LET op == call[c].op
        r  == call[c].run
    IN  /\ call[c].pc = "missed"
        /\ \/ /\ StatusOf(r) = "ABSENT"
              /\ call' = [call EXCEPT ![c].pc = Raising(op, "not_found")]
           \/ /\ StatusOf(r) = Target[op]
              /\ call' = [call EXCEPT ![c].pc = "returned", ![c].reply = row[r]]
           \/ /\ StatusOf(r) \notin {"ABSENT", Target[op]}
              /\ call' = [call EXCEPT ![c].pc = Raising(op, "refused")]
        /\ UNCHANGED row

RereadFailed(c) == /\ call[c].pc = "missed"
                   /\ call' = [call EXCEPT ![c].pc = Raising(call[c].op, "raised")]
                   /\ UNCHANGED row

\* The caller has used the outcome and may call again.
Leave(c) == /\ call[c].pc \notin {"idle", "missed"}
            /\ call' = [call EXCEPT ![c] = Idle]
            /\ UNCHANGED row

Attempt(c) == \E op \in Ops, r \in Runs \cup {NoRun}, a \in Args :
                 \/ CasHit(c, op, r, a)
                 \/ CasMiss(c, op, r, a)
                 \/ CasFailed(c, op, r, a)
                 \/ CasAckLost(c, op, r, a)

Next == \/ \E r \in Runs : Begin(r)
        \/ \E c \in Callers : Attempt(c) \/ Reread(c) \/ RereadFailed(c) \/ Leave(c)

Spec == Init /\ [][Next]_vars

-----------------------------------------------------------------------------
TypeOK == /\ row \in [Runs -> RowType]
          /\ call \in [Callers -> CallType]

\* A finaliser that returned a row returned the row the table holds, in the
\* status it asked for, whoever wrote it and however long ago: the duplicate
\* of _transition hands back "the original, unmutated row".
ReturnedRowIsTheEnding ==
    \A c \in Callers :
        (call[c].pc = "returned" /\ call[c].op \in Finalisers) =>
            /\ call[c].reply = row[call[c].run]
            /\ call[c].reply.status = Target[call[c].op]

\* InvalidRunTransitionError is never contradicted: a run refused a status
\* by one caller is never found in that status afterwards, although the
\* refusal was decided on a row read before other callers wrote.
RefusalIsFinal ==
    \A c \in Callers :
        call[c].pc = "refused" => row[call[c].run].status # Target[call[c].op]

\* Whatever callers race, duplicate or retry, an ended row is never written
\* again, its heartbeat column included.
EndedRowsAreFinal ==
    [][\A r \in Runs : row[r].status \in Terminal => row'[r] = row[r]]_vars

\* RunLifecycle implements the abstract record of one run.
Records == INSTANCE RunRecords WITH status <- [r \in Runs |-> row[r].status]
ImplementsRunRecords == Records!Spec
=============================================================================
