--------------------------- MODULE StreamConsumer ---------------------------
(***************************************************************************)
(* src/src/ingestion/consumer.py: sessions of run_configured reading one   *)
(* partition of the transactions topic, scoring each message into          *)
(* PostgreSQL (src/src/common/scoring.py) or sending it to the dead-letter *)
(* topic, and committing offsets.                                          *)
(*                                                                         *)
(* External, as the code uses them: consumer.commit(msg) is asynchronous,  *)
(* so a commit is only asked for, and may never land; producer.produce     *)
(* puts the message in the process's own queue; a rebalance may take the   *)
(* partition from a session that still works on a message.                 *)
(***************************************************************************)
EXTENDS Naturals, FiniteSets, Sequences

CONSTANTS N,              \* messages 1 .. N of the partition, in offset order
          Malformed,      \* messages that are no JSON, or violate the schema
          Unreadable,     \* messages on which json.loads or Transaction(**payload) raises
                          \* anything else: JSON that is no object, bytes that are no UTF-8
          Sessions,       \* runs of the consumer, each with its run record
          BatchSize,      \* FLUSH_BATCH_SIZE
          MaxAttempts,    \* streaming.retry.max_attempts
          MaxFaults,      \* bound on crashes, lost deliveries, failed uploads
          MaxRevocations, \* bound on rebalances
          None

ASSUME StreamAssumption == /\ N \in Nat
                           /\ Malformed \subseteq 1 .. N
                           /\ Unreadable \subseteq 1 .. N \ Malformed
                           /\ BatchSize \in Nat \ {0} /\ MaxAttempts \in Nat \ {0}
                           /\ MaxFaults \in Nat /\ MaxRevocations \in Nat
                           /\ None \notin Sessions

VARIABLES committed,      \* the group's committed position: messages up to it are done
          owner,          \* the session the partition is assigned to
          revocations,    \* rebalances so far
          faults,         \* faults so far
          scored,         \* [Messages -> Sessions \cup {None}]: who wrote its database rows
          dlq,            \* messages in the dead-letter topic
          lost,           \* dead letters that never got there (history)
          raw,            \* SUBSET (Messages \X Sessions): rows in the raw bucket
          session,        \* [Sessions -> SessionType]: run_configured in progress
          status          \* [Sessions -> status]: the stream rows of pipeline_runs

vars == <<committed, owner, revocations, faults, scored, dlq, lost, raw, session, status>>
broker == <<committed, owner, revocations>>
topics == <<dlq, lost>>
outside == <<broker, faults, topics>>

Messages == 1 .. N
Looping  == {"polling", "received", "scored", "appended", "spent", "counted"}
Finally  == {"flushing", "closing", "draining"}
Gone     == {"ended", "exited", "dead"}

\* pos: the last message polled; asked: the last offset asked to commit;
\* buffer: RawEventBuffer's rows; queue: the DLQ producer's queue;
\* processed: the messages counted as such.
SessionType == [pc : {"idle", "setup", "failing", "succeeding"} \cup Looping \cup Finally \cup Gone,
                pos : 0 .. N, msg : 0 .. N, asked : 0 .. N, tries : 0 .. MaxAttempts,
                buffer : Seq(Messages), queue : SUBSET Messages,
                processed : SUBSET Messages]

Init == /\ committed = 0
        /\ owner = None
        /\ revocations = 0
        /\ faults = 0
        /\ scored = [m \in Messages |-> None]
        /\ dlq = {} /\ lost = {} /\ raw = {}
        /\ session = [s \in Sessions |-> [pc |-> "idle", pos |-> 0, msg |-> 0, asked |-> 0,
                                          tries |-> 0, buffer |-> <<>>, queue |-> {},
                                          processed |-> {}]]
        /\ status = [s \in Sessions |-> "ABSENT"]

Fault == /\ faults < MaxFaults
         /\ faults' = faults + 1

-----------------------------------------------------------------------------
(* The broker (external).                                                   *)

\* The partition is assigned, reading starts from the committed position.
Assign(s) ==
    /\ owner = None
    /\ session[s].pc \in Looping
    /\ owner' = s
    /\ session' = [session EXCEPT ![s].pos = committed, ![s].asked = committed]
    /\ UNCHANGED <<committed, revocations, faults, topics, scored, raw, status>>

\* A rebalance, or max.poll.interval.ms passed during retries.
Revoke == /\ owner # None
          /\ revocations < MaxRevocations
          /\ revocations' = revocations + 1
          /\ owner' = None
          /\ UNCHANGED <<committed, faults, topics, scored, raw, session, status>>

\* A commit lands; one asked for before the partition was lost is refused,
\* and nothing in the code looks at the outcome.
CommitLands(s) ==
    /\ owner = s
    /\ session[s].asked # committed
    /\ committed' = session[s].asked
    /\ UNCHANGED <<owner, revocations, faults, topics, scored, raw, session, status>>

Deliver(s) ==
    /\ session[s].pc \notin Gone
    /\ \E m \in session[s].queue :
          /\ session' = [session EXCEPT ![s].queue = @ \ {m}]
          /\ dlq' = dlq \cup {m}
    /\ UNCHANGED <<broker, faults, lost, scored, raw, status>>

\* There is no delivery callback: a failed delivery goes unseen.
DeliveryFails(s) ==
    /\ session[s].pc \notin Gone
    /\ Fault
    /\ \E m \in session[s].queue :
          /\ session' = [session EXCEPT ![s].queue = @ \ {m}]
          /\ lost' = lost \cup {m}
    /\ UNCHANGED <<broker, dlq, scored, raw, status>>

-----------------------------------------------------------------------------
(* The loop.                                                                *)

\* Only the session's own state changes.
Local(s, new) == /\ session' = [session EXCEPT ![s] = new]
                 /\ UNCHANGED <<outside, scored, raw, status>>

At(s, pc) == [session[s] EXCEPT !.pc = pc]

Begin(s) == /\ session[s].pc = "idle"
            /\ session' = [session EXCEPT ![s].pc = "setup"]
            /\ status' = [status EXCEPT ![s] = "RUNNING"]
            /\ UNCHANGED <<outside, scored, raw>>

\* The model and the lookups are loaded, the topic subscribed.
SetUp(s) == session[s].pc = "setup" /\ Local(s, At(s, "polling"))

Poll(s) ==
    /\ session[s].pc = "polling" /\ owner = s /\ session[s].pos < N
    /\ Local(s, [session[s] EXCEPT !.pc = "received", !.pos = @ + 1, !.msg = session[s].pos + 1])

Valid(s) == session[s].msg \notin Malformed \cup Unreadable

ScoredAgain(s) ==              \* variant: ON CONFLICT DO UPDATE
    [scored EXCEPT ![session[s].msg] = s]

\* One transaction, every INSERT with ON CONFLICT DO NOTHING.
ScoredBy(s) == [scored EXCEPT ![session[s].msg] = IF @ = None THEN s ELSE @]

Score(s) ==
    /\ session[s].pc = "received" /\ Valid(s)
    /\ scored' = ScoredBy(s)
    /\ session' = [session EXCEPT ![s].pc = "scored"]
    /\ UNCHANGED <<outside, raw, status>>

\* Neither handler of the loop catches it: the run fails, nothing is
\* committed, and the next session gets the same message first.
ReadRaises(s) ==
    /\ session[s].pc = "received" /\ session[s].msg \in Unreadable
    /\ Local(s, At(s, "failing"))

\* An attempt raises, whether or not its transaction was committed.
AttemptFails(s) ==
    /\ session[s].pc = "received" /\ Valid(s)
    /\ scored' \in {scored, ScoredBy(s)}
    /\ LET tries == session[s].tries + 1
       IN  session' = [session EXCEPT ![s].tries = tries,
                                      ![s].pc = IF tries = MaxAttempts THEN "spent" ELSE @]
    /\ UNCHANGED <<outside, raw, status>>

SeekBackWhenSpent(s) ==        \* variant: spent retries start over instead of giving up
    \/ /\ session[s].pc = "spent"
       /\ Local(s, [At(s, "polling") EXCEPT !.pos = session[s].msg - 1, !.msg = 0, !.tries = 0])
    \/ /\ session[s].pc = "received" /\ session[s].msg \in Malformed
       /\ Local(s, [At(s, "counted") EXCEPT !.queue = @ \cup {session[s].msg}])

\* dlq.send, for a malformed message and for one whose retries are spent.
SendToDlq(s) ==
    /\ \/ session[s].pc = "spent"
       \/ session[s].pc = "received" /\ session[s].msg \in Malformed
    /\ Local(s, [At(s, "counted") EXCEPT !.queue = @ \cup {session[s].msg}])

\* The rows of a batch, in the bucket once upload_file returns.
Uploaded(s, rows) == raw \cup {<<rows[i], s>> : i \in DOMAIN rows}

\* raw_buffer.add: the row, and the batch when it is full.
AddToBuffer(s) ==
    LET rows == Append(session[s].buffer, session[s].msg)
        full == Len(rows) >= BatchSize
    IN  /\ session[s].pc = "scored"
        /\ raw' = IF full THEN Uploaded(s, rows) ELSE raw
        /\ session' = [session EXCEPT ![s].pc = "appended",
                                      ![s].buffer = IF full THEN <<>> ELSE rows]
        /\ UNCHANGED <<outside, scored, status>>

\* The upload raises, whether or not the object was stored; the rows stay in
\* the buffer.
BatchUploadFails(s) ==
    LET rows == Append(session[s].buffer, session[s].msg)
    IN  /\ session[s].pc = "scored"
        /\ Len(rows) >= BatchSize
        /\ Fault
        /\ raw' \in {raw, Uploaded(s, rows)}
        /\ session' = [session EXCEPT ![s].pc = "failing", ![s].buffer = rows]
        /\ UNCHANGED <<broker, topics, scored, status>>

CountProcessed(s) ==
    /\ session[s].pc = "appended"
    /\ Local(s, [At(s, "counted") EXCEPT !.processed = @ \cup {session[s].msg}])

CommitNext(s) ==               \* variant: one past the message
    /\ session[s].pc = "counted"
    /\ Local(s, [At(s, "polling") EXCEPT !.asked = IF session[s].msg < N THEN session[s].msg + 1
                                                   ELSE N])

\* consumer.commit(msg), asynchronous
Commit(s) ==
    /\ session[s].pc = "counted"
    /\ Local(s, [At(s, "polling") EXCEPT !.asked = session[s].msg, !.msg = 0, !.tries = 0])

\* --duration has passed, or Ctrl+C, wherever it hits the loop.
Stop(s) == /\ session[s].pc \in Looping
           /\ Local(s, [At(s, "flushing") EXCEPT !.msg = 0, !.tries = 0])

\* Model load, poll, produce or commit raises.
StepRaises(s) ==
    /\ \/ session[s].pc \in {"setup", "polling", "spent", "counted"}
       \/ session[s].pc = "received" /\ session[s].msg \in Malformed
    /\ Fault
    /\ session' = [session EXCEPT ![s].pc = "failing"]
    /\ UNCHANGED <<broker, topics, scored, raw, status>>

-----------------------------------------------------------------------------
(* The way out: except, finally, succeed.                                   *)

RecordFailure(s) ==
    /\ session[s].pc = "failing"
    /\ status' = [status EXCEPT ![s] = "FAILED"]
    /\ session' = [session EXCEPT ![s].pc = "flushing"]
    /\ UNCHANGED <<outside, scored, raw>>

FlushSkipped(s) ==             \* variant: the last, partial batch is not uploaded
    /\ session[s].pc = "flushing"
    /\ Local(s, At(s, "closing"))

\* raw_buffer.flush()
Flush(s) ==
    /\ session[s].pc = "flushing"
    /\ raw' = Uploaded(s, session[s].buffer)
    /\ session' = [session EXCEPT ![s].pc = "closing", ![s].buffer = <<>>]
    /\ UNCHANGED <<outside, scored, status>>

\* Only what a session counted as processed outlives it.
Left(s) == [session[s] EXCEPT !.pos = 0, !.msg = 0, !.asked = 0, !.tries = 0, !.queue = {},
                              !.buffer = <<>>]

\* Whatever is in the queue when a process ends may or may not be delivered.
LeaveQueue(s, pc) ==
    \E delivered \in SUBSET session[s].queue :
        /\ dlq' = dlq \cup delivered
        /\ lost' = lost \cup (session[s].queue \ delivered)
        /\ session' = [session EXCEPT ![s] = [Left(s) EXCEPT !.pc = pc]]

\* The group notices that a process is gone; its last commit may have landed.
LeaveGroup(s) == /\ owner' = IF owner = s THEN None ELSE owner
                 /\ committed' \in IF owner = s THEN {committed, session[s].asked}
                                   ELSE {committed}

\* The flush in the finally block raises: the exception leaves the function,
\* past close, past the producer's flush and past succeed.
FlushRaises(s) ==
    /\ session[s].pc = "flushing" /\ session[s].buffer # <<>>
    /\ Fault
    /\ LeaveQueue(s, "exited")
    /\ LeaveGroup(s)
    /\ UNCHANGED <<revocations, scored, raw, status>>

\* consumer.close()
Close(s) == /\ session[s].pc = "closing"
            /\ LeaveGroup(s)
            /\ session' = [session EXCEPT ![s].pc = "draining"]
            /\ UNCHANGED <<revocations, faults, topics, scored, raw, status>>

\* Past the finally block an exception already recorded is raised again.
AfterFinally(s) == IF status[s] = "FAILED" THEN "ended" ELSE "succeeding"

\* dlq_producer.flush(10) empties the queue ...
Drain(s) ==
    /\ session[s].pc = "draining"
    /\ dlq' = dlq \cup session[s].queue
    /\ session' = [session EXCEPT ![s] = [Left(s) EXCEPT !.pc = AfterFinally(s)]]
    /\ UNCHANGED <<broker, faults, lost, scored, raw, status>>

\* ... or gives up after 10 seconds; what is left goes with the process.
DrainTimesOut(s) ==
    /\ session[s].pc = "draining" /\ session[s].queue # {}
    /\ Fault
    /\ LeaveQueue(s, AfterFinally(s))
    /\ UNCHANGED <<broker, scored, raw, status>>

SucceedAlways(s) ==            \* variant: success recorded in the finally block as well
    /\ session[s].pc \in {"succeeding", "draining"}
    /\ status' = [status EXCEPT ![s] = "SUCCESS"]
    /\ session' = [session EXCEPT ![s].pc = "ended"]
    /\ UNCHANGED <<outside, scored, raw>>

Succeed(s) ==
    /\ session[s].pc = "succeeding"
    /\ status' = [status EXCEPT ![s] = "SUCCESS"]
    /\ session' = [session EXCEPT ![s].pc = "ended"]
    /\ UNCHANGED <<outside, scored, raw>>

\* The process is killed, or its run record cannot be written.
Die(s) ==
    /\ session[s].pc \notin {"idle"} \cup Gone
    /\ Fault
    /\ LeaveQueue(s, "dead")
    /\ LeaveGroup(s)
    /\ UNCHANGED <<revocations, scored, raw, status>>

\* What the session's own thread does next.
Step(s) == \/ SetUp(s) \/ Poll(s) \/ Score(s) \/ AttemptFails(s) \/ ReadRaises(s)
           \/ SendToDlq(s) \/ AddToBuffer(s) \/ CountProcessed(s) \/ Commit(s)
           \/ RecordFailure(s) \/ Flush(s) \/ Close(s) \/ Drain(s) \/ Succeed(s)

Disturb(s) == \/ Stop(s) \/ BatchUploadFails(s) \/ StepRaises(s) \/ FlushRaises(s)
              \/ DrainTimesOut(s) \/ Die(s) \/ DeliveryFails(s)

Next == \/ Revoke
        \/ \E s \in Sessions : \/ Begin(s) \/ Step(s) \/ Disturb(s)
                               \/ Assign(s) \/ CommitLands(s) \/ Deliver(s)

Spec == Init /\ [][Next]_vars

\* A session's thread goes on, and the broker assigns a free partition.
FairSpec == /\ Spec
            /\ \A s \in Sessions : WF_vars(Step(s))
            /\ WF_vars(\E s \in Sessions : Assign(s))

-----------------------------------------------------------------------------
TypeOK == /\ committed \in 0 .. N
          /\ owner \in Sessions \cup {None}
          /\ revocations \in 0 .. MaxRevocations /\ faults \in 0 .. MaxFaults
          /\ scored \in [Messages -> Sessions \cup {None}]
          /\ dlq \subseteq Messages /\ lost \subseteq Messages
          /\ raw \subseteq Messages \X Sessions
          /\ session \in [Sessions -> SessionType]
          /\ status \in [Sessions -> {"ABSENT", "RUNNING", "SUCCESS", "FAILED"}]

\* The message's outcome is in the database or was handed to the DLQ producer.
HandedOn(m) == \/ scored[m] # None
               \/ m \in dlq \cup lost
               \/ \E s \in Sessions : m \in session[s].queue

\* Whatever crashes, rebalances, late and lost commits there were, no
\* message at or below the committed position was skipped.
NothingIsSkipped == \A m \in 1 .. committed : HandedOn(m)

\* A run recorded as SUCCESS has every event it counted as processed in the
\* raw bucket, and each of those, however often redelivered, in the database.
SuccessKeepsRawEvents ==
    \A s \in Sessions : status[s] = "SUCCESS" =>
        \A m \in session[s].processed : <<m, s>> \in raw /\ scored[m] # None

\* The first session to score a transaction decides it: redelivery after a
\* crash or to another session changes neither score nor decision.
DecisionsAreFinal ==
    [][\A m \in Messages : scored[m] # None => scored'[m] = scored[m]]_vars

NobodyRuns == \A s \in Sessions : session[s].pc \in {"idle"} \cup Gone

\* While PostgreSQL fails as it likes, and after finitely many faults and
\* rebalances, every message is scored or dead-lettered, or nobody consumes.
EveryMessageIsHandled == \A m \in Messages : (<>HandedOn(m)) \/ (<>[]NobodyRuns)

\* The stream rows are records of runs as RunRecords has them.
Records == INSTANCE RunRecords WITH Runs <- Sessions
ImplementsRunRecords == Records!Spec
=============================================================================
