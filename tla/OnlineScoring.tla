--------------------------- MODULE OnlineScoring ---------------------------
(***************************************************************************)
(* src/src/api/main.py: concurrent requests borrowing connections from the *)
(* process's pool, and common/scoring.py's score_and_persist as the API    *)
(* and the stream consumer call it, on a PostgreSQL that may go away.      *)
(*                                                                         *)
(* External, as the code uses it: psycopg2's ThreadedConnectionPool.       *)
(* getconn takes an idle connection or, below maxconn, opens one; putconn  *)
(* keeps a healthy connection only below minconn, first rolling back a     *)
(* transaction left open, and forgets the connection last.                 *)
(***************************************************************************)
EXTENDS TransactionFeatures

CONSTANTS Requests,         \* calls of the API's endpoints
          Scores,           \* those of POST /score; the others only query
          Messages,         \* transactions the stream consumer scores, each retried
          Tx,               \* [Scores \cup Messages -> transaction]; a request stamps its own
          Profiles,         \* customer_profiles
          Lookups,          \* the loaded risk_lookups
          Probability(_),   \* the champion model: hundredths
          MinConn, MaxConn, \* the pool's bounds
          MaxOutages,       \* bound on outages of PostgreSQL
          MaxTries,         \* streaming.retry.max_attempts
          None

ASSUME OnlineAssumption == /\ Scores \subseteq Requests
                           /\ Requests \cap Messages = {} /\ IsFiniteSet(Requests)
                           /\ \A w \in Scores \cup Messages : "at" \in DOMAIN Tx[w]
                           /\ MinConn \in 0 .. MaxConn /\ MaxConn \in Nat \ {0}
                           /\ MaxOutages \in Nat /\ MaxTries \in Nat \ {0}
                           /\ None \notin BOOLEAN

VARIABLES up,       \* PostgreSQL accepts connections
          outages,  \* outages so far
          idle,     \* the pool's idle connections, TRUE while the server's end lives
          used,     \* how many the pool believes are borrowed
          severed,  \* connections outages have cut (history)
          leaked,   \* borrowed connections nobody holds any more (history)
          model,    \* state["model"] is loaded
          clock,
          events,   \* recent_events, in the order of insertion
          stored,   \* fraud_scores and fraud_decisions: a row for each transaction scored
          answered, \* requests that got their decision (history)
          work      \* [Workers -> WorkType]: a call in progress

vars == <<up, outages, idle, used, severed, leaked, model, clock, events, stored, answered, work>>
server == <<up, outages>>
pool   == <<idle, used, severed, leaked>>
tables == <<events, stored>>

Workers == Requests \cup Messages
Scored  == Scores \cup Messages

\* conn: whether the borrowed connection lives, or None; before: the requests
\* answered when this one took its time; row: what it is about to store.
Idle == [pc |-> "idle", conn |-> None, at |-> 0, before |-> {}, row |-> None, tries |-> 0]

Init == /\ up = TRUE /\ outages = 0
        /\ idle = [i \in 1 .. MinConn |-> TRUE] /\ used = 0 /\ severed = 0 /\ leaked = 0
        /\ model \in BOOLEAN
        /\ clock = 1
        /\ events = <<>> /\ stored = <<>>
        /\ answered = {}
        /\ work = [w \in Workers |-> Idle]

Set(w, new) == work' = [work EXCEPT ![w] = new]
Goes(w, pc) == Set(w, [work[w] EXCEPT !.pc = pc])
Holding == {w \in Workers : work[w].conn # None}
Works(w) == up /\ work[w].conn

-----------------------------------------------------------------------------
(* PostgreSQL.                                                              *)

\* Every open connection is cut; nobody notices before using it.
Outage ==
    /\ up /\ outages < MaxOutages
    /\ up' = FALSE /\ outages' = outages + 1
    /\ severed' = severed + Cardinality({i \in DOMAIN idle : idle[i]})
                          + Cardinality({w \in Holding \cap Requests : work[w].conn})
    /\ idle' = [i \in DOMAIN idle |-> FALSE]
    /\ work' = [w \in Workers |-> IF w \in Holding THEN [work[w] EXCEPT !.conn = FALSE] ELSE work[w]]
    /\ UNCHANGED <<used, leaked, model, clock, tables, answered>>

Recover == /\ ~up
           /\ up' = TRUE
           /\ UNCHANGED <<outages, pool, model, clock, tables, answered, work>>

-----------------------------------------------------------------------------
(* The pool and get_conn.                                                   *)

\* getconn returns a connection that lives or not, or raises (None).
GetConn(live) ==
    IF idle # <<>>
    THEN live = Last(idle) /\ idle' = Front(idle) /\ used' = used + 1
    ELSE IF used < MaxConn /\ up
         THEN live = TRUE /\ used' = used + 1 /\ UNCHANGED idle
         ELSE live = None /\ UNCHANGED <<idle, used>>

\* require_model, then _checkout_validated_connection.
Call(r) ==
    /\ work[r].pc = "idle"
    /\ IF r \in Scores /\ ~model
       THEN Goes(r, "refused") /\ UNCHANGED <<idle, used>>
       ELSE \E live \in {TRUE, FALSE, None} :
              /\ GetConn(live)
              /\ Set(r, [work[r] EXCEPT !.conn = live, !.pc = IF live = None THEN "refused" ELSE "ping"])
    /\ UNCHANGED <<server, severed, leaked, model, clock, tables, answered>>

Ping(r) ==
    /\ work[r].pc = "ping"
    /\ IF Works(r) THEN Goes(r, "open") /\ UNCHANGED used
       ELSE /\ Set(r, [work[r] EXCEPT !.conn = None, !.pc = "replacing"])
            /\ used' = used - 1             \* putconn(conn, close=True)
    /\ UNCHANGED <<server, idle, severed, leaked, model, clock, tables, answered>>

Replace(r) ==
    /\ work[r].pc = "replacing"
    /\ \E live \in {TRUE, FALSE, None} :
          /\ GetConn(live)
          /\ Set(r, [work[r] EXCEPT !.conn = live, !.pc = IF live = None THEN "refused" ELSE "ping again"])
    /\ UNCHANGED <<server, severed, leaked, model, clock, tables, answered>>

\* Outside the try: a second failure leaves the connection borrowed.
PingAgain(r) ==
    /\ work[r].pc = "ping again"
    /\ IF Works(r) THEN Goes(r, "open") /\ UNCHANGED leaked
       ELSE /\ Set(r, [work[r] EXCEPT !.conn = None, !.pc = "refused"])
            /\ leaked' = leaked + 1
    /\ UNCHANGED <<server, idle, used, severed, model, clock, tables, answered>>

\* putconn of get_conn's finally.  A query that failed has closed its
\* connection, which the pool only forgets.  A transaction still open is rolled
\* back, and a ROLLBACK that raises leaves the connection borrowed.
PutConn(r, noticed) ==
    LET inTransaction == r \notin Scores
    IN  IF noticed \/ Len(idle) >= MinConn
        THEN used' = used - 1 /\ UNCHANGED <<idle, leaked>>
        ELSE IF inTransaction /\ ~Works(r)
        THEN leaked' = leaked + 1 /\ UNCHANGED <<idle, used>>
        ELSE /\ idle' = Append(idle, work[r].conn)
             /\ used' = used - 1
             /\ UNCHANGED leaked

OnlyAnswers(r) ==             \* variant: no finally around the yield
    IF work[r].pc = "returning" THEN PutConn(r, FALSE)
    ELSE leaked' = leaked + 1 /\ UNCHANGED <<idle, used>>

GivesBack(r) == PutConn(r, work[r].pc = "broken")

\* /health, /model, /transactions, /decisions, /metrics.
Query(r) ==
    /\ work[r].pc = "open" /\ r \notin Scores
    /\ Goes(r, IF Works(r) THEN "returning" ELSE "broken")
    /\ UNCHANGED <<server, pool, model, clock, tables, answered>>

-----------------------------------------------------------------------------
(* score_and_persist.                                                       *)

At(w) == IF w \in Messages THEN Tx[w].at ELSE work[w].at

\* The request takes its time.
Stamp(r) ==
    /\ work[r].pc = "open" /\ r \in Scores
    /\ Set(r, [work[r] EXCEPT !.pc = "reading", !.at = clock, !.before = answered])
    /\ UNCHANGED <<server, pool, model, clock, tables, answered>>

\* Each attempt of _score_with_retry opens a connection of its own.
Connect(m) ==
    /\ m \in Messages /\ work[m].pc = "idle" /\ work[m].tries < MaxTries
    /\ LET tried == [work[m] EXCEPT !.tries = @ + 1]
       IN  Set(m, IF up THEN [tried EXCEPT !.pc = "reading", !.conn = TRUE] ELSE tried)
    /\ UNCHANGED <<server, pool, model, clock, tables, answered>>

Recent(w) == RecentEvents(events, Tx[w].customer, At(w))

\* The profile, the recent events, the features, the probability, the decision.
Read(w) ==
    /\ work[w].pc = "reading"
    /\ LET tx == [Tx[w] EXCEPT !.at = At(w)]
           features == ComputeFeatures(tx, ProfileOf(Profiles, tx.customer), Recent(w), Lookups)
           row == [features |-> features, codes |-> Codes(features),
                   conclusion |-> Classify(Probability(features))]
       IN  IF Works(w) THEN Set(w, [work[w] EXCEPT !.pc = "persisting", !.row = row])
                       ELSE Goes(w, "broken")
    /\ UNCHANGED <<server, pool, model, clock, tables, answered>>

Unrecorded(w) == events                 \* variant: record_event is not called

\* record_event: ON CONFLICT DO NOTHING on transaction_id.
Recorded(w) == IF \E i \in DOMAIN events : events[i].id = w THEN events
               ELSE Append(events, [id |-> w, customer |-> Tx[w].customer, kind |-> "success", at |-> At(w)])

\* INSERT ... ON CONFLICT DO NOTHING: the row that is there stays.
Inserted(table, key, row) ==
    [k \in DOMAIN table \cup {key} |-> IF k \in DOMAIN table THEN table[k] ELSE row]

\* Transaction, score, decision and event in one transaction, each keeping the
\* row that is there.  Its acknowledgement may be lost.
Persist(w, told) ==
    /\ work[w].pc = "persisting" /\ Works(w)
    /\ stored' = Inserted(stored, w, work[w].row)
    /\ events' = Recorded(w)
    /\ Goes(w, IF told THEN "returning" ELSE "broken")
    /\ UNCHANGED <<server, pool, model, clock, answered>>

PersistFails(w) ==
    /\ work[w].pc = "persisting"
    /\ Goes(w, IF Works(w) THEN "failing" ELSE "broken")
    /\ UNCHANGED <<server, pool, model, clock, tables, answered>>

\* The connection goes back, the response goes out, time passes.
Return(r) ==
    /\ work[r].pc = "returning" /\ r \in Requests
    /\ GivesBack(r)
    /\ Set(r, [work[r] EXCEPT !.conn = None, !.pc = "done"])
    /\ answered' = answered \cup ({r} \cap Scores)
    /\ clock' = clock + 1
    /\ UNCHANGED <<server, severed, model, tables>>

\* The exception reaches get_conn's finally, and the client as a 500.
Fail(r) ==
    /\ work[r].pc \in {"failing", "broken"} /\ r \in Requests
    /\ GivesBack(r)
    /\ Set(r, [work[r] EXCEPT !.conn = None, !.pc = "refused"])
    /\ UNCHANGED <<server, severed, model, clock, tables, answered>>

\* The attempt's own connection is closed; a failed attempt is tried again.
Disconnect(m) ==
    /\ m \in Messages /\ work[m].pc \in {"returning", "failing", "broken"}
    /\ Set(m, [work[m] EXCEPT !.conn = None, !.row = None,
                              !.pc = IF work[m].pc = "returning" THEN "done" ELSE "idle"])
    /\ UNCHANGED <<server, pool, model, clock, tables, answered>>

Next == \/ Outage \/ Recover
        \/ \E r \in Requests : \/ Call(r) \/ Ping(r) \/ Replace(r) \/ PingAgain(r)
                               \/ Query(r) \/ Stamp(r) \/ Return(r) \/ Fail(r)
        \/ \E m \in Messages : Connect(m) \/ Disconnect(m)
        \/ \E w \in Scored : Read(w) \/ (\E told \in BOOLEAN : Persist(w, told)) \/ PersistFails(w)

Spec == Init /\ [][Next]_vars

-----------------------------------------------------------------------------
(* Properties.                                                              *)

Earlier(r, s) == /\ s # r /\ Tx[s].customer = Tx[r].customer
                 /\ work[r].at - work[s].at <= Window24h

\* A decision counts every request of the same customer within its window that
\* was answered before its own request took its time, and each transaction at
\* most once: however requests overlap, fail, or are retried, the velocity the
\* model saw is never behind what the clients had been told.
VelocitySeesEarlierAnswers ==
    \A r \in Scores \cap DOMAIN stored :
        LET known == {s \in work[r].before : Earlier(r, s)}
            other == {s \in DOMAIN stored \ {r} : Tx[s].customer = Tx[r].customer}
        IN  stored[r].features.last24h \in Cardinality(known) .. Cardinality(other)

\* A request that ends gives its connection back on every path: those the pool
\* counts as borrowed are held by a request in progress or were lost, and only a
\* connection cut by an outage is ever lost.
OnlyOutagesCostConnections ==
    /\ used = Cardinality(Holding \cap Requests) + leaked
    /\ used <= MaxConn
    /\ leaked <= severed
=============================================================================
