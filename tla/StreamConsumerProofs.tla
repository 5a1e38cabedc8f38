------------------------ MODULE StreamConsumerProofs ------------------------
(***************************************************************************)
(* Theorems about StreamConsumer for any number of messages, sessions,     *)
(* attempts, faults and rebalances, and any batch size.                    *)
(***************************************************************************)
EXTENDS StreamConsumer, TLAPS

-----------------------------------------------------------------------------
(* The inductive invariant.                                                 *)

Alive  == Looping \cup {"failing", "flushing"}
Stored == {"closing", "draining", "succeeding"}

\* What a session has asked the broker to commit, and what it has polled before
\* the message it works on, is handed on; it counts a message once that is.
Progress(s) ==
    /\ \A m \in 1 .. session[s].asked : HandedOn(m)
    /\ session[s].pc \in Looping =>
          /\ \A m \in 1 .. session[s].pos : m = session[s].msg \/ HandedOn(m)
          /\ \A m \in 1 .. session[s].msg : m = session[s].msg \/ HandedOn(m)
    /\ session[s].pc = "polling" => session[s].msg = 0
    /\ session[s].pc \in {"idle", "setup", "polling"} => session[s].tries = 0
    /\ session[s].pc = "received" => session[s].tries < MaxAttempts
    /\ session[s].pc \in Looping \ {"polling"} => session[s].msg \in Messages
    /\ session[s].pc \in {"scored", "appended"} => scored[session[s].msg] # None
    /\ session[s].pc = "counted" => HandedOn(session[s].msg)
    /\ session[s].pc \in {"idle", "setup"} => session[s].pos = 0 /\ session[s].msg = 0

InRaw(s, m) == <<m, s>> \in raw
Buffered(s, m) == \E i \in DOMAIN session[s].buffer : session[s].buffer[i] = m

\* What a session counted as processed is in the database, and in the bucket
\* or still in its buffer; once the buffer is flushed, in the bucket.
Kept(s) ==
    /\ \A m \in session[s].processed : scored[m] # None
    /\ session[s].pc \in {"idle", "setup"} => session[s].processed = {}
    /\ session[s].pc \in Alive =>
          \A m \in session[s].processed : InRaw(s, m) \/ Buffered(s, m)
    /\ session[s].pc = "appended" => InRaw(s, session[s].msg) \/ Buffered(s, session[s].msg)
    /\ session[s].pc \in Stored \/ status[s] = "SUCCESS" => \A m \in session[s].processed : InRaw(s, m)

\* The run record follows the session.
Recorded(s) ==
    /\ status[s] = "ABSENT" <=> session[s].pc = "idle"
    /\ session[s].pc \in {"setup", "failing", "succeeding"} \cup Looping => status[s] = "RUNNING"
    /\ status[s] = "SUCCESS" => session[s].pc = "ended"
    /\ session[s].pc = "ended" => status[s] \in {"SUCCESS", "FAILED"}

SInv(s) == Progress(s) /\ Kept(s) /\ Recorded(s)

IInv == TypeOK /\ NothingIsSkipped /\ \A s \in Sessions : SInv(s)

-----------------------------------------------------------------------------
(* What every step leaves behind.                                           *)

\* Database rows stay, topics and bucket grow, and what leaves a producer's
\* queue is delivered or lost.
Grows ==
    /\ \A m \in Messages : scored[m] # None => scored'[m] = scored[m]
    /\ dlq \subseteq dlq' /\ lost \subseteq lost' /\ raw \subseteq raw'
    /\ \A q \in Sessions : session[q].queue \subseteq session'[q].queue \cup dlq' \cup lost'

LEMMA HandedOnStays == ASSUME Grows, NEW m \in Messages, HandedOn(m) PROVE HandedOn(m)'
BY DEF Grows, HandedOn

\* A session stays one when a field gets another value of its type.
Pcs == {"idle", "setup", "failing", "succeeding"} \cup Looping \cup Finally \cup Gone

LEMMA Updates ==
    /\ \A x \in SessionType, v \in Pcs : [x EXCEPT !.pc = v] \in SessionType
    /\ \A x \in SessionType, v \in 0 .. N : /\ [x EXCEPT !.pos = v] \in SessionType
                                            /\ [x EXCEPT !.msg = v] \in SessionType
                                            /\ [x EXCEPT !.asked = v] \in SessionType
    /\ \A x \in SessionType, v \in 0 .. MaxAttempts : [x EXCEPT !.tries = v] \in SessionType
    /\ \A x \in SessionType, v \in Seq(Messages) : [x EXCEPT !.buffer = v] \in SessionType
    /\ \A x \in SessionType, v \in SUBSET Messages : /\ [x EXCEPT !.queue = v] \in SessionType
                                                     /\ [x EXCEPT !.processed = v] \in SessionType
BY DEF SessionType, Pcs

\* The values steps give to fields.
LEMMA Values ==
    /\ Looping \subseteq Pcs /\ Finally \subseteq Pcs /\ Gone \subseteq Pcs
    /\ \A p \in {"polling", "received", "scored", "appended", "spent", "counted", "flushing", "closing",
                 "draining", "ended", "exited", "dead", "setup", "failing", "succeeding"} : p \in Pcs
    /\ 0 \in 0 .. N /\ 0 \in 0 .. MaxAttempts /\ <<>> \in Seq(Messages) /\ {} \in SUBSET Messages
    /\ "polling" \in Pcs /\ "received" \in Pcs /\ "counted" \in Pcs /\ "failing" \in Pcs
    /\ "flushing" \in Pcs
BY StreamAssumption DEF Pcs, Looping, Finally, Gone

LEMMA SessionTyped ==
    ASSUME TypeOK, NEW s \in Sessions
    PROVE  /\ session[s] \in SessionType
           /\ session[s].pos \in 0 .. N /\ session[s].msg \in 0 .. N /\ session[s].asked \in 0 .. N
           /\ session[s].tries \in 0 .. MaxAttempts /\ session[s].buffer \in Seq(Messages)
           /\ session[s].queue \subseteq Messages /\ session[s].processed \subseteq Messages
           /\ status[s] \in {"ABSENT", "RUNNING", "SUCCESS", "FAILED"}
           /\ N \in Nat
<1>1. session[s] \in SessionType /\ status[s] \in {"ABSENT", "RUNNING", "SUCCESS", "FAILED"}
  BY DEF TypeOK
<1> QED BY <1>1, StreamAssumption DEF SessionType

\* A session whose own state a step leaves alone keeps its part of the invariant.
LEMMA BystanderKeeps ==
    ASSUME TypeOK, Grows, NEW q \in Sessions, SInv(q),
           session'[q] = session[q], status'[q] = status[q]
    PROVE  SInv(q)'
<1>1. \A m \in Messages : HandedOn(m) => HandedOn(m)'
  BY HandedOnStays
<1>2. \A m \in Messages : scored[m] # None => scored'[m] # None
  BY DEF Grows
<1>3. \A m : InRaw(q, m) => InRaw(q, m)'
  BY DEF Grows, InRaw
<1>4. \A m : Buffered(q, m) <=> Buffered(q, m)'
  BY DEF Buffered
<1>5. /\ \A m \in 1 .. session[q].asked : m \in Messages
      /\ \A m \in 1 .. session[q].pos : m \in Messages
      /\ \A m \in 1 .. session[q].msg : m \in Messages
      /\ session[q].processed \subseteq Messages
  BY SessionTyped DEF Messages
<1>6. Progress(q)'
  BY <1>1, <1>2, <1>5 DEF SInv, Progress, Looping
<1>7. Kept(q)'
  BY <1>2, <1>3, <1>4, <1>5 DEF SInv, Kept
<1>8. Recorded(q)'
  BY DEF SInv, Recorded
<1> QED BY <1>6, <1>7, <1>8 DEF SInv

\* So a step of one session is done when it keeps the types and its own part.
LEMMA StepOfOne ==
    ASSUME IInv, NEW s \in Sessions, TypeOK', Grows, SInv(s)',
           \A q \in Sessions \ {s} : session'[q] = session[q] /\ status'[q] = status[q],
           committed' \in {committed, session[s].asked}
    PROVE  IInv'
<1>1. TypeOK /\ NothingIsSkipped /\ (\A q \in Sessions : SInv(q))
  BY DEF IInv
<1>2. \A q \in Sessions : SInv(q)'
  BY <1>1, BystanderKeeps
<1>3. NothingIsSkipped'
  <2>1. SUFFICES ASSUME NEW m \in 1 .. committed' PROVE HandedOn(m)'
    BY DEF NothingIsSkipped
  <2>2. committed \in 0 .. N /\ session[s].asked \in 0 .. N /\ N \in Nat
    BY <1>1, SessionTyped DEF TypeOK
  <2>3. m \in Messages /\ HandedOn(m)
    BY <1>1, <2>2 DEF Messages, NothingIsSkipped, SInv, Progress
  <2> QED BY <2>3, HandedOnStays
<1> QED BY <1>2, <1>3 DEF IInv

-----------------------------------------------------------------------------
(* One lemma for each action.                                               *)

\* A step that changes nothing but its session's own state, queueing at most.
LEMMA LocalKeeps ==
    ASSUME IInv, NEW s \in Sessions, NEW new \in SessionType, Local(s, new),
           session[s].queue \subseteq new.queue,
           (\A m \in Messages : HandedOn(m) => HandedOn(m)') /\ session'[s] = new => SInv(s)'
    PROVE  IInv'
<1>1. TypeOK
  BY DEF IInv
<1>2. /\ session' \in [Sessions -> SessionType] /\ session'[s] = new
      /\ \A q \in Sessions \ {s} : session'[q] = session[q] /\ status'[q] = status[q]
  BY <1>1 DEF TypeOK, Local
<1>3. TypeOK' /\ committed' = committed
  BY <1>1, <1>2 DEF TypeOK, Local, outside, broker, topics
<1>4. Grows
  BY <1>2 DEF Grows, Local, outside, topics
<1>5. \A m \in Messages : HandedOn(m) => HandedOn(m)'
  BY <1>4, HandedOnStays
<1> QED BY <1>2, <1>3, <1>4, <1>5, StepOfOne

\* The types of all that is not a session's own state.
TablesOK ==
    /\ committed \in 0 .. N
    /\ owner \in Sessions \cup {None}
    /\ revocations \in 0 .. MaxRevocations /\ faults \in 0 .. MaxFaults
    /\ scored \in [Messages -> Sessions \cup {None}]
    /\ dlq \subseteq Messages /\ lost \subseteq Messages
    /\ raw \subseteq Messages \X Sessions
    /\ status \in [Sessions -> {"ABSENT", "RUNNING", "SUCCESS", "FAILED"}]

LEMMA FaultTyped == ASSUME TypeOK, Fault PROVE faults' \in 0 .. MaxFaults
BY StreamAssumption DEF TypeOK, Fault

\* A step of one session that changes tables too.
LEMMA StepKeeps ==
    ASSUME IInv, NEW s \in Sessions, NEW new \in SessionType,
           session' = [session EXCEPT ![s] = new],
           TablesOK',
           \A m \in Messages : scored[m] # None => scored'[m] = scored[m],
           dlq \subseteq dlq' /\ lost \subseteq lost' /\ raw \subseteq raw',
           session[s].queue \subseteq new.queue \cup dlq' \cup lost',
           \A q \in Sessions \ {s} : status'[q] = status[q],
           committed' \in {committed, session[s].asked},
           (\A m \in Messages : HandedOn(m) => HandedOn(m)') /\ session'[s] = new => SInv(s)'
    PROVE  IInv'
<1>1. TypeOK
  BY DEF IInv
<1>2. /\ session' \in [Sessions -> SessionType] /\ session'[s] = new
      /\ \A q \in Sessions \ {s} : session'[q] = session[q]
  BY <1>1 DEF TypeOK
<1>3. TypeOK'
  BY <1>2 DEF TypeOK, TablesOK
<1>4. Grows
  BY <1>2 DEF Grows
<1>5. \A m \in Messages : HandedOn(m) => HandedOn(m)'
  BY <1>4, HandedOnStays
<1> QED BY <1>2, <1>3, <1>4, <1>5, StepOfOne

LEMMA SetUpKeeps == ASSUME IInv, NEW s \in Sessions, SetUp(s) PROVE IInv'
<1>1. TypeOK /\ SInv(s) /\ session[s] \in SessionType
  BY SessionTyped DEF IInv
<1> DEFINE new == [session[s] EXCEPT !.pc = "polling"]
<1>2. Local(s, new) /\ session[s].pc = "setup"
  BY DEF SetUp, At
<1>3. new \in SessionType
  BY <1>1, Updates, Values, Zenon
<1>4. /\ new.pc = "polling" /\ new.pos = session[s].pos /\ new.msg = session[s].msg
      /\ new.asked = session[s].asked /\ new.tries = session[s].tries /\ new.buffer = session[s].buffer
      /\ new.queue = session[s].queue /\ new.processed = session[s].processed
  BY <1>1 DEF SessionType
<1> HIDE DEF new
<1>5. ASSUME \A m \in Messages : HandedOn(m) => HandedOn(m)', session'[s] = new PROVE SInv(s)'
  <2>1. Progress(s)'
    BY <1>1, <1>2, <1>4, <1>5, SessionTyped DEF SInv, Progress, Messages, Looping, Local
  <2>2. Kept(s)'
    BY <1>1, <1>2, <1>4, <1>5
       DEF SInv, Kept, Local, Alive, Stored, Recorded, Looping, InRaw, Buffered, Progress
  <2>3. Recorded(s)'
    BY <1>1, <1>2, <1>4, <1>5 DEF SInv, Recorded, Local, Looping
  <2> QED BY <2>1, <2>2, <2>3 DEF SInv
<1> QED BY <1>2, <1>3, <1>4, <1>5, LocalKeeps

LEMMA PollKeeps == ASSUME IInv, NEW s \in Sessions, Poll(s) PROVE IInv'
<1>1. TypeOK /\ SInv(s) /\ session[s] \in SessionType
  BY SessionTyped DEF IInv
<1> DEFINE new == [session[s] EXCEPT !.pc = "received", !.pos = @ + 1, !.msg = session[s].pos + 1]
<1>2. Local(s, new) /\ session[s].pc = "polling" /\ session[s].pos < N
  BY DEF Poll, At
<1>3. session[s].pos + 1 \in 0 .. N /\ session[s].pos + 1 \in Messages
  BY <1>1, <1>2, SessionTyped, StreamAssumption DEF SInv, Progress, Looping, Messages
<1>4. new \in SessionType
  BY <1>1, <1>3, Updates, Values, Zenon
<1>5. /\ new.pc = "received" /\ new.pos = session[s].pos + 1 /\ new.msg = session[s].pos + 1
      /\ new.asked = session[s].asked /\ new.tries = session[s].tries /\ new.buffer = session[s].buffer
      /\ new.queue = session[s].queue /\ new.processed = session[s].processed
  BY <1>1 DEF SessionType
<1> HIDE DEF new
<1>6. ASSUME \A m \in Messages : HandedOn(m) => HandedOn(m)', session'[s] = new PROVE SInv(s)'
  <2>1. /\ \A m \in 1 .. session[s].pos : m \in Messages /\ HandedOn(m)
        /\ \A m \in 1 .. session[s].pos + 1 : m \in 1 .. session[s].pos \/ m = session[s].pos + 1
    BY <1>1, <1>2, <1>3, SessionTyped DEF SInv, Progress, Looping, Messages
  <2>2. new.tries < MaxAttempts
    BY <1>1, <1>2, <1>5, StreamAssumption DEF SInv, Progress
  <2>3. Progress(s)'
    BY <1>1, <1>2, <1>3, <1>5, <1>6, <2>1, <2>2, SessionTyped DEF SInv, Progress, Messages, Looping, Local
  <2>4. Kept(s)'
    BY <1>1, <1>2, <1>3, <1>5, <1>6
       DEF SInv, Kept, Local, Alive, Stored, Recorded, Looping, InRaw, Buffered, Progress
  <2>5. Recorded(s)'
    BY <1>1, <1>2, <1>5, <1>6 DEF SInv, Recorded, Local, Looping
  <2> QED BY <2>3, <2>4, <2>5 DEF SInv
<1> QED BY <1>2, <1>4, <1>5, <1>6, LocalKeeps

LEMMA ReadRaisesKeeps == ASSUME IInv, NEW s \in Sessions, ReadRaises(s) PROVE IInv'
<1>1. TypeOK /\ SInv(s) /\ session[s] \in SessionType
  BY SessionTyped DEF IInv
<1> DEFINE new == [session[s] EXCEPT !.pc = "failing"]
<1>2. Local(s, new) /\ session[s].pc = "received"
  BY DEF ReadRaises, At
<1>3. new \in SessionType
  BY <1>1, Updates, Values, Zenon
<1>4. /\ new.pc = "failing" /\ new.pos = session[s].pos /\ new.msg = session[s].msg
      /\ new.asked = session[s].asked /\ new.tries = session[s].tries /\ new.buffer = session[s].buffer
      /\ new.queue = session[s].queue /\ new.processed = session[s].processed
  BY <1>1 DEF SessionType
<1> HIDE DEF new
<1>5. ASSUME \A m \in Messages : HandedOn(m) => HandedOn(m)', session'[s] = new PROVE SInv(s)'
  <2>1. Progress(s)'
    BY <1>1, <1>2, <1>4, <1>5, SessionTyped DEF SInv, Progress, Messages, Looping, Local
  <2>2. Kept(s)'
    BY <1>1, <1>2, <1>4, <1>5
       DEF SInv, Kept, Local, Alive, Stored, Recorded, Looping, InRaw, Buffered, Progress
  <2>3. Recorded(s)'
    BY <1>1, <1>2, <1>4, <1>5 DEF SInv, Recorded, Local, Looping
  <2> QED BY <2>1, <2>2, <2>3 DEF SInv
<1> QED BY <1>2, <1>3, <1>4, <1>5, LocalKeeps

LEMMA SendToDlqKeeps == ASSUME IInv, NEW s \in Sessions, SendToDlq(s) PROVE IInv'
<1>1. TypeOK /\ SInv(s) /\ session[s] \in SessionType
  BY SessionTyped DEF IInv
<1> DEFINE msg == session[s].msg
           next == [session[s] EXCEPT !.pc = "counted"]
           new == [next EXCEPT !.queue = @ \cup {msg}]
<1>2. Local(s, new) /\ session[s].pc \in {"spent", "received"}
  BY DEF SendToDlq, At
<1>3. msg \in Messages /\ session[s].queue \cup {msg} \in SUBSET Messages
  BY <1>1, <1>2, SessionTyped, StreamAssumption DEF SInv, Progress, Looping, Messages
<1>4. new \in SessionType
  <2>1. next \in SessionType
    BY <1>1, Updates, Values, Zenon
  <2>2. next.queue \cup {msg} \in SUBSET Messages
    BY <1>1, <1>3 DEF SessionType
  <2> HIDE DEF next
  <2> QED BY <2>1, <2>2, Updates, Zenon
<1>5. /\ new.pc = "counted" /\ new.pos = session[s].pos /\ new.msg = session[s].msg
      /\ new.asked = session[s].asked /\ new.tries = session[s].tries /\ new.buffer = session[s].buffer
      /\ new.queue = session[s].queue \cup {msg} /\ new.processed = session[s].processed
  BY <1>1 DEF SessionType
<1> HIDE DEF new
<1>6. ASSUME \A m \in Messages : HandedOn(m) => HandedOn(m)', session'[s] = new PROVE SInv(s)'
  <2>1. HandedOn(msg)'
    BY <1>1, <1>5, <1>6 DEF HandedOn
  <2>2. Progress(s)'
    BY <1>1, <1>2, <1>3, <1>5, <1>6, <2>1, SessionTyped DEF SInv, Progress, Messages, Looping, Local
  <2>3. Kept(s)'
    BY <1>1, <1>2, <1>3, <1>5, <1>6
       DEF SInv, Kept, Local, Alive, Stored, Recorded, Looping, InRaw, Buffered, Progress
  <2>4. Recorded(s)'
    BY <1>1, <1>2, <1>5, <1>6 DEF SInv, Recorded, Local, Looping
  <2> QED BY <2>2, <2>3, <2>4 DEF SInv
<1> QED BY <1>2, <1>4, <1>5, <1>6, LocalKeeps

LEMMA CountProcessedKeeps == ASSUME IInv, NEW s \in Sessions, CountProcessed(s) PROVE IInv'
<1>1. TypeOK /\ SInv(s) /\ session[s] \in SessionType
  BY SessionTyped DEF IInv
<1> DEFINE msg == session[s].msg
           next == [session[s] EXCEPT !.pc = "counted"]
           new == [next EXCEPT !.processed = @ \cup {msg}]
<1>2. Local(s, new) /\ session[s].pc = "appended"
  BY DEF CountProcessed, At
<1>3. msg \in Messages /\ session[s].processed \cup {msg} \in SUBSET Messages
  BY <1>1, <1>2, SessionTyped, StreamAssumption DEF SInv, Progress, Looping, Messages
<1>4. new \in SessionType
  <2>1. next \in SessionType
    BY <1>1, Updates, Values, Zenon
  <2>2. next.processed \cup {msg} \in SUBSET Messages
    BY <1>1, <1>3 DEF SessionType
  <2> HIDE DEF next
  <2> QED BY <2>1, <2>2, Updates, Zenon
<1>5. /\ new.pc = "counted" /\ new.pos = session[s].pos /\ new.msg = session[s].msg
      /\ new.asked = session[s].asked /\ new.tries = session[s].tries /\ new.buffer = session[s].buffer
      /\ new.queue = session[s].queue /\ new.processed = session[s].processed \cup {msg}
  BY <1>1 DEF SessionType
<1> HIDE DEF new
<1>6. ASSUME \A m \in Messages : HandedOn(m) => HandedOn(m)', session'[s] = new PROVE SInv(s)'
  <2>1. HandedOn(msg)'
    <3>1. scored[msg] # None
      BY <1>1, <1>2 DEF SInv, Progress
    <3>2. HandedOn(msg)
      BY <3>1 DEF HandedOn
    <3> QED BY <1>3, <1>5, <1>6, <3>2
  <2>2. Progress(s)'
    BY <1>1, <1>2, <1>3, <1>5, <1>6, <2>1, SessionTyped DEF SInv, Progress, Messages, Looping, Local
  <2>3. Kept(s)'
    BY <1>1, <1>2, <1>3, <1>5, <1>6
       DEF SInv, Kept, Local, Alive, Stored, Recorded, Looping, InRaw, Buffered, Progress
  <2>4. Recorded(s)'
    BY <1>1, <1>2, <1>5, <1>6 DEF SInv, Recorded, Local, Looping
  <2> QED BY <2>2, <2>3, <2>4 DEF SInv
<1> QED BY <1>2, <1>4, <1>5, <1>6, LocalKeeps

LEMMA CommitKeeps == ASSUME IInv, NEW s \in Sessions, Commit(s) PROVE IInv'
<1>1. TypeOK /\ SInv(s) /\ session[s] \in SessionType
  BY SessionTyped DEF IInv
<1> DEFINE msg == session[s].msg
           new == [[session[s] EXCEPT !.pc = "polling"] EXCEPT !.asked = msg, !.msg = 0, !.tries = 0]
<1>2. Local(s, new) /\ session[s].pc = "counted"
  BY DEF Commit, At
<1>3. msg \in 0 .. N /\ msg \in Messages
  BY <1>1, <1>2, SessionTyped, StreamAssumption DEF SInv, Progress, Looping, Messages
<1>4. new \in SessionType
  BY <1>1, <1>3, Updates, Values, Zenon
<1>5. /\ new.pc = "polling" /\ new.pos = session[s].pos /\ new.msg = 0
      /\ new.asked = msg /\ new.tries = 0 /\ new.buffer = session[s].buffer
      /\ new.queue = session[s].queue /\ new.processed = session[s].processed
  BY <1>1 DEF SessionType
<1> HIDE DEF new
<1>6. ASSUME \A m \in Messages : HandedOn(m) => HandedOn(m)', session'[s] = new PROVE SInv(s)'
  <2>1. HandedOn(msg) /\ \A m \in 1 .. msg : HandedOn(m)
    BY <1>1, <1>2 DEF SInv, Progress, Looping
  <2>2. msg \in Nat /\ \A m \in 1 .. msg : m \in Messages
    BY <1>3, StreamAssumption DEF Messages
  <2>3. \A m \in 1 .. session[s].pos : m \in Messages
    BY <1>1, SessionTyped DEF Messages
  <2>4. \A m \in 1 .. session[s].pos : HandedOn(m)
    BY <1>1, <1>2, <2>1 DEF SInv, Progress, Looping
  <2>5. /\ \A m \in 1 .. msg : HandedOn(m)'
        /\ \A m \in 1 .. session[s].pos : HandedOn(m)'
    BY <1>6, <2>1, <2>2, <2>3, <2>4
  <2>6. Progress(s)'
    BY <1>1, <1>2, <1>3, <1>5, <1>6, <2>5, SessionTyped DEF SInv, Progress, Messages, Looping, Local
  <2>7. Kept(s)'
    BY <1>1, <1>2, <1>3, <1>5, <1>6
       DEF SInv, Kept, Local, Alive, Stored, Recorded, Looping, InRaw, Buffered, Progress
  <2>8. Recorded(s)'
    BY <1>1, <1>2, <1>5, <1>6 DEF SInv, Recorded, Local, Looping
  <2> QED BY <2>6, <2>7, <2>8 DEF SInv
<1> QED BY <1>2, <1>4, <1>5, <1>6, LocalKeeps

LEMMA StopKeeps == ASSUME IInv, NEW s \in Sessions, Stop(s) PROVE IInv'
<1>1. TypeOK /\ SInv(s) /\ session[s] \in SessionType
  BY SessionTyped DEF IInv
<1> DEFINE new == [[session[s] EXCEPT !.pc = "flushing"] EXCEPT !.msg = 0, !.tries = 0]
<1>2. Local(s, new) /\ session[s].pc \in Looping
  BY DEF Stop, At
<1>3. new \in SessionType
  BY <1>1, Updates, Values, Zenon
<1>4. /\ new.pc = "flushing" /\ new.pos = session[s].pos /\ new.msg = 0
      /\ new.asked = session[s].asked /\ new.tries = 0 /\ new.buffer = session[s].buffer
      /\ new.queue = session[s].queue /\ new.processed = session[s].processed
  BY <1>1 DEF SessionType
<1> HIDE DEF new
<1>5. ASSUME \A m \in Messages : HandedOn(m) => HandedOn(m)', session'[s] = new PROVE SInv(s)'
  <2>1. Progress(s)'
    BY <1>1, <1>2, <1>4, <1>5, SessionTyped DEF SInv, Progress, Messages, Looping, Local
  <2>2. Kept(s)'
    BY <1>1, <1>2, <1>4, <1>5
       DEF SInv, Kept, Local, Alive, Stored, Recorded, Looping, InRaw, Buffered, Progress
  <2>3. Recorded(s)'
    BY <1>1, <1>2, <1>4, <1>5 DEF SInv, Recorded, Local, Looping
  <2> QED BY <2>1, <2>2, <2>3 DEF SInv
<1> QED BY <1>2, <1>3, <1>4, <1>5, LocalKeeps

LEMMA BeginKeeps == ASSUME IInv, NEW s \in Sessions, Begin(s) PROVE IInv'
<1>1. TypeOK /\ SInv(s) /\ session[s] \in SessionType
  BY SessionTyped DEF IInv
<1> DEFINE new == [session[s] EXCEPT !.pc = "setup"]
<1>2. session' = [session EXCEPT ![s] = new] /\ session[s].pc = "idle"
  BY DEF Begin
<1>3. new \in SessionType
  BY <1>1, Updates, Values, Zenon
<1>4. /\ new.pc = "setup" /\ new.pos = session[s].pos /\ new.msg = session[s].msg
      /\ new.asked = session[s].asked /\ new.tries = session[s].tries /\ new.buffer = session[s].buffer
      /\ new.queue = session[s].queue /\ new.processed = session[s].processed
  BY <1>1 DEF SessionType
<1> HIDE DEF new
<1>5. /\ UNCHANGED <<committed, owner, revocations, faults, dlq, lost, scored, raw>>
      /\ status' = [status EXCEPT ![s] = "RUNNING"] /\ \A q \in Sessions \ {s} : status'[q] = status[q]
      /\ status'[s] = "RUNNING"
  BY <1>1, <1>4 DEF Begin, outside, broker, topics, TypeOK
<1>6. TablesOK'
  BY <1>1, <1>5 DEF TypeOK, TablesOK
<1>7. ASSUME \A m \in Messages : HandedOn(m) => HandedOn(m)', session'[s] = new PROVE SInv(s)'
  <2>1. Progress(s)'
    BY <1>1, <1>2, <1>4, <1>5, <1>7, SessionTyped DEF SInv, Progress, Messages, Looping
  <2>2. Kept(s)'
    BY <1>1, <1>2, <1>4, <1>5, <1>7
       DEF SInv, Kept, Alive, Stored, Recorded, Looping, InRaw, Buffered, Progress
  <2>3. Recorded(s)'
    BY <1>1, <1>2, <1>4, <1>5, <1>7 DEF SInv, Recorded, Looping
  <2> QED BY <2>1, <2>2, <2>3 DEF SInv
<1> QED BY <1>2, <1>3, <1>4, <1>5, <1>6, <1>7, StepKeeps

LEMMA StepRaisesKeeps == ASSUME IInv, NEW s \in Sessions, StepRaises(s) PROVE IInv'
<1>1. TypeOK /\ SInv(s) /\ session[s] \in SessionType
  BY SessionTyped DEF IInv
<1> DEFINE new == [session[s] EXCEPT !.pc = "failing"]
<1>2. /\ session' = [session EXCEPT ![s] = new]
      /\ session[s].pc \in {"setup", "polling", "spent", "counted", "received"}
  BY DEF StepRaises
<1>3. new \in SessionType
  BY <1>1, Updates, Values, Zenon
<1>4. /\ new.pc = "failing" /\ new.pos = session[s].pos /\ new.msg = session[s].msg
      /\ new.asked = session[s].asked /\ new.tries = session[s].tries /\ new.buffer = session[s].buffer
      /\ new.queue = session[s].queue /\ new.processed = session[s].processed
  BY <1>1 DEF SessionType
<1> HIDE DEF new
<1>5. /\ UNCHANGED <<committed, owner, revocations, dlq, lost, scored, raw>> /\ status' = status
      /\ faults' \in 0 .. MaxFaults
  BY <1>1, <1>4, FaultTyped DEF StepRaises, outside, broker, topics, Fault
<1>6. TablesOK'
  BY <1>1, <1>5 DEF TypeOK, TablesOK
<1>7. ASSUME \A m \in Messages : HandedOn(m) => HandedOn(m)', session'[s] = new PROVE SInv(s)'
  <2>1. Progress(s)'
    BY <1>1, <1>2, <1>4, <1>5, <1>7, SessionTyped DEF SInv, Progress, Messages, Looping
  <2>2. Kept(s)'
    BY <1>1, <1>2, <1>4, <1>5, <1>7
       DEF SInv, Kept, Alive, Stored, Recorded, Looping, InRaw, Buffered, Progress
  <2>3. Recorded(s)'
    BY <1>1, <1>2, <1>4, <1>5, <1>7 DEF SInv, Recorded, Looping
  <2> QED BY <2>1, <2>2, <2>3 DEF SInv
<1> QED BY <1>2, <1>3, <1>4, <1>5, <1>6, <1>7, StepKeeps

LEMMA RecordFailureKeeps == ASSUME IInv, NEW s \in Sessions, RecordFailure(s) PROVE IInv'
<1>1. TypeOK /\ SInv(s) /\ session[s] \in SessionType
  BY SessionTyped DEF IInv
<1> DEFINE new == [session[s] EXCEPT !.pc = "flushing"]
<1>2. session' = [session EXCEPT ![s] = new] /\ session[s].pc = "failing"
  BY DEF RecordFailure
<1>3. new \in SessionType
  BY <1>1, Updates, Values, Zenon
<1>4. /\ new.pc = "flushing" /\ new.pos = session[s].pos /\ new.msg = session[s].msg
      /\ new.asked = session[s].asked /\ new.tries = session[s].tries /\ new.buffer = session[s].buffer
      /\ new.queue = session[s].queue /\ new.processed = session[s].processed
  BY <1>1 DEF SessionType
<1> HIDE DEF new
<1>5. /\ UNCHANGED <<committed, owner, revocations, faults, dlq, lost, scored, raw>>
      /\ status' = [status EXCEPT ![s] = "FAILED"] /\ \A q \in Sessions \ {s} : status'[q] = status[q]
      /\ status'[s] = "FAILED"
  BY <1>1, <1>4 DEF RecordFailure, outside, broker, topics, TypeOK
<1>6. TablesOK'
  BY <1>1, <1>5 DEF TypeOK, TablesOK
<1>7. ASSUME \A m \in Messages : HandedOn(m) => HandedOn(m)', session'[s] = new PROVE SInv(s)'
  <2>1. Progress(s)'
    BY <1>1, <1>2, <1>4, <1>5, <1>7, SessionTyped DEF SInv, Progress, Messages, Looping
  <2>2. Kept(s)'
    BY <1>1, <1>2, <1>4, <1>5, <1>7
       DEF SInv, Kept, Alive, Stored, Recorded, Looping, InRaw, Buffered, Progress
  <2>3. Recorded(s)'
    BY <1>1, <1>2, <1>4, <1>5, <1>7 DEF SInv, Recorded, Looping
  <2> QED BY <2>1, <2>2, <2>3 DEF SInv
<1> QED BY <1>2, <1>3, <1>4, <1>5, <1>6, <1>7, StepKeeps

LEMMA SucceedKeeps == ASSUME IInv, NEW s \in Sessions, Succeed(s) PROVE IInv'
<1>1. TypeOK /\ SInv(s) /\ session[s] \in SessionType
  BY SessionTyped DEF IInv
<1> DEFINE new == [session[s] EXCEPT !.pc = "ended"]
<1>2. session' = [session EXCEPT ![s] = new] /\ session[s].pc = "succeeding"
  BY DEF Succeed
<1>3. new \in SessionType
  BY <1>1, Updates, Values, Zenon
<1>4. /\ new.pc = "ended" /\ new.pos = session[s].pos /\ new.msg = session[s].msg
      /\ new.asked = session[s].asked /\ new.tries = session[s].tries /\ new.buffer = session[s].buffer
      /\ new.queue = session[s].queue /\ new.processed = session[s].processed
  BY <1>1 DEF SessionType
<1> HIDE DEF new
<1>5. /\ UNCHANGED <<committed, owner, revocations, faults, dlq, lost, scored, raw>>
      /\ status' = [status EXCEPT ![s] = "SUCCESS"] /\ \A q \in Sessions \ {s} : status'[q] = status[q]
      /\ status'[s] = "SUCCESS"
  BY <1>1, <1>4 DEF Succeed, outside, broker, topics, TypeOK
<1>6. TablesOK'
  BY <1>1, <1>5 DEF TypeOK, TablesOK
<1>7. ASSUME \A m \in Messages : HandedOn(m) => HandedOn(m)', session'[s] = new PROVE SInv(s)'
  <2>1. Progress(s)'
    BY <1>1, <1>2, <1>4, <1>5, <1>7, SessionTyped DEF SInv, Progress, Messages, Looping
  <2>2. Kept(s)'
    BY <1>1, <1>2, <1>4, <1>5, <1>7
       DEF SInv, Kept, Alive, Stored, Recorded, Looping, InRaw, Buffered, Progress
  <2>3. Recorded(s)'
    BY <1>1, <1>2, <1>4, <1>5, <1>7 DEF SInv, Recorded, Looping
  <2> QED BY <2>1, <2>2, <2>3 DEF SInv
<1> QED BY <1>2, <1>3, <1>4, <1>5, <1>6, <1>7, StepKeeps

LEMMA CloseKeeps == ASSUME IInv, NEW s \in Sessions, Close(s) PROVE IInv'
<1>1. TypeOK /\ SInv(s) /\ session[s] \in SessionType
  BY SessionTyped DEF IInv
<1> DEFINE new == [session[s] EXCEPT !.pc = "draining"]
<1>2. session' = [session EXCEPT ![s] = new] /\ session[s].pc = "closing"
  BY DEF Close
<1>3. session[s].asked \in 0 .. N
  BY <1>1, <1>2, SessionTyped, StreamAssumption DEF SInv, Progress, Looping, Messages
<1>4. new \in SessionType
  BY <1>1, <1>3, Updates, Values, Zenon
<1>5. /\ new.pc = "draining" /\ new.pos = session[s].pos /\ new.msg = session[s].msg
      /\ new.asked = session[s].asked /\ new.tries = session[s].tries /\ new.buffer = session[s].buffer
      /\ new.queue = session[s].queue /\ new.processed = session[s].processed
  BY <1>1 DEF SessionType
<1> HIDE DEF new
<1>6. /\ UNCHANGED <<revocations, faults, dlq, lost, scored, raw>> /\ status' = status
      /\ committed' \in {committed, session[s].asked} /\ owner' \in {owner, None}
  BY <1>1, <1>3, <1>5 DEF Close, outside, broker, topics, LeaveGroup
<1>7. TablesOK'
  BY <1>1, <1>3, <1>6 DEF TypeOK, TablesOK
<1>8. ASSUME \A m \in Messages : HandedOn(m) => HandedOn(m)', session'[s] = new PROVE SInv(s)'
  <2>1. Progress(s)'
    BY <1>1, <1>2, <1>3, <1>5, <1>6, <1>8, SessionTyped DEF SInv, Progress, Messages, Looping
  <2>2. Kept(s)'
    BY <1>1, <1>2, <1>3, <1>5, <1>6, <1>8
       DEF SInv, Kept, Alive, Stored, Recorded, Looping, InRaw, Buffered, Progress
  <2>3. Recorded(s)'
    BY <1>1, <1>2, <1>5, <1>6, <1>8 DEF SInv, Recorded, Looping
  <2> QED BY <2>1, <2>2, <2>3 DEF SInv
<1> QED BY <1>2, <1>4, <1>5, <1>6, <1>7, <1>8, StepKeeps

-----------------------------------------------------------------------------
(* Scoring and the bucket.                                                  *)

\* ON CONFLICT DO NOTHING leaves a message scored, and whoever scored it first.
LEMMA ScoredOnce ==
    ASSUME TypeOK, NEW s \in Sessions, session[s].msg \in Messages
    PROVE  /\ ScoredBy(s) \in [Messages -> Sessions \cup {None}]
           /\ \A m \in Messages : scored[m] # None => ScoredBy(s)[m] = scored[m]
           /\ ScoredBy(s)[session[s].msg] # None
BY StreamAssumption DEF TypeOK, ScoredBy

LEMMA UploadStores ==
    ASSUME TypeOK, NEW s \in Sessions, NEW rows \in Seq(Messages)
    PROVE  /\ raw \subseteq Uploaded(s, rows) /\ Uploaded(s, rows) \subseteq Messages \X Sessions
           /\ \A i \in DOMAIN rows : <<rows[i], s>> \in Uploaded(s, rows)
BY DEF TypeOK, Uploaded

\* A row appended to the buffer is in it, with those that were.
LEMMA AppendKeeps ==
    ASSUME NEW rows \in Seq(Messages), NEW m \in Messages
    PROVE  /\ Append(rows, m) \in Seq(Messages)
           /\ \A i \in DOMAIN rows : i \in DOMAIN Append(rows, m) /\ Append(rows, m)[i] = rows[i]
           /\ \E i \in DOMAIN Append(rows, m) : Append(rows, m)[i] = m
<1>1. Append(rows, m) \in Seq(Messages) /\ Len(Append(rows, m)) = Len(rows) + 1 /\ Len(rows) \in Nat
  OBVIOUS
<1>2. \A i \in 1 .. Len(rows) : Append(rows, m)[i] = rows[i]
  OBVIOUS
<1>3. Append(rows, m)[Len(rows) + 1] = m
  OBVIOUS
<1>4. DOMAIN rows = 1 .. Len(rows) /\ DOMAIN Append(rows, m) = 1 .. Len(rows) + 1
  BY <1>1
<1> QED BY <1>1, <1>2, <1>3, <1>4

LEMMA ScoreKeeps == ASSUME IInv, NEW s \in Sessions, Score(s) PROVE IInv'
<1>1. TypeOK /\ SInv(s) /\ session[s] \in SessionType
  BY SessionTyped DEF IInv
<1> DEFINE msg == session[s].msg
           new == [session[s] EXCEPT !.pc = "scored"]
<1>2. session' = [session EXCEPT ![s] = new] /\ session[s].pc = "received"
  BY DEF Score
<1>3. msg \in Messages
  BY <1>1, <1>2, SessionTyped, StreamAssumption DEF SInv, Progress, Looping, Messages
<1>4. new \in SessionType
  BY <1>1, <1>3, Updates, Values, Zenon
<1>5. /\ new.pc = "scored" /\ new.pos = session[s].pos /\ new.msg = session[s].msg
      /\ new.asked = session[s].asked /\ new.tries = session[s].tries /\ new.buffer = session[s].buffer
      /\ new.queue = session[s].queue /\ new.processed = session[s].processed
  BY <1>1 DEF SessionType
<1> HIDE DEF new
<1>6. /\ UNCHANGED <<committed, owner, revocations, faults, dlq, lost, raw>> /\ status' = status
      /\ scored' \in [Messages -> Sessions \cup {None}] /\ scored'[msg] # None
      /\ \A m \in Messages : scored[m] # None => scored'[m] = scored[m]
  BY <1>1, <1>3, <1>5, ScoredOnce DEF Score, outside, broker, topics
<1>7. TablesOK'
  BY <1>1, <1>3, <1>6 DEF TypeOK, TablesOK
<1>8. ASSUME \A m \in Messages : HandedOn(m) => HandedOn(m)', session'[s] = new PROVE SInv(s)'
  <2>1. \A m \in session[s].processed : scored[m] # None /\ scored'[m] # None
    BY <1>1, <1>6, SessionTyped DEF SInv, Kept
  <2>2. Progress(s)'
    BY <1>1, <1>2, <1>3, <1>5, <1>6, <1>8, SessionTyped DEF SInv, Progress, Messages, Looping
  <2>3. Kept(s)'
    BY <1>1, <1>2, <1>3, <1>5, <1>6, <1>8, <2>1
       DEF SInv, Kept, Alive, Stored, Recorded, Looping, InRaw, Buffered, Progress
  <2>4. Recorded(s)'
    BY <1>1, <1>2, <1>5, <1>6, <1>8 DEF SInv, Recorded, Looping
  <2> QED BY <2>2, <2>3, <2>4 DEF SInv
<1> QED BY <1>2, <1>4, <1>5, <1>6, <1>7, <1>8, StepKeeps

LEMMA AddToBufferKeeps == ASSUME IInv, NEW s \in Sessions, AddToBuffer(s) PROVE IInv'
<1>1. TypeOK /\ SInv(s) /\ session[s] \in SessionType
  BY SessionTyped DEF IInv
<1> DEFINE msg == session[s].msg
           rows == Append(session[s].buffer, msg)
           new == [session[s] EXCEPT !.pc = "appended",
                                 !.buffer = IF Len(rows) >= BatchSize THEN <<>> ELSE rows]
<1>2. session' = [session EXCEPT ![s] = new] /\ session[s].pc = "scored"
  BY DEF AddToBuffer
<1>3. /\ msg \in Messages /\ rows \in Seq(Messages)
      /\ \A i \in DOMAIN session[s].buffer : i \in DOMAIN rows /\ rows[i] = session[s].buffer[i]
      /\ \E i \in DOMAIN rows : rows[i] = msg
  <2>1. msg \in Messages /\ session[s].buffer \in Seq(Messages)
    BY <1>1, <1>2, SessionTyped DEF SInv, Progress, Looping
  <2> QED BY <2>1, AppendKeeps
<1> HIDE DEF rows
<1>4. new \in SessionType
  BY <1>1, <1>3, Updates, Values, Zenon
<1>5. /\ new.pc = "appended" /\ new.pos = session[s].pos /\ new.msg = session[s].msg
      /\ new.asked = session[s].asked /\ new.tries = session[s].tries
      /\ new.buffer = (IF Len(rows) >= BatchSize THEN <<>> ELSE rows)
      /\ new.queue = session[s].queue /\ new.processed = session[s].processed
  BY <1>1 DEF SessionType
<1> HIDE DEF new
<1>6. /\ UNCHANGED <<committed, owner, revocations, faults, dlq, lost, scored>> /\ status' = status
      /\ raw' = IF Len(rows) >= BatchSize THEN Uploaded(s, rows) ELSE raw
      /\ raw \subseteq raw' /\ raw' \subseteq Messages \X Sessions
  <2>1. /\ UNCHANGED <<committed, owner, revocations, faults, dlq, lost, scored>> /\ status' = status
        /\ raw' = IF Len(rows) >= BatchSize THEN Uploaded(s, rows) ELSE raw
    BY DEF AddToBuffer, outside, broker, topics, rows
  <2>2. raw \subseteq Uploaded(s, rows) /\ Uploaded(s, rows) \subseteq Messages \X Sessions
    BY <1>1, <1>3, UploadStores
  <2> QED BY <1>1, <2>1, <2>2 DEF TypeOK
<1>7. TablesOK'
  BY <1>1, <1>3, <1>6 DEF TypeOK, TablesOK
<1>8. ASSUME \A m \in Messages : HandedOn(m) => HandedOn(m)', session'[s] = new PROVE SInv(s)'
  <2>1. \A m \in session[s].processed \cup {msg} : scored[m] # None /\ (InRaw(s, m)' \/ Buffered(s, m)')
    <3>1. SUFFICES ASSUME NEW m \in session[s].processed \cup {msg}
                   PROVE  scored[m] # None /\ (InRaw(s, m)' \/ Buffered(s, m)')
      OBVIOUS
    <3>2. scored[m] # None /\ (InRaw(s, m) \/ \E i \in DOMAIN rows : rows[i] = m)
      BY <1>1, <1>2, <1>3 DEF SInv, Kept, Progress, Alive, Looping, Buffered
    <3>3. CASE Len(rows) >= BatchSize
      <4>1. raw' = Uploaded(s, rows) /\ \A i \in DOMAIN rows : <<rows[i], s>> \in Uploaded(s, rows)
        BY <1>1, <1>3, <1>6, <3>3, UploadStores
      <4> QED BY <1>6, <3>2, <4>1 DEF InRaw
    <3>4. CASE ~(Len(rows) >= BatchSize)
      BY <1>5, <1>6, <1>8, <3>2, <3>4 DEF InRaw, Buffered
    <3> QED BY <3>3, <3>4
  <2>2. Progress(s)'
    <3>1. /\ \A m \in 1 .. session[s].asked : HandedOn(m)'
          /\ \A m \in 1 .. session[s].pos : m = msg \/ HandedOn(m)'
          /\ \A m \in 1 .. session[s].msg : m = msg \/ HandedOn(m)'
      <4>1. \A m \in Messages : HandedOn(m) => HandedOn(m)'
        BY <1>8
      <4>2. /\ \A m \in 1 .. session[s].asked : m \in Messages /\ HandedOn(m)
            /\ \A m \in 1 .. session[s].pos : m \in Messages /\ (m = msg \/ HandedOn(m))
            /\ \A m \in 1 .. session[s].msg : m \in Messages /\ (m = msg \/ HandedOn(m))
        <5>1. Progress(s) /\ session[s].pc \in Looping
          BY <1>1, <1>2 DEF SInv, Looping
        <5>2. /\ session[s].asked \in 0 .. N /\ session[s].pos \in 0 .. N /\ session[s].msg \in 0 .. N
              /\ N \in Nat /\ Messages = 1 .. N
          BY <1>1, SessionTyped DEF Messages
        <5> QED BY <5>1, <5>2 DEF Progress
      <4> QED BY <4>1, <4>2
    <3>2. scored'[new.msg] # None /\ new.msg \in Messages /\ new.pc = "appended"
      BY <1>1, <1>2, <1>3, <1>5, <1>6 DEF SInv, Progress
    <3> QED BY <1>5, <1>8, <3>1, <3>2 DEF Progress, Looping
  <2>3. Kept(s)'
    BY <1>1, <1>2, <1>3, <1>5, <1>6, <1>8, <2>1
       DEF SInv, Kept, Alive, Stored, Recorded, Looping, InRaw, Buffered, Progress
  <2>4. Recorded(s)'
    BY <1>1, <1>2, <1>5, <1>6, <1>8 DEF SInv, Recorded, Looping
  <2> QED BY <2>2, <2>3, <2>4 DEF SInv
<1> QED BY <1>2, <1>4, <1>5, <1>6, <1>7, <1>8, StepKeeps

LEMMA BatchUploadFailsKeeps == ASSUME IInv, NEW s \in Sessions, BatchUploadFails(s) PROVE IInv'
<1>1. TypeOK /\ SInv(s) /\ session[s] \in SessionType
  BY SessionTyped DEF IInv
<1> DEFINE msg == session[s].msg
           rows == Append(session[s].buffer, msg)
           new == [session[s] EXCEPT !.pc = "failing", !.buffer = rows]
<1>2. session' = [session EXCEPT ![s] = new] /\ session[s].pc = "scored"
  BY DEF BatchUploadFails
<1>3. /\ msg \in Messages /\ rows \in Seq(Messages)
      /\ \A i \in DOMAIN session[s].buffer : i \in DOMAIN rows /\ rows[i] = session[s].buffer[i]
      /\ \E i \in DOMAIN rows : rows[i] = msg
  <2>1. msg \in Messages /\ session[s].buffer \in Seq(Messages)
    BY <1>1, <1>2, SessionTyped DEF SInv, Progress, Looping
  <2> QED BY <2>1, AppendKeeps
<1> HIDE DEF rows
<1>4. new \in SessionType
  BY <1>1, <1>3, Updates, Values, Zenon
<1>5. /\ new.pc = "failing" /\ new.pos = session[s].pos /\ new.msg = session[s].msg
      /\ new.asked = session[s].asked /\ new.tries = session[s].tries /\ new.buffer = rows
      /\ new.queue = session[s].queue /\ new.processed = session[s].processed
  BY <1>1 DEF SessionType
<1> HIDE DEF new
<1>6. /\ UNCHANGED <<committed, owner, revocations, dlq, lost, scored>> /\ status' = status
      /\ faults' \in 0 .. MaxFaults /\ raw \subseteq raw' /\ raw' \subseteq Messages \X Sessions
  <2>1. /\ UNCHANGED <<committed, owner, revocations, dlq, lost, scored>> /\ status' = status
        /\ Fault /\ raw' \in {raw, Uploaded(s, rows)}
    BY DEF BatchUploadFails, broker, topics, rows
  <2>2. raw \subseteq Uploaded(s, rows) /\ Uploaded(s, rows) \subseteq Messages \X Sessions
    BY <1>1, <1>3, UploadStores
  <2> QED BY <1>1, <2>1, <2>2, FaultTyped DEF TypeOK
<1>7. TablesOK'
  BY <1>1, <1>3, <1>6 DEF TypeOK, TablesOK
<1>8. ASSUME \A m \in Messages : HandedOn(m) => HandedOn(m)', session'[s] = new PROVE SInv(s)'
  <2>1. Progress(s)'
    BY <1>1, <1>2, <1>3, <1>5, <1>6, <1>8, SessionTyped DEF SInv, Progress, Messages, Looping
  <2>2. Kept(s)'
    BY <1>1, <1>2, <1>3, <1>5, <1>6, <1>8
       DEF SInv, Kept, Alive, Stored, Recorded, Looping, InRaw, Buffered, Progress
  <2>3. Recorded(s)'
    BY <1>1, <1>2, <1>5, <1>6, <1>8 DEF SInv, Recorded, Looping
  <2> QED BY <2>1, <2>2, <2>3 DEF SInv
<1> QED BY <1>2, <1>4, <1>5, <1>6, <1>7, <1>8, StepKeeps

LEMMA FlushKeeps == ASSUME IInv, NEW s \in Sessions, Flush(s) PROVE IInv'
<1>1. TypeOK /\ SInv(s) /\ session[s] \in SessionType
  BY SessionTyped DEF IInv
<1> DEFINE new == [session[s] EXCEPT !.pc = "closing", !.buffer = <<>>]
<1>2. session' = [session EXCEPT ![s] = new] /\ session[s].pc = "flushing"
  BY DEF Flush
<1>3. new \in SessionType
  BY <1>1, Updates, Values, Zenon
<1>4. /\ new.pc = "closing" /\ new.pos = session[s].pos /\ new.msg = session[s].msg
      /\ new.asked = session[s].asked /\ new.tries = session[s].tries /\ new.buffer = <<>>
      /\ new.queue = session[s].queue /\ new.processed = session[s].processed
  BY <1>1 DEF SessionType
<1> HIDE DEF new
<1>5. /\ UNCHANGED <<committed, owner, revocations, faults, dlq, lost, scored>> /\ status' = status
      /\ raw' = Uploaded(s, session[s].buffer)
      /\ raw \subseteq raw' /\ raw' \subseteq Messages \X Sessions
  BY <1>1, <1>4, UploadStores, SessionTyped DEF Flush, outside, broker, topics
<1>6. TablesOK'
  BY <1>1, <1>5 DEF TypeOK, TablesOK
<1>7. ASSUME \A m \in Messages : HandedOn(m) => HandedOn(m)', session'[s] = new PROVE SInv(s)'
  <2>1. \A m \in session[s].processed : scored[m] # None /\ InRaw(s, m)'
    BY <1>1, <1>2, <1>5, SessionTyped, UploadStores DEF SInv, Kept, Alive, InRaw, Buffered
  <2>2. Progress(s)'
    BY <1>1, <1>2, <1>4, <1>5, <1>7, SessionTyped DEF SInv, Progress, Messages, Looping
  <2>3. Kept(s)'
    BY <1>1, <1>2, <1>4, <1>5, <1>7, <2>1
       DEF SInv, Kept, Alive, Stored, Recorded, Looping, InRaw, Buffered, Progress
  <2>4. Recorded(s)'
    BY <1>1, <1>2, <1>4, <1>5, <1>7 DEF SInv, Recorded, Looping
  <2> QED BY <2>2, <2>3, <2>4 DEF SInv
<1> QED BY <1>2, <1>3, <1>4, <1>5, <1>6, <1>7, StepKeeps

LEMMA AttemptFailsKeeps == ASSUME IInv, NEW s \in Sessions, AttemptFails(s) PROVE IInv'
<1>1. TypeOK /\ SInv(s) /\ session[s] \in SessionType
  BY SessionTyped DEF IInv
<1> DEFINE msg == session[s].msg
           new == [session[s] EXCEPT !.tries = session[s].tries + 1,
                                 !.pc = IF session[s].tries + 1 = MaxAttempts THEN "spent" ELSE @]
<1>2. session' = [session EXCEPT ![s] = new] /\ session[s].pc = "received"
  BY DEF AttemptFails
<1>3. /\ msg \in Messages /\ session[s].tries + 1 \in 0 .. MaxAttempts
      /\ (IF session[s].tries + 1 = MaxAttempts THEN "spent" ELSE session[s].pc) \in Pcs
  BY <1>1, <1>2, SessionTyped, StreamAssumption, Values DEF SInv, Progress, Looping, Messages
<1>4. new \in SessionType
  BY <1>1, <1>3, Updates, Values, Zenon
<1>5. /\ new.pc = (IF session[s].tries + 1 = MaxAttempts THEN "spent" ELSE session[s].pc)
      /\ new.pos = session[s].pos /\ new.msg = session[s].msg
      /\ new.asked = session[s].asked /\ new.tries = session[s].tries + 1 /\ new.buffer = session[s].buffer
      /\ new.queue = session[s].queue /\ new.processed = session[s].processed
  BY <1>1 DEF SessionType
<1> HIDE DEF new
<1>6. /\ UNCHANGED <<committed, owner, revocations, faults, dlq, lost, raw>> /\ status' = status
      /\ scored' \in [Messages -> Sessions \cup {None}]
      /\ \A m \in Messages : scored[m] # None => scored'[m] = scored[m]
  BY <1>1, <1>3, <1>5, ScoredOnce DEF AttemptFails, outside, broker, topics, TypeOK
<1>7. TablesOK'
  BY <1>1, <1>3, <1>6 DEF TypeOK, TablesOK
<1>8. ASSUME \A m \in Messages : HandedOn(m) => HandedOn(m)', session'[s] = new PROVE SInv(s)'
  <2>1. \A m \in session[s].processed : scored[m] # None /\ scored'[m] # None
    BY <1>1, <1>6, SessionTyped DEF SInv, Kept
  <2>2. new.pc \in {"spent", "received"} /\ (new.pc = "received" => new.tries < MaxAttempts)
    BY <1>1, <1>2, <1>3, <1>5, SessionTyped, StreamAssumption
  <2>3. \A m \in Messages : HandedOn(m) => HandedOn(m)'
    BY <1>8
  <2>4. \A m \in 1 .. session[s].asked : HandedOn(m)'
    <3>1. \A m \in 1 .. session[s].asked : m \in Messages /\ HandedOn(m)
      BY <1>1, SessionTyped DEF SInv, Progress, Messages
    <3> QED BY <2>3, <3>1
  <2>5. /\ \A m \in 1 .. session[s].pos : m = msg \/ HandedOn(m)'
        /\ \A m \in 1 .. session[s].msg : m = msg \/ HandedOn(m)'
    <3>1. /\ \A m \in 1 .. session[s].pos : m \in Messages /\ (m = msg \/ HandedOn(m))
          /\ \A m \in 1 .. session[s].msg : m \in Messages /\ (m = msg \/ HandedOn(m))
      BY <1>1, <1>2, SessionTyped DEF SInv, Progress, Messages, Looping
    <3> QED BY <2>3, <3>1
  <2>6. /\ new.asked = session[s].asked /\ new.pos = session[s].pos
        /\ new.msg = session[s].msg /\ session[s].msg \in Messages
    BY <1>3, <1>5
  <2>7. Progress(s)'
    BY <1>8, <2>2, <2>4, <2>5, <2>6 DEF Progress, Looping
  <2>8. Kept(s)'
    BY <1>1, <1>2, <1>3, <1>5, <1>6, <1>8, <2>1
       DEF SInv, Kept, Alive, Stored, Recorded, Looping, InRaw, Buffered, Progress
  <2>9. Recorded(s)'
    BY <1>1, <1>2, <1>5, <1>6, <1>8 DEF SInv, Recorded, Looping
  <2> QED BY <2>7, <2>8, <2>9 DEF SInv
<1> QED BY <1>2, <1>4, <1>5, <1>6, <1>7, <1>8, StepKeeps

-----------------------------------------------------------------------------
(* Ways out of the process, the broker and the DLQ producer.                *)

LEMMA LeftTyped ==
    ASSUME TypeOK, NEW s \in Sessions, NEW pc \in Pcs
    PROVE  LET new == [Left(s) EXCEPT !.pc = pc]
           IN  /\ new \in SessionType
               /\ new.pc = pc /\ new.pos = 0 /\ new.msg = 0 /\ new.asked = 0 /\ new.tries = 0
               /\ new.buffer = <<>> /\ new.queue = {} /\ new.processed = session[s].processed
<1>1. session[s] \in SessionType
  BY SessionTyped
<1> DEFINE left == [session[s] EXCEPT !.pos = 0, !.msg = 0, !.asked = 0, !.tries = 0, !.queue = {},
                                      !.buffer = <<>>]
<1>2. left \in SessionType
  BY <1>1, Updates, Values, Zenon
<1>3. /\ left.pos = 0 /\ left.msg = 0 /\ left.asked = 0 /\ left.tries = 0
      /\ left.buffer = <<>> /\ left.queue = {} /\ left.processed = session[s].processed
  BY <1>1 DEF SessionType
<1>4. Left(s) = left
  BY DEF Left
<1> HIDE DEF left
<1>5. [left EXCEPT !.pc = pc] \in SessionType
  BY <1>2, Updates
<1> QED BY <1>2, <1>3, <1>4, <1>5 DEF SessionType

\* A process that ends hands its queue over to chance and forgets the rest.
LEMMA LeavingKeeps ==
    ASSUME IInv, NEW s \in Sessions, NEW pc \in {"exited", "dead", "ended", "succeeding"},
           LeaveQueue(s, pc),
           committed' \in {committed, session[s].asked}, owner' \in {owner, None},
           revocations' = revocations, faults' \in 0 .. MaxFaults,
           UNCHANGED <<scored, raw, status>>,
           session[s].pc \notin {"idle"} \cup Gone,
           pc = "ended" => status[s] = "FAILED",
           pc = "succeeding" => session[s].pc = "draining" /\ status[s] # "FAILED"
    PROVE  IInv'
<1>1. TypeOK /\ SInv(s) /\ session[s] \in SessionType /\ pc \in Pcs
  BY SessionTyped, Values DEF IInv
<1> DEFINE new == [Left(s) EXCEPT !.pc = pc]
<1>2. /\ new \in SessionType
      /\ new.pc = pc /\ new.pos = 0 /\ new.msg = 0 /\ new.asked = 0 /\ new.tries = 0
      /\ new.buffer = <<>> /\ new.queue = {} /\ new.processed = session[s].processed
  BY <1>1, LeftTyped
<1>3. PICK delivered \in SUBSET session[s].queue :
          /\ dlq' = dlq \cup delivered
          /\ lost' = lost \cup (session[s].queue \ delivered)
          /\ session' = [session EXCEPT ![s] = new]
  BY DEF LeaveQueue
<1> HIDE DEF new
<1>4. session[s].queue \subseteq Messages /\ session[s].asked \in 0 .. N
  BY <1>1, SessionTyped
<1>5. TablesOK'
  BY <1>1, <1>3, <1>4 DEF TypeOK, TablesOK
<1>6. /\ dlq \subseteq dlq' /\ lost \subseteq lost' /\ raw \subseteq raw'
      /\ session[s].queue \subseteq new.queue \cup dlq' \cup lost'
  BY <1>3
<1>7. ASSUME \A m \in Messages : HandedOn(m) => HandedOn(m)', session'[s] = new PROVE SInv(s)'
  <2>1. Progress(s)'
    BY <1>2, <1>7, StreamAssumption DEF Progress, Looping
  <2>2. Kept(s)'
    BY <1>1, <1>2, <1>7 DEF SInv, Kept, Alive, Stored, Looping, InRaw
  <2>3. status[s] # "ABSENT" /\ status[s] # "SUCCESS"
    BY <1>1 DEF SInv, Recorded, Gone
  <2>4. Recorded(s)'
    BY <1>1, <1>2, <1>7, <2>3, SessionTyped DEF Recorded, Looping
  <2> QED BY <2>1, <2>2, <2>4 DEF SInv
<1> QED BY <1>2, <1>3, <1>5, <1>6, <1>7, StepKeeps

LEMMA LeaveGroupTyped ==
    ASSUME NEW s \in Sessions, LeaveGroup(s)
    PROVE  committed' \in {committed, session[s].asked} /\ owner' \in {owner, None}
BY DEF LeaveGroup

LEMMA FlushRaisesKeeps == ASSUME IInv, NEW s \in Sessions, FlushRaises(s) PROVE IInv'
BY LeaveGroupTyped, FaultTyped, LeavingKeeps DEF FlushRaises, IInv, Gone

LEMMA DieKeeps == ASSUME IInv, NEW s \in Sessions, Die(s) PROVE IInv'
BY LeaveGroupTyped, FaultTyped, LeavingKeeps DEF Die, IInv

\* A drained queue is one that leaves everything in the topic.
LEMMA DrainLeaves ==
    ASSUME NEW s \in Sessions, Drain(s) PROVE LeaveQueue(s, AfterFinally(s))
<1>1. session[s].queue \in SUBSET session[s].queue
  OBVIOUS
<1>2. lost' = lost \cup (session[s].queue \ session[s].queue)
  BY DEF Drain
<1> QED BY <1>1, <1>2 DEF Drain, LeaveQueue

LEMMA DrainKeeps == ASSUME IInv, NEW s \in Sessions, Drain(s) PROVE IInv'
<1>1. TypeOK /\ session[s].pc = "draining" /\ faults' = faults /\ LeaveQueue(s, AfterFinally(s))
  BY DrainLeaves DEF IInv, Drain, outside
<1>2. /\ committed' = committed /\ owner' = owner /\ revocations' = revocations
      /\ UNCHANGED <<scored, raw, status>>
  BY DEF Drain, outside, broker
<1>3. faults' \in 0 .. MaxFaults
  BY <1>1 DEF TypeOK
<1>4. /\ AfterFinally(s) \in {"exited", "dead", "ended", "succeeding"}
      /\ AfterFinally(s) = "ended" => status[s] = "FAILED"
      /\ AfterFinally(s) = "succeeding" => status[s] # "FAILED"
  BY DEF AfterFinally
<1> QED BY <1>1, <1>2, <1>3, <1>4, LeavingKeeps DEF Gone

LEMMA DrainTimesOutKeeps == ASSUME IInv, NEW s \in Sessions, DrainTimesOut(s) PROVE IInv'
<1>1. TypeOK /\ session[s].pc = "draining" /\ Fault /\ LeaveQueue(s, AfterFinally(s))
  BY DEF IInv, DrainTimesOut
<1>2. /\ committed' = committed /\ owner' = owner /\ revocations' = revocations
      /\ UNCHANGED <<scored, raw, status>>
  BY DEF DrainTimesOut, broker
<1>3. faults' \in 0 .. MaxFaults
  BY <1>1, FaultTyped
<1>4. /\ AfterFinally(s) \in {"exited", "dead", "ended", "succeeding"}
      /\ AfterFinally(s) = "ended" => status[s] = "FAILED"
      /\ AfterFinally(s) = "succeeding" => status[s] # "FAILED"
  BY DEF AfterFinally
<1> QED BY <1>1, <1>2, <1>3, <1>4, LeavingKeeps DEF Gone

\* A session that gets the partition starts behind what is committed, and all
\* of that is handed on.
LEMMA AssignKeeps == ASSUME IInv, NEW s \in Sessions, Assign(s) PROVE IInv'
<1>1. TypeOK /\ SInv(s) /\ session[s] \in SessionType /\ NothingIsSkipped /\ committed \in 0 .. N
  BY SessionTyped DEF IInv, TypeOK
<1> DEFINE new == [session[s] EXCEPT !.pos = committed, !.asked = committed]
<1>2. session' = [session EXCEPT ![s] = new] /\ session[s].pc \in Looping
  BY <1>1 DEF Assign, TypeOK
<1>3. new \in SessionType
  BY <1>1, Updates, Zenon
<1>4. /\ new.pc = session[s].pc /\ new.pos = committed /\ new.msg = session[s].msg
      /\ new.asked = committed /\ new.tries = session[s].tries /\ new.buffer = session[s].buffer
      /\ new.queue = session[s].queue /\ new.processed = session[s].processed
  BY <1>1 DEF SessionType
<1> HIDE DEF new
<1>5. /\ UNCHANGED <<committed, revocations, faults, dlq, lost, scored, raw>> /\ status' = status
      /\ owner' = s
  BY DEF Assign, topics
<1>6. TablesOK'
  BY <1>1, <1>5 DEF TypeOK, TablesOK
<1>7. ASSUME \A m \in Messages : HandedOn(m) => HandedOn(m)', session'[s] = new PROVE SInv(s)'
  <2>1. \A m \in 1 .. committed : HandedOn(m)'
    BY <1>1, <1>7, StreamAssumption DEF NothingIsSkipped, Messages
  <2>2. Progress(s)'
    BY <1>1, <1>2, <1>4, <1>5, <1>7, <2>1, SessionTyped DEF SInv, Progress, Messages, Looping
  <2>3. Kept(s)'
    BY <1>1, <1>2, <1>4, <1>5, <1>7 DEF SInv, Kept, Alive, Stored, Looping, InRaw, Buffered
  <2>4. Recorded(s)'
    BY <1>1, <1>2, <1>4, <1>5, <1>7 DEF SInv, Recorded, Looping
  <2> QED BY <2>2, <2>3, <2>4 DEF SInv
<1> QED BY <1>2, <1>3, <1>4, <1>5, <1>6, <1>7, StepKeeps

LEMMA CommitLandsKeeps == ASSUME IInv, NEW s \in Sessions, CommitLands(s) PROVE IInv'
<1>1. TypeOK /\ SInv(s)
  BY DEF IInv
<1>2. session[s].asked \in 0 .. N
  BY <1>1, SessionTyped
<1>3. TypeOK' /\ Grows
  BY <1>1, <1>2 DEF CommitLands, TypeOK, Grows, topics
<1>4. session' = session /\ status' = status /\ committed' = session[s].asked
  BY DEF CommitLands
<1>5. SInv(s)'
  BY <1>1, <1>3, <1>4, BystanderKeeps
<1> QED BY <1>3, <1>4, <1>5, StepOfOne

\* What leaves a producer's queue for the topic, or for nowhere, stays handed on.
LEMMA QueueShrinks ==
    ASSUME IInv, NEW s \in Sessions, NEW m \in session[s].queue,
           session' = [session EXCEPT ![s].queue = @ \ {m}],
           \/ dlq' = dlq \cup {m} /\ lost' = lost
           \/ lost' = lost \cup {m} /\ dlq' = dlq,
           faults' \in 0 .. MaxFaults,
           UNCHANGED <<broker, scored, raw, status>>
    PROVE  IInv'
<1>1. TypeOK /\ SInv(s) /\ session[s] \in SessionType /\ session[s].queue \subseteq Messages
  BY SessionTyped DEF IInv
<1> DEFINE new == [session[s] EXCEPT !.queue = @ \ {m}]
<1>2. session' = [session EXCEPT ![s] = new]
  OBVIOUS
<1>3. session[s].queue \ {m} \in SUBSET Messages
  BY <1>1
<1>4. new \in SessionType
  BY <1>1, <1>3, Updates, Zenon
<1>5. /\ new.pc = session[s].pc /\ new.pos = session[s].pos /\ new.msg = session[s].msg
      /\ new.asked = session[s].asked /\ new.tries = session[s].tries
      /\ new.buffer = session[s].buffer /\ new.queue = session[s].queue \ {m}
      /\ new.processed = session[s].processed
  BY <1>1 DEF SessionType
<1> HIDE DEF new
<1>6. /\ UNCHANGED <<committed, owner, revocations, scored, raw>> /\ status' = status
      /\ dlq \subseteq dlq' /\ lost \subseteq lost' /\ dlq' \cup lost' \subseteq Messages
      /\ session[s].queue \subseteq new.queue \cup dlq' \cup lost'
  BY <1>1, <1>5 DEF broker, TypeOK
<1>7. TablesOK'
  BY <1>1, <1>6 DEF TypeOK, TablesOK
<1>8. ASSUME \A k \in Messages : HandedOn(k) => HandedOn(k)', session'[s] = new PROVE SInv(s)'
  <2>1. Progress(s)'
    BY <1>1, <1>5, <1>6, <1>8, SessionTyped DEF SInv, Progress, Messages, Looping
  <2>2. Kept(s)'
    BY <1>1, <1>5, <1>6, <1>8 DEF SInv, Kept, Alive, Stored, Looping, InRaw, Buffered
  <2>3. Recorded(s)'
    BY <1>1, <1>5, <1>6, <1>8 DEF SInv, Recorded, Looping
  <2> QED BY <2>1, <2>2, <2>3 DEF SInv
<1> QED BY <1>2, <1>4, <1>6, <1>7, <1>8, StepKeeps

LEMMA DeliverKeeps == ASSUME IInv, NEW s \in Sessions, Deliver(s) PROVE IInv'
<1>1. PICK m \in session[s].queue : /\ session' = [session EXCEPT ![s].queue = @ \ {m}]
                                    /\ dlq' = dlq \cup {m}
  BY DEF Deliver
<1>2. lost' = lost /\ faults' = faults /\ UNCHANGED <<broker, scored, raw, status>>
  BY DEF Deliver
<1>3. faults' \in 0 .. MaxFaults
  BY <1>2 DEF IInv, TypeOK
<1> QED BY <1>1, <1>2, <1>3, QueueShrinks

LEMMA DeliveryFailsKeeps == ASSUME IInv, NEW s \in Sessions, DeliveryFails(s) PROVE IInv'
<1>1. PICK m \in session[s].queue : /\ session' = [session EXCEPT ![s].queue = @ \ {m}]
                                    /\ lost' = lost \cup {m}
  BY DEF DeliveryFails
<1>2. dlq' = dlq /\ Fault /\ UNCHANGED <<broker, scored, raw, status>>
  BY DEF DeliveryFails
<1>3. faults' \in 0 .. MaxFaults
  BY <1>2, FaultTyped DEF IInv
<1> QED BY <1>1, <1>2, <1>3, QueueShrinks

\* A rebalance takes the partition and nothing else; nor does a stuttering step.
LEMMA NoSessionKeeps ==
    ASSUME IInv, Revoke \/ UNCHANGED vars PROVE IInv'
<1>1. TypeOK /\ NothingIsSkipped /\ \A s \in Sessions : SInv(s)
  BY DEF IInv
<1>2. UNCHANGED <<committed, faults, dlq, lost, scored, raw, session, status>>
  BY DEF Revoke, vars, topics
<1>3. owner' \in {owner, None} /\ revocations' \in 0 .. MaxRevocations
  BY <1>1, StreamAssumption DEF Revoke, vars, TypeOK
<1>4. TypeOK' /\ Grows
  BY <1>1, <1>2, <1>3 DEF TypeOK, Grows
<1>5. \A s \in Sessions : SInv(s)'
  BY <1>1, <1>2, <1>4, BystanderKeeps
<1>6. NothingIsSkipped'
  BY <1>1, <1>2 DEF NothingIsSkipped, HandedOn
<1> QED BY <1>4, <1>5, <1>6 DEF IInv

-----------------------------------------------------------------------------
(* The theorems.                                                            *)

LEMMA InitEstablishes == Init => IInv
<1> SUFFICES ASSUME Init PROVE IInv
  OBVIOUS
<1> DEFINE fresh == [pc |-> "idle", pos |-> 0, msg |-> 0, asked |-> 0, tries |-> 0,
                     buffer |-> <<>>, queue |-> {}, processed |-> {}]
<1>1. fresh \in SessionType
  BY StreamAssumption DEF SessionType
<1>2. /\ fresh.pc = "idle" /\ fresh.pos = 0 /\ fresh.msg = 0 /\ fresh.asked = 0 /\ fresh.tries = 0
      /\ fresh.processed = {}
  OBVIOUS
<1>3. session = [s \in Sessions |-> fresh] /\ status = [s \in Sessions |-> "ABSENT"] /\ committed = 0
  BY DEF Init
<1> HIDE DEF fresh
<1>4. TypeOK
  <2>1. /\ session \in [Sessions -> SessionType]
        /\ status \in [Sessions -> {"ABSENT", "RUNNING", "SUCCESS", "FAILED"}]
    BY <1>1, <1>3
  <2>2. /\ committed = 0 /\ owner = None /\ revocations = 0 /\ faults = 0
        /\ scored = [m \in Messages |-> None] /\ dlq = {} /\ lost = {} /\ raw = {}
    BY DEF Init
  <2> QED BY <2>1, <2>2, StreamAssumption DEF TypeOK
<1>5. NothingIsSkipped
  BY <1>3 DEF NothingIsSkipped
<1>6. ASSUME NEW s \in Sessions PROVE SInv(s)
  <2>1. session[s] = fresh /\ status[s] = "ABSENT"
    BY <1>3
  <2>2. Progress(s)
    BY <1>2, <2>1 DEF Progress, Looping
  <2>3. Kept(s)
    BY <1>2, <2>1 DEF Kept, Alive, Stored, Looping
  <2>4. Recorded(s)
    BY <1>2, <2>1 DEF Recorded, Looping
  <2> QED BY <2>2, <2>3, <2>4 DEF SInv
<1> QED BY <1>4, <1>5, <1>6 DEF IInv

LEMMA NextKeeps == IInv /\ [Next]_vars => IInv'
<1> SUFFICES ASSUME IInv, [Next]_vars PROVE IInv'
  OBVIOUS
<1>1. CASE Revoke \/ UNCHANGED vars
  BY <1>1, NoSessionKeeps
<1>2. CASE \E s \in Sessions : \/ Begin(s) \/ Step(s) \/ Disturb(s)
                               \/ Assign(s) \/ CommitLands(s) \/ Deliver(s)
  <2>1. PICK s \in Sessions : \/ Begin(s) \/ Step(s) \/ Disturb(s)
                              \/ Assign(s) \/ CommitLands(s) \/ Deliver(s)
    BY <1>2
  <2>2. CASE Step(s)
    BY <2>2, SetUpKeeps, PollKeeps, ScoreKeeps, AttemptFailsKeeps, ReadRaisesKeeps, SendToDlqKeeps,
       AddToBufferKeeps, CountProcessedKeeps, CommitKeeps, RecordFailureKeeps, FlushKeeps, CloseKeeps,
       DrainKeeps, SucceedKeeps DEF Step
  <2>3. CASE Disturb(s)
    BY <2>3, StopKeeps, BatchUploadFailsKeeps, StepRaisesKeeps, FlushRaisesKeeps,
       DrainTimesOutKeeps, DieKeeps, DeliveryFailsKeeps DEF Disturb
  <2>4. CASE Begin(s) \/ Assign(s) \/ CommitLands(s) \/ Deliver(s)
    BY <2>4, BeginKeeps, AssignKeeps, CommitLandsKeeps, DeliverKeeps
  <2> QED BY <2>1, <2>2, <2>3, <2>4
<1> QED BY <1>1, <1>2 DEF Next

\* The invariant holds of every behaviour of the consumer.
THEOREM Inductive == Spec => []IInv
BY InitEstablishes, NextKeeps, PTL DEF Spec

\* Every variable keeps its type: no counter passes its bound, no position
\* passes the end of the partition.
THEOREM TypeCorrect == Spec => []TypeOK
<1>1. IInv => TypeOK
  BY DEF IInv
<1> QED BY <1>1, Inductive, PTL

\* consumer.commit never gets ahead of the work: in whatever order crashes,
\* rebalances, late commits and redeliveries come, every message up to the
\* committed position is in the database, in the dead-letter topic, in a
\* producer's queue for it, or a dead letter Kafka lost.
THEOREM CommittedIsHandedOn == Spec => []NothingIsSkipped
<1>1. IInv => NothingIsSkipped
  BY DEF IInv
<1> QED BY <1>1, Inductive, PTL

\* A stream run recorded as SUCCESS has each event it counted in the raw
\* bucket and in the database, whatever batch uploads failed before.
THEOREM SuccessHasStoredItsEvents == Spec => []SuccessKeepsRawEvents
<1>1. IInv => SuccessKeepsRawEvents
  BY DEF IInv, SInv, Kept, InRaw, SuccessKeepsRawEvents
<1> QED BY <1>1, Inductive, PTL

\* ON CONFLICT DO NOTHING: the decision the first session wrote for a
\* transaction is the one that stays, through every redelivery.
THEOREM FirstDecisionStays == Spec => DecisionsAreFinal
<1>1. TypeOK /\ [Next]_vars => [\A m \in Messages : scored[m] # None => scored'[m] = scored[m]]_vars
  <2>1. SUFFICES ASSUME TypeOK, Next, NEW m \in Messages, scored[m] # None PROVE scored'[m] = scored[m]
    BY DEF vars
  <2>2. \A s \in Sessions : ScoredBy(s)[m] = scored[m]
    BY <2>1 DEF TypeOK, ScoredBy
  <2>3. CASE Revoke
    BY <2>3 DEF Revoke
  <2>4. CASE \E s \in Sessions : \/ Begin(s) \/ Step(s) \/ Disturb(s)
                                 \/ Assign(s) \/ CommitLands(s) \/ Deliver(s)
    <3>1. PICK s \in Sessions : \/ Begin(s) \/ Step(s) \/ Disturb(s)
                                \/ Assign(s) \/ CommitLands(s) \/ Deliver(s)
      BY <2>4
    <3>2. CASE Score(s) \/ AttemptFails(s)
      BY <2>2, <3>2 DEF Score, AttemptFails
    <3>3. CASE ~(Score(s) \/ AttemptFails(s))
      <4>1. scored' = scored
        BY <3>1, <3>3
           DEF Begin, Step, Disturb, Assign, CommitLands, Deliver, SetUp, Poll, ReadRaises, SendToDlq,
               AddToBuffer, CountProcessed, Commit, RecordFailure, Flush, Close, Drain, Succeed, Stop,
               BatchUploadFails, StepRaises, FlushRaises, DrainTimesOut, Die, DeliveryFails, Local
      <4> QED BY <4>1
    <3> QED BY <3>2, <3>3
  <2> QED BY <2>1, <2>3, <2>4 DEF Next
<1> QED BY <1>1, TypeCorrect, PTL DEF Spec, DecisionsAreFinal

\* The stream rows of pipeline_runs implement the run record: each appears
\* RUNNING once and is ended at most once.
THEOREM RecordsAreImplemented == Spec => ImplementsRunRecords
<1>1. Init => Records!Init
  BY DEF Init, Records!Init
<1>2. IInv /\ [Next]_vars => [Records!Next]_status
  <2>1. SUFFICES ASSUME IInv, Next, status' # status PROVE Records!Next
    BY DEF vars
  <2>2. PICK s \in Sessions : Begin(s) \/ Succeed(s) \/ RecordFailure(s)
    BY <2>1 DEF Next, Revoke, Step, Disturb, Assign, CommitLands, Deliver, SetUp, Poll, Score, AttemptFails,
                ReadRaises, SendToDlq, AddToBuffer, CountProcessed, Commit, Flush, Close, Drain, Stop,
                BatchUploadFails, StepRaises, FlushRaises, DrainTimesOut, Die, DeliveryFails, Local
  <2>3. Recorded(s)
    BY <2>1 DEF IInv, SInv
  <2>4. CASE Begin(s)
    <3>1. Records!Appear(s)
      BY <2>3, <2>4 DEF Begin, Recorded, Records!Appear, Records!Open
    <3> QED BY <3>1 DEF Records!Next
  <2>5. CASE Succeed(s) \/ RecordFailure(s)
    <3>1. \E end \in {"SUCCESS", "FAILED"} : status' = [status EXCEPT ![s] = end] /\ status[s] = "RUNNING"
      BY <2>3, <2>5 DEF Succeed, RecordFailure, Recorded
    <3>2. \E end \in Records!Terminal : Records!EndWith(s, end)
      BY <3>1 DEF Records!EndWith, Records!Terminal, Records!Open
    <3> QED BY <3>2 DEF Records!Next
  <2> QED BY <2>2, <2>4, <2>5
<1> QED BY <1>1, <1>2, Inductive, PTL DEF Spec, ImplementsRunRecords, Records!Spec
=============================================================================
