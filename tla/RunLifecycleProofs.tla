------------------------- MODULE RunLifecycleProofs -------------------------
(***************************************************************************)
(* Theorems about RunLifecycle for any number of runs and callers.         *)
(***************************************************************************)
EXTENDS RunLifecycle, TLAPS

LEMMA AllowedFromValues ==
    \A op \in Ops : /\ AllowedFrom(op) \subseteq Open
                    /\ Target[op] \in {"RUNNING"} \cup Terminal
                    /\ op \in Finalisers => Target[op] \in Terminal
                    /\ op \in {"heartbeat", "succeed"} => AllowedFrom(op) = {"RUNNING"}
                    /\ Target[op] = "RUNNING" <=> op = "heartbeat"
                    /\ Target[op] = "SUCCESS" <=> op = "succeed"
  BY DEF AllowedFrom, Ops, Open, Target, Terminal, Finalisers

LEMMA RowValues ==
    /\ Absent \in RowType
    /\ \A old \in RowType, op \in Ops, a \in Args :
        /\ Updated(old, op, a) \in RowType
        /\ op = "heartbeat" => Updated(old, op, a).status = old.status
        /\ op \in Finalisers => Updated(old, op, a).status = Target[op]
<1>1. Absent \in RowType
  BY DEF Absent, RowType, Statuses
<1>2. ASSUME NEW old \in RowType, NEW op \in Ops, NEW a \in Args
      PROVE  /\ Updated(old, op, a) \in RowType
             /\ op = "heartbeat" => Updated(old, op, a).status = old.status
             /\ op \in Finalisers => Updated(old, op, a).status = Target[op]
  <2>1. CASE op = "heartbeat"
    BY <2>1 DEF RowType, Updated, Finalisers
  <2>2. CASE op # "heartbeat"
    <3>1. Target[op] \in Statuses
      BY <2>2, AllowedFromValues DEF Finalisers, Statuses
    <3> HIDE DEF Target
    <3> QED BY <2>2, <3>1 DEF RowType, Updated
  <2> QED BY <2>1, <2>2
<1> QED BY <1>1, <1>2

-----------------------------------------------------------------------------
\* Both columns of the model keep their types: no call writes a status that
\* the schema's CHECK would refuse, and a reply is a row or nothing.
THEOREM TypeCorrect == Spec => []TypeOK
<1>1. Init => TypeOK
  BY RowValues DEF Init, TypeOK, Idle, CallType, Progress, Ops
<1>2. TypeOK /\ [Next]_vars => TypeOK'
  <2> SUFFICES ASSUME TypeOK, [Next]_vars PROVE TypeOK'
    OBVIOUS
  <2> USE DEF TypeOK
  <2>1. CASE UNCHANGED vars
    BY <2>1 DEF vars
  <2>2. ASSUME NEW r \in Runs, Begin(r) PROVE TypeOK'
    BY <2>2 DEF Begin, RowType, Statuses, Open
  <2>3. ASSUME NEW c \in Callers, Attempt(c) PROVE TypeOK'
    <3> PICK op \in Ops, r \in Runs \cup {NoRun}, a \in Args :
             \/ CasHit(c, op, r, a)    \/ CasMiss(c, op, r, a)
             \/ CasFailed(c, op, r, a) \/ CasAckLost(c, op, r, a)
      BY <2>3 DEF Attempt
    <3>1. ASSUME Matches(op, r)
          PROVE r \in Runs /\ Updated(row[r], op, a) \in RowType
      <4>1. r \in Runs
        BY <3>1, AllowedFromValues DEF Matches, StatusOf, Open
      <4> QED BY <4>1, RowValues
    <3>2. CASE CasHit(c, op, r, a)
      BY <3>1, <3>2 DEF CasHit, CallType, Progress
    <3>3. CASE CasMiss(c, op, r, a)
      BY <3>3 DEF CasMiss, CallType, Progress
    <3>4. CASE CasFailed(c, op, r, a)
      BY <3>4 DEF CasFailed, CallType, Progress, Raising
    <3>5. CASE CasAckLost(c, op, r, a)
      BY <3>1, <3>5 DEF CasAckLost, CallType, Progress, Raising
    <3> QED BY <3>2, <3>3, <3>4, <3>5
  <2>4. ASSUME NEW c \in Callers, Reread(c) PROVE TypeOK'
    <3>1. row' = row /\ row \in [Runs -> RowType]
      BY <2>4 DEF Reread
    <3>2. call \in [Callers -> CallType] /\ call[c] \in CallType
      OBVIOUS
    <3>3. ASSUME NEW pc \in Progress, call' = [call EXCEPT ![c].pc = pc]
          PROVE  call' \in [Callers -> CallType]
      <4>1. [call[c] EXCEPT !.pc = pc] \in CallType
        BY <3>2 DEF CallType
      <4>2. call' = [call EXCEPT ![c] = [call[c] EXCEPT !.pc = pc]]
        BY <3>2, <3>3
      <4> HIDE DEF TypeOK
      <4> QED BY ONLY <3>2, <4>1, <4>2
    <3>4. CASE call' = [call EXCEPT ![c].pc = Raising(call[c].op, "not_found")]
      BY <3>1, <3>3, <3>4 DEF Raising, Progress
    <3>5. CASE call' = [call EXCEPT ![c].pc = Raising(call[c].op, "refused")]
      BY <3>1, <3>3, <3>5 DEF Raising, Progress
    <3>6. CASE /\ StatusOf(call[c].run) = Target[call[c].op]
               /\ call' = [call EXCEPT ![c].pc = "returned", ![c].reply = row[call[c].run]]
      <4>1. call[c].run \in Runs
        BY <3>6, <3>2, AllowedFromValues DEF StatusOf, CallType, Terminal
      <4>2. row[call[c].run] \in RowType
        BY <3>1, <4>1
      <4> DEFINE answered == [call[c] EXCEPT !.pc = "returned", !.reply = row[call[c].run]]
      <4>3. answered \in CallType
        <5> HIDE DEF TypeOK
        <5> QED BY ONLY <3>2, <4>2 DEF CallType, Progress
      <4>4. call' = [call EXCEPT ![c] = answered]
        BY <3>2, <3>6
      <4>5. call' \in [Callers -> CallType]
        <5> HIDE DEF answered, TypeOK
        <5> QED BY ONLY <3>2, <4>3, <4>4
      <4> QED BY <3>1, <4>5
    <3> QED BY <2>4, <3>4, <3>5, <3>6 DEF Reread
  <2>5. ASSUME NEW c \in Callers, RereadFailed(c) PROVE TypeOK'
    BY <2>5 DEF RereadFailed, CallType, Progress, Raising
  <2>6. ASSUME NEW c \in Callers, Leave(c) PROVE TypeOK'
    BY <2>6 DEF Leave, Idle, CallType, Progress, Ops
  <2> QED BY <2>1, <2>2, <2>3, <2>4, <2>5, <2>6 DEF Next
<1> QED BY <1>1, <1>2, PTL DEF Spec

-----------------------------------------------------------------------------
(***************************************************************************)
(* The two promises a reply makes concern a row other callers go on        *)
(* writing.  They are inductive only together with the fact behind the     *)
(* second read: once a compare-and-set has missed, the run is in a status  *)
(* the operation may never write over, and no later write makes it one.    *)
(***************************************************************************)
Blocked(op, r) == row[r].status \notin {"ABSENT"} \cup AllowedFrom(op)

MissedIsBlocked ==
    \A c \in Callers : (call[c].pc \in {"missed", "refused"} /\ call[c].run \in Runs)
                          => Blocked(call[c].op, call[c].run)

RefusedRunExists ==
    \A c \in Callers : call[c].pc = "refused" => call[c].run \in Runs

ReturnedRunExists ==
    \A c \in Callers : call[c].pc = "returned" => call[c].run \in Runs

IInv == /\ TypeOK
        /\ MissedIsBlocked
        /\ RefusedRunExists
        /\ ReturnedRunExists
        /\ ReturnedRowIsTheEnding
        /\ RefusalIsFinal

\* A step of the table: every row stays as it is, appears, has its heartbeat
\* written while RUNNING, or is ended by one operation allowed to end it.
RowStep(r) ==
    \/ row'[r] = row[r]
    \/ row[r].status = "ABSENT" /\ row'[r].status \in Open
    \/ row[r].status = "RUNNING" /\ row'[r].status = "RUNNING"
    \/ \E op \in Finalisers : row[r].status \in AllowedFrom(op) /\ row'[r].status = Target[op]

LEMMA EveryStepIsRowStep == TypeOK /\ [Next]_vars => \A r \in Runs : RowStep(r)
<1> SUFFICES ASSUME TypeOK, [Next]_vars, NEW r \in Runs PROVE RowStep(r)
  OBVIOUS
<1>1. CASE row' = row
  BY <1>1 DEF RowStep
<1>2. ASSUME NEW s \in Runs, Begin(s) PROVE RowStep(r)
  BY <1>2 DEF Begin, RowStep, TypeOK, RowType
<1>3. ASSUME NEW c \in Callers, NEW op \in Ops, NEW s \in Runs \cup {NoRun}, NEW a \in Args,
             Matches(op, s), row' = [row EXCEPT ![s] = Updated(@, op, a)]
      PROVE RowStep(r)
  <2>1. s \in Runs /\ row[s].status \in AllowedFrom(op)
    BY <1>3, AllowedFromValues DEF Matches, StatusOf, Open
  <2>2. CASE r # s
    BY <1>3, <2>2 DEF RowStep, TypeOK
  <2>3. CASE r = s
    <3>1. row[r] \in RowType /\ row'[r] = Updated(row[r], op, a)
      BY <1>3, <2>1, <2>3 DEF TypeOK
    <3>2. CASE op = "heartbeat"
      <4>1. row[r].status = "RUNNING"
        BY <2>1, <2>3, <3>2, AllowedFromValues
      <4> QED BY <3>1, <3>2, <4>1, RowValues DEF RowStep
    <3>3. CASE op \in Finalisers
      BY <2>1, <2>3, <3>1, <3>3, RowValues DEF RowStep
    <3> QED BY <3>2, <3>3 DEF Finalisers
  <2> QED BY <2>2, <2>3
<1>4. ASSUME NEW c \in Callers, Attempt(c) PROVE RowStep(r)
  BY <1>1, <1>3, <1>4 DEF Attempt, CasHit, CasMiss, CasFailed, CasAckLost
<1>5. ASSUME NEW c \in Callers, Reread(c) \/ RereadFailed(c) \/ Leave(c) PROVE RowStep(r)
  BY <1>1, <1>5 DEF Reread, RereadFailed, Leave
<1> QED BY <1>1, <1>2, <1>4, <1>5 DEF Next, vars

LEMMA StepKeepsBlocked ==
    ASSUME TypeOK, [Next]_vars, NEW r \in Runs, NEW op \in Ops, Blocked(op, r)
    PROVE  /\ Blocked(op, r)'
           /\ row[r].status # Target[op] => row'[r].status # Target[op]
           /\ row[r].status \in Terminal => row'[r] = row[r]
<1>1. RowStep(r)
  BY EveryStepIsRowStep
<1>2. row[r].status \in Statuses
  BY DEF TypeOK, RowType
<1>3. /\ AllowedFrom(op)' = AllowedFrom(op)
      /\ "RUNNING" \in AllowedFrom(op)
      /\ AllowedFrom(op) # {"RUNNING"} => AllowedFrom(op) = Open
      /\ \A f \in Finalisers : /\ AllowedFrom(f) \subseteq Open
                               /\ Target[f] \in Terminal
                               /\ Target[f] = "SUCCESS" => AllowedFrom(f) = {"RUNNING"}
      /\ AllowedFrom(op) = {"RUNNING"} => Target[op] \in {"RUNNING", "SUCCESS"}
  BY DEF AllowedFrom, Open, Ops, Finalisers, Target, Terminal
<1> HIDE DEF Target
<1>4. CASE row'[r] = row[r]
  BY <1>3, <1>4 DEF Blocked
<1>5. CASE \E f \in Finalisers : row[r].status \in AllowedFrom(f) /\ row'[r].status = Target[f]
  BY <1>3, <1>5 DEF Blocked, Open, Terminal
<1> QED BY <1>1, <1>3, <1>4, <1>5 DEF Blocked, RowStep

LEMMA IInvInit == Init => IInv
  BY RowValues DEF Init, IInv, TypeOK, MissedIsBlocked, RefusedRunExists, ReturnedRunExists,
     ReturnedRowIsTheEnding, RefusalIsFinal, Idle, CallType, Progress, Ops

\* The part of IInv that speaks of one caller.
Sound(c) ==
    LET op == call[c].op
        r  == call[c].run
    IN  /\ (call[c].pc \in {"missed", "refused"} /\ r \in Runs) => Blocked(op, r)
        /\ call[c].pc \in {"refused", "returned"} => r \in Runs
        /\ (call[c].pc = "returned" /\ op \in Finalisers) =>
               call[c].reply = row[r] /\ call[c].reply.status = Target[op]
        /\ call[c].pc = "refused" => row[r].status # Target[op]

LEMMA IInvIsSound == IInv <=> TypeOK /\ \A c \in Callers : Sound(c)
  BY DEF IInv, Sound, MissedIsBlocked, RefusedRunExists, ReturnedRunExists,
     ReturnedRowIsTheEnding, RefusalIsFinal

\* What other callers do leaves a caller's own promises standing.
LEMMA OthersKeepSound ==
    ASSUME IInv, TypeOK', [Next]_vars, NEW c \in Callers, call'[c] = call[c]
    PROVE  Sound(c)'
<1> DEFINE op == call[c].op
           r  == call[c].run
<1>1. Sound(c) /\ TypeOK /\ op \in Ops
  BY IInvIsSound DEF TypeOK, CallType
<1>2. ASSUME call[c].pc \in {"missed", "refused"}, r \in Runs PROVE Blocked(op, r)'
  BY <1>1, <1>2, StepKeepsBlocked DEF Sound, Blocked, AllowedFrom
<1>3. ASSUME call[c].pc = "refused" PROVE row'[r].status # Target[op]
  BY <1>1, <1>3, StepKeepsBlocked DEF Sound
<1>4. ASSUME call[c].pc = "returned", op \in Finalisers PROVE row'[r] = row[r]
  <2>1. r \in Runs /\ row[r].status = Target[op]
    BY <1>1, <1>4 DEF Sound
  <2>2. Target[op] \in Terminal
    BY <1>1, <1>4, AllowedFromValues
  <2>3. Blocked(op, r)
    BY <1>1, <2>1, <2>2, AllowedFromValues DEF Blocked, Terminal, Open
  <2> QED BY <1>1, <2>1, <2>2, <2>3, StepKeepsBlocked
<1> QED BY <1>1, <1>2, <1>3, <1>4 DEF Sound, Blocked

LEMMA IInvStep == IInv /\ TypeOK' /\ [Next]_vars => IInv'
<1> SUFFICES ASSUME IInv, TypeOK', [Next]_vars, NEW d \in Callers PROVE Sound(d)'
  BY DEF IInv, Sound, MissedIsBlocked, RefusedRunExists, ReturnedRunExists,
     ReturnedRowIsTheEnding, RefusalIsFinal
<1>1. TypeOK /\ Sound(d)
  BY IInvIsSound
<1>2. CASE call'[d] = call[d]
  BY <1>2, OthersKeepSound
<1>3. ASSUME NEW op \in Ops, NEW r \in Runs \cup {NoRun}, NEW a \in Args, CasHit(d, op, r, a)
      PROVE Sound(d)'
  <2>1. r \in Runs /\ row[r] \in RowType
    BY <1>1, <1>3, AllowedFromValues DEF CasHit, Matches, StatusOf, Open, TypeOK
  <2>2. call'[d] = [pc |-> "returned", op |-> op, run |-> r, args |-> a,
                    reply |-> Updated(row[r], op, a)]
    BY <1>1, <1>3 DEF CasHit, TypeOK
  <2>3. row'[r] = Updated(row[r], op, a)
    BY <1>1, <1>3, <2>1 DEF CasHit, TypeOK
  <2> QED BY <2>1, <2>2, <2>3, RowValues DEF Sound
<1>4. ASSUME NEW op \in Ops, NEW r \in Runs \cup {NoRun}, NEW a \in Args, CasMiss(d, op, r, a)
      PROVE Sound(d)'
  <2>1. call'[d] = [pc |-> "missed", op |-> op, run |-> r, args |-> a, reply |-> NoRow]
    BY <1>1, <1>4 DEF CasMiss, TypeOK
  <2>2. r \in Runs => Blocked(op, r)'
    BY <1>4 DEF CasMiss, Called, Matches, StatusOf, Blocked, AllowedFrom
  <2> QED BY <2>1, <2>2 DEF Sound
<1>5. ASSUME NEW op \in Ops, NEW r \in Runs \cup {NoRun}, NEW a \in Args,
             CasFailed(d, op, r, a) \/ CasAckLost(d, op, r, a)
      PROVE Sound(d)'
  <2>1. call'[d].pc \in {"raised", "swallowed"}
    BY <1>1, <1>5 DEF CasFailed, CasAckLost, TypeOK, Raising
  <2> QED BY <2>1 DEF Sound
<1>6. CASE Reread(d)
  <2> DEFINE op == call[d].op
             r  == call[d].run
  <2>1. /\ row' = row /\ op \in Ops /\ call[d].pc = "missed"
        /\ call'[d].op = op /\ call'[d].run = r
    BY <1>1, <1>6 DEF Reread, TypeOK, CallType
  <2>2. CASE call'[d].pc \in {"not_found", "swallowed"}
    BY <2>2 DEF Sound
  <2>3. CASE /\ StatusOf(r) = Target[op]
             /\ call' = [call EXCEPT ![d].pc = "returned", ![d].reply = row[r]]
    <3>1. r \in Runs /\ row[r].status = Target[op]
      BY <2>1, <2>3, AllowedFromValues DEF StatusOf, Terminal
    <3>2. call'[d].reply = row[r] /\ call'[d].pc = "returned"
      BY <1>1, <2>3 DEF TypeOK, CallType
    <3> QED BY <2>1, <3>1, <3>2 DEF Sound
  <2>4. CASE /\ StatusOf(r) \notin {"ABSENT", Target[op]}
             /\ call' = [call EXCEPT ![d].pc = Raising(op, "refused")]
    <3>1. r \in Runs /\ row[r].status # Target[op] /\ call'[d].pc \in {"refused", "swallowed"}
      BY <1>1, <2>4 DEF StatusOf, Raising, TypeOK, CallType
    <3>2. Blocked(op, r)'
      BY <1>1, <2>1, <3>1 DEF Sound, Blocked, AllowedFrom
    <3> QED BY <2>1, <3>1, <3>2 DEF Sound
  <2>5. call' = [call EXCEPT ![d].pc = Raising(op, "not_found")]
            => call'[d].pc \in {"not_found", "swallowed"}
    BY <1>1 DEF TypeOK, CallType, Raising
  <2> QED BY <1>6, <2>2, <2>3, <2>4, <2>5 DEF Reread
<1>7. CASE RereadFailed(d) \/ Leave(d)
  <2>1. call'[d].pc \in {"raised", "swallowed", "idle"}
    BY <1>1, <1>7 DEF RereadFailed, Leave, Idle, Raising, TypeOK, CallType
  <2> QED BY <2>1 DEF Sound
<1>8. ASSUME NEW c \in Callers, c # d,
             Attempt(c) \/ Reread(c) \/ RereadFailed(c) \/ Leave(c)
      PROVE call'[d] = call[d]
  BY <1>1, <1>8 DEF TypeOK, Attempt, CasHit, CasMiss, CasFailed, CasAckLost, Reread,
     RereadFailed, Leave
<1>9. CASE Attempt(d)
  BY <1>3, <1>4, <1>5, <1>9 DEF Attempt
<1> QED BY <1>2, <1>6, <1>7, <1>8, <1>9 DEF Next, Begin, vars

\* IInv holds throughout: what makes the two promises below inductive.
THEOREM LifecycleInvariant == Spec => []IInv
  BY IInvInit, IInvStep, TypeCorrect, PTL DEF Spec

\* A finaliser that got a row back, as the winner or as a duplicate, holds
\* the very row the table keeps from then on (ReturnedRowIsTheEnding).
THEOREM RepliesAreTheEnding == Spec => []ReturnedRowIsTheEnding
  BY LifecycleInvariant, PTL DEF IInv

\* A status once refused is never found in the row later (RefusalIsFinal).
THEOREM RefusalsStand == Spec => []RefusalIsFinal
  BY LifecycleInvariant, PTL DEF IInv

\* The table seen through its status column is a RunRecords table: a reader
\* of pipeline_runs can rely on the abstract record (ImplementsRunRecords).
THEOREM LifecycleImplementsRecords == Spec => ImplementsRunRecords
<1>1. Init => Records!Init
  BY DEF Init, Records!Init, Absent
<1>2. TypeOK /\ [Next]_vars => [Records!Next]_([r \in Runs |-> row[r].status])
  <2> SUFFICES ASSUME TypeOK, [Next]_vars
               PROVE  [Records!Next]_([r \in Runs |-> row[r].status])
    OBVIOUS
  <2> DEFINE status == [r \in Runs |-> row[r].status]
  <2>1. ASSUME NEW r \in Runs, NEW s \in Open, row[r].status = "ABSENT",
               row' = [row EXCEPT ![r] = [@ EXCEPT !.status = s]]
        PROVE Records!Appear(r)
    <3>1. status' = [status EXCEPT ![r] = s]
      BY <2>1 DEF TypeOK, RowType
    <3> QED BY <2>1, <3>1 DEF Records!Appear, Records!Open, Open
  <2>2. ASSUME NEW c \in Callers, NEW op \in Ops, NEW r \in Runs \cup {NoRun}, NEW a \in Args,
               Matches(op, r), row' = [row EXCEPT ![r] = Updated(@, op, a)]
        PROVE \/ status' = status
              \/ r \in Runs /\ \E s \in Records!Terminal : Records!EndWith(r, s)
    <3>1. r \in Runs /\ row[r].status \in AllowedFrom(op)
      BY <2>2, AllowedFromValues DEF Matches, StatusOf, Open
    <3>2. row[r] \in RowType /\ row \in [Runs -> RowType]
      BY <3>1 DEF TypeOK
    <3>3. status' = [status EXCEPT ![r] = Updated(row[r], op, a).status]
      BY <2>2, <3>1, <3>2
    <3>0. /\ op = "heartbeat" => Updated(row[r], op, a).status = row[r].status
          /\ op \in Finalisers => Updated(row[r], op, a).status = Target[op]
      BY <3>2, RowValues
    <3>4. CASE op = "heartbeat"
      <4>1. status' = [status EXCEPT ![r] = row[r].status]
        BY <3>0, <3>3, <3>4
      <4>2. status' = status
        BY <4>1
      <4> QED BY <4>2
    <3>5. CASE op \in Finalisers
      <4>1. status' = [status EXCEPT ![r] = Target[op]] /\ Target[op] \in Terminal
        BY <3>0, <3>3, <3>5, AllowedFromValues
      <4>2. row[r].status \in Open /\ (Target[op] = "SUCCESS" => row[r].status = "RUNNING")
        BY <3>1, <3>5, AllowedFromValues
      <4>3. Records!EndWith(r, Target[op])
        BY <3>1, <4>1, <4>2 DEF Records!EndWith, Records!Open, Open
      <4> QED BY <3>1, <4>1, <4>3 DEF Records!Terminal, Terminal
    <3> QED BY <3>4, <3>5 DEF Finalisers
  <2>3. CASE \E r \in Runs : Begin(r)
    BY <2>1, <2>3 DEF Begin, Records!Next
  <2>4. CASE \E c \in Callers : Attempt(c)
    BY <2>2, <2>4 DEF Attempt, CasHit, CasMiss, CasFailed, CasAckLost, Records!Next
  <2>5. CASE row' = row
    BY <2>5
  <2> QED BY <2>3, <2>4, <2>5 DEF Next, vars, Reread, RereadFailed, Leave
<1> QED BY <1>1, <1>2, TypeCorrect, PTL DEF Spec, ImplementsRunRecords, Records!Spec

\* No caller writes a row that has ended (EndedRowsAreFinal).
THEOREM EndedRowsStay == Spec => EndedRowsAreFinal
<1>1. ASSUME TypeOK, [Next]_vars, NEW r \in Runs, row[r].status \in Terminal
      PROVE row'[r] = row[r]
  <2>1. Blocked("cancel", r)
    BY <1>1 DEF Blocked, AllowedFrom, Open, Terminal
  <2> QED BY <1>1, <2>1, StepKeepsBlocked DEF Ops
<1>2. TypeOK /\ [Next]_vars =>
         [\A r \in Runs : row[r].status \in Terminal => row'[r] = row[r]]_vars
  BY <1>1
<1> QED BY <1>2, TypeCorrect, PTL DEF Spec, EndedRowsAreFinal
=============================================================================
