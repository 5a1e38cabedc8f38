-------------------------- MODULE MCBatchTraining --------------------------
EXTENDS BatchTraining, TLC

Row(id, at, merchant, fraud) ==
    [id |-> id, customer |-> "ann", at |-> at, amount |-> 6, merchant |-> merchant, country |-> "c1",
     device |-> "d1", method |-> "CARD", fraud |-> fraud, valid |-> TRUE]

\* Two rows at one instant, an unknown method in the first row of an id, a
\* duplicate and an invalid row.
Tied == <<[Row("t3", 1, "m1", TRUE) EXCEPT !.method = "CASH"],
          Row("t1", 2, "m1", TRUE), Row("t2", 1, "m1", FALSE), Row("t3", 2, "m2", FALSE),
          Row("t1", 3, "m1", FALSE), [Row("t5", 1, "m1", TRUE) EXCEPT !.valid = FALSE]>>
Plain == <<Row("t6", 1, "m2", TRUE), [Row("t7", 2, "m1", FALSE) EXCEPT !.customer = "bob"],
           Row("t8", 5, "m2", FALSE)>>
WrittenAnew == <<Tied, Plain>>

\* The last row kept is the test partition, the others train.
LastIsTest(rows) == [r \in Range(rows) |-> IF r = rows[Max(DOMAIN rows)] THEN "test" ELSE "train"]

Seeded == [ann |-> [avg |-> 1, stddev |-> 2, devices |-> {"d1"}, countries |-> {"c1"}]]
OneFailure == <<[id |-> "f1", customer |-> "ann", kind |-> "failed", at |-> 1]>>
OneHourEach(t) == t % 24

\* What a batch run reads and counts is its own until it writes, and what it
\* records is nobody's guard: the others might as well wait for it to come to its
\* first write, or to its end.
BatchesGoFirst ==
    LET early == \E b \in Batches : batch[b].pc \in {"idle", "hashing", "raw", "clean"}
    IN  /\ early \/ (\E b \in Batches : batch[b].pc = "succeeding") => UNCHANGED <<trainer, models, server>>
        /\ input' # input => early

\* No step reads what a run that has ended keeps, nor its record; all that is
\* asked of them then is what SuccessNamesItsData says.
EndedAlike ==
    <<faults, input, files, registry, alias, active, recorded, contended, server, SuccessNamesItsData,
      [b \in Batches |-> IF batch[b].pc = "ended" THEN [IdleBatch EXCEPT !.pc = "ended"] ELSE batch[b]],
      [t \in Trainers |-> IF trainer[t].pc = "ended" THEN [IdleTrainer EXCEPT !.pc = "ended"]
                                                   ELSE trainer[t]]>>

Interchangeable == Permutations(Trainers) \cup Permutations(Batches)
=============================================================================
