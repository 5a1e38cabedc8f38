------------------------ MODULE BundlePromotionProofs ------------------------
(***************************************************************************)
(* Theorems about BundlePromotion for any number of channels, bundles and  *)
(* concurrent promotions, with faults or without.                          *)
(***************************************************************************)
EXTENDS BundlePromotion, FiniteSetTheorems, TLAPS

Whys == {"", "rejected", "race", "unique", "fault", "ack_lost"}

LEMMA SwitchedTyped ==
    ASSUME TypeOK, NEW p \in Attempts
    PROVE  Switched(p) \in [Bundles -> RowType]
<1>1. ASSUME NEW b \in Bundles, NEW s \in {"OPERATIONAL", "RETIRED"}
      PROVE  [row[b] EXCEPT !.status = s, !.by = p] \in RowType /\ [row[b] EXCEPT !.status = s] \in RowType
  BY DEF TypeOK, RowType, BundleStatus
<1>2. \A b \in Bundles : row[b] \in RowType
  BY DEF TypeOK
<1> QED BY <1>1, <1>2 DEF Switched

-----------------------------------------------------------------------------
(***************************************************************************)
(* Registration.  A channel's rows carry the numbers 1 .. n because the    *)
(* lock holder is the only one who may add a row: what it read is still    *)
(* the number of rows when it inserts.                                     *)
(***************************************************************************)
RegisteredRowsExist ==
    \A b \in Bundles : training[b].pc = "registered" <=> Exists(b)

HoldersHoldTheLock ==
    \A b \in Bundles : training[b].pc \in {"locked", "numbered"} => lock[ChannelOf[b]] = b

NumberIsNext ==
    \A b \in Bundles : training[b].pc = "numbered" =>
        training[b].next = Cardinality(OfChannel(ChannelOf[b])) + 1

AttemptsNameBundles ==
    \A p \in Attempts : attempt[p].pc # "idle" => attempt[p].bundle \in Bundles

NInv == /\ TypeOK
        /\ AttemptsNameBundles
        /\ RegisteredRowsExist
        /\ HoldersHoldTheLock
        /\ NumberIsNext
        /\ VersionsAreContiguous

LEMMA ChannelIsFinite ==
    \A c \in Channels : /\ IsFiniteSet(OfChannel(c))
                        /\ Cardinality(OfChannel(c)) \in Nat
  BY BundlesAssumption, FS_Subset, FS_CardinalityType DEF OfChannel

LEMMA MaxVersionIsTheCount ==
    ASSUME VersionsAreContiguous, NEW c \in Channels
    PROVE  MaxVersion(c) = Cardinality(OfChannel(c))
<1> DEFINE n == Cardinality(OfChannel(c))
           vs == {row[b].version : b \in OfChannel(c)} \cup {0}
<1>1. n \in Nat
  BY ChannelIsFinite
<1>2. vs = 0 .. n
  <2>1. {row[b].version : b \in OfChannel(c)} = 1 .. n
    BY DEF VersionsAreContiguous
  <2> QED BY <1>1, <2>1
<1> HIDE DEF n, vs
<1>3. n \in vs /\ \A v \in vs : v <= n
  BY <1>1, <1>2
<1>4. \A m \in vs : (\A v \in vs : v <= m) => m = n
  BY <1>1, <1>2
<1>5. (CHOOSE m \in vs : \A v \in vs : v <= m) = n
  BY <1>3, <1>4
<1> QED BY <1>5 DEF MaxVersion, n, vs

\* A step that leaves every row's status and version alone, and the
\* registrations with them, keeps the numbering.
RowsKeepTheirNumbers ==
    \A b \in Bundles : Exists(b)' = Exists(b) /\ row'[b].version = row[b].version

LEMMA NumberingKept ==
    ASSUME NInv, TypeOK', AttemptsNameBundles', RowsKeepTheirNumbers, UNCHANGED <<training, lock>>
    PROVE  NInv'
<1>1. \A c \in Channels : OfChannel(c)' = OfChannel(c)
  BY DEF OfChannel, RowsKeepTheirNumbers
<1>2. \A c \in Channels :
        {row'[b].version : b \in OfChannel(c)'} = {row[b].version : b \in OfChannel(c)}
  BY <1>1 DEF OfChannel, RowsKeepTheirNumbers
<1>3. VersionsAreContiguous'
  BY <1>1, <1>2 DEF NInv, VersionsAreContiguous
<1>4. NumberIsNext'
  BY <1>1, BundlesAssumption DEF NInv, NumberIsNext
<1> QED BY <1>3, <1>4 DEF NInv, RegisteredRowsExist, RowsKeepTheirNumbers, HoldersHoldTheLock

LEMMA SwitchKeepsNumbers ==
    ASSUME TypeOK, NEW p \in Attempts, StillTheCandidate(p), row' = Switched(p)
    PROVE  RowsKeepTheirNumbers
  BY DEF StillTheCandidate, Switched, RowsKeepTheirNumbers, Exists, TypeOK, RowType

LEMMA NInvInit == Init => NInv
<1> SUFFICES ASSUME Init PROVE NInv
  OBVIOUS
<1>1. TypeOK
  BY DEF Init, TypeOK, RowType, BundleStatus, TrainingType, AttemptType
<1>2. \A c \in Channels : OfChannel(c) = {}
  BY DEF Init, OfChannel, Exists
<1>3. VersionsAreContiguous
  <2>1. \A c \in Channels : {row[b].version : b \in OfChannel(c)} = 1 .. Cardinality(OfChannel(c))
    BY <1>2, FS_EmptySet
  <2> QED BY <2>1 DEF VersionsAreContiguous, Init
<1> QED BY <1>1, <1>3 DEF NInv, Init, RegisteredRowsExist, Exists, HoldersHoldTheLock, NumberIsNext,
                          AttemptsNameBundles

LEMMA NumberedRecord ==
    \A t \in TrainingType, m \in Nat :
        [t EXCEPT !.pc = "numbered", !.next = m + 1] = [pc |-> "numbered", next |-> m + 1]
<1>1. \A t \in TrainingType, k \in Nat :
        [t EXCEPT !.pc = "numbered", !.next = k] = [pc |-> "numbered", next |-> k]
  <2> SUFFICES ASSUME NEW t \in TrainingType, NEW k \in Nat
               PROVE  [t EXCEPT !.pc = "numbered", !.next = k] = [pc |-> "numbered", next |-> k]
    OBVIOUS
  <2> DEFINE u == [t EXCEPT !.pc = "numbered"]
  <2>1. u \in TrainingType /\ u.pc = "numbered"
    BY DEF TrainingType
  <2> HIDE DEF u
  <2>2. [u EXCEPT !.next = k] = [pc |-> u.pc, next |-> k]
    BY <2>1 DEF TrainingType
  <2> QED BY <2>1, <2>2 DEF u
<1>2. \A m \in Nat : m + 1 \in Nat
  OBVIOUS
<1> QED BY <1>1, <1>2

LEMMA InsertedRecord ==
    \A r \in RowType, m \in Nat :
        [r EXCEPT !.status = "CANDIDATE", !.version = m + 1] \in RowType
<1>1. \A r \in RowType, k \in Nat : [r EXCEPT !.status = "CANDIDATE", !.version = k] \in RowType
  BY DEF RowType, BundleStatus
<1>2. \A m \in Nat : m + 1 \in Nat
  OBVIOUS
<1> QED BY <1>1, <1>2

LEMMA RegisterKeepsNInv ==
    ASSUME NInv, NEW b \in Bundles, Register(b) PROVE NInv'
<1> DEFINE c == ChannelOf[b]
           n == Cardinality(OfChannel(c))
<1>0. c \in Channels /\ n \in Nat
  BY BundlesAssumption, ChannelIsFinite
<1>a. UNCHANGED attempt => AttemptsNameBundles'
  BY DEF NInv, AttemptsNameBundles
<1>1. CASE Train(b)
  <2>1. ~Exists(b)
    BY <1>1 DEF NInv, RegisteredRowsExist, Train
  <2>2. TypeOK'
    <3>1. PICK complete \in BOOLEAN, gate \in BOOLEAN :
            row' = [row EXCEPT ![b].complete = complete, ![b].gate = gate, ![b].rules = policy]
      BY <1>1 DEF Train
    <3>2. row' \in [Bundles -> RowType]
      <4>1. [row[b] EXCEPT !.complete = complete, !.gate = gate, !.rules = policy] \in RowType
        <5>1. row[b] \in RowType /\ policy \in Policies
          BY DEF NInv, TypeOK
        <5> QED BY <5>1 DEF RowType
      <4>2. row' = [row EXCEPT ![b] = [row[b] EXCEPT !.complete = complete, !.gate = gate,
                                                     !.rules = policy]]
        BY <3>1
      <4> QED BY <4>1, <4>2 DEF NInv, TypeOK
    <3>3. training' \in [Bundles -> TrainingType]
      BY <1>1 DEF NInv, TypeOK, TrainingType, Train
    <3> QED BY <1>1, <3>2, <3>3 DEF NInv, TypeOK, Train
  <2>3. \A a \in Bundles : Exists(a)' = Exists(a) /\ row'[a].version = row[a].version
    BY <1>1 DEF NInv, TypeOK, RowType, Train, Exists
  <2>4. /\ \A d \in Channels : OfChannel(d)' = OfChannel(d)
        /\ \A d \in Channels :
             {row'[a].version : a \in OfChannel(d)'} = {row[a].version : a \in OfChannel(d)}
    BY <2>3 DEF OfChannel
  <2>5. training' = [training EXCEPT ![b].pc = "trained"] /\ training[b].pc = "idle" /\ lock' = lock
    BY <1>1 DEF Train
  <2>6. VersionsAreContiguous'
    BY <2>4, <2>5 DEF NInv, VersionsAreContiguous, TypeOK, TrainingType
  <2>7. NumberIsNext'
    <3>1. ASSUME NEW d \in Bundles, training'[d].pc = "numbered"
          PROVE  training[d].pc = "numbered" /\ training'[d].next = training[d].next
      BY <2>5, <3>1 DEF NInv, TypeOK, TrainingType
    <3>2. \A d \in Bundles : OfChannel(ChannelOf[d])' = OfChannel(ChannelOf[d])
      BY <2>4, BundlesAssumption
    <3> QED BY <3>1, <3>2 DEF NInv, NumberIsNext
  <2>8. RegisteredRowsExist' /\ HoldersHoldTheLock'
    BY <2>3, <2>5 DEF NInv, RegisteredRowsExist, HoldersHoldTheLock, TypeOK, TrainingType
  <2> QED BY <1>1, <1>a, <2>2, <2>6, <2>7, <2>8 DEF NInv, Train
<1>2. ASSUME row' = row, NEW pc \in {"locked", "numbered", "failed"}, NEW next \in Nat,
             training' = [training EXCEPT ![b] = [pc |-> pc, next |-> next]],
             training[b].pc \in {"trained", "locked", "numbered"},
             lock' \in [Channels -> Bundles \cup {None}],
             \A a \in Bundles \ {b} : training[a].pc \in {"locked", "numbered"} =>
                                        lock'[ChannelOf[a]] = lock[ChannelOf[a]],
             pc \in {"locked", "numbered"} => lock'[ChannelOf[b]] = b,
             pc = "numbered" => next = n + 1,
             UNCHANGED <<policy, attempt, run>>
      PROVE  NInv'
  <2>1. TypeOK'
    BY <1>2 DEF NInv, TypeOK, TrainingType
  <2>2. \A d \in Channels : OfChannel(d)' = OfChannel(d)
    BY <1>2 DEF OfChannel, Exists
  <2>3. /\ training'[b] = [pc |-> pc, next |-> next]
        /\ \A a \in Bundles \ {b} : training'[a] = training[a]
    BY <1>2 DEF NInv, TypeOK
  <2>4. RegisteredRowsExist'
    BY <1>2, <2>3 DEF NInv, RegisteredRowsExist, Exists
  <2>5. HoldersHoldTheLock'
    BY <1>2, <2>3 DEF NInv, HoldersHoldTheLock
  <2>6. NumberIsNext'
    BY <1>2, <2>2, <2>3, BundlesAssumption DEF NInv, NumberIsNext
  <2>7. VersionsAreContiguous'
    BY <1>2, <2>2, <2>3 DEF NInv, VersionsAreContiguous
  <2> QED BY <1>a, <1>2, <2>1, <2>4, <2>5, <2>6, <2>7 DEF NInv
<1>3. training[b] \in TrainingType /\ training[b].next \in Nat
  BY DEF NInv, TypeOK, TrainingType
<1>4. CASE TakeLock(b)
  <2>1. training' = [training EXCEPT ![b] = [pc |-> "locked", next |-> training[b].next]]
    <3>1. [training[b] EXCEPT !.pc = "locked"] = [pc |-> "locked", next |-> training[b].next]
      BY <1>3 DEF TrainingType
    <3> QED BY <1>4, <3>1 DEF TakeLock
  <2>2. lock' \in [Channels -> Bundles \cup {None}] /\ lock'[c] = b
    BY <1>0, <1>4 DEF NInv, TypeOK, TakeLock
  <2>3. \A a \in Bundles \ {b} : training[a].pc \in {"locked", "numbered"} =>
                                   lock'[ChannelOf[a]] = lock[ChannelOf[a]]
    BY <1>4, BundlesAssumption DEF NInv, TypeOK, HoldersHoldTheLock, TakeLock, LockFree
  <2> HIDE DEF n
  <2> QED BY <1>2, <1>3, <1>4, <2>1, <2>2, <2>3 DEF TakeLock
<1>5. CASE ReadMaxVersion(b)
  <2>1. training' = [training EXCEPT ![b] = [pc |-> "numbered", next |-> n + 1]]
    <3>1. [training[b] EXCEPT !.pc = "numbered", !.next = n + 1] = [pc |-> "numbered", next |-> n + 1]
      BY <1>0, NumberedRecord DEF NInv, TypeOK
    <3>2. MaxVersion(c) = n
      BY <1>0, MaxVersionIsTheCount DEF NInv
    <3>3. training' = [training EXCEPT ![b] = [training[b] EXCEPT !.pc = "numbered",
                                                                 !.next = n + 1]]
      BY <1>5, <3>2 DEF ReadMaxVersion
    <3> QED BY <3>1, <3>3
  <2>2. lock'[c] = b
    BY <1>5 DEF NInv, HoldersHoldTheLock, ReadMaxVersion
  <2>3. /\ training[b].pc = "locked" /\ UNCHANGED <<row, lock, policy, attempt, run>>
        /\ lock \in [Channels -> Bundles \cup {None}] /\ n + 1 \in Nat
    BY <1>0, <1>5 DEF NInv, TypeOK, ReadMaxVersion
  <2> HIDE DEF n
  <2> QED BY <1>2, <2>1, <2>2, <2>3
<1>6. \A d \in Channels : Unlocked(b)[d] = IF d = c /\ lock[c] = b THEN None ELSE lock[d]
  BY <1>0 DEF NInv, TypeOK, Unlocked
<1>7. Unlocked(b) \in [Channels -> Bundles \cup {None}]
  BY <1>0 DEF NInv, TypeOK, Unlocked
<1>8. \A a \in Bundles \ {b} : training[a].pc \in {"locked", "numbered"} =>
                                 Unlocked(b)[ChannelOf[a]] = lock[ChannelOf[a]]
  BY <1>6, BundlesAssumption DEF NInv, HoldersHoldTheLock
<1>9. CASE RegistrationLost(b)
  <2>1. training' = [training EXCEPT ![b] = [pc |-> "failed", next |-> training[b].next]]
    <3>1. [training[b] EXCEPT !.pc = "failed"] = [pc |-> "failed", next |-> training[b].next]
      BY <1>3 DEF TrainingType
    <3> QED BY <1>9, <3>1 DEF RegistrationLost
  <2> HIDE DEF n
  <2> QED BY <1>2, <1>3, <1>7, <1>8, <1>9, <2>1 DEF RegistrationLost
<1>10. CASE Insert(b)
  <2>1. training[b].next = n + 1 /\ lock[c] = b
    BY <1>10 DEF NInv, NumberIsNext, HoldersHoldTheLock, Insert
  <2>2. {row[o].version : o \in OfChannel(c)} = 1 .. n
    BY <1>0 DEF NInv, VersionsAreContiguous
  <2>3. ~ \E o \in OfChannel(c) : row[o].version = n + 1
    <3>1. n + 1 \notin 1 .. n
      BY <1>0
    <3> QED BY <2>2, <3>1
  <2>4. /\ training' = [training EXCEPT ![b].pc = "registered"]
        /\ row' = [row EXCEPT ![b].status = "CANDIDATE", ![b].version = n + 1]
        /\ lock' = Unlocked(b)
        /\ UNCHANGED <<policy, attempt, run>>
    BY <1>10, <2>1, <2>3 DEF Insert
  <2>5. ~Exists(b)
    BY <1>10 DEF NInv, RegisteredRowsExist, Insert
  <2>6. TypeOK'
    <3>1. [row[b] EXCEPT !.status = "CANDIDATE", !.version = n + 1] \in RowType
      BY <1>0, InsertedRecord DEF NInv, TypeOK
    <3>2. row' \in [Bundles -> RowType]
      BY <2>4, <3>1 DEF NInv, TypeOK
    <3>3. training' \in [Bundles -> TrainingType]
      BY <2>4 DEF NInv, TypeOK, TrainingType
    <3> QED BY <1>7, <2>4, <3>2, <3>3 DEF NInv, TypeOK
  <2>7. /\ row'[b].status = "CANDIDATE" /\ row'[b].version = n + 1
        /\ \A a \in Bundles \ {b} : row'[a] = row[a]
    BY <1>0, <2>4 DEF NInv, TypeOK, RowType
  <2>8. /\ training'[b].pc = "registered"
        /\ \A a \in Bundles \ {b} : training'[a] = training[a]
    BY <2>4 DEF NInv, TypeOK, TrainingType
  <2>9. /\ OfChannel(c)' = OfChannel(c) \cup {b}
        /\ b \notin OfChannel(c)
        /\ \A d \in Channels \ {c} : OfChannel(d)' = OfChannel(d)
    BY <2>5, <2>7 DEF OfChannel, Exists
  <2>10. Cardinality(OfChannel(c)') = n + 1
    BY <1>0, <2>9, ChannelIsFinite, FS_AddElement
  <2>11. VersionsAreContiguous'
    <3>1. {row'[a].version : a \in OfChannel(c)'} = {row[a].version : a \in OfChannel(c)} \cup {n + 1}
      <4>1. b \in OfChannel(c)' /\ row'[b].version = n + 1
        BY <2>7, <2>9
      <4>2. \A a \in OfChannel(c) : a \in OfChannel(c)' /\ row'[a].version = row[a].version
        BY <2>7, <2>9 DEF OfChannel
      <4>3. \A a \in OfChannel(c)' : a = b \/ a \in OfChannel(c)
        BY <2>9
      <4> HIDE DEF c, n
      <4> QED BY <4>1, <4>2, <4>3
    <3>2. {row'[a].version : a \in OfChannel(c)'} = 1 .. (n + 1)
      BY <1>0, <2>2, <3>1
    <3>3. \A d \in Channels \ {c} :
            {row'[a].version : a \in OfChannel(d)'} = {row[a].version : a \in OfChannel(d)}
      BY <2>7, <2>9 DEF OfChannel
    <3>4. \A d \in Channels :
            {row'[a].version : a \in OfChannel(d)'} = 1 .. Cardinality(OfChannel(d)')
      <4> SUFFICES ASSUME NEW d \in Channels
                   PROVE {row'[a].version : a \in OfChannel(d)'} = 1 .. Cardinality(OfChannel(d)')
        OBVIOUS
      <4>1. CASE d = c
        BY <2>10, <3>2, <4>1
      <4>2. CASE d # c
        BY <2>9, <3>3, <4>2 DEF NInv, VersionsAreContiguous
      <4> QED BY <4>1, <4>2
    <3>5. \A a \in Bundles : training'[a].pc # "collided"
      BY <2>8 DEF NInv, VersionsAreContiguous
    <3> QED BY <3>4, <3>5 DEF VersionsAreContiguous
  <2>12. RegisteredRowsExist'
    BY <2>7, <2>8 DEF NInv, RegisteredRowsExist, Exists
  <2>13. HoldersHoldTheLock'
    BY <1>8, <2>4, <2>8 DEF NInv, HoldersHoldTheLock
  <2>14. NumberIsNext'
    <3> SUFFICES ASSUME NEW a \in Bundles, training'[a].pc = "numbered"
                 PROVE  training'[a].next = Cardinality(OfChannel(ChannelOf[a])') + 1
      BY DEF NumberIsNext
    <3>1. a # b /\ training'[a] = training[a]
      BY <2>8
    <3>2. ChannelOf[a] # c
      BY <2>1, <3>1 DEF NInv, HoldersHoldTheLock
    <3> QED BY <2>9, <3>1, <3>2, BundlesAssumption DEF NInv, NumberIsNext
  <2> QED BY <1>a, <2>4, <2>6, <2>11, <2>12, <2>13, <2>14 DEF NInv
<1> QED BY <1>1, <1>4, <1>5, <1>9, <1>10 DEF Register

\* A promotion changes statuses only among rows that exist, and no version.
LEMMA PromoteKeepsNInv ==
    ASSUME NInv, NEW p \in Attempts, Promote(p) PROVE NInv'
<1> DEFINE a == attempt[p]
<1>1. /\ attempt \in [Attempts -> AttemptType]
      /\ a \in AttemptType
      /\ a.pc # "idle" => a.bundle \in Bundles
  BY DEF NInv, TypeOK, AttemptsNameBundles
<1>2. ASSUME NEW new \in AttemptType, attempt' = [attempt EXCEPT ![p] = new],
             new.pc # "idle" => new.bundle \in Bundles,
             run' \in [Attempts -> {"ABSENT", "RUNNING", "SUCCESS", "FAILED"}],
             row' \in [Bundles -> RowType], RowsKeepTheirNumbers,
             UNCHANGED <<training, lock, policy>>
      PROVE  NInv'
  <2>1. TypeOK'
    BY <1>2 DEF NInv, TypeOK
  <2>2. AttemptsNameBundles'
    BY <1>1, <1>2 DEF NInv, AttemptsNameBundles
  <2> QED BY <1>2, <2>1, <2>2, NumberingKept
<1>3. ASSUME NEW new \in AttemptType, attempt' = [attempt EXCEPT ![p] = new],
             new.pc # "idle" => new.bundle \in Bundles,
             UNCHANGED <<row, training, lock, policy, run>>
      PROVE  NInv'
  BY <1>2, <1>3 DEF NInv, TypeOK, RowsKeepTheirNumbers, Exists
<1>4. ASSUME NEW pc \in {"promoted", "failing", "done"}, NEW why \in Whys, Finish(p, pc, why),
             a.pc # "idle", row' \in [Bundles -> RowType], RowsKeepTheirNumbers,
             UNCHANGED <<training, lock, policy, run>>
      PROVE  NInv'
  <2> DEFINE new == [a EXCEPT !.pc = pc, !.why = why, !.candidate = NoCandidate,
                              !.seen = None, !.visible = {}]
  <2>1. new \in AttemptType /\ new.bundle = a.bundle
    BY <1>1, <1>4 DEF AttemptType, Whys
  <2>2. attempt' = [attempt EXCEPT ![p] = new]
    BY <1>4 DEF Finish
  <2> HIDE DEF new
  <2>3. run' \in [Attempts -> {"ABSENT", "RUNNING", "SUCCESS", "FAILED"}]
    BY <1>4 DEF NInv, TypeOK
  <2> QED BY <1>1, <1>2, <1>4, <2>1, <2>2, <2>3
<1>5. ASSUME NEW why \in Whys, GiveUp(p, why), a.pc # "idle" PROVE NInv'
  BY <1>4, <1>5 DEF GiveUp, NInv, TypeOK, RowsKeepTheirNumbers, Exists
<1>6. ASSUME NEW pc \in {"promoted", "failing"}, NEW why \in Whys, Finish(p, pc, why),
             a.pc # "idle", StillTheCandidate(p), row' = Switched(p),
             UNCHANGED <<training, lock, policy, run>>
      PROVE  NInv'
  BY <1>4, <1>6, SwitchedTyped, SwitchKeepsNumbers DEF NInv
<1>7. CASE \E b \in Bundles : Begin(p, b)
  <2>1. PICK b \in Bundles : Begin(p, b)
    BY <1>7
  <2>2. [a EXCEPT !.pc = "begun", !.bundle = b] \in AttemptType
    BY <1>1 DEF AttemptType
  <2>3. attempt' = [attempt EXCEPT ![p] = [a EXCEPT !.pc = "begun", !.bundle = b]]
    BY <2>1 DEF Begin
  <2>4. [a EXCEPT !.pc = "begun", !.bundle = b].bundle = b
    BY <1>1 DEF AttemptType
  <2>5. run' \in [Attempts -> {"ABSENT", "RUNNING", "SUCCESS", "FAILED"}]
    BY <2>1 DEF Begin, NInv, TypeOK
  <2> QED BY <1>2, <2>1, <2>2, <2>3, <2>4, <2>5 DEF Begin, NInv, TypeOK, RowsKeepTheirNumbers, Exists
<1>8. CASE ReadCandidate(p)
  <2>1. a.pc = "begun"
    BY <1>8 DEF ReadCandidate
  <2>2. CASE GiveUp(p, "rejected")
    BY <1>5, <2>1, <2>2 DEF Whys
  <2>3. CASE ~GiveUp(p, "rejected")
    <3> DEFINE new == [a EXCEPT !.pc = "read", !.candidate = row[a.bundle]]
    <3>1. /\ attempt' = [attempt EXCEPT ![p] = new]
          /\ UNCHANGED <<row, training, lock, policy, run>>
      BY <1>8, <2>3 DEF ReadCandidate
    <3>2. row[a.bundle] \in RowType
      BY <1>1, <2>1 DEF NInv, TypeOK
    <3>3. new \in AttemptType /\ new.bundle = a.bundle
      BY <1>1, <3>2 DEF AttemptType
    <3> HIDE DEF new
    <3> QED BY <1>1, <1>3, <2>1, <3>1, <3>3
  <2> QED BY <2>2, <2>3
<1>9. CASE Verify(p)
  <2>1. a.pc = "read"
    BY <1>9 DEF Verify
  <2>2. CASE GiveUp(p, "rejected")
    BY <1>5, <2>1, <2>2 DEF Whys
  <2>3. CASE ~GiveUp(p, "rejected")
    <3> DEFINE new == [a EXCEPT !.pc = "verified", !.seen = policy]
    <3>1. /\ attempt' = [attempt EXCEPT ![p] = new]
          /\ UNCHANGED <<row, training, lock, policy, run>>
      BY <1>9, <2>3 DEF Verify
    <3>2. new \in AttemptType /\ new.bundle = a.bundle
      BY <1>1 DEF AttemptType, NInv, TypeOK
    <3> HIDE DEF new
    <3> QED BY <1>1, <1>3, <2>1, <3>1, <3>2
  <2> QED BY <2>2, <2>3
<1>10. CASE CheckGate(p)
  <2>1. a.pc = "verified"
    BY <1>10 DEF CheckGate
  <2>2. CASE GiveUp(p, "rejected")
    BY <1>5, <2>1, <2>2 DEF Whys
  <2>3. CASE ~GiveUp(p, "rejected")
    <3> DEFINE new == [a EXCEPT !.pc = "gated"]
    <3>1. /\ attempt' = [attempt EXCEPT ![p] = new]
          /\ UNCHANGED <<row, training, lock, policy, run>>
      BY <1>10, <2>3 DEF CheckGate, Proceed
    <3>2. new \in AttemptType /\ new.bundle = a.bundle
      BY <1>1 DEF AttemptType
    <3> HIDE DEF new
    <3> QED BY <1>1, <1>3, <2>1, <3>1, <3>2
  <2> QED BY <2>2, <2>3
<1>11. CASE TakeSnapshot(p)
  <2> DEFINE new == [a EXCEPT !.pc = "locking", !.visible = OfChannel(ChannelOf[a.bundle])]
  <2>1. /\ a.pc = "gated"
        /\ attempt' = [attempt EXCEPT ![p] = new]
        /\ UNCHANGED <<row, training, lock, policy, run>>
    BY <1>11 DEF TakeSnapshot
  <2>2. OfChannel(ChannelOf[a.bundle]) \in SUBSET Bundles
    BY DEF OfChannel
  <2>3. new \in AttemptType /\ new.bundle = a.bundle
    BY <1>1, <2>2 DEF AttemptType
  <2> HIDE DEF new
  <2> QED BY <1>1, <1>3, <2>1, <2>3
<1>12. CASE LockAndPromote(p)
  BY <1>5, <1>6, <1>12 DEF LockAndPromote, Whys
<1>13. CASE CommitUnacknowledged(p)
  BY <1>6, <1>13 DEF CommitUnacknowledged, Whys
<1>14. CASE StepFails(p)
  BY <1>5, <1>14 DEF StepFails, Whys
<1>15. CASE RecordOutcome(p)
  <2> DEFINE new == [a EXCEPT !.pc = "done"]
  <2>1. /\ a.pc \in {"promoted", "failing"}
        /\ attempt' = [attempt EXCEPT ![p] = new]
        /\ UNCHANGED <<row, training, lock, policy>>
    BY <1>15 DEF RecordOutcome
  <2>2. new \in AttemptType /\ new.bundle = a.bundle
    BY <1>1 DEF AttemptType
  <2>3. run' \in [Attempts -> {"ABSENT", "RUNNING", "SUCCESS", "FAILED"}]
    BY <1>15 DEF RecordOutcome, NInv, TypeOK
  <2> HIDE DEF new
  <2> QED BY <1>1, <1>2, <2>1, <2>2, <2>3 DEF NInv, TypeOK, RowsKeepTheirNumbers, Exists
<1>16. CASE Die(p)
  <2>1. a.why \in Whys
    BY <1>1 DEF AttemptType, Whys
  <2>2. /\ a.pc # "idle" /\ Finish(p, "done", a.why)
        /\ UNCHANGED <<row, training, lock, policy, run>>
    BY <1>16 DEF Die
  <2> QED BY <1>4, <2>1, <2>2 DEF NInv, TypeOK, RowsKeepTheirNumbers, Exists
<1> QED BY <1>7, <1>8, <1>9, <1>10, <1>11, <1>12, <1>13, <1>14, <1>15, <1>16 DEF Promote

LEMMA NInvStep == NInv /\ [Next]_vars => NInv'
<1> SUFFICES ASSUME NInv, [Next]_vars PROVE NInv'
  OBVIOUS
<1>1. CASE UNCHANGED vars \/ EditPolicy
  <2>1. UNCHANGED <<row, training, lock, attempt, run>> /\ policy' \in Policies
    BY <1>1 DEF vars, EditPolicy, NInv, TypeOK
  <2>2. TypeOK'
    BY <2>1 DEF NInv, TypeOK
  <2>3. AttemptsNameBundles'
    BY <2>1 DEF NInv, AttemptsNameBundles
  <2> QED BY <2>1, <2>2, <2>3, NumberingKept DEF RowsKeepTheirNumbers, Exists
<1> QED BY <1>1, RegisterKeepsNInv, PromoteKeepsNInv DEF Next

THEOREM NumberingInvariant == Spec => []NInv
  BY NInvInit, NInvStep, PTL DEF Spec

\* The rows, the calls in progress and the run records keep their types.
THEOREM TypeCorrect == Spec => []TypeOK
<1>1. NInv => TypeOK
  BY DEF NInv
<1> QED BY <1>1, NumberingInvariant, PTL

\* However many training runs register bundles at once, the bundles of a
\* channel are numbered 1 .. n and no INSERT meets the UNIQUE constraint.
THEOREM RegistrationsAreNumbered == Spec => []VersionsAreContiguous
<1>1. NInv => VersionsAreContiguous
  BY DEF NInv
<1> QED BY <1>1, NumberingInvariant, PTL

-----------------------------------------------------------------------------
(***************************************************************************)
(* Promotion.  What an attempt checked before it locks the rows stays true *)
(* until it commits for one of two reasons: the row itself is compared     *)
(* again under its lock, and "the channel has had an operational bundle"   *)
(* never becomes false.  The signature column `by' ties a run record to    *)
(* the one row its attempt switched.                                       *)
(***************************************************************************)
Promoting == {"read", "verified", "gated", "locking"}

VettedSoFar(p) ==
    /\ attempt[p].pc \in Promoting => attempt[p].candidate \in RowType /\ attempt[p].candidate.complete
    /\ attempt[p].pc \in Promoting \ {"read"} => attempt[p].seen = attempt[p].candidate.rules
    /\ attempt[p].pc \in {"gated", "locking"} =>
          Promoted(ChannelOf[attempt[p].bundle]) # {} \/ attempt[p].candidate.gate
    /\ attempt[p].pc = "locking" =>
          \A b \in attempt[p].visible : ChannelOf[b] = ChannelOf[attempt[p].bundle]

Signed(p) ==
    /\ run[p] = "ABSENT" <=> attempt[p].pc = "idle"
    /\ attempt[p].pc \notin {"idle", "done"} => run[p] = "RUNNING"
    /\ attempt[p].pc = "failing" \/ run[p] = "FAILED" => attempt[p].why # ""
    /\ attempt[p].pc = "promoted" \/ run[p] = "SUCCESS" => row[attempt[p].bundle].by = p
    /\ \A b \in Bundles : row[b].by = p =>
          /\ attempt[p].bundle = b
          /\ attempt[p].pc \in {"promoted", "failing", "done"}
          /\ attempt[p].why \in {"", "ack_lost"}

SignedRowsArePromoted ==
    \A b \in Bundles : row[b].by # None <=> row[b].status \in {"OPERATIONAL", "RETIRED"}

PInv == /\ NInv
        /\ UniqueIndexHolds(row)
        /\ SignedRowsArePromoted
        /\ \A p \in Attempts : VettedSoFar(p) /\ Signed(p)

LEMMA PInvInit == Init => PInv
<1> SUFFICES ASSUME Init PROVE PInv
  OBVIOUS
<1>1. NInv
  BY NInvInit
<1>2. UniqueIndexHolds(row) /\ SignedRowsArePromoted
  BY DEF Init, UniqueIndexHolds, SignedRowsArePromoted
<1>3. \A p \in Attempts : VettedSoFar(p) /\ Signed(p)
  BY BundlesAssumption DEF Init, VettedSoFar, Signed, Promoting
<1> QED BY <1>1, <1>2, <1>3 DEF PInv

\* Registration, and a row it has not inserted yet, concern no promotion.
LEMMA RegisterLeavesPromotions ==
    ASSUME NInv, NEW b \in Bundles, Register(b)
    PROVE  /\ UNCHANGED <<attempt, run>>
           /\ \A a \in Bundles :
                /\ row'[a].by = row[a].by
                /\ \A s \in {"OPERATIONAL", "RETIRED"} : row'[a].status = s <=> row[a].status = s
<1>1. UNCHANGED <<attempt, run>>
  BY DEF Register, Train, TakeLock, ReadMaxVersion, Insert, RegistrationLost
<1>2. CASE Train(b)
  <2>1. PICK complete \in BOOLEAN, gate \in BOOLEAN :
          row' = [row EXCEPT ![b].complete = complete, ![b].gate = gate, ![b].rules = policy]
    BY <1>2 DEF Train
  <2> QED BY <1>1, <2>1 DEF NInv, TypeOK, RowType
<1>3. CASE Insert(b)
  <2>1. row[b].status = "ABSENT"
    BY <1>3 DEF NInv, RegisteredRowsExist, Insert, Exists
  <2> QED BY <1>1, <1>3, <2>1 DEF NInv, TypeOK, RowType, Insert
<1>4. CASE row' = row
  BY <1>1, <1>4
<1> QED BY <1>2, <1>3, <1>4 DEF Register, TakeLock, ReadMaxVersion, RegistrationLost

\* An attempt that takes no part in a step keeps what it knows, whatever the
\* step does to the table, as long as it signs only rows nobody signed.
LEMMA OthersKeepTheirView ==
    ASSUME NEW p \in Attempts, VettedSoFar(p), Signed(p), NInv, SignedRowsArePromoted,
           attempt'[p] = attempt[p], run'[p] = run[p],
           \A b \in Bundles : row[b].status \in {"OPERATIONAL", "RETIRED"} =>
                /\ row'[b].status \in {"OPERATIONAL", "RETIRED"}
                /\ row'[b].by = row[b].by,
           \A b \in Bundles : row'[b].by = p => row[b].by = p
    PROVE  VettedSoFar(p)' /\ Signed(p)'
<1>1. Promoted(ChannelOf[attempt[p].bundle]) # {} => Promoted(ChannelOf[attempt[p].bundle])' # {}
  BY DEF Promoted, OfChannel, Exists
<1>2. VettedSoFar(p)'
  BY <1>1 DEF VettedSoFar
<1>3. attempt[p].pc = "promoted" \/ run[p] = "SUCCESS" => row'[attempt[p].bundle].by = p
  <2> SUFFICES ASSUME attempt[p].pc = "promoted" \/ run[p] = "SUCCESS"
               PROVE  row'[attempt[p].bundle].by = p
    OBVIOUS
  <2>1. attempt[p].bundle \in Bundles /\ row[attempt[p].bundle].by = p
    BY DEF Signed, NInv, AttemptsNameBundles
  <2>2. row[attempt[p].bundle].status \in {"OPERATIONAL", "RETIRED"}
    BY <2>1, BundlesAssumption DEF SignedRowsArePromoted
  <2> QED BY <2>1, <2>2
<1>4. Signed(p)'
  BY <1>3 DEF Signed
<1> QED BY <1>2, <1>4

LEMMA RegisterKeepsPInv ==
    ASSUME PInv, NEW b \in Bundles, Register(b) PROVE PInv'
<1>1. NInv' /\ NInv
  BY RegisterKeepsNInv DEF PInv
<1>2. UniqueIndexHolds(row)' /\ SignedRowsArePromoted'
  BY <1>1, RegisterLeavesPromotions DEF PInv, UniqueIndexHolds, SignedRowsArePromoted
<1>3. ASSUME NEW p \in Attempts PROVE VettedSoFar(p)' /\ Signed(p)'
  BY <1>1, RegisterLeavesPromotions, OthersKeepTheirView DEF PInv
<1> QED BY <1>1, <1>2, <1>3 DEF PInv

\* A committed switch signs one row; what it retires stays signed as it was.
LEMMA SwitchSignsOne ==
    ASSUME TypeOK, NEW p \in Attempts, row' = Switched(p)
    PROVE  \A b \in Bundles \ {attempt[p].bundle} : row'[b].by = row[b].by
<1>1. \A b \in Bundles \ {attempt[p].bundle} :
         row'[b] = row[b] \/ row'[b] = [row[b] EXCEPT !.status = "RETIRED"]
  BY DEF Switched
<1>2. \A b \in Bundles : row[b] \in RowType
  BY DEF TypeOK
<1> QED BY <1>1, <1>2 DEF RowType

\* What one committed switch does to the rows.
LEMMA SwitchEffect ==
    ASSUME PInv, NEW p \in Attempts, attempt[p].pc = "locking",
           StillTheCandidate(p), UniqueIndexHolds(Switched(p)), row' = Switched(p)
    PROVE  /\ attempt[p].bundle \in Bundles
           /\ row[attempt[p].bundle].status = "CANDIDATE"
           /\ row[attempt[p].bundle] = attempt[p].candidate
           /\ row'[attempt[p].bundle].status = "OPERATIONAL"
           /\ row'[attempt[p].bundle].by = p
           /\ \A b \in Bundles \ {attempt[p].bundle} :
                /\ row'[b].by = row[b].by
                /\ row'[b].status # row[b].status =>
                      /\ row[b].status = "OPERATIONAL"
                      /\ row'[b].status = "RETIRED"
                      /\ ChannelOf[b] = ChannelOf[attempt[p].bundle]
<1>1. attempt[p].bundle \in Bundles
  BY DEF PInv, NInv, AttemptsNameBundles
<1>2. row \in [Bundles -> RowType]
  BY DEF PInv, NInv, TypeOK
<1>3. \A b \in attempt[p].visible : ChannelOf[b] = ChannelOf[attempt[p].bundle]
  BY DEF PInv, VettedSoFar
<1>4. /\ row'[attempt[p].bundle] = [row[attempt[p].bundle] EXCEPT !.status = "OPERATIONAL", !.by = p]
      /\ \A b \in Bundles \ {attempt[p].bundle} :
           \/ row'[b] = row[b]
           \/ /\ b \in attempt[p].visible
              /\ row[b].status = "OPERATIONAL"
              /\ row'[b] = [row[b] EXCEPT !.status = "RETIRED"]
  BY <1>1 DEF Switched
<1>5. \A b \in Bundles \ {attempt[p].bundle} : row'[b].by = row[b].by
  BY SwitchSignsOne DEF PInv, NInv
<1>6. \A b \in Bundles \ {attempt[p].bundle} : row'[b].status # row[b].status =>
          /\ row[b].status = "OPERATIONAL" /\ row'[b].status = "RETIRED"
          /\ ChannelOf[b] = ChannelOf[attempt[p].bundle]
  BY <1>2, <1>3, <1>4 DEF RowType
<1>7. row'[attempt[p].bundle].status = "OPERATIONAL" /\ row'[attempt[p].bundle].by = p
  BY <1>1, <1>2, <1>4 DEF RowType
<1> QED BY <1>1, <1>5, <1>6, <1>7 DEF StillTheCandidate

LEMMA PromoteKeepsPInv ==
    ASSUME PInv, NEW p \in Attempts, Promote(p) PROVE PInv'
<1> DEFINE a == attempt[p]
<1>1. NInv' /\ NInv
  BY PromoteKeepsNInv DEF PInv
<1>2. /\ attempt \in [Attempts -> AttemptType] /\ a \in AttemptType
      /\ run \in [Attempts -> {"ABSENT", "RUNNING", "SUCCESS", "FAILED"}]
      /\ row \in [Bundles -> RowType]
      /\ a.pc # "idle" => a.bundle \in Bundles
  BY <1>1 DEF NInv, TypeOK, AttemptsNameBundles
<1>3. VettedSoFar(p) /\ Signed(p) /\ SignedRowsArePromoted
  BY DEF PInv
<1>4. /\ \A q \in Attempts \ {p} : attempt'[q] = attempt[q] /\ run'[q] = run[q]
      /\ attempt' \in [Attempts -> AttemptType]
  <2>1. attempt' \in [Attempts -> AttemptType]
    BY <1>1 DEF NInv, TypeOK
  <2>2. \A q \in Attempts \ {p} : attempt'[q] = attempt[q]
    BY <1>2 DEF Promote, Begin, ReadCandidate, Verify, CheckGate, TakeSnapshot, LockAndPromote,
                CommitUnacknowledged, StepFails, RecordOutcome, Die, GiveUp, Finish, Proceed
  <2>3. \A q \in Attempts \ {p} : run'[q] = run[q]
    BY <1>2 DEF Promote, Begin, ReadCandidate, Verify, CheckGate, TakeSnapshot, LockAndPromote,
                CommitUnacknowledged, StepFails, RecordOutcome, Die, GiveUp, Proceed
  <2> QED BY <2>1, <2>2, <2>3
<1>5. ASSUME row' = row, VettedSoFar(p)', Signed(p)' PROVE PInv'
  <2>1. \A q \in Attempts \ {p} : VettedSoFar(q)' /\ Signed(q)'
    BY <1>1, <1>4, <1>5, OthersKeepTheirView DEF PInv
  <2> QED BY <1>1, <1>5, <2>1 DEF PInv, UniqueIndexHolds, SignedRowsArePromoted
<1>6. ASSUME a.pc = "locking", StillTheCandidate(p), UniqueIndexHolds(Switched(p)),
             row' = Switched(p), VettedSoFar(p)', Signed(p)'
      PROVE  PInv'
  <2>1. UniqueIndexHolds(row)'
    BY <1>6 DEF UniqueIndexHolds
  <2>2. SignedRowsArePromoted'
    BY <1>3, <1>6, SwitchEffect, BundlesAssumption DEF SignedRowsArePromoted
  <2>3. \A q \in Attempts \ {p} : VettedSoFar(q)' /\ Signed(q)'
    BY <1>1, <1>3, <1>4, <1>6, OthersKeepTheirView, SwitchEffect DEF PInv
  <2> QED BY <1>1, <1>6, <2>1, <2>2, <2>3 DEF PInv
<1>7. ASSUME NEW pc \in {"promoted", "failing", "done"}, NEW why \in Whys, Finish(p, pc, why)
      PROVE  /\ attempt'[p].pc = pc /\ attempt'[p].why = why
             /\ attempt'[p].bundle = a.bundle
             /\ VettedSoFar(p)'
  <2>1. attempt'[p].pc = pc /\ attempt'[p].why = why /\ attempt'[p].bundle = a.bundle
    BY <1>2, <1>7 DEF Finish, AttemptType
  <2> QED BY <2>1 DEF VettedSoFar, Promoting
<1>8. ASSUME NEW why \in Whys \ {""}, GiveUp(p, why), a.pc \in Promoting \cup {"begun"} PROVE PInv'
  <2>1. /\ attempt'[p].pc = "failing" /\ attempt'[p].why = why /\ attempt'[p].bundle = a.bundle
        /\ VettedSoFar(p)' /\ row' = row /\ run' = run
    BY <1>7, <1>8 DEF GiveUp
  <2>2. Signed(p)'
    BY <1>3, <1>8, <2>1 DEF Signed, Promoting
  <2> QED BY <1>5, <2>1, <2>2
<1>9. CASE \E b \in Bundles : Begin(p, b)
  <2>1. PICK b \in Bundles : Begin(p, b)
    BY <1>9
  <2>2. a.pc = "idle" /\ attempt'[p].pc = "begun" /\ run'[p] = "RUNNING" /\ row' = row
        /\ attempt'[p].why = a.why
    BY <1>2, <2>1 DEF Begin, AttemptType
  <2>3. VettedSoFar(p)'
    BY <2>2 DEF VettedSoFar, Promoting
  <2>4. Signed(p)'
    BY <1>3, <2>2 DEF Signed
  <2> QED BY <1>5, <2>2, <2>3, <2>4
<1>10. CASE ReadCandidate(p)
  <2>1. CASE GiveUp(p, "rejected")
    BY <1>8, <1>10, <2>1 DEF Whys, ReadCandidate
  <2>2. CASE ~GiveUp(p, "rejected")
    <3>1. /\ a.pc = "begun" /\ row[a.bundle].complete
          /\ attempt'[p].pc = "read" /\ attempt'[p].candidate = row[a.bundle]
          /\ attempt'[p].bundle = a.bundle /\ attempt'[p].why = a.why
          /\ row' = row /\ run' = run
      <4>1. /\ a.pc = "begun" /\ row[a.bundle].complete
            /\ attempt' = [attempt EXCEPT ![p].pc = "read", ![p].candidate = row[a.bundle]]
            /\ row' = row /\ run' = run
        BY <1>10, <2>2 DEF ReadCandidate
      <4> QED BY <1>2, <4>1 DEF AttemptType
    <3>2. VettedSoFar(p)'
      BY <1>2, <3>1 DEF VettedSoFar, Promoting
    <3>3. Signed(p)'
      BY <1>3, <3>1 DEF Signed
    <3> QED BY <1>5, <3>1, <3>2, <3>3
  <2> QED BY <2>1, <2>2
<1>11. CASE Verify(p)
  <2>1. CASE GiveUp(p, "rejected")
    BY <1>8, <1>11, <2>1 DEF Whys, Promoting, Verify
  <2>2. CASE ~GiveUp(p, "rejected")
    <3>1. /\ a.pc = "read" /\ a.candidate.rules = policy
          /\ attempt'[p].pc = "verified" /\ attempt'[p].seen = policy
          /\ attempt'[p].candidate = a.candidate
          /\ attempt'[p].bundle = a.bundle /\ attempt'[p].why = a.why
          /\ row' = row /\ run' = run
      <4>1. /\ a.pc = "read" /\ a.candidate.rules = policy
            /\ attempt' = [attempt EXCEPT ![p].pc = "verified", ![p].seen = policy]
            /\ row' = row /\ run' = run
        BY <1>11, <2>2 DEF Verify
      <4> QED BY <1>2, <4>1 DEF AttemptType
    <3>2. VettedSoFar(p)'
      BY <1>3, <3>1 DEF VettedSoFar, Promoting
    <3>3. Signed(p)'
      BY <1>3, <3>1 DEF Signed
    <3> QED BY <1>5, <3>1, <3>2, <3>3
  <2> QED BY <2>1, <2>2
<1>12. CASE CheckGate(p)
  <2>1. CASE GiveUp(p, "rejected")
    BY <1>8, <1>12, <2>1 DEF Whys, Promoting, CheckGate
  <2>2. CASE ~GiveUp(p, "rejected")
    <3>1. /\ a.pc = "verified"
          /\ Operational(ChannelOf[a.bundle]) # {} \/ a.candidate.gate
          /\ attempt'[p].pc = "gated" /\ attempt'[p].seen = a.seen
          /\ attempt'[p].candidate = a.candidate
          /\ attempt'[p].bundle = a.bundle /\ attempt'[p].why = a.why
          /\ row' = row /\ run' = run
      <4>1. /\ a.pc = "verified"
            /\ Operational(ChannelOf[a.bundle]) # {} \/ a.candidate.gate
            /\ attempt' = [attempt EXCEPT ![p].pc = "gated"]
            /\ row' = row /\ run' = run
        BY <1>12, <2>2 DEF CheckGate, Proceed
      <4> QED BY <1>2, <4>1 DEF AttemptType
    <3>2. Operational(ChannelOf[a.bundle]) # {} => Promoted(ChannelOf[a.bundle]) # {}
      BY DEF Operational, Promoted
    <3>3. Promoted(ChannelOf[a.bundle])' = Promoted(ChannelOf[a.bundle])
      BY <3>1 DEF Promoted, OfChannel, Exists
    <3>4. VettedSoFar(p)'
      BY <1>3, <3>1, <3>2, <3>3 DEF VettedSoFar, Promoting
    <3>5. Signed(p)'
      BY <1>3, <3>1 DEF Signed
    <3> QED BY <1>5, <3>1, <3>4, <3>5
  <2> QED BY <2>1, <2>2
<1>13. CASE TakeSnapshot(p)
  <2>1. /\ a.pc = "gated" /\ attempt'[p].pc = "locking" /\ attempt'[p].seen = a.seen
        /\ attempt'[p].visible = OfChannel(ChannelOf[a.bundle])
        /\ attempt'[p].candidate = a.candidate
        /\ attempt'[p].bundle = a.bundle /\ attempt'[p].why = a.why
        /\ row' = row /\ run' = run
    BY <1>2, <1>13 DEF TakeSnapshot, AttemptType
  <2>2. Promoted(ChannelOf[a.bundle])' = Promoted(ChannelOf[a.bundle])
    BY <2>1 DEF Promoted, OfChannel, Exists
  <2>3. VettedSoFar(p)'
    BY <1>3, <2>1, <2>2 DEF VettedSoFar, Promoting, OfChannel
  <2>4. Signed(p)'
    BY <1>3, <2>1 DEF Signed
  <2> QED BY <1>5, <2>1, <2>3, <2>4
<1>14. ASSUME NEW pc \in {"promoted", "failing"}, NEW why \in {"", "ack_lost"}, Finish(p, pc, why),
              pc = "failing" => why # "", a.pc = "locking", run' = run,
              StillTheCandidate(p), UniqueIndexHolds(Switched(p)), row' = Switched(p)
       PROVE  PInv'
  <2>1. /\ attempt'[p].pc = pc /\ attempt'[p].why = why /\ attempt'[p].bundle = a.bundle
        /\ VettedSoFar(p)'
    BY <1>7, <1>14 DEF Whys
  <2>2. run[p] = "RUNNING" /\ \A b \in Bundles : row[b].by # p
    <3>1. a.pc = "locking" /\ Signed(p)
      BY <1>3, <1>14
    <3> QED BY <3>1 DEF Signed
  <2>3. row'[a.bundle].by = p /\ \A b \in Bundles \ {a.bundle} : row'[b].by # p
    <3>1. /\ row'[a.bundle].by = p
          /\ \A b \in Bundles \ {a.bundle} : row'[b].by = row[b].by
      <4>1. PInv /\ a.pc = "locking" /\ StillTheCandidate(p)
            /\ UniqueIndexHolds(Switched(p)) /\ row' = Switched(p)
        BY <1>14
      <4>2. row'[a.bundle].by = p
        BY <4>1, SwitchEffect, Zenon
      <4>3. \A b \in Bundles \ {a.bundle} : row'[b].by = row[b].by
        BY <4>1, SwitchSignsOne DEF PInv, NInv
      <4> QED BY <4>2, <4>3
    <3> QED BY <2>2, <3>1
  <2>4. Signed(p)'
    BY <1>14, <2>1, <2>2, <2>3 DEF Signed
  <2> QED BY <1>6, <1>14, <2>1, <2>4
<1>15. CASE LockAndPromote(p)
  BY <1>8, <1>14, <1>15 DEF LockAndPromote, Whys, Promoting
<1>16. CASE CommitUnacknowledged(p)
  BY <1>14, <1>16 DEF CommitUnacknowledged
<1>17. CASE StepFails(p)
  BY <1>8, <1>17 DEF StepFails, Whys, Promoting
<1>18. CASE RecordOutcome(p)
  <2>1. /\ a.pc \in {"promoted", "failing"} /\ attempt'[p].pc = "done"
        /\ attempt'[p].bundle = a.bundle /\ attempt'[p].why = a.why
        /\ run'[p] = IF a.pc = "promoted" THEN "SUCCESS" ELSE "FAILED"
        /\ row' = row
    BY <1>2, <1>18 DEF RecordOutcome, AttemptType
  <2>2. VettedSoFar(p)'
    BY <2>1 DEF VettedSoFar, Promoting
  <2>3. Signed(p)'
    BY <1>3, <2>1 DEF Signed
  <2> QED BY <1>5, <2>1, <2>2, <2>3
<1>19. CASE Die(p)
  <2>1. a.why \in Whys
    BY <1>2 DEF AttemptType, Whys
  <2>2. /\ attempt'[p].pc = "done" /\ attempt'[p].why = a.why /\ attempt'[p].bundle = a.bundle
        /\ VettedSoFar(p)' /\ row' = row /\ run' = run /\ a.pc \notin {"idle", "done"}
    BY <1>7, <1>19, <2>1 DEF Die
  <2>3. Signed(p)'
    BY <1>3, <2>2 DEF Signed
  <2> QED BY <1>5, <2>2, <2>3
<1> QED BY <1>9, <1>10, <1>11, <1>12, <1>13, <1>15, <1>16, <1>17, <1>18, <1>19 DEF Promote

LEMMA PInvStep == PInv /\ [Next]_vars => PInv'
<1> SUFFICES ASSUME PInv, [Next]_vars PROVE PInv'
  OBVIOUS
<1>1. CASE UNCHANGED vars \/ EditPolicy
  <2>1. UNCHANGED <<row, training, lock, attempt, run>>
    BY <1>1 DEF vars, EditPolicy
  <2>2. NInv /\ NInv'
    BY NInvStep DEF PInv
  <2>3. \A p \in Attempts : VettedSoFar(p)' /\ Signed(p)'
    BY <2>1, <2>2, OthersKeepTheirView DEF PInv
  <2> QED BY <2>1, <2>2, <2>3 DEF PInv, UniqueIndexHolds, SignedRowsArePromoted
<1> QED BY <1>1, RegisterKeepsPInv, PromoteKeepsPInv DEF Next

THEOREM PromotionInvariant == Spec => []PInv
  BY PInvInit, PInvStep, PTL DEF Spec

\* However promotions interleave and wherever they fail, a channel has at
\* most one OPERATIONAL bundle.
THEOREM OneOperationalBundle == Spec => []AtMostOneOperational
<1>1. PInv => AtMostOneOperational
  <2> SUFFICES ASSUME PInv, NEW c \in Channels PROVE Cardinality(Operational(c)) <= 1
    BY DEF AtMostOneOperational
  <2>1. \A a, b \in Operational(c) : a = b
    BY DEF PInv, UniqueIndexHolds, Operational, OfChannel
  <2>2. CASE Operational(c) = {}
    BY <2>2, FS_EmptySet
  <2>3. CASE Operational(c) # {}
    <3>1. PICK b : b \in Operational(c)
      BY <2>3
    <3>2. Operational(c) = {b}
      BY <2>1, <3>1
    <3>3. Cardinality({b}) = 1
      BY FS_Singleton
    <3> QED BY <3>2, <3>3
  <2> QED BY <2>2, <2>3
<1> QED BY <1>1, PromotionInvariant, PTL

\* A run record says SUCCESS only of the attempt that switched the bundle,
\* and FAILED of a switched bundle only after a lost acknowledgement.
THEOREM RecordsTellPromotion == Spec => []RunTellsPromotion
<1>1. PInv => RunTellsPromotion
  <2> SUFFICES ASSUME PInv, NEW p \in Attempts
               PROVE  /\ run[p] = "SUCCESS" =>
                            /\ row[attempt[p].bundle].status \in {"OPERATIONAL", "RETIRED"}
                            /\ row[attempt[p].bundle].by = p
                      /\ (run[p] = "FAILED" /\ row[attempt[p].bundle].by = p)
                            => attempt[p].why = "ack_lost"
    BY DEF RunTellsPromotion
  <2>1. run[p] # "ABSENT" => attempt[p].bundle \in Bundles
    BY DEF PInv, Signed, NInv, AttemptsNameBundles
  <2>2. Signed(p) /\ SignedRowsArePromoted
    BY DEF PInv
  <2>3. ASSUME run[p] = "SUCCESS"
        PROVE  /\ row[attempt[p].bundle].by = p
               /\ row[attempt[p].bundle].status \in {"OPERATIONAL", "RETIRED"}
    <3>1. attempt[p].bundle \in Bundles /\ row[attempt[p].bundle].by = p
      BY <2>1, <2>2, <2>3 DEF Signed
    <3>2. row[attempt[p].bundle].by # None
      BY <3>1, BundlesAssumption
    <3> QED BY <2>2, <3>1, <3>2 DEF SignedRowsArePromoted
  <2>4. (run[p] = "FAILED" /\ row[attempt[p].bundle].by = p) => attempt[p].why = "ack_lost"
    BY <2>1, <2>2 DEF Signed
  <2> QED BY <2>3, <2>4
<1> QED BY <1>1, PromotionInvariant, PTL

\* What was read and verified transactions earlier still holds of the bundle
\* at the moment it becomes OPERATIONAL: it is complete, carries the policy
\* versions that were verified, and passed the gate unless its channel has
\* had an operational bundle.
THEOREM PromotionsAreVetted == Spec => EveryPromotionIsVetted
<1> DEFINE Vetted == \A b \in Bundles :
              (row[b].status # "OPERATIONAL" /\ row'[b].status = "OPERATIONAL") =>
                  /\ row[b].complete
                  /\ attempt[row'[b].by].seen = row[b].rules
                  /\ Promoted(ChannelOf[b]) = {} => row[b].gate
<1>1. PInv /\ [Next]_vars => [Vetted]_vars
  <2> SUFFICES ASSUME PInv, Next, NEW b \in Bundles,
                      row[b].status # "OPERATIONAL", row'[b].status = "OPERATIONAL"
               PROVE  /\ row[b].complete
                      /\ attempt[row'[b].by].seen = row[b].rules
                      /\ Promoted(ChannelOf[b]) = {} => row[b].gate
    OBVIOUS
  <2>1. PICK p \in Attempts : Promote(p)
    <3>1. ~EditPolicy
      BY DEF EditPolicy
    <3>2. \A d \in Bundles : ~Register(d)
      BY RegisterLeavesPromotions DEF PInv
    <3> QED BY <3>1, <3>2 DEF Next
  <2>2. /\ attempt[p].pc = "locking" /\ StillTheCandidate(p)
        /\ UniqueIndexHolds(Switched(p)) /\ row' = Switched(p)
    BY <2>1 DEF Promote, Begin, ReadCandidate, Verify, CheckGate, TakeSnapshot, LockAndPromote,
                CommitUnacknowledged, StepFails, RecordOutcome, Die, GiveUp, Proceed
  <2>3. /\ row'[attempt[p].bundle].by = p
        /\ row[attempt[p].bundle] = attempt[p].candidate
    BY <2>2, SwitchEffect
  <2>4. b = attempt[p].bundle
    <3>1. \A d \in Bundles \ {attempt[p].bundle} :
            row'[d].status # row[d].status => row'[d].status = "RETIRED"
      BY <2>2, SwitchEffect
    <3> QED BY <3>1
  <2>5. VettedSoFar(p)
    BY DEF PInv
  <2> QED BY <2>2, <2>3, <2>4, <2>5 DEF VettedSoFar, Promoting
<1>2. Spec => [][Vetted]_vars
  <2> HIDE DEF Vetted
  <2> QED BY <1>1, PromotionInvariant, PTL DEF Spec
<1> QED BY <1>2 DEF EveryPromotionIsVetted

-----------------------------------------------------------------------------
\* Every step is a step of RunRecords or leaves the run records alone: the
\* audit trail of promotions is written forward only.
THEOREM PromotionKeepsRunRecords == Spec => ImplementsRunRecords
<1>1. Init => Records!Init
  BY DEF Init, Records!Init
<1>2. PInv /\ [Next]_vars => [Records!Next]_run
  <2> SUFFICES ASSUME PInv, Next, run' # run PROVE Records!Next
    BY DEF vars
  <2>1. PICK p \in Attempts : Promote(p)
    <3>1. ~EditPolicy /\ \A b \in Bundles : ~Register(b)
      BY DEF EditPolicy, Register, Train, TakeLock, ReadMaxVersion, Insert, RegistrationLost
    <3> QED BY <3>1 DEF Next
  <2>2. Signed(p)
    BY DEF PInv
  <2>3. CASE \E b \in Bundles : Begin(p, b)
    <3>1. run[p] = "ABSENT" /\ run' = [run EXCEPT ![p] = "RUNNING"]
      BY <2>2, <2>3 DEF Begin, Signed
    <3>2. Records!Appear(p)
      BY <3>1 DEF Records!Appear, Records!Open
    <3> QED BY <3>2 DEF Records!Next
  <2>4. CASE RecordOutcome(p)
    <3>1. run[p] = "RUNNING" /\ \E s \in {"SUCCESS", "FAILED"} : run' = [run EXCEPT ![p] = s]
      BY <2>2, <2>4 DEF RecordOutcome, Signed
    <3>2. \E s \in Records!Terminal : Records!EndWith(p, s)
      BY <3>1 DEF Records!EndWith, Records!Open, Records!Terminal
    <3> QED BY <3>2 DEF Records!Next
  <2> QED BY <2>1, <2>3, <2>4 DEF Promote, ReadCandidate, Verify, CheckGate, TakeSnapshot,
             LockAndPromote, CommitUnacknowledged, StepFails, Die, GiveUp, Proceed
<1> QED BY <1>1, <1>2, PromotionInvariant, PTL DEF Spec, ImplementsRunRecords, Records!Spec

-----------------------------------------------------------------------------
(***************************************************************************)
(* Refinement of OperationalSwitch.  Only a committed switch changes who   *)
(* is OPERATIONAL or RETIRED, and it does both changes at once.            *)
(***************************************************************************)
StandingKept ==
    \A b \in Bundles : \A s \in {"OPERATIONAL", "RETIRED"} :
        row'[b].status = s <=> row[b].status = s

\* The filter on the rows that exist is idle for a row that is OPERATIONAL.
LEMMA OperationalRows ==
    \A c \in Channels :
        /\ Operational(c) = {b \in Bundles : ChannelOf[b] = c /\ row[b].status = "OPERATIONAL"}
        /\ Operational(c)' = {b \in Bundles : ChannelOf[b] = c /\ row'[b].status = "OPERATIONAL"}
  BY DEF Operational, OfChannel, Exists

LEMMA CurrentFollows ==
    \A c \in Channels : Operational(c)' = Operational(c) => CurrentOf(c)' = CurrentOf(c)
  BY DEF CurrentOf

LEMMA StandingKeptIsStutter ==
    ASSUME StandingKept PROVE Current' = Current /\ Retired' = Retired
<1>1. \A c \in Channels : Operational(c)' = Operational(c)
  BY OperationalRows DEF StandingKept
<1>2. Current' = Current
  BY <1>1, CurrentFollows DEF Current
<1>3. Retired' = Retired
  BY DEF StandingKept, Retired
<1> QED BY <1>2, <1>3

LEMMA CurrentIsOperational ==
    ASSUME PInv, NEW c \in Channels
    PROVE  /\ Operational(c) = {} => Current[c] = None
           /\ Operational(c) # {} => Operational(c) = {Current[c]}
<1>1. Operational(c) = {} => Current[c] = None
  BY DEF Current, CurrentOf
<1>2. ASSUME Operational(c) # {} PROVE Operational(c) = {Current[c]}
  <2>1. \A a, b \in Operational(c) : a = b
    BY DEF PInv, UniqueIndexHolds, Operational, OfChannel
  <2>2. Current[c] = CHOOSE b \in Bundles : b \in Operational(c)
    BY <1>2 DEF Current, CurrentOf
  <2>3. \E b \in Bundles : b \in Operational(c)
    BY <1>2 DEF Operational, OfChannel
  <2>4. Current[c] \in Operational(c)
    BY <2>2, <2>3
  <2> QED BY <2>1, <2>4
<1> QED BY <1>1, <1>2

LEMMA CommitIsSwitch ==
    ASSUME PInv, PInv', NEW p \in Attempts, attempt[p].pc = "locking",
           StillTheCandidate(p), UniqueIndexHolds(Switched(p)), row' = Switched(p),
           NEW b \in Bundles, b = attempt[p].bundle, NEW c \in Channels, c = ChannelOf[b]
    PROVE  Switch!Switch(c, b)
<1>1. /\ b \in Bundles /\ row[b].status = "CANDIDATE" /\ row'[b].status = "OPERATIONAL"
      /\ \A a \in Bundles \ {b} : row'[a].status # row[a].status =>
            /\ row[a].status = "OPERATIONAL" /\ row'[a].status = "RETIRED" /\ ChannelOf[a] = c
  BY SwitchEffect
<1>2. c \in Channels /\ ChannelOf[b] = c /\ b # None
  BY BundlesAssumption
<1>3. \A a \in Bundles \ {b} : ChannelOf[a] = c => row'[a].status # "OPERATIONAL"
  BY <1>1 DEF PInv, UniqueIndexHolds
<1>4. b \notin Retired /\ b \notin Operational(c)
  BY <1>1 DEF Retired, Operational
<1>5. Operational(c)' = {b}
  <2>1. Operational(c)' = {a \in Bundles : ChannelOf[a] = c /\ row'[a].status = "OPERATIONAL"}
    BY <1>2, OperationalRows
  <2> QED BY <1>1, <1>2, <1>3, <2>1
<1>6. \A d \in Channels \ {c} : Operational(d)' = Operational(d)
  <2> SUFFICES ASSUME NEW d \in Channels \ {c} PROVE Operational(d)' = Operational(d)
    OBVIOUS
  <2>1. \A a \in Bundles : ChannelOf[a] = d =>
          (row'[a].status = "OPERATIONAL" <=> row[a].status = "OPERATIONAL")
    BY <1>1, <1>2
  <2> QED BY <2>1, OperationalRows
<1>7. Retired' = Retired \cup Operational(c)
  <2>1. ASSUME NEW a \in Bundles
        PROVE  row'[a].status = "RETIRED" <=>
                   row[a].status = "RETIRED" \/ (ChannelOf[a] = c /\ row[a].status = "OPERATIONAL")
    BY <1>1, <1>3
  <2>2. \A a \in Bundles : a \in Operational(c) <=>
                               (ChannelOf[a] = c /\ row[a].status = "OPERATIONAL")
    BY DEF Operational, OfChannel, Exists
  <2>3. Operational(c) \subseteq Bundles
    BY DEF Operational, OfChannel
  <2> QED BY <2>1, <2>2, <2>3 DEF Retired
<1>8. None \notin Operational(c)
  BY BundlesAssumption DEF Operational, OfChannel
<1>9. Operational(c) = {Current[c]} \ {None}
  BY <1>2, <1>8, CurrentIsOperational
<1>10. Current' = [Current EXCEPT ![c] = b]
  <2>1. CurrentOf(c)' = b
    <3>1. CurrentOf(c)' = CHOOSE d \in Bundles : d \in {b}
      BY <1>5 DEF CurrentOf
    <3> QED BY <1>1, <3>1
  <2>2. \A d \in Channels \ {c} : CurrentOf(d)' = CurrentOf(d)
    BY <1>6, CurrentFollows
  <2> QED BY <1>2, <2>1, <2>2 DEF Current
<1>11. b \notin Retired \cup {Current[c]}
  BY <1>2, <1>4, <1>9
<1> QED BY <1>7, <1>9, <1>10, <1>11 DEF Switch!Switch

\* Every step of the tables and of the calls in progress is a switch of one
\* channel to a new bundle of its own, or invisible to scoring.
THEOREM PromotionImplementsSwitch == Spec => ImplementsSwitch
<1>1. Init => Switch!Init
  <2> SUFFICES ASSUME Init PROVE Switch!Init
    OBVIOUS
  <2>1. \A b \in Bundles : row[b].status = "ABSENT"
    BY DEF Init
  <2>2. Retired = {} /\ \A c \in Channels : Operational(c) = {}
    BY <2>1 DEF Retired, Operational, OfChannel
  <2> QED BY <2>2 DEF Switch!Init, Current, CurrentOf
<1>2. PInv /\ PInv' /\ [Next]_vars => [Switch!Next]_(Switch!vars)
  <2> SUFFICES ASSUME PInv, PInv', [Next]_vars
               PROVE  Switch!Next \/ UNCHANGED Switch!vars
    OBVIOUS
  <2>1. CASE StandingKept
    BY <2>1, StandingKeptIsStutter DEF Switch!vars
  <2>2. CASE ~StandingKept
    <3>1. row' # row
      BY <2>2 DEF StandingKept
    <3>2. PICK p \in Attempts : Promote(p)
      <4>1. ~EditPolicy /\ ~UNCHANGED vars
        BY <3>1 DEF EditPolicy, vars
      <4>2. \A b \in Bundles : ~Register(b)
        BY <2>2, RegisterLeavesPromotions DEF PInv, StandingKept
      <4> QED BY <4>1, <4>2 DEF Next
    <3>3. /\ attempt[p].pc = "locking" /\ StillTheCandidate(p)
          /\ UniqueIndexHolds(Switched(p)) /\ row' = Switched(p)
      BY <3>1, <3>2 DEF Promote, Begin, ReadCandidate, Verify, CheckGate, TakeSnapshot,
            LockAndPromote, CommitUnacknowledged, StepFails, RecordOutcome, Die, GiveUp, Proceed
    <3>4. attempt[p].bundle \in Bundles /\ ChannelOf[attempt[p].bundle] \in Channels
      BY <3>3, SwitchEffect, BundlesAssumption
    <3>5. \E c \in Channels, b \in Bundles : Switch!Switch(c, b)
      BY <3>3, <3>4, CommitIsSwitch
    <3> QED BY <3>5 DEF Switch!Next
  <2> QED BY <2>1, <2>2
<1> QED BY <1>1, <1>2, PromotionInvariant, PTL DEF Spec, ImplementsSwitch, Switch!Spec
=============================================================================
