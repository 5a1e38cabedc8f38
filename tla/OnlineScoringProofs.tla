------------------------ MODULE OnlineScoringProofs ------------------------
(***************************************************************************)
(* Theorems about OnlineScoring for any finite set of requests, any        *)
(* messages, any bounds of the pool, and any number of outages: the books  *)
(* of the connection pool, and what a decision saw of earlier ones.        *)
(***************************************************************************)
EXTENDS OnlineScoring, FiniteSetTheorems, TLAPS

-----------------------------------------------------------------------------
(* The pool's inductive invariant.  What is read and stored is opaque here. *)

Empty == {"idle", "replacing", "refused", "done"}
Busy  == {"ping", "ping again", "open", "reading", "persisting", "returning", "failing", "broken"}

\* The server's end of a connection lives or is cut.
Ends == BOOLEAN
Live == TRUE
Cut  == FALSE

WorkLike(x) == x \in [pc : Empty \cup Busy, conn : Ends \cup {None}, at : {x.at}, before : {x.before},
                      row : {x.row}, tries : {x.tries}]

TypeOK ==
    /\ up \in BOOLEAN /\ outages \in 0 .. MaxOutages
    /\ idle \in Seq(Ends) /\ used \in Nat /\ severed \in Nat /\ leaked \in Nat
    /\ DOMAIN work = Workers /\ \A w \in Workers : WorkLike(work[w])

\* The requests with a connection, those whose connection an outage has cut, and
\* the cut ones the pool would still hand out.
Held     == {r \in Requests : work[r].conn # None}
CutHeld  == {r \in Requests : work[r].conn = Cut}
Places(s, c) == {i \in DOMAIN s : s[i] = c}
CutIn(s) == Places(s, Cut)

\* Where a request is in its course tells whether it holds a connection.
Placed(r) == work[r].conn = None <=> work[r].pc \in Empty

\* The pool's books: what is borrowed, what it may still lend, and where the
\* connections are that outages have cut.
Balanced ==
    /\ used = Cardinality(Held) + leaked
    /\ used + Len(idle) <= MaxConn
    /\ leaked + Cardinality(CutIn(idle)) + Cardinality(CutHeld) <= severed

\* No connection outlives the server.
Severed == up = FALSE => /\ \A i \in DOMAIN idle : idle[i] = Cut
                         /\ \A r \in Requests : work[r].conn # Live

IInv == TypeOK /\ (\A r \in Requests : Placed(r)) /\ Balanced /\ Severed

-----------------------------------------------------------------------------
(* Counting connections.                                                    *)

LEMMA TwoEnds ==
    /\ Live \in Ends /\ Cut \in Ends /\ Live # Cut /\ Live # None /\ Cut # None /\ None \notin Ends
    /\ \A e \in Ends : e = Live \/ e = Cut
BY OnlineAssumption, Zenon DEF Live, Cut, Ends

LEMMA PlacesAreCounted ==
    ASSUME NEW S, NEW s \in Seq(S), NEW c
    PROVE  /\ IsFiniteSet(Places(s, c)) /\ Cardinality(Places(s, c)) \in Nat
           /\ Len(s) \in Nat /\ DOMAIN s = 1 .. Len(s)
<1>1. Len(s) \in Nat /\ DOMAIN s = 1 .. Len(s)
  OBVIOUS
<1>2. IsFiniteSet(1 .. Len(s)) /\ Places(s, c) \subseteq 1 .. Len(s)
  BY <1>1, FS_Interval DEF Places
<1> QED BY <1>1, <1>2, FS_Subset, FS_CardinalityType

LEMMA LastLent ==
    ASSUME NEW S, NEW s \in Seq(S), NEW c, s # <<>>
    PROVE  /\ Front(s) \in Seq(S) /\ Last(s) \in S
           /\ Len(Front(s)) = Len(s) - 1
           /\ Cardinality(Places(s, c)) = Cardinality(Places(Front(s), c)) + (IF Last(s) = c THEN 1 ELSE 0)
           /\ \A i \in DOMAIN Front(s) : i \in DOMAIN s /\ Front(s)[i] = s[i]
           /\ Len(s) \in DOMAIN s /\ Last(s) = s[Len(s)]
<1>1. PICK n \in Nat \ {0} : n = Len(s) /\ DOMAIN s = 1 .. n
  OBVIOUS
<1>2. /\ Front(s) \in Seq(S) /\ Len(Front(s)) = n - 1 /\ DOMAIN Front(s) = 1 .. n - 1
      /\ \A i \in 1 .. n - 1 : Front(s)[i] = s[i]
  BY <1>1 DEF Front
<1>3. Last(s) = s[n] /\ Last(s) \in S
  BY <1>1 DEF Last
<1>4. /\ IsFiniteSet(Places(Front(s), c)) /\ Cardinality(Places(Front(s), c)) \in Nat
      /\ n \notin Places(Front(s), c)
  <2>1. n \notin DOMAIN Front(s)
    BY <1>1, <1>2
  <2> QED BY <1>2, <2>1, PlacesAreCounted DEF Places
<1>5. CASE Last(s) = c
  <2>1. Places(s, c) = Places(Front(s), c) \cup {n}
    <3>1. \A i : i \in 1 .. n <=> i \in 1 .. n - 1 \/ i = n
      BY <1>1
    <3> QED BY <1>1, <1>2, <1>3, <1>5, <3>1, Zenon DEF Places
  <2>2. Cardinality(Places(s, c)) = Cardinality(Places(Front(s), c)) + 1
    BY <1>4, <2>1, FS_AddElement
  <2> QED BY <1>1, <1>2, <1>3, <1>5, <2>2
<1>6. CASE Last(s) # c
  <2>1. Places(s, c) = Places(Front(s), c)
    BY <1>1, <1>2, <1>3, <1>6 DEF Places
  <2> QED BY <1>1, <1>2, <1>3, <1>4, <1>6, <2>1
<1> QED BY <1>5, <1>6

LEMMA OneReturned ==
    ASSUME NEW S, NEW s \in Seq(S), NEW x \in S, NEW c
    PROVE  /\ Append(s, x) \in Seq(S) /\ Len(Append(s, x)) = Len(s) + 1
           /\ Cardinality(Places(Append(s, x), c)) = Cardinality(Places(s, c)) + (IF x = c THEN 1 ELSE 0)
           /\ \A i \in DOMAIN Append(s, x) : \/ i \in DOMAIN s /\ Append(s, x)[i] = s[i]
                                            \/ Append(s, x)[i] = x
<1>1. PICK n \in Nat : n = Len(s) + 1 /\ DOMAIN s = 1 .. n - 1 /\ n \notin 1 .. n - 1
  OBVIOUS
<1>2. PICK t \in Seq(S) : /\ t = Append(s, x) /\ Len(t) = n /\ DOMAIN t = 1 .. n
                          /\ \A i \in 1 .. n - 1 : t[i] = s[i]
                          /\ t[n] = x
  <2>1. Append(s, x) \in Seq(S) /\ Len(Append(s, x)) = Len(s) + 1
    OBVIOUS
  <2>2. Append(s, x)[Len(s) + 1] = x /\ \A i \in 1 .. Len(s) : Append(s, x)[i] = s[i]
    OBVIOUS
  <2>3. DOMAIN Append(s, x) = 1 .. Len(Append(s, x))
    BY <2>1
  <2>4. n = Len(Append(s, x)) /\ n - 1 = Len(s)
    BY <1>1, <2>1
  <2> QED BY <1>1, <2>1, <2>2, <2>3, <2>4, Zenon
<1>3. IsFiniteSet(Places(s, c)) /\ n \notin Places(s, c) /\ Cardinality(Places(s, c)) \in Nat
  BY <1>1, PlacesAreCounted DEF Places
<1>4. Cardinality(Places(t, c)) = Cardinality(Places(s, c)) + (IF x = c THEN 1 ELSE 0)
  <2>1. CASE x = c
    <3>1. Places(t, c) = Places(s, c) \cup {n}
      BY <1>1, <1>2, <2>1 DEF Places
    <3>2. Cardinality(Places(t, c)) = Cardinality(Places(s, c)) + 1
      BY <1>3, <3>1, FS_AddElement
    <3> QED BY <2>1, <3>2
  <2>2. CASE x # c
    <3>1. Places(t, c) = Places(s, c)
      BY <1>1, <1>2, <2>2 DEF Places
    <3> QED BY <1>3, <2>2, <3>1
  <2> QED BY <2>1, <2>2
<1>5. \A i \in DOMAIN t : (i \in DOMAIN s /\ t[i] = s[i]) \/ t[i] = x
  BY <1>1, <1>2
<1> QED BY <1>1, <1>2, <1>4, <1>5

\* Of two disjoint sets that make up a finite one.
LEMMA PartsAddUp ==
    ASSUME NEW S, NEW T, NEW U, IsFiniteSet(U), S \cup T = U, S \cap T = {}
    PROVE  /\ Cardinality(U) = Cardinality(S) + Cardinality(T)
           /\ Cardinality(S) \in Nat /\ Cardinality(T) \in Nat
<1>1. IsFiniteSet(S) /\ IsFiniteSet(T)
  BY FS_Subset
<1>2. /\ Cardinality(S \cup T) = Cardinality(S) + Cardinality(T) - Cardinality(S \cap T)
      /\ Cardinality(S) \in Nat /\ Cardinality(T) \in Nat
  BY <1>1, FS_Union, FS_CardinalityType
<1>3. Cardinality(S \cap T) = 0 /\ Cardinality(S \cup T) = Cardinality(U)
  BY FS_EmptySet, Zenon
<1>4. \A a, b \in Nat, d, e \in Int : d = a + b - e /\ e = 0 => d = a + b
  OBVIOUS
<1>5. Cardinality(U) \in Nat
  BY FS_CardinalityType
<1> QED BY <1>2, <1>3, <1>4, <1>5

LEMMA AllCut ==
    ASSUME NEW s \in Seq(Ends), NEW t, t = [i \in DOMAIN s |-> Cut]
    PROVE  /\ t \in Seq(Ends) /\ Len(t) = Len(s) /\ \A i \in DOMAIN t : t[i] = Cut
           /\ Cardinality(CutIn(t)) = Cardinality(Places(s, Live)) + Cardinality(CutIn(s))
           /\ Cardinality(Places(s, Live)) \in Nat /\ Cardinality(CutIn(s)) \in Nat
<1>1. /\ Len(s) \in Nat /\ DOMAIN s = 1 .. Len(s) /\ \A i \in DOMAIN s : s[i] \in Ends
      /\ t = [i \in 1 .. Len(s) |-> Cut]
  OBVIOUS
<1>2. t \in Seq(Ends) /\ Len(t) = Len(s) /\ DOMAIN t = DOMAIN s /\ \A i \in DOMAIN t : t[i] = Cut
  BY <1>1, TwoEnds
<1>3. CutIn(t) = DOMAIN s
  BY <1>2, Zenon DEF CutIn, Places
<1>4. Places(s, Live) \cup CutIn(s) = DOMAIN s /\ Places(s, Live) \cap CutIn(s) = {}
  BY <1>1, TwoEnds, Zenon DEF CutIn, Places
<1>5. IsFiniteSet(DOMAIN s)
  BY <1>1, FS_Interval
<1> QED BY <1>2, <1>3, <1>4, <1>5, PartsAddUp

\* The requests that hold a connection.
LEMMA Counts ==
    /\ IsFiniteSet(Held) /\ Cardinality(Held) \in Nat
    /\ IsFiniteSet(CutHeld) /\ Cardinality(CutHeld) \in Nat
    /\ MinConn \in Nat /\ MaxConn \in Nat
<1>1. Held \subseteq Requests /\ CutHeld \subseteq Requests /\ IsFiniteSet(Requests)
  BY OnlineAssumption DEF Held, CutHeld
<1>2. MinConn \in Nat /\ MaxConn \in Nat
  BY OnlineAssumption
<1> QED BY <1>1, <1>2, FS_Subset, FS_CardinalityType

-----------------------------------------------------------------------------
(* Steps of one worker.                                                     *)

LEMMA WorkTyped ==
    ASSUME TypeOK, NEW w \in Workers
    PROVE  /\ WorkLike(work[w])
           /\ work[w].conn \in Ends \cup {None} /\ work[w].pc \in Empty \cup Busy
<1>1. WorkLike(work[w])
  BY DEF TypeOK
<1> QED BY <1>1 DEF WorkLike

\* Where a request is in its course, and whether that is with a connection.
LEMMA Courses ==
    /\ \A p \in {"idle", "replacing", "refused", "done"} : p \in Empty /\ p \in Empty \cup Busy
    /\ \A p \in {"ping", "ping again", "open", "reading", "persisting", "returning", "failing", "broken"} :
          p \notin Empty /\ p \in Empty \cup Busy
BY DEF Empty, Busy

LEMMA OneWorker ==
    ASSUME TypeOK, NEW w \in Workers, NEW new, WorkLike(new), Set(w, new)
    PROVE  /\ DOMAIN work' = Workers /\ \A v \in Workers : WorkLike(work'[v])
           /\ work'[w] = new /\ \A v \in Workers \ {w} : work'[v] = work[v]
BY DEF TypeOK, Set

\* Who holds a connection after a step of one request.
LEMMA Holders ==
    ASSUME NEW r \in Requests, \A q \in Requests \ {r} : work'[q] = work[q]
    PROVE  /\ work'[r].conn = work[r].conn => Held' = Held /\ CutHeld' = CutHeld
           /\ work[r].conn = None /\ work'[r].conn # None =>
                 /\ Cardinality(Held') = Cardinality(Held) + 1
                 /\ Cardinality(CutHeld')
                      = Cardinality(CutHeld) + (IF work'[r].conn = Cut THEN 1 ELSE 0)
           /\ work[r].conn # None /\ work'[r].conn = None =>
                 /\ Cardinality(Held') = Cardinality(Held) - 1 /\ Cardinality(Held) >= 1
                 /\ Cardinality(CutHeld')
                      = Cardinality(CutHeld) - (IF work[r].conn = Cut THEN 1 ELSE 0)
                 /\ work[r].conn = Cut => Cardinality(CutHeld) >= 1
<1>1. None # Cut
  BY TwoEnds
<1>2. /\ Held' = IF work'[r].conn # None THEN Held \cup {r} ELSE Held \ {r}
      /\ CutHeld' = IF work'[r].conn = Cut THEN CutHeld \cup {r} ELSE CutHeld \ {r}
      /\ r \in Held <=> work[r].conn # None
      /\ r \in CutHeld <=> work[r].conn = Cut
  BY DEF Held, CutHeld
<1>3. CASE work'[r].conn = work[r].conn
  <2>1. Held' = Held /\ CutHeld' = CutHeld
    BY <1>2, <1>3
  <2> QED BY <1>3, <2>1
<1>4. CASE work[r].conn = None /\ work'[r].conn # None
  <2>1. r \notin Held /\ r \notin CutHeld
    BY <1>1, <1>2, <1>4
  <2>2. Held' = Held \cup {r}
    BY <1>2, <1>4
  <2>3. Cardinality(Held') = Cardinality(Held) + 1
    BY <2>1, <2>2, Counts, FS_AddElement
  <2>4. Cardinality(CutHeld') = Cardinality(CutHeld) + (IF work'[r].conn = Cut THEN 1 ELSE 0)
    <3>1. CASE work'[r].conn = Cut
      <4>1. CutHeld' = CutHeld \cup {r}
        BY <1>2, <3>1
      <4> QED BY <2>1, <3>1, <4>1, Counts, FS_AddElement
    <3>2. CASE work'[r].conn # Cut
      <4>1. CutHeld' = CutHeld
        BY <1>2, <2>1, <3>2
      <4>2. Cardinality(CutHeld') = Cardinality(CutHeld) /\ Cardinality(CutHeld) \in Nat
        BY <4>1, Counts, Zenon
      <4>3. (IF work'[r].conn = Cut THEN 1 ELSE 0) = 0
        BY <3>2, Zenon
      <4>4. Cardinality(CutHeld) = Cardinality(CutHeld) + 0
        BY <4>2
      <4> QED BY <4>2, <4>3, <4>4, Zenon
    <3> QED BY <3>1, <3>2
  <2> QED BY <1>4, <2>3, <2>4
<1>5. CASE work[r].conn # None /\ work'[r].conn = None
  <2>1. Held' = Held \ {r} /\ CutHeld' = CutHeld \ {r} /\ r \in Held
    BY <1>1, <1>2, <1>5
  <2>2. Cardinality(Held') = Cardinality(Held) - 1 /\ Cardinality(Held') \in Nat
    BY <2>1, Counts, FS_RemoveElement, FS_CardinalityType
  <2>3. /\ Cardinality(CutHeld') = Cardinality(CutHeld) - (IF work[r].conn = Cut THEN 1 ELSE 0)
        /\ Cardinality(CutHeld') \in Nat
    <3>1. Cardinality(CutHeld') = IF r \in CutHeld THEN Cardinality(CutHeld) - 1 ELSE Cardinality(CutHeld)
      BY <2>1, Counts, FS_RemoveElement
    <3>2. Cardinality(CutHeld') \in Nat
      BY <2>1, Counts, FS_RemoveElement, FS_CardinalityType
    <3> QED BY <1>2, <3>1, <3>2, Counts
  <2> QED BY <1>5, <2>2, <2>3, Counts
<1> QED BY <1>3, <1>4, <1>5

\* The types of the pool.
PoolOK == idle \in Seq(Ends) /\ used \in Nat /\ severed \in Nat /\ leaked \in Nat

LEMMA RequestStep ==
    ASSUME IInv, NEW r \in Requests, NEW new, WorkLike(new), Set(r, new), UNCHANGED server,
           new.conn = None <=> new.pc \in Empty, PoolOK', Balanced', Severed'
    PROVE  IInv'
<1>1. TypeOK /\ r \in Workers
  BY DEF IInv, Workers
<1>2. /\ DOMAIN work' = Workers /\ \A v \in Workers : WorkLike(work'[v])
      /\ work'[r] = new /\ \A v \in Workers \ {r} : work'[v] = work[v]
  BY <1>1, OneWorker
<1>3. TypeOK'
  BY <1>1, <1>2 DEF TypeOK, PoolOK, server, WorkLike
<1>4. \A q \in Requests : Placed(q)'
  <2>1. \A q \in Requests \ {r} : work'[q] = work[q]
    BY <1>2 DEF Workers
  <2> QED BY <1>2, <2>1 DEF IInv, Placed
<1> QED BY <1>3, <1>4 DEF IInv

\* A step that neither borrows nor returns.
LEMMA QuietStep ==
    ASSUME IInv, NEW w \in Workers, NEW new, WorkLike(new), Set(w, new), UNCHANGED <<server, pool>>,
           w \in Requests => /\ new.conn = work[w].conn
                             /\ new.conn = None <=> new.pc \in Empty
    PROVE  IInv'
<1>1. TypeOK /\ UNCHANGED <<up, outages, idle, used, severed, leaked>>
  BY DEF IInv, server, pool
<1>2. /\ DOMAIN work' = Workers /\ \A v \in Workers : WorkLike(work'[v])
      /\ work'[w] = new /\ \A v \in Workers \ {w} : work'[v] = work[v]
  BY <1>1, OneWorker
<1>3. TypeOK'
  BY <1>1, <1>2 DEF TypeOK, WorkLike
<1>4. \A q \in Requests : /\ work'[q].conn = work[q].conn
                          /\ Placed(q)'
  <2>1. ASSUME NEW q \in Requests PROVE work'[q].conn = work[q].conn /\ Placed(q)'
    <3>1. CASE q = w
      BY <1>2, <3>1 DEF Placed
    <3>2. CASE q # w
      BY <1>2, <3>2 DEF IInv, Placed, Workers
    <3> QED BY <3>1, <3>2
  <2> QED BY <2>1
<1>5. Held' = Held /\ CutHeld' = CutHeld
  BY <1>4 DEF Held, CutHeld
<1>6. Balanced'
  BY <1>1, <1>5 DEF IInv, Balanced, CutIn, Places
<1>7. Severed'
  BY <1>1, <1>4 DEF IInv, Severed
<1> QED BY <1>3, <1>4, <1>6, <1>7 DEF IInv

-----------------------------------------------------------------------------
(* The pool's operations.                                                   *)

\* What the books say, as numbers.
LEMMA Books ==
    ASSUME IInv
    PROVE  /\ idle \in Seq(Ends) /\ Len(idle) \in Nat /\ Cardinality(CutIn(idle)) \in Nat
           /\ Cardinality(Held) \in Nat /\ Cardinality(CutHeld) \in Nat
           /\ used \in Nat /\ severed \in Nat /\ leaked \in Nat /\ MinConn \in Nat /\ MaxConn \in Nat
           /\ used = Cardinality(Held) + leaked /\ used + Len(idle) <= MaxConn
           /\ leaked + Cardinality(CutIn(idle)) + Cardinality(CutHeld) <= severed
<1>1. idle \in Seq(Ends) /\ used \in Nat /\ severed \in Nat /\ leaked \in Nat /\ Balanced
  BY DEF IInv, TypeOK
<1>2. Len(idle) \in Nat /\ Cardinality(CutIn(idle)) \in Nat
  BY <1>1, PlacesAreCounted DEF CutIn
<1> QED BY <1>1, <1>2, Counts DEF Balanced

\* What the pool has lent, without the accounts of what outages have cut.
LEMMA Lent ==
    ASSUME IInv
    PROVE  /\ idle \in Seq(Ends) /\ Len(idle) \in Nat /\ Cardinality(Held) \in Nat
           /\ used \in Nat /\ severed \in Nat /\ leaked \in Nat /\ MaxConn \in Nat
           /\ used >= Cardinality(Held) /\ used + Len(idle) <= MaxConn
<1>1. /\ idle \in Seq(Ends) /\ Len(idle) \in Nat /\ Cardinality(Held) \in Nat
      /\ used \in Nat /\ severed \in Nat /\ leaked \in Nat /\ MaxConn \in Nat
      /\ used = Cardinality(Held) + leaked /\ used + Len(idle) <= MaxConn
  BY Books
<1> QED BY <1>1

\* A request that ends up with what it had changes no count.
LEMMA SameCounts ==
    ASSUME IInv, Held' = Held, CutHeld' = CutHeld, UNCHANGED <<idle, used, severed, leaked>>
    PROVE  PoolOK' /\ Balanced'
<1>1. PoolOK'
  BY DEF IInv, TypeOK, PoolOK
<1>2. Balanced'
  BY DEF IInv, Balanced, CutIn, Places
<1> QED BY <1>1, <1>2

LEMMA Lending ==
    ASSUME IInv, NEW r \in Requests, work[r].conn = None, \A q \in Requests \ {r} : work'[q] = work[q],
           NEW live \in Ends \cup {None}, GetConn(live), work'[r].conn = live,
           UNCHANGED <<up, severed, leaked>>
    PROVE  PoolOK' /\ Balanced' /\ Severed'
<1>1. CASE idle # <<>>
  <2>1. live = Last(idle) /\ idle' = Front(idle) /\ used' = used + 1
    BY <1>1 DEF GetConn
  <2>2. /\ idle' \in Seq(Ends) /\ live \in Ends /\ Len(idle') = Len(idle) - 1
        /\ Cardinality(CutIn(idle)) = Cardinality(CutIn(idle')) + (IF live = Cut THEN 1 ELSE 0)
        /\ \A i \in DOMAIN idle' : i \in DOMAIN idle /\ idle'[i] = idle[i]
        /\ Len(idle) \in DOMAIN idle /\ live = idle[Len(idle)]
    <3>1. idle \in Seq(Ends)
      BY Books
    <3>2. /\ Front(idle) \in Seq(Ends) /\ Last(idle) \in Ends
          /\ Len(Front(idle)) = Len(idle) - 1
          /\ Cardinality(CutIn(idle)) = Cardinality(CutIn(Front(idle))) + (IF Last(idle) = Cut THEN 1 ELSE 0)
          /\ \A i \in DOMAIN Front(idle) : i \in DOMAIN idle /\ Front(idle)[i] = idle[i]
          /\ Len(idle) \in DOMAIN idle /\ Last(idle) = idle[Len(idle)]
      <4>1. PICK s \in Seq(Ends) : s = idle /\ s # <<>>
        BY <1>1, <3>1
      <4>2. /\ Front(s) \in Seq(Ends) /\ Last(s) \in Ends /\ Len(Front(s)) = Len(s) - 1
            /\ \A i \in DOMAIN Front(s) : i \in DOMAIN s /\ Front(s)[i] = s[i]
            /\ Len(s) \in DOMAIN s /\ Last(s) = s[Len(s)]
        BY <4>1, LastLent
      <4>3. Cardinality(CutIn(s)) = Cardinality(CutIn(Front(s))) + (IF Last(s) = Cut THEN 1 ELSE 0)
        BY <4>1, LastLent DEF CutIn
      <4> QED BY <4>1, <4>2, <4>3
    <3> QED BY <2>1, <3>2, Zenon
  <2>3. live # None
    BY <2>2, TwoEnds
  <2>4. /\ Cardinality(Held') = Cardinality(Held) + 1
        /\ Cardinality(CutHeld') = Cardinality(CutHeld) + (IF live = Cut THEN 1 ELSE 0)
    BY <2>3, Holders
  <2>5. Cardinality(CutIn(idle')) \in Nat
    BY <2>2, PlacesAreCounted DEF CutIn
  <2>6. Cardinality(CutIn(idle')) + Cardinality(CutHeld') = Cardinality(CutIn(idle)) + Cardinality(CutHeld)
    <3>1. CASE live = Cut
      BY <2>2, <2>4, <2>5, <3>1, Books
    <3>2. CASE live # Cut
      BY <2>2, <2>4, <2>5, <3>2, Books
    <3> QED BY <3>1, <3>2
  <2>7. Balanced'
    <3>1. /\ used' = used + 1 /\ leaked' = leaked /\ severed' = severed
          /\ Len(idle') = Len(idle) - 1 /\ Cardinality(Held') = Cardinality(Held) + 1
      BY <2>1, <2>2, <2>4
    <3>2. Cardinality(CutHeld') \in Nat
      BY <2>4, Books
    <3>3. used' = Cardinality(Held') + leaked'
      BY <2>5, <2>6, <3>1, <3>2, Books
    <3>4. used' + Len(idle') <= MaxConn
      BY <3>1, Lent
    <3>5. leaked' + Cardinality(CutIn(idle')) + Cardinality(CutHeld') <= severed'
      <4>1. /\ leaked \in Nat /\ severed \in Nat
            /\ Cardinality(CutIn(idle)) \in Nat /\ Cardinality(CutHeld) \in Nat
            /\ leaked + Cardinality(CutIn(idle)) + Cardinality(CutHeld) <= severed
        BY Books
      <4>2. leaked' = leaked /\ severed' = severed
        BY <3>1
      <4> QED BY <2>5, <2>6, <3>2, <4>1, <4>2
    <3> QED BY <3>3, <3>4, <3>5 DEF Balanced
  <2>8. PoolOK'
    <3>1. idle' \in Seq(Ends) /\ used' = used + 1
      BY <2>1, <2>2
    <3> QED BY <3>1, Lent DEF PoolOK
  <2>9. Severed'
    <3>1. SUFFICES ASSUME up = FALSE
                   PROVE  /\ \A i \in DOMAIN idle' : idle'[i] = Cut
                          /\ \A q \in Requests : work'[q].conn # Live
      BY DEF Severed
    <3>2. (\A i \in DOMAIN idle : idle[i] = Cut) /\ \A q \in Requests : work[q].conn # Live
      BY <3>1 DEF IInv, Severed
    <3>3. live = Cut
      BY <2>2, <3>2, Zenon
    <3>4. \A q \in Requests : work'[q].conn # Live
      BY <3>2, <3>3, TwoEnds
    <3> QED BY <2>2, <3>2, <3>4
  <2> QED BY <2>7, <2>8, <2>9
<1>2. CASE idle = <<>> /\ used < MaxConn /\ up
  <2>1. live = Live /\ used' = used + 1 /\ idle' = idle
    BY <1>2, Zenon DEF GetConn, Live
  <2>2. Live # None /\ Live # Cut
    BY TwoEnds
  <2>3. /\ Cardinality(Held') = Cardinality(Held) + 1
        /\ Cardinality(CutHeld') = Cardinality(CutHeld) + (IF live = Cut THEN 1 ELSE 0)
    BY <2>1, <2>2, Holders
  <2>4. Cardinality(CutHeld') = Cardinality(CutHeld) + 0
    BY <2>1, <2>2, <2>3
  <2>5. Len(idle) = 0 /\ CutIn(idle') = CutIn(idle) /\ Len(idle') = Len(idle)
    BY <1>2, <2>1
  <2>6. Balanced'
    BY <1>2, <2>1, <2>3, <2>4, <2>5, Books DEF Balanced
  <2>7. PoolOK'
    BY <2>1, Books DEF PoolOK
  <2>8. Severed'
    BY <1>2, Zenon DEF Severed
  <2> QED BY <2>6, <2>7, <2>8
<1>3. CASE idle = <<>> /\ ~ (used < MaxConn /\ up)
  <2>1. live = None /\ UNCHANGED <<idle, used>>
    BY <1>3 DEF GetConn
  <2>2. Held' = Held /\ CutHeld' = CutHeld
    BY <2>1, Holders
  <2>3. Live # None
    BY TwoEnds
  <2>4. Severed'
    BY <2>1, <2>3 DEF IInv, Severed
  <2> QED BY <2>1, <2>2, <2>4, SameCounts
<1> QED BY <1>1, <1>2, <1>3

\* A request whose connection does not work has one that an outage has cut.
LEMMA BrokenIsCut ==
    ASSUME IInv, NEW r \in Requests, work[r].conn # None, ~ Works(r)
    PROVE  work[r].conn = Cut
<1>1. work[r].conn \in Ends /\ up \in BOOLEAN
  BY WorkTyped DEF IInv, TypeOK, Workers
<1>2. CASE up = FALSE
  BY <1>1, <1>2, TwoEnds DEF IInv, Severed
<1>3. CASE up = TRUE
  <2>1. work[r].conn # TRUE
    BY <1>3, Zenon DEF Works
  <2> QED BY <1>1, <2>1, TwoEnds DEF Live
<1> QED BY <1>1, <1>2, <1>3, Zenon

\* A connection that leaves its request for good: closed, or lost once it is cut.
LEMMA Ending ==
    ASSUME IInv, NEW r \in Requests, work[r].conn # None, \A q \in Requests \ {r} : work'[q] = work[q],
           work'[r].conn = None, up' = up, idle' = idle, severed' = severed,
           \/ used' = used - 1 /\ leaked' = leaked
           \/ used' = used /\ leaked' = leaked + 1 /\ work[r].conn = Cut
    PROVE  PoolOK' /\ Balanced' /\ Severed'
<1>1. /\ Cardinality(Held') = Cardinality(Held) - 1 /\ Cardinality(Held) >= 1
      /\ Cardinality(CutHeld') = Cardinality(CutHeld) - (IF work[r].conn = Cut THEN 1 ELSE 0)
      /\ work[r].conn = Cut => Cardinality(CutHeld) >= 1
  BY Holders
<1>2. Cardinality(Held') \in Nat /\ Cardinality(CutHeld') \in Nat
  <2>1. Cardinality(Held) \in Nat /\ Cardinality(CutHeld) \in Nat
    BY Books
  <2> HIDE DEF Held, CutHeld
  <2> QED BY <1>1, <2>1
<1>3. PoolOK'
  <2>1. used - 1 \in Nat /\ used \in Nat /\ leaked \in Nat /\ leaked + 1 \in Nat
    BY <1>1, Lent
  <2>2. idle' \in Seq(Ends) /\ severed' \in Nat
    BY Lent
  <2> QED BY <2>1, <2>2 DEF PoolOK
<1>4. used' = Cardinality(Held') + leaked' /\ used' <= used
  <2>1. used = Cardinality(Held) + leaked /\ used \in Nat /\ leaked \in Nat /\ Cardinality(Held) \in Nat
    BY Books
  <2>2. Cardinality(Held') = Cardinality(Held) - 1
    BY <1>1
  <2>3. CASE used' = used - 1 /\ leaked' = leaked
    BY <2>1, <2>2, <2>3
  <2>4. CASE used' = used /\ leaked' = leaked + 1
    BY <2>1, <2>2, <2>4
  <2> QED BY <2>3, <2>4
<1>5. used' + Len(idle') <= MaxConn
  <2>1. used' \in Nat /\ Len(idle') = Len(idle)
    BY <1>3 DEF PoolOK
  <2> QED BY <1>4, <2>1, Lent
<1>6. leaked' + Cardinality(CutIn(idle')) + Cardinality(CutHeld') <= severed'
  <2>1. CASE work[r].conn = Cut
    <3>1. Cardinality(CutHeld') = Cardinality(CutHeld) - 1 /\ leaked' \in {leaked, leaked + 1}
      BY <1>1, <2>1
    <3> QED BY <1>2, <3>1, Books
  <2>2. CASE work[r].conn # Cut
    <3>1. Cardinality(CutHeld') = Cardinality(CutHeld) - 0 /\ leaked' = leaked
      BY <1>1, <2>2
    <3> QED BY <1>2, <3>1, Books
  <2> QED BY <2>1, <2>2
<1>7. Balanced'
  BY <1>4, <1>5, <1>6 DEF Balanced
<1>8. Severed'
  BY TwoEnds DEF IInv, Severed
<1> QED BY <1>3, <1>7, <1>8

\* From a request to the pool, cut or not.
LEMMA Moved ==
    ASSUME IInv, Cardinality(Held') = Cardinality(Held) - 1, Len(idle') = Len(idle) + 1, used' = used - 1,
           leaked' = leaked, severed' = severed,
           Cardinality(CutIn(idle')) \in Nat, Cardinality(CutHeld') \in Nat,
           Cardinality(CutIn(idle')) + Cardinality(CutHeld')
             = Cardinality(CutIn(idle)) + Cardinality(CutHeld)
    PROVE  Balanced'
<1>1. /\ used = Cardinality(Held) + leaked /\ used \in Nat /\ leaked \in Nat /\ Cardinality(Held) \in Nat
      /\ used + Len(idle) <= MaxConn /\ Len(idle) \in Nat /\ MaxConn \in Nat /\ severed \in Nat
      /\ Cardinality(CutIn(idle)) \in Nat /\ Cardinality(CutHeld) \in Nat
      /\ leaked + Cardinality(CutIn(idle)) + Cardinality(CutHeld) <= severed
  BY Books
<1>2. used' = Cardinality(Held') + leaked'
  BY <1>1
<1>3. used' + Len(idle') <= MaxConn
  BY <1>1
<1>4. leaked' + Cardinality(CutIn(idle')) + Cardinality(CutHeld') <= severed'
  <2>1. PICK x \in Nat, y \in Nat : x = Cardinality(CutIn(idle')) /\ y = Cardinality(CutHeld')
    OBVIOUS
  <2>2. PICK b \in Nat, c \in Nat : b = Cardinality(CutIn(idle)) /\ c = Cardinality(CutHeld)
    BY <1>1
  <2>3. PICK a \in Nat, s \in Nat : a = leaked /\ s = severed
    BY <1>1
  <2>4. x + y = b + c /\ a + b + c <= s
    BY <1>1, <2>1, <2>2, <2>3
  <2>5. a + x + y <= s
    BY <2>4
  <2>6. leaked' = a /\ severed' = s
    BY <2>3
  <2> QED BY <2>1, <2>5, <2>6
<1> QED BY <1>2, <1>3, <1>4 DEF Balanced

\* A connection the pool keeps.
LEMMA Keeping ==
    ASSUME IInv, NEW r \in Requests, work[r].conn # None, \A q \in Requests \ {r} : work'[q] = work[q],
           work'[r].conn = None, up' = up, leaked' = leaked, severed' = severed,
           idle' = Append(idle, work[r].conn), used' = used - 1
    PROVE  PoolOK' /\ Balanced' /\ Severed'
<1>1. /\ Cardinality(Held') = Cardinality(Held) - 1 /\ Cardinality(Held) >= 1
      /\ Cardinality(CutHeld') = Cardinality(CutHeld) - (IF work[r].conn = Cut THEN 1 ELSE 0)
  BY Holders
<1>2. work[r].conn \in Ends
  BY WorkTyped DEF IInv, Workers
<1>3. /\ idle' \in Seq(Ends) /\ Len(idle') = Len(idle) + 1
      /\ Cardinality(CutIn(idle')) = Cardinality(CutIn(idle)) + (IF work[r].conn = Cut THEN 1 ELSE 0)
      /\ \A i \in DOMAIN idle' : \/ i \in DOMAIN idle /\ idle'[i] = idle[i]
                                 \/ idle'[i] = work[r].conn
  <2>1. idle \in Seq(Ends)
    BY Books
  <2>2. PICK x \in Ends : x = work[r].conn
    BY <1>2
  <2>3. /\ Append(idle, x) \in Seq(Ends) /\ Len(Append(idle, x)) = Len(idle) + 1
        /\ Cardinality(CutIn(Append(idle, x))) = Cardinality(CutIn(idle)) + (IF x = Cut THEN 1 ELSE 0)
        /\ \A i \in DOMAIN Append(idle, x) : \/ i \in DOMAIN idle /\ Append(idle, x)[i] = idle[i]
                                             \/ Append(idle, x)[i] = x
    BY <2>1, OneReturned DEF CutIn
  <2> QED BY <2>2, <2>3, Zenon
<1>4. Cardinality(CutIn(idle')) + Cardinality(CutHeld') = Cardinality(CutIn(idle)) + Cardinality(CutHeld)
  <2>1. CASE work[r].conn = Cut
    <3>1. /\ Cardinality(CutIn(idle')) = Cardinality(CutIn(idle)) + 1
          /\ Cardinality(CutHeld') = Cardinality(CutHeld) - 1
      BY <1>1, <1>3, <2>1
    <3> QED BY <3>1, Books
  <2>2. CASE work[r].conn # Cut
    <3>1. /\ Cardinality(CutIn(idle')) = Cardinality(CutIn(idle)) + 0
          /\ Cardinality(CutHeld') = Cardinality(CutHeld) - 0
      BY <1>1, <1>3, <2>2
    <3> QED BY <3>1, Books
  <2> QED BY <2>1, <2>2
<1>5. Cardinality(CutIn(idle')) \in Nat /\ Cardinality(CutHeld') \in Nat
  <2>1. idle' \in Seq(Ends)
    BY <1>3
  <2>2. Cardinality(CutIn(idle')) \in Nat
    BY <2>1, PlacesAreCounted DEF CutIn
  <2>3. CutHeld' \subseteq Held \cup CutHeld \cup {r}
    BY DEF CutHeld, Held
  <2> QED BY <2>2, <2>3, Counts, FS_Subset, FS_CardinalityType, FS_AddElement, FS_Union
<1>6. Cardinality(Held') = Cardinality(Held) - 1 /\ Cardinality(Held) >= 1 /\ Len(idle') = Len(idle) + 1
  BY <1>1, <1>3
<1>7. PoolOK'
  <2>1. idle' \in Seq(Ends)
    BY <1>3
  <2>2. used' \in Nat
    BY <1>6, Lent
  <2> QED BY <2>1, <2>2, Lent DEF PoolOK
<1>8. Balanced'
  BY <1>4, <1>5, <1>6, Moved
<1>9. Severed'
  <2>1. SUFFICES ASSUME up = FALSE
                 PROVE  /\ \A i \in DOMAIN idle' : idle'[i] = Cut
                        /\ \A q \in Requests : work'[q].conn # Live
    BY DEF Severed
  <2>2. (\A i \in DOMAIN idle : idle[i] = Cut) /\ \A q \in Requests : work[q].conn # Live
    BY <2>1 DEF IInv, Severed
  <2>3. work[r].conn = Cut /\ Live # None
    BY <1>2, <2>2, TwoEnds
  <2> QED BY <1>3, <2>2, <2>3, Zenon
<1> QED BY <1>7, <1>8, <1>9

\* putconn closes, keeps or loses a connection.
LEMMA Returning ==
    ASSUME IInv, NEW r \in Requests, work[r].conn # None, \A q \in Requests \ {r} : work'[q] = work[q],
           work'[r].conn = None, UNCHANGED <<up, severed>>, GivesBack(r)
    PROVE  PoolOK' /\ Balanced' /\ Severed'
<1>1. \/ used' = used - 1 /\ UNCHANGED <<idle, leaked>>
      \/ leaked' = leaked + 1 /\ UNCHANGED <<idle, used>> /\ ~ Works(r)
      \/ idle' = Append(idle, work[r].conn) /\ used' = used - 1 /\ UNCHANGED leaked
  BY DEF GivesBack, PutConn
<1> QED BY <1>1, BrokenIsCut, Ending, Keeping

-----------------------------------------------------------------------------
(* One lemma for each action.                                               *)

LEMMA RequestTyped ==
    ASSUME IInv, NEW r \in Requests
    PROVE  /\ WorkLike(work[r])
           /\ work[r].conn = None <=> work[r].pc \in Empty
           /\ r \in Workers /\ DOMAIN work = Workers
           /\ work[r].conn \in Ends \cup {None}
<1>1. r \in Workers /\ TypeOK /\ Placed(r)
  BY DEF IInv, Workers
<1> QED BY <1>1, WorkTyped DEF Placed, TypeOK

\* A step of one request leaves the others theirs.
LEMMA OneRequest ==
    ASSUME IInv, NEW r \in Requests, NEW new, Set(r, new)
    PROVE  work'[r] = new /\ \A q \in Requests \ {r} : work'[q] = work[q]
BY RequestTyped DEF Set, Workers

LEMMA OutageKeeps ==
    ASSUME IInv, Outage
    PROVE  IInv'
<1> DEFINE Open == {w \in Holding \cap Requests : work[w].conn}
<1>1. TypeOK /\ up' = FALSE /\ outages' \in 0 .. MaxOutages /\ UNCHANGED <<used, leaked>>
  BY OnlineAssumption DEF IInv, TypeOK, Outage
<1>2. severed' = severed + Cardinality(Places(idle, Live)) + Cardinality(Open)
  <2>1. Places(idle, Live) = {i \in DOMAIN idle : idle[i]}
    <3>1. \A i \in DOMAIN idle : idle[i] \in BOOLEAN
      BY <1>1 DEF TypeOK, Ends
    <3> QED BY <3>1, Zenon DEF Places, Live
  <2>2. severed' = severed + Cardinality({i \in DOMAIN idle : idle[i]}) + Cardinality(Open)
    BY Zenon DEF Outage
  <2> QED BY <2>1, <2>2, Zenon
<1>3. idle' = [i \in DOMAIN idle |-> Cut]
  BY Zenon DEF Outage, Cut
<1>4. /\ DOMAIN work' = Workers
      /\ \A w \in Workers : work'[w] = IF w \in Holding THEN [work[w] EXCEPT !.conn = Cut] ELSE work[w]
  BY Zenon DEF Outage, Cut
<1>5. /\ idle' \in Seq(Ends) /\ Len(idle') = Len(idle) /\ \A i \in DOMAIN idle' : idle'[i] = Cut
      /\ Cardinality(CutIn(idle')) = Cardinality(Places(idle, Live)) + Cardinality(CutIn(idle))
      /\ Cardinality(Places(idle, Live)) \in Nat
  BY <1>1, <1>3, AllCut DEF TypeOK
<1>6. ASSUME NEW w \in Workers
      PROVE  /\ WorkLike(work'[w]) /\ work'[w].pc = work[w].pc
             /\ work[w].conn = None => work'[w].conn = None
             /\ work[w].conn # None => work'[w].conn = Cut
  <2>1. WorkLike(work[w]) /\ Cut \in Ends \cup {None}
    BY <1>1, TwoEnds, WorkTyped
  <2>2. CASE w \in Holding
    <3>1. work'[w] = [work[w] EXCEPT !.conn = Cut] /\ work[w].conn # None
      BY <1>4, <2>2 DEF Holding
    <3> QED BY <2>1, <3>1 DEF WorkLike
  <2>3. CASE w \notin Holding
    BY <1>4, <2>1, <2>3 DEF Holding
  <2> QED BY <2>2, <2>3
<1>7. Held' = Held /\ CutHeld' = Held
  BY <1>6, TwoEnds DEF Held, CutHeld, Workers
<1>8. Open \cup CutHeld = Held /\ Open \cap CutHeld = {}
  <2>1. \A r \in Requests : work[r].conn # None => work[r].conn \in BOOLEAN
    BY <1>1, WorkTyped DEF Workers, Ends
  <2>2. Cut # None
    BY TwoEnds
  <2>3. Cut = FALSE
    BY DEF Cut
  <2> QED BY <2>1, <2>2, <2>3, Zenon DEF Held, CutHeld, Holding, Workers
<1> HIDE DEF Open
<1>9. /\ Cardinality(Held) = Cardinality(Open) + Cardinality(CutHeld)
      /\ Cardinality(Open) \in Nat /\ Cardinality(CutHeld) \in Nat
  BY <1>8, Counts, PartsAddUp
<1>10. Balanced'
  <2>1. used' = Cardinality(Held') + leaked' /\ used' + Len(idle') <= MaxConn
    BY <1>1, <1>5, <1>7, Books
  <2>2. PICK a \in Nat, b \in Nat : a = Cardinality(Places(idle, Live)) /\ b = Cardinality(Open)
    BY <1>5, <1>9
  <2>3. PICK c \in Nat, d \in Nat : c = Cardinality(CutIn(idle)) /\ d = Cardinality(CutHeld)
    BY <1>9, Books
  <2>4. PICK s \in Nat, l \in Nat : s = severed /\ l = leaked
    BY Books
  <2>5. l + c + d <= s
    BY <2>3, <2>4, Books
  <2>6. severed' = s + a + b /\ leaked' = l
    BY <1>1, <1>2, <2>2, <2>4
  <2>7. Cardinality(CutIn(idle')) = a + c /\ Cardinality(CutHeld') = b + d
    BY <1>5, <1>7, <1>9, <2>2, <2>3
  <2>8. l + (a + c) + (b + d) <= s + a + b
    BY <2>5
  <2>9. leaked' + Cardinality(CutIn(idle')) + Cardinality(CutHeld') <= severed'
    BY <2>6, <2>7, <2>8
  <2> QED BY <2>1, <2>9 DEF Balanced
<1>11. TypeOK'
  <2>1. severed' \in Nat
    <3>1. severed \in Nat
      BY Books
    <3> QED BY <1>2, <1>5, <1>9, <3>1
  <2>2. up' \in BOOLEAN
    BY <1>1, Zenon
  <2>3. \A w \in Workers : WorkLike(work'[w])
    BY <1>6
  <2> QED BY <1>1, <1>4, <1>5, <2>1, <2>2, <2>3 DEF TypeOK, WorkLike
<1>12. \A r \in Requests : Placed(r)'
  BY <1>6, RequestTyped, TwoEnds DEF Placed
<1>13. Severed'
  BY <1>5, <1>6, TwoEnds DEF Severed, Workers
<1> QED BY <1>10, <1>11, <1>12, <1>13 DEF IInv

LEMMA RecoverKeeps ==
    ASSUME IInv, Recover
    PROVE  IInv'
<1>1. up' = TRUE /\ UNCHANGED <<outages, idle, used, severed, leaked, work>>
  BY DEF Recover, pool
<1>2. up' \in BOOLEAN /\ ~ (up' = FALSE)
  BY <1>1, Zenon
<1>3. TypeOK'
  BY <1>1, <1>2 DEF IInv, TypeOK, WorkLike
<1>4. Balanced'
  BY <1>1 DEF IInv, Balanced, Held, CutHeld, CutIn, Places
<1>5. Severed'
  BY <1>2, Zenon DEF Severed
<1>6. \A r \in Requests : Placed(r)'
  BY <1>1 DEF IInv, Placed
<1> QED BY <1>3, <1>4, <1>5, <1>6 DEF IInv

\* getconn, before the ping and again after a failed one.
LEMMA BorrowKeeps ==
    ASSUME IInv, NEW r \in Requests, work[r].conn = None, NEW live \in Ends \cup {None}, GetConn(live),
           NEW pc \in Busy,
           Set(r, [work[r] EXCEPT !.conn = live, !.pc = IF live = None THEN "refused" ELSE pc]),
           UNCHANGED <<server, severed, leaked>>
    PROVE  IInv'
<1> DEFINE next == IF live = None THEN "refused" ELSE pc
           new  == [[work[r] EXCEPT !.conn = live] EXCEPT !.pc = next]
<1>1. next \in Empty \cup Busy /\ (live = None <=> next \in Empty)
  BY DEF Empty, Busy
<1> HIDE DEF next
<1>2. WorkLike(new) /\ new.conn = live /\ new.pc = next
  <2>1. WorkLike(work[r])
    BY RequestTyped
  <2> QED BY <1>1, <2>1 DEF WorkLike
<1>3. Set(r, new)
  BY DEF Set, next
<1> HIDE DEF new
<1>4. work'[r] = new /\ \A q \in Requests \ {r} : work'[q] = work[q]
  BY <1>3, OneRequest
<1>5. PoolOK' /\ Balanced' /\ Severed'
  BY <1>2, <1>4, Lending DEF server
<1> QED BY <1>1, <1>2, <1>3, <1>5, RequestStep

LEMMA ThreeAnswers == {TRUE, FALSE, None} = Ends \cup {None}
BY Zenon DEF Ends

LEMMA CallKeeps ==
    ASSUME IInv, NEW r \in Requests, Call(r)
    PROVE  IInv'
<1>1. work[r].pc = "idle" /\ UNCHANGED <<server, severed, leaked>>
  BY DEF Call
<1>2. work[r].conn = None
  BY <1>1, RequestTyped, Courses
<1>3. CASE r \in Scores /\ ~ model
  <2> DEFINE new == [work[r] EXCEPT !.pc = "refused"]
  <2>1. Set(r, new) /\ UNCHANGED <<idle, used>>
    BY <1>3, Zenon DEF Call, Goes
  <2>2. WorkLike(work[r]) /\ r \in Workers
    BY RequestTyped
  <2>3. WorkLike(new) /\ new.pc = "refused" /\ new.conn = work[r].conn
    BY <2>2, Courses DEF WorkLike
  <2> HIDE DEF new
  <2> QED BY <1>1, <1>2, <2>1, <2>2, <2>3, Courses, QuietStep DEF pool
<1>4. CASE ~ (r \in Scores /\ ~ model)
  <2>1. PICK live \in {TRUE, FALSE, None} :
           /\ GetConn(live)
           /\ Set(r, [work[r] EXCEPT !.conn = live, !.pc = IF live = None THEN "refused" ELSE "ping"])
    BY <1>4, Zenon DEF Call
  <2>2. live \in Ends \cup {None} /\ "ping" \in Busy
    BY ThreeAnswers DEF Busy
  <2> QED BY <1>1, <1>2, <2>1, <2>2, BorrowKeeps
<1> QED BY <1>3, <1>4

LEMMA ReplaceKeeps ==
    ASSUME IInv, NEW r \in Requests, Replace(r)
    PROVE  IInv'
<1>1. work[r].pc = "replacing" /\ UNCHANGED <<server, severed, leaked>>
  BY DEF Replace
<1>2. work[r].conn = None
  BY <1>1, RequestTyped, Courses
<1>3. PICK live \in {TRUE, FALSE, None} :
         /\ GetConn(live)
         /\ Set(r, [work[r] EXCEPT !.conn = live, !.pc = IF live = None THEN "refused" ELSE "ping again"])
  BY DEF Replace
<1>4. live \in Ends \cup {None} /\ "ping again" \in Busy
  BY ThreeAnswers DEF Busy
<1> QED BY <1>1, <1>2, <1>3, <1>4, BorrowKeeps

\* A request that stays where it is with its connection.
LEMMA AdvanceKeeps ==
    ASSUME IInv, NEW r \in Requests, work[r].pc \in Busy, NEW pc \in Busy, Goes(r, pc),
           UNCHANGED <<server, pool>>
    PROVE  IInv'
<1>1. pc \in Empty \cup Busy /\ pc \notin Empty /\ work[r].pc \notin Empty
  BY DEF Empty, Busy
<1>2. work[r].conn # None /\ WorkLike(work[r]) /\ r \in Workers
  BY <1>1, RequestTyped
<1>3. /\ WorkLike([work[r] EXCEPT !.pc = pc]) /\ [work[r] EXCEPT !.pc = pc].pc = pc
      /\ [work[r] EXCEPT !.pc = pc].conn = work[r].conn
  BY <1>1, <1>2 DEF WorkLike
<1>4. Set(r, [work[r] EXCEPT !.pc = pc])
  BY DEF Goes
<1> QED BY <1>1, <1>2, <1>3, <1>4, QuietStep

\* A request that lets its connection go.
LEMMA LeaveKeeps ==
    ASSUME IInv, NEW r \in Requests, work[r].pc \in Busy, NEW pc \in Empty,
           Set(r, [work[r] EXCEPT !.conn = None, !.pc = pc]), UNCHANGED <<server, severed>>,
           \/ used' = used - 1 /\ UNCHANGED <<idle, leaked>>
           \/ leaked' = leaked + 1 /\ UNCHANGED <<idle, used>> /\ ~ Works(r)
           \/ GivesBack(r)
    PROVE  IInv'
<1> DEFINE new == [[work[r] EXCEPT !.conn = None] EXCEPT !.pc = pc]
<1>1. work[r].conn # None
  BY RequestTyped DEF Empty, Busy
<1>2. WorkLike(new) /\ new.conn = None /\ new.pc = pc
  <2>1. WorkLike(work[r])
    BY RequestTyped
  <2> QED BY <2>1 DEF WorkLike
<1>3. Set(r, new)
  BY DEF Set
<1> HIDE DEF new
<1>4. work'[r] = new /\ \A q \in Requests \ {r} : work'[q] = work[q]
  BY <1>3, OneRequest
<1>5. up' = up /\ severed' = severed
  BY DEF server
<1>6. PoolOK' /\ Balanced' /\ Severed'
  <2>1. CASE used' = used - 1 /\ UNCHANGED <<idle, leaked>>
    BY <1>1, <1>2, <1>4, <1>5, <2>1, Ending
  <2>2. CASE leaked' = leaked + 1 /\ UNCHANGED <<idle, used>> /\ ~ Works(r)
    <3>1. work[r].conn = Cut
      BY <1>1, <2>2, BrokenIsCut
    <3> QED BY <1>1, <1>2, <1>4, <1>5, <2>2, <3>1, Ending
  <2>3. CASE GivesBack(r)
    BY <1>1, <1>2, <1>4, <1>5, <2>3, Returning
  <2> QED BY <2>1, <2>2, <2>3
<1> QED BY <1>2, <1>3, <1>6, RequestStep

LEMMA PingKeeps ==
    ASSUME IInv, NEW r \in Requests, Ping(r)
    PROVE  IInv'
<1>1. work[r].pc \in Busy /\ "open" \in Busy /\ "replacing" \in Empty
  BY DEF Ping, Empty, Busy
<1>2. CASE Works(r)
  <2>1. Goes(r, "open") /\ UNCHANGED <<server, pool>>
    BY <1>2 DEF Ping, pool
  <2> QED BY <1>1, <2>1, AdvanceKeeps
<1>3. CASE ~ Works(r)
  BY <1>1, <1>3, LeaveKeeps DEF Ping
<1> QED BY <1>2, <1>3

LEMMA PingAgainKeeps ==
    ASSUME IInv, NEW r \in Requests, PingAgain(r)
    PROVE  IInv'
<1>1. work[r].pc \in Busy /\ "open" \in Busy /\ "refused" \in Empty
  BY DEF PingAgain, Empty, Busy
<1>2. CASE Works(r)
  <2>1. Goes(r, "open") /\ UNCHANGED <<server, pool>>
    BY <1>2 DEF PingAgain, pool
  <2> QED BY <1>1, <2>1, AdvanceKeeps
<1>3. CASE ~ Works(r)
  BY <1>1, <1>3, LeaveKeeps DEF PingAgain
<1> QED BY <1>2, <1>3

LEMMA QueryKeeps ==
    ASSUME IInv, NEW r \in Requests, Query(r)
    PROVE  IInv'
<1>1. work[r].pc \in Busy /\ (IF Works(r) THEN "returning" ELSE "broken") \in Busy
  BY DEF Query, Busy
<1> QED BY <1>1, AdvanceKeeps DEF Query

LEMMA StampKeeps ==
    ASSUME IInv, NEW r \in Requests, Stamp(r)
    PROVE  IInv'
<1> DEFINE new == [[[work[r] EXCEPT !.pc = "reading"] EXCEPT !.at = clock] EXCEPT !.before = answered]
<1>1. work[r].conn # None
  BY RequestTyped DEF Stamp, Empty
<1>2. WorkLike(new) /\ new.conn = work[r].conn /\ new.pc = "reading"
  <2>1. WorkLike(work[r])
    BY RequestTyped
  <2> QED BY <2>1, Courses DEF WorkLike
<1>3. Set(r, new) /\ UNCHANGED <<server, pool>>
  BY DEF Stamp, Set
<1> HIDE DEF new
<1> QED BY <1>1, <1>2, <1>3, RequestTyped, Courses, QuietStep

LEMMA ReturnKeeps ==
    ASSUME IInv, NEW r \in Requests, Return(r)
    PROVE  IInv'
<1>1. work[r].pc \in Busy /\ "done" \in Empty
  BY DEF Return, Empty, Busy
<1> QED BY <1>1, LeaveKeeps DEF Return

LEMMA FailKeeps ==
    ASSUME IInv, NEW r \in Requests, Fail(r)
    PROVE  IInv'
<1>1. work[r].pc \in Busy /\ "refused" \in Empty
  BY DEF Fail, Empty, Busy
<1> QED BY <1>1, LeaveKeeps DEF Fail

\* A worker that scores: what it reads and stores moves no connection.
LEMMA ScoringKeeps ==
    ASSUME IInv, NEW w \in Workers, work[w].pc \in Busy, NEW pc \in Busy, NEW new, WorkLike(new),
           new.pc = pc, new.conn = work[w].conn, Set(w, new), UNCHANGED <<server, pool>>
    PROVE  IInv'
<1>1. pc \notin Empty /\ work[w].pc \notin Empty
  BY DEF Empty, Busy
<1>2. w \in Requests => /\ new.conn = work[w].conn
                        /\ new.conn = None <=> new.pc \in Empty
  BY <1>1, RequestTyped
<1> QED BY <1>2, QuietStep

LEMMA ScorerTyped ==
    ASSUME IInv, NEW w \in Scored
    PROVE  w \in Workers /\ WorkLike(work[w])
<1>1. w \in Workers
  BY OnlineAssumption DEF Scored, Workers
<1> QED BY <1>1, WorkTyped DEF IInv

LEMMA ReadKeeps ==
    ASSUME IInv, NEW w \in Scored, Read(w)
    PROVE  IInv'
<1>1. w \in Workers /\ WorkLike(work[w]) /\ work[w].pc \in Busy /\ UNCHANGED <<server, pool>>
  BY ScorerTyped DEF Read, Busy
<1>2. "persisting" \in Busy /\ "broken" \in Busy
  BY DEF Busy
<1>3. PICK row : \/ Set(w, [work[w] EXCEPT !.pc = "persisting", !.row = row])
                 \/ Goes(w, "broken")
  BY DEF Read
<1> DEFINE scored == [[work[w] EXCEPT !.pc = "persisting"] EXCEPT !.row = row]
           failed == [work[w] EXCEPT !.pc = "broken"]
<1>4. /\ WorkLike(scored) /\ scored.pc = "persisting" /\ scored.conn = work[w].conn
      /\ WorkLike(failed) /\ failed.pc = "broken" /\ failed.conn = work[w].conn
  BY <1>1, Courses DEF WorkLike
<1>5. Set(w, scored) \/ Set(w, failed)
  BY <1>3 DEF Goes, Set
<1> HIDE DEF scored, failed
<1> QED BY <1>1, <1>2, <1>4, <1>5, ScoringKeeps

LEMMA MoveKeeps ==
    ASSUME IInv, NEW w \in Scored, work[w].pc \in Busy, NEW pc \in Busy, Goes(w, pc),
           UNCHANGED <<server, pool>>
    PROVE  IInv'
<1> DEFINE new == [work[w] EXCEPT !.pc = pc]
<1>1. w \in Workers /\ WorkLike(work[w])
  BY ScorerTyped
<1>2. WorkLike(new) /\ new.pc = pc /\ new.conn = work[w].conn
  BY <1>1 DEF WorkLike
<1>3. Set(w, new)
  BY DEF Goes
<1> HIDE DEF new
<1> QED BY <1>1, <1>2, <1>3, ScoringKeeps

LEMMA PersistKeeps ==
    ASSUME IInv, NEW w \in Scored, NEW told \in BOOLEAN, Persist(w, told)
    PROVE  IInv'
<1>1. work[w].pc \in Busy /\ (IF told THEN "returning" ELSE "broken") \in Busy
  BY DEF Persist, Busy
<1> QED BY <1>1, MoveKeeps DEF Persist

LEMMA PersistFailsKeeps ==
    ASSUME IInv, NEW w \in Scored, PersistFails(w)
    PROVE  IInv'
<1>1. work[w].pc \in Busy /\ (IF Works(w) THEN "failing" ELSE "broken") \in Busy
  BY DEF PersistFails, Busy
<1> QED BY <1>1, MoveKeeps DEF PersistFails

\* The stream's connections are its own.
LEMMA MessageTyped ==
    ASSUME IInv, NEW m \in Messages
    PROVE  m \in Workers /\ m \notin Requests /\ WorkLike(work[m])
<1>1. m \in Workers /\ m \notin Requests
  BY OnlineAssumption DEF Workers
<1> QED BY <1>1, WorkTyped DEF IInv

LEMMA ConnectKeeps ==
    ASSUME IInv, NEW m \in Messages, Connect(m)
    PROVE  IInv'
<1> DEFINE tried == [work[m] EXCEPT !.tries = work[m].tries + 1]
           open  == [[tried EXCEPT !.pc = "reading"] EXCEPT !.conn = Live]
<1>1. m \in Workers /\ m \notin Requests /\ WorkLike(work[m]) /\ UNCHANGED <<server, pool>>
  BY MessageTyped DEF Connect
<1>2. WorkLike(tried)
  BY <1>1 DEF WorkLike
<1>3. WorkLike(open)
  BY <1>2, Courses, TwoEnds DEF WorkLike
<1>4. Set(m, open) \/ Set(m, tried)
  BY DEF Connect, Live
<1> HIDE DEF tried, open
<1> QED BY <1>1, <1>2, <1>3, <1>4, QuietStep

LEMMA DisconnectKeeps ==
    ASSUME IInv, NEW m \in Messages, Disconnect(m)
    PROVE  IInv'
<1> DEFINE pc  == IF work[m].pc = "returning" THEN "done" ELSE "idle"
           new == [[[work[m] EXCEPT !.conn = None] EXCEPT !.row = None] EXCEPT !.pc = pc]
<1>1. m \in Workers /\ m \notin Requests /\ WorkLike(work[m]) /\ UNCHANGED <<server, pool>>
  BY MessageTyped DEF Disconnect
<1>2. pc \in Empty \cup Busy
  BY Courses
<1>3. Set(m, new)
  BY DEF Disconnect, Set
<1> HIDE DEF pc
<1>4. WorkLike(new)
  BY <1>1, <1>2 DEF WorkLike
<1> HIDE DEF new
<1> QED BY <1>1, <1>3, <1>4, QuietStep

-----------------------------------------------------------------------------
(* The invariant of the specification.                                      *)

LEMMA InitHolds == Init => IInv
<1> SUFFICES ASSUME Init PROVE IInv
  OBVIOUS
<1>1. WorkLike(Idle) /\ Idle.pc = "idle" /\ Idle.conn = None
  BY Courses DEF Idle, WorkLike
<1>2. DOMAIN work = Workers /\ \A w \in Workers : work[w] = Idle
  BY DEF Init
<1>3. /\ outages = 0 /\ used = 0 /\ severed = 0 /\ leaked = 0
      /\ MinConn \in Nat /\ MaxConn \in Nat /\ MinConn <= MaxConn /\ MaxOutages \in Nat
  BY OnlineAssumption DEF Init
<1>4. idle = [i \in 1 .. MinConn |-> Live]
  BY Zenon DEF Init, Live
<1>5. idle \in Seq(Ends) /\ Len(idle) = MinConn /\ \A i \in DOMAIN idle : idle[i] = Live
  <2>1. Live \in Ends
    BY TwoEnds
  <2> QED BY <1>3, <1>4, <2>1
<1>6. up = TRUE
  BY DEF Init
<1>7. up \in BOOLEAN /\ ~ (up = FALSE)
  BY <1>6, Zenon
<1>8. TypeOK
  BY <1>1, <1>2, <1>3, <1>5, <1>7 DEF TypeOK
<1>9. Held = {} /\ CutHeld = {} /\ CutIn(idle) = {}
  BY <1>1, <1>2, <1>5, TwoEnds DEF Held, CutHeld, CutIn, Places, Workers
<1>10. Balanced
  BY <1>3, <1>5, <1>9, FS_EmptySet DEF Balanced
<1>11. \A r \in Requests : Placed(r)
  BY <1>1, <1>2, Courses DEF Placed, Workers
<1>12. Severed
  BY <1>7, Zenon DEF Severed
<1> QED BY <1>8, <1>10, <1>11, <1>12 DEF IInv

LEMMA StutterKeeps == IInv /\ UNCHANGED vars => IInv'
<1> SUFFICES ASSUME IInv, UNCHANGED vars PROVE IInv'
  OBVIOUS
<1>1. UNCHANGED <<up, outages, idle, used, severed, leaked, work>>
  BY DEF vars
<1>2. TypeOK'
  BY <1>1 DEF IInv, TypeOK, WorkLike
<1>3. Balanced'
  BY <1>1 DEF IInv, Balanced, Held, CutHeld, CutIn, Places
<1>4. Severed' /\ \A r \in Requests : Placed(r)'
  BY <1>1 DEF IInv, Severed, Placed
<1> QED BY <1>2, <1>3, <1>4 DEF IInv

LEMMA StepKeeps == IInv /\ Next => IInv'
<1> SUFFICES ASSUME IInv, Next PROVE IInv'
  OBVIOUS
<1>1. ASSUME NEW r \in Requests,
             Call(r) \/ Ping(r) \/ Replace(r) \/ PingAgain(r) \/ Query(r) \/ Stamp(r)
               \/ Return(r) \/ Fail(r)
      PROVE  IInv'
  BY <1>1, CallKeeps, PingKeeps, ReplaceKeeps, PingAgainKeeps, QueryKeeps, StampKeeps,
     ReturnKeeps, FailKeeps
<1>2. ASSUME NEW m \in Messages, Connect(m) \/ Disconnect(m)
      PROVE  IInv'
  BY <1>2, ConnectKeeps, DisconnectKeeps
<1>3. ASSUME NEW w \in Scored, Read(w) \/ (\E told \in BOOLEAN : Persist(w, told)) \/ PersistFails(w)
      PROVE  IInv'
  BY <1>3, ReadKeeps, PersistKeeps, PersistFailsKeeps
<1> QED BY <1>1, <1>2, <1>3, OutageKeeps, RecoverKeeps DEF Next

\* The inductive invariant holds in every state, for any number of requests and
\* messages, any pool and any number of outages.
THEOREM Inductive == Spec => []IInv
<1>1. IInv /\ [Next]_vars => IInv'
  BY StepKeeps, StutterKeeps
<1> QED BY <1>1, InitHolds, PTL DEF Spec

\* The pool and the calls in progress keep their types, features and rows aside.
THEOREM TypeCorrect == Spec => []TypeOK
<1>1. IInv => TypeOK
  BY DEF IInv
<1> QED BY <1>1, Inductive, PTL

\* Whatever requests do and however they end, the pool lends at most maxconn
\* connections, each one counted as lent is held by a request in progress or was
\* lost, and for each one lost an outage cut one.
THEOREM OutagesAloneCostConnections == Spec => []OnlyOutagesCostConnections
<1>1. ASSUME IInv PROVE OnlyOutagesCostConnections
  <2>1. Holding \cap Requests = Held
    BY DEF Holding, Held, Workers
  <2>2. used = Cardinality(Held) + leaked /\ used <= MaxConn /\ leaked <= severed
    BY <1>1, Books
  <2> QED BY <2>1, <2>2 DEF OnlyOutagesCostConnections
<1> QED BY <1>1, Inductive, PTL

-----------------------------------------------------------------------------
(* What a decision saw.                                                     *)

EventType == [id : Scored, customer : {Tx[w].customer : w \in Scored}, kind : {"success"},
              at : Nat \cup {Tx[m].at : m \in Messages}]

Logged(e) == e.customer = Tx[e.id].customer /\ e.at = At(e.id)

\* One event for each transaction that has a score, and no other.
OneEventEach ==
    /\ events \in Seq(EventType)
    /\ \A i \in DOMAIN events : Logged(events[i])
    /\ \A i, j \in DOMAIN events : events[i].id = events[j].id => i = j
    /\ DOMAIN stored = {events[i].id : i \in DOMAIN events}

KnownTo(r)    == {s \in work[r].before : Earlier(r, s)}
OtherThan(r)  == {s \in DOMAIN stored \ {r} : Tx[s].customer = Tx[r].customer}
Ranged(r, row) == row.features.last24h \in Cardinality(KnownTo(r)) .. Cardinality(OtherThan(r))

\* The request has persisted, whether it knows or not.
Past == {"returning", "broken", "done", "refused"}

\* A request knows the answers given before it took its time, each given at an
\* earlier one; its row, about to be stored or stored, counts between those and
\* the transactions scored so far.
Informed(r) ==
    /\ work[r].at \in Nat /\ work[r].at <= clock
    /\ work[r].before \subseteq answered /\ \A s \in work[r].before : work[s].at < work[r].at
    /\ r \in DOMAIN stored => work[r].pc \in Past /\ Ranged(r, stored[r])
    /\ work[r].pc = "returning" => r \in DOMAIN stored
    /\ r \in answered => work[r].pc = "done" /\ r \in DOMAIN stored /\ work[r].at < clock
    /\ work[r].pc = "persisting" => Ranged(r, work[r].row)

VInv == /\ clock \in Nat /\ answered \subseteq Scores
        /\ OneEventEach
        /\ \A r \in Scores : Informed(r)

LEMMA FiniteNames ==
    ASSUME NEW S, NEW es \in Seq(S)
    PROVE  IsFiniteSet(DOMAIN es) /\ IsFiniteSet({es[i].id : i \in DOMAIN es})
<1> DEFINE ids == {es[i].id : i \in DOMAIN es}
           f   == [i \in DOMAIN es |-> es[i].id]
<1>1. Len(es) \in Nat /\ DOMAIN es = 1 .. Len(es)
  OBVIOUS
<1>2. IsFiniteSet(DOMAIN es)
  BY <1>1, FS_Interval
<1>3. f \in Surjection(DOMAIN es, ids)
  BY DEF Surjection
<1> QED BY <1>2, <1>3, FS_Surjection

\* A score stored is a score more that a later decision may count.
LEMMA OthersGrow ==
    ASSUME OneEventEach, OneEventEach', DOMAIN stored \subseteq DOMAIN stored', NEW r \in Scores
    PROVE  /\ Cardinality(OtherThan(r)) \in Nat /\ Cardinality(OtherThan(r)') \in Nat
           /\ Cardinality(OtherThan(r)) <= Cardinality(OtherThan(r)')
<1>1. IsFiniteSet(DOMAIN stored) /\ IsFiniteSet(DOMAIN stored')
  BY FiniteNames DEF OneEventEach
<1>2. OtherThan(r) \subseteq DOMAIN stored /\ OtherThan(r)' \subseteq DOMAIN stored'
  BY DEF OtherThan
<1>3. OtherThan(r) \subseteq OtherThan(r)'
  BY DEF OtherThan
<1>4. IsFiniteSet(OtherThan(r)) /\ IsFiniteSet(OtherThan(r)')
  BY <1>1, <1>2, FS_Subset
<1> QED BY <1>3, <1>4, FS_Subset, FS_CardinalityType

\* What the window of a request holds: at least the events of the answers it
\* knows, at most one for each transaction of the customer scored by others.
LEMMA WindowCounts ==
    ASSUME VInv, NEW r \in Scores
    PROVE  CountWithin(Recent(r), "success", At(r), Window24h)
               \in Cardinality(KnownTo(r)) .. Cardinality(OtherThan(r))
<1> DEFINE P   == {i \in DOMAIN Recent(r) : /\ Recent(r)[i].kind = "success"
                                            /\ At(r) - Recent(r)[i].at <= Window24h}
           ids == {events[i].id : i \in P}
           f   == [i \in P |-> events[i].id]
<1>1. OneEventEach /\ Informed(r) /\ \A s \in answered : s \in Scores /\ Informed(s)
  BY DEF VInv
<1>2. /\ \A s \in Scores : At(s) = work[s].at
      /\ {Window24h, Lookback} \subseteq Nat /\ Window24h <= Lookback
  BY OnlineAssumption, WindowAssumption DEF At
<1>3. /\ \A i : i \in DOMAIN Recent(r) <=>
                  /\ i \in DOMAIN events /\ events[i].customer = Tx[r].customer
                  /\ At(r) - Lookback <= events[i].at /\ events[i].at < At(r)
      /\ \A i \in DOMAIN Recent(r) : Recent(r)[i] = events[i]
  BY DEF Recent, RecentEvents
<1>4. \A i \in DOMAIN events : /\ events[i].kind = "success" /\ events[i].id \in DOMAIN stored
                               /\ events[i].customer = Tx[events[i].id].customer
                               /\ events[i].at = At(events[i].id)
  <2>1. SUFFICES ASSUME NEW i \in DOMAIN events
                 PROVE  /\ events[i].kind = "success" /\ events[i].id \in DOMAIN stored
                        /\ events[i].customer = Tx[events[i].id].customer
                        /\ events[i].at = At(events[i].id)
    OBVIOUS
  <2>2. events[i] \in EventType
    BY <1>1 DEF OneEventEach
  <2> QED BY <1>1, <2>2 DEF OneEventEach, Logged, EventType
<1>5. IsFiniteSet(P)
  <2>1. P \subseteq DOMAIN events
    BY <1>3
  <2>2. IsFiniteSet(DOMAIN events)
    BY <1>1, FiniteNames DEF OneEventEach
  <2> QED BY <2>1, <2>2, FS_Subset
<1>6. IsFiniteSet(ids) /\ Cardinality(ids) = Cardinality(P)
  <2>1. \A i, j \in P : events[i].id = events[j].id => i = j
    BY <1>1, <1>3 DEF OneEventEach
  <2>2. f \in Surjection(P, ids) /\ f \in Injection(P, ids)
    BY <2>1 DEF Surjection, Injection, IsInjective
  <2> QED BY <1>5, <2>2, FS_Surjection
<1>7. KnownTo(r) \subseteq ids
  <2>1. SUFFICES ASSUME NEW s \in KnownTo(r) PROVE s \in ids
    OBVIOUS
  <2>2. /\ s \in answered /\ s \in Scores /\ s \in DOMAIN stored
        /\ work[s].at \in Nat /\ work[r].at \in Nat /\ work[s].at < work[r].at
        /\ Tx[s].customer = Tx[r].customer /\ work[r].at - work[s].at <= Window24h
    BY <1>1 DEF KnownTo, Informed, Earlier
  <2>3. PICK i \in DOMAIN events : events[i].id = s
    BY <1>1, <2>2 DEF OneEventEach
  <2>4. events[i].at = work[s].at /\ events[i].customer = Tx[r].customer
    BY <1>2, <1>4, <2>2, <2>3
  <2>5. work[r].at - Lookback <= work[s].at
    BY <1>2, <2>2
  <2>6. i \in DOMAIN Recent(r)
    BY <1>2, <1>3, <2>2, <2>4, <2>5
  <2>7. i \in P
    BY <1>2, <1>3, <1>4, <2>2, <2>4, <2>6
  <2> QED BY <2>3, <2>7
<1>8. ids \subseteq OtherThan(r)
  <2>1. SUFFICES ASSUME NEW i \in P PROVE events[i].id \in OtherThan(r)
    OBVIOUS
  <2>2. /\ i \in DOMAIN events /\ events[i].customer = Tx[r].customer /\ events[i].at < At(r)
        /\ events[i].id \in DOMAIN stored /\ events[i].customer = Tx[events[i].id].customer
        /\ events[i].at = At(events[i].id)
    BY <1>3, <1>4
  <2>3. events[i].id # r
    <3>1. At(r) \in Nat
      BY <1>1, <1>2 DEF Informed
    <3> QED BY <2>2, <3>1
  <2> QED BY <2>2, <2>3 DEF OtherThan
<1>9. IsFiniteSet(OtherThan(r))
  <2>1. OtherThan(r) \subseteq DOMAIN stored /\ IsFiniteSet(DOMAIN stored)
    BY <1>1, FiniteNames DEF OtherThan, OneEventEach
  <2> QED BY <2>1, FS_Subset
<1>10. CountWithin(Recent(r), "success", At(r), Window24h) = Cardinality(ids)
  BY <1>6 DEF CountWithin
<1> HIDE DEF ids
<1>11. /\ IsFiniteSet(KnownTo(r))
       /\ Cardinality(KnownTo(r)) <= Cardinality(ids) /\ Cardinality(ids) <= Cardinality(OtherThan(r))
  BY <1>6, <1>7, <1>8, <1>9, FS_Subset
<1>12. Cardinality(KnownTo(r)) \in Nat /\ Cardinality(ids) \in Nat /\ Cardinality(OtherThan(r)) \in Nat
  BY <1>6, <1>9, <1>11, FS_CardinalityType
<1> QED BY <1>10, <1>11, <1>12

\* A step of a request that is neither its Stamp, its Read, its Persist nor its
\* Return: it goes on with what it knows, and once it has persisted it has ended.
Onward(r) ==
    /\ work'[r].at = work[r].at /\ work'[r].before = work[r].before
    /\ \/ work'[r].pc = work[r].pc /\ work'[r].row = work[r].row
       \/ /\ work[r].pc # "done" /\ work'[r].pc \notin {"persisting", "returning"}
          /\ work[r].pc \in Past => work'[r].pc \in Past

LEMMA KnownKept ==
    ASSUME NEW r \in Scores, Informed(r), work'[r].at = work[r].at, work'[r].before = work[r].before,
           \A s \in answered : work'[s].at = work[s].at
    PROVE  KnownTo(r)' = KnownTo(r) /\ \A s \in work[r].before : work'[s].at = work[s].at
<1>1. \A s \in work[r].before : work'[s].at = work[s].at
  BY DEF Informed
<1> QED BY <1>1 DEF KnownTo, Earlier

\* A request that a step leaves at its place, or moves onward, stays informed.
LEMMA StaysInformed ==
    ASSUME VInv, OneEventEach', NEW r \in Scores, Onward(r),
           clock' \in Nat, clock' >= clock, answered \subseteq answered', r \in answered' => r \in answered,
           DOMAIN stored \subseteq DOMAIN stored', r \in DOMAIN stored' => r \in DOMAIN stored,
           r \in DOMAIN stored => stored'[r] = stored[r],
           \A s \in answered : work'[s].at = work[s].at
    PROVE  Informed(r)'
<1>1. Informed(r) /\ OneEventEach /\ clock \in Nat
  BY DEF VInv
<1>2. KnownTo(r)' = KnownTo(r) /\ \A s \in work[r].before : work'[s].at = work[s].at
  BY <1>1, KnownKept DEF Onward
<1>3. /\ Cardinality(OtherThan(r)) \in Nat /\ Cardinality(OtherThan(r)') \in Nat
      /\ Cardinality(OtherThan(r)) <= Cardinality(OtherThan(r)')
  BY <1>1, OthersGrow
<1>4. ASSUME NEW n, n \in Cardinality(KnownTo(r)) .. Cardinality(OtherThan(r))
      PROVE  n \in Cardinality(KnownTo(r)') .. Cardinality(OtherThan(r)')
  BY <1>2, <1>3, <1>4
<1>5. /\ work'[r].at \in Nat /\ work'[r].at <= clock'
      /\ work'[r].before \subseteq answered' /\ \A s \in work'[r].before : work'[s].at < work'[r].at
  BY <1>1, <1>2 DEF Informed, Onward
<1>6. r \in DOMAIN stored' => work'[r].pc \in Past /\ Ranged(r, stored[r])
  BY <1>1 DEF Informed, Onward
<1>7. r \in DOMAIN stored' => Ranged(r, stored[r])'
  BY <1>4, <1>6 DEF Ranged
<1>8. work'[r].pc = "returning" => r \in DOMAIN stored'
  BY <1>1 DEF Informed, Onward
<1>9. r \in answered' => work'[r].pc = "done" /\ r \in DOMAIN stored' /\ work'[r].at < clock'
  BY <1>1 DEF Informed, Onward
<1>10. work'[r].pc = "persisting" => work'[r].row = work[r].row /\ Ranged(r, work[r].row)
  BY <1>1 DEF Informed, Onward
<1>11. work'[r].pc = "persisting" => Ranged(r, work[r].row)'
  BY <1>4, <1>10 DEF Ranged
<1> QED BY <1>5, <1>6, <1>7, <1>8, <1>9, <1>11 DEF Informed

LEMMA EventsKept ==
    ASSUME OneEventEach, events' = events, DOMAIN stored' = DOMAIN stored,
           \A r \in Scores \cap DOMAIN stored : work'[r].at = work[r].at
    PROVE  OneEventEach'
<1>1. events' = events /\ DOMAIN stored' = DOMAIN stored
  OBVIOUS
<1>2. ASSUME NEW i \in DOMAIN events PROVE Logged(events[i])'
  <2>1. /\ events[i].id \in DOMAIN stored /\ events[i].id \in Scored /\ Logged(events[i])
    <3>1. events[i] \in EventType
      BY DEF OneEventEach
    <3> QED BY <3>1 DEF OneEventEach, EventType
  <2>2. At(events[i].id)' = At(events[i].id)
    BY <1>1, <2>1 DEF At, Scored
  <2> QED BY <1>1, <2>1, <2>2 DEF Logged
<1> QED BY <1>1, <1>2 DEF OneEventEach

\* A step after which every request is where it was, or onward.
LEMMA OnwardKeeps ==
    ASSUME VInv, UNCHANGED <<clock, tables, answered>>, \A r \in Scores : Onward(r)
    PROVE  VInv'
<1>1. OneEventEach'
  BY EventsKept DEF VInv, Onward, tables
<1>2. \A s \in answered : work'[s].at = work[s].at
  BY DEF VInv, Onward
<1>3. clock' \in Nat /\ clock' >= clock /\ answered' = answered /\ stored' = stored
  BY DEF VInv, tables
<1>4. \A r \in Scores : Informed(r)'
  BY <1>1, <1>2, <1>3, StaysInformed
<1> QED BY <1>1, <1>3, <1>4 DEF VInv

\* The fields of a call in progress once some have changed.
LEMMA Changes ==
    ASSUME NEW x, WorkLike(x), NEW p, NEW c
    PROVE  /\ \A y \in {[x EXCEPT !.pc = p], [x EXCEPT !.conn = c, !.pc = p]} :
                  y.pc = p /\ y.at = x.at /\ y.before = x.before /\ y.row = x.row
           /\ LET z == [x EXCEPT !.conn = c]
              IN  z.pc = x.pc /\ z.at = x.at /\ z.before = x.before /\ z.row = x.row
BY DEF WorkLike

\* One worker moves onward.
LEMMA OneMovesOn ==
    ASSUME IInv, VInv, UNCHANGED <<clock, tables, answered>>, NEW w \in Workers, NEW new, Set(w, new),
           w \in Scores =>
              /\ new.at = work[w].at /\ new.before = work[w].before
              /\ work[w].pc # "done" /\ new.pc \notin {"persisting", "returning"}
              /\ work[w].pc \in Past => new.pc \in Past
    PROVE  VInv'
<1>1. DOMAIN work = Workers /\ Scores \subseteq Workers
  BY OnlineAssumption DEF IInv, TypeOK, Workers
<1>2. work'[w] = new /\ \A v \in Workers \ {w} : work'[v] = work[v]
  BY <1>1 DEF Set
<1>3. \A r \in Scores : Onward(r)
  BY <1>1, <1>2 DEF Onward
<1> QED BY <1>3, OnwardKeeps

\* The steps of a call but for the four that make its answer.
LEMMA CallMovesOn ==
    ASSUME IInv, VInv, NEW r \in Requests,
           Call(r) \/ Ping(r) \/ Replace(r) \/ PingAgain(r) \/ Query(r) \/ Fail(r)
    PROVE  VInv'
<1>1. UNCHANGED <<clock, tables, answered>> /\ r \in Workers /\ WorkLike(work[r])
  BY RequestTyped DEF Call, Ping, Replace, PingAgain, Query, Fail
<1>2. \E p \in Empty \cup Busy, c \in Ends \cup {None} :
         /\ Goes(r, p) \/ Set(r, [work[r] EXCEPT !.conn = c, !.pc = p])
         /\ r \in Scores => /\ work[r].pc # "done" /\ p \notin {"persisting", "returning"}
                            /\ work[r].pc \in Past => p \in Past
  <2>1. CASE Call(r)
    BY <2>1, Courses DEF Call, Past, Ends
  <2>2. CASE Ping(r)
    BY <2>2, Courses, None \in Ends \cup {None} DEF Ping, Past
  <2>3. CASE Replace(r)
    BY <2>3, Courses DEF Replace, Past, Ends
  <2>4. CASE PingAgain(r)
    BY <2>4, Courses, None \in Ends \cup {None} DEF PingAgain, Past
  <2>5. CASE Query(r)
    BY <2>5, Courses, None \in Ends \cup {None} DEF Query
  <2>6. CASE Fail(r)
    BY <2>6, Courses, None \in Ends \cup {None} DEF Fail, Past
  <2> QED BY <2>1, <2>2, <2>3, <2>4, <2>5, <2>6
<1>3. PICK p \in Empty \cup Busy, c \in Ends \cup {None} :
         /\ Goes(r, p) \/ Set(r, [work[r] EXCEPT !.conn = c, !.pc = p])
         /\ r \in Scores => /\ work[r].pc # "done" /\ p \notin {"persisting", "returning"}
                            /\ work[r].pc \in Past => p \in Past
  BY <1>2
<1>4. \E new \in {[work[r] EXCEPT !.pc = p], [work[r] EXCEPT !.conn = c, !.pc = p]} : Set(r, new)
  BY <1>3, Zenon DEF Goes
<1>5. PICK new \in {[work[r] EXCEPT !.pc = p], [work[r] EXCEPT !.conn = c, !.pc = p]} : Set(r, new)
  BY <1>4
<1>6. new.pc = p /\ new.at = work[r].at /\ new.before = work[r].before
  <2>1. \A y \in {[work[r] EXCEPT !.pc = p], [work[r] EXCEPT !.conn = c, !.pc = p]} :
           y.pc = p /\ y.at = work[r].at /\ y.before = work[r].before
    BY <1>1 DEF WorkLike
  <2> QED BY <1>5, <2>1, Zenon
<1> QED BY <1>1, <1>3, <1>5, <1>6, OneMovesOn

\* The stream consumer's attempts, and a write that fails.
LEMMA AttemptMovesOn ==
    ASSUME IInv, VInv, NEW w \in Scored, (w \in Messages /\ (Connect(w) \/ Disconnect(w))) \/ PersistFails(w)
    PROVE  VInv'
<1>1. UNCHANGED <<clock, tables, answered>> /\ w \in Workers /\ WorkLike(work[w])
  <2>1. w \in Workers /\ TypeOK
    BY OnlineAssumption DEF IInv, Scored, Workers
  <2> QED BY <2>1, WorkTyped DEF Connect, Disconnect, PersistFails
<1>2. CASE w \in Messages /\ (Connect(w) \/ Disconnect(w))
  <2>1. w \notin Scores
    BY <1>2, OnlineAssumption
  <2>2. \E new : Set(w, new)
    BY <1>2 DEF Connect, Disconnect
  <2> QED BY <1>1, <2>1, <2>2, OneMovesOn
<1>3. CASE PersistFails(w)
  <2>1. PICK p \in {"failing", "broken"} : Goes(w, p)
    BY <1>3 DEF PersistFails
  <2> DEFINE new == [work[w] EXCEPT !.pc = p]
  <2>2. new.pc = p /\ new.at = work[w].at /\ new.before = work[w].before
    BY <1>1 DEF WorkLike
  <2>3. Set(w, new) /\ work[w].pc = "persisting"
    BY <1>3, <2>1 DEF Goes, PersistFails
  <2> HIDE DEF new
  <2> QED BY <1>1, <2>1, <2>2, <2>3, OneMovesOn DEF Past
<1> QED BY <1>2, <1>3

LEMMA OutageLeavesAnswers == ASSUME IInv, VInv, Outage PROVE VInv'
<1>1. UNCHANGED <<clock, tables, answered>>
  BY DEF Outage
<1>2. ASSUME NEW r \in Scores PROVE Onward(r)
  <2>1. r \in Workers /\ WorkLike(work[r])
    BY OnlineAssumption DEF IInv, TypeOK, Workers
  <2>2. work'[r] = [work[r] EXCEPT !.conn = FALSE] \/ work'[r] = work[r]
    BY <2>1 DEF Outage
  <2>3. LET z == [work[r] EXCEPT !.conn = FALSE]
        IN  z.pc = work[r].pc /\ z.at = work[r].at /\ z.before = work[r].before /\ z.row = work[r].row
    BY <2>1 DEF WorkLike
  <2> QED BY <2>2, <2>3 DEF Onward
<1> QED BY <1>1, <1>2, OnwardKeeps

\* What a request knows is what has been answered by now.
LEMMA StampInforms == ASSUME IInv, VInv, NEW r \in Requests, Stamp(r) PROVE VInv'
<1> DEFINE new == [[[work[r] EXCEPT !.pc = "reading"] EXCEPT !.at = clock] EXCEPT !.before = answered]
<1>1. r \in Scores /\ work[r].pc = "open" /\ Set(r, new) /\ UNCHANGED <<clock, tables, answered>>
  BY DEF Stamp, Set
<1>2. new.pc = "reading" /\ new.at = clock /\ new.before = answered
  BY RequestTyped DEF WorkLike
<1> HIDE DEF new
<1>3. work'[r] = new /\ \A q \in Scores \ {r} : work'[q] = work[q]
  BY <1>1, OneRequest, OnlineAssumption
<1>4. OneEventEach /\ Informed(r) /\ clock \in Nat
  BY <1>1 DEF VInv
<1>5. r \notin DOMAIN stored /\ r \notin answered
  BY <1>1, <1>4 DEF Informed, Past
<1>6. OneEventEach'
  BY <1>1, <1>3, <1>4, <1>5, EventsKept DEF tables
<1>7. \A s \in answered : s \in Scores \ {r} /\ work'[s].at = work[s].at
  BY <1>3, <1>5 DEF VInv
<1>8. stored' = stored /\ clock' = clock /\ answered' = answered
  BY <1>1 DEF tables
<1>9. \A q \in Scores \ {r} : Informed(q)'
  <2>1. \A q \in Scores \ {r} : Onward(q)
    BY <1>3 DEF Onward
  <2> QED BY <1>4, <1>6, <1>7, <1>8, <2>1, StaysInformed
<1>10. Informed(r)'
  <2>1. \A s \in answered : work[s].at < clock
    BY DEF VInv, Informed
  <2> QED BY <1>2, <1>3, <1>4, <1>5, <1>7, <1>8, <2>1 DEF Informed
<1> QED BY <1>4, <1>6, <1>8, <1>9, <1>10 DEF VInv

\* The row counts what is there when it is read.
LEMMA ReadInforms == ASSUME IInv, VInv, NEW w \in Scored, Read(w) PROVE VInv'
<1>1. /\ UNCHANGED <<clock, tables, answered>> /\ work[w].pc = "reading"
      /\ w \in Workers /\ WorkLike(work[w]) /\ Scores \subseteq Workers /\ DOMAIN work = Workers
  <2>1. w \in Workers /\ Scores \subseteq Workers /\ TypeOK
    BY OnlineAssumption DEF IInv, Scored, Workers
  <2> QED BY <2>1, WorkTyped DEF Read, TypeOK
<1> DEFINE tx == [Tx[w] EXCEPT !.at = At(w)]
           features == ComputeFeatures(tx, ProfileOf(Profiles, tx.customer), Recent(w), Lookups)
           row == [features |-> features, codes |-> Codes(features),
                   conclusion |-> Classify(Probability(features))]
<1>2. \/ Set(w, [work[w] EXCEPT !.pc = "persisting", !.row = row])
      \/ Goes(w, "broken")
  BY DEF Read
<1>3. row.features.last24h = CountWithin(Recent(w), "success", At(w), Window24h)
  <2>1. tx.at = At(w)
    BY OnlineAssumption DEF Scored
  <2> QED BY <2>1 DEF ComputeFeatures
<1> HIDE DEF row
<1>4. CASE w \notin Scores
  <2>1. \E new : Set(w, new)
    BY <1>2 DEF Goes
  <2> QED BY <1>1, <1>4, <2>1, OneMovesOn
<1>5. CASE Goes(w, "broken")
  <2> DEFINE new == [work[w] EXCEPT !.pc = "broken"]
  <2>1. new.pc = "broken" /\ new.at = work[w].at /\ new.before = work[w].before
    BY <1>1 DEF WorkLike
  <2>2. Set(w, new)
    BY <1>5 DEF Goes
  <2> HIDE DEF new
  <2> QED BY <1>1, <2>1, <2>2, OneMovesOn DEF Past
<1>6. CASE w \in Scores /\ Set(w, [work[w] EXCEPT !.pc = "persisting", !.row = row])
  <2> DEFINE new == [work[w] EXCEPT !.pc = "persisting", !.row = row]
  <2>1. /\ new.pc = "persisting" /\ new.at = work[w].at /\ new.before = work[w].before
        /\ new.row = row
    BY <1>1 DEF WorkLike
  <2>2. Set(w, new)
    BY <1>6
  <2> HIDE DEF new
  <2>3. work'[w] = new /\ \A q \in Scores \ {w} : work'[q] = work[q]
    BY <1>1, <2>2 DEF Set
  <2>4. \A q \in Scores : work'[q].at = work[q].at /\ work'[q].before = work[q].before
    BY <2>1, <2>3
  <2>5. OneEventEach /\ OneEventEach' /\ Informed(w) /\ clock \in Nat
    BY <1>1, <1>6, <2>4, EventsKept DEF VInv, tables
  <2>6. stored' = stored /\ clock' = clock /\ answered' = answered /\ \A s \in answered : work'[s].at = work[s].at
    BY <1>1, <2>4 DEF tables, VInv
  <2>7. \A q \in Scores \ {w} : Informed(q)'
    <3>1. \A q \in Scores \ {w} : Onward(q)
      BY <2>3 DEF Onward
    <3> QED BY <2>5, <2>6, <3>1, StaysInformed
  <2>8. Informed(w)'
    <3>1. row.features.last24h \in Cardinality(KnownTo(w)) .. Cardinality(OtherThan(w))
      BY <1>3, <1>6, WindowCounts
    <3>2. KnownTo(w)' = KnownTo(w) /\ OtherThan(w)' = OtherThan(w)
      BY <1>6, <2>4, <2>5, <2>6, KnownKept DEF OtherThan
    <3>3. Ranged(w, work[w].row)'
      BY <2>1, <2>3, <3>1, <3>2 DEF Ranged
    <3>4. w \notin DOMAIN stored /\ w \notin answered
      BY <1>1, <2>5 DEF Informed, Past
    <3>5. \A s \in work'[w].before : work'[s].at < work'[w].at
      BY <2>4, <2>5, <2>6, <1>6 DEF Informed
    <3> QED BY <1>6, <2>1, <2>3, <2>4, <2>5, <2>6, <3>3, <3>4, <3>5 DEF Informed
  <2> QED BY <2>5, <2>6, <2>7, <2>8 DEF VInv
<1> QED BY <1>2, <1>4, <1>5, <1>6

LEMMA EventAdded ==
    ASSUME OneEventEach, NEW w \in Scored, w \notin DOMAIN stored,
           NEW e \in EventType, e.id = w, Logged(e), events' = Append(events, e),
           DOMAIN stored' = DOMAIN stored \cup {w}, \A r \in Scores : work'[r].at = work[r].at
    PROVE  OneEventEach'
<1>1. PICK n \in Nat : /\ n = Len(events) /\ DOMAIN events = 1 .. n /\ events' \in Seq(EventType)
                       /\ DOMAIN events' = DOMAIN events \cup {n + 1} /\ n + 1 \notin DOMAIN events
                       /\ \A i \in DOMAIN events : events'[i] = events[i]
                       /\ events'[n + 1] = e
  <2>1. events \in Seq(EventType)
    BY DEF OneEventEach
  <2>2. PICK n \in Nat : n = Len(events) /\ DOMAIN events = 1 .. n
    BY <2>1
  <2>3. /\ events' \in Seq(EventType) /\ Len(events') = n + 1
        /\ \A i \in 1 .. n : events'[i] = events[i]
        /\ events'[n + 1] = e
    BY <2>1, <2>2
  <2>4. DOMAIN events' = 1 .. n + 1 /\ 1 .. n + 1 = (1 .. n) \cup {n + 1} /\ n + 1 \notin 1 .. n
    BY <2>2, <2>3
  <2> QED BY <2>2, <2>3, <2>4
<1>2. \A i \in DOMAIN events : events[i].id \in DOMAIN stored /\ events[i].id \in Scored /\ Logged(events[i])
  <2>1. \A i \in DOMAIN events : events[i] \in EventType
    BY DEF OneEventEach
  <2> QED BY <2>1 DEF OneEventEach, EventType
<1>3. \A v \in Scored : At(v)' = At(v)
  BY DEF At, Scored
<1>4. ASSUME NEW i \in DOMAIN events' PROVE Logged(events[i])'
  <2>1. CASE i \in DOMAIN events
    <3>1. events'[i] = events[i] /\ events[i].id \in Scored /\ Logged(events[i])
      BY <1>1, <1>2, <2>1
    <3> QED BY <1>3, <3>1 DEF Logged
  <2>2. CASE i = n + 1
    BY <1>1, <1>3, <2>2 DEF Logged
  <2> QED BY <1>1, <2>1, <2>2
<1>5. \A i, j \in DOMAIN events' : events'[i].id = events'[j].id => i = j
  <2>1. \A i, j \in DOMAIN events : events[i].id = events[j].id => i = j
    BY DEF OneEventEach
  <2>2. \A i \in DOMAIN events : events[i].id # w
    BY <1>2
  <2> QED BY <1>1, <2>1, <2>2
<1>6. DOMAIN stored' = {events'[i].id : i \in DOMAIN events'}
  <2>1. DOMAIN stored = {events[i].id : i \in DOMAIN events}
    BY DEF OneEventEach
  <2> QED BY <1>1, <2>1
<1> QED BY <1>1, <1>4, <1>5, <1>6 DEF OneEventEach

\* Score and event are stored together, and once.
LEMMA PersistInforms ==
    ASSUME IInv, VInv, NEW w \in Scored, NEW told \in BOOLEAN, Persist(w, told)
    PROVE  VInv'
<1>1. /\ UNCHANGED <<clock, answered>> /\ work[w].pc = "persisting"
      /\ w \in Workers /\ WorkLike(work[w]) /\ Scores \subseteq Workers /\ DOMAIN work = Workers
  <2>1. w \in Workers /\ Scores \subseteq Workers /\ TypeOK
    BY OnlineAssumption DEF IInv, Scored, Workers
  <2> QED BY <2>1, WorkTyped DEF Persist, TypeOK
<1>2. PICK p \in {"returning", "broken"} : Goes(w, p)
  BY DEF Persist
<1> DEFINE new == [work[w] EXCEPT !.pc = p]
<1>3. new.pc = p /\ new.at = work[w].at /\ new.before = work[w].before
  BY <1>1 DEF WorkLike
<1>4. work'[w] = new /\ \A q \in Scores \ {w} : work'[q] = work[q]
  BY <1>1, <1>2 DEF Goes, Set
<1> HIDE DEF new
<1>5. \A q \in Scores : work'[q].at = work[q].at /\ work'[q].before = work[q].before
  BY <1>3, <1>4
<1>6. /\ DOMAIN stored' = DOMAIN stored \cup {w}
      /\ \A v \in DOMAIN stored : stored'[v] = stored[v]
      /\ w \notin DOMAIN stored => stored'[w] = work[w].row
  BY DEF Persist, Inserted
<1>7. OneEventEach /\ clock \in Nat /\ answered \subseteq Scores
  BY DEF VInv
<1>8. OneEventEach'
  <2>1. CASE w \in DOMAIN stored
    <3>1. events' = events
      BY <1>7, <2>1 DEF Persist, Recorded, OneEventEach
    <3>2. DOMAIN stored' = DOMAIN stored
      BY <1>6, <2>1
    <3> QED BY <1>5, <1>7, <3>1, <3>2, EventsKept
  <2>2. CASE w \notin DOMAIN stored
    <3> DEFINE e == [id |-> w, customer |-> Tx[w].customer, kind |-> "success", at |-> At(w)]
    <3>1. events' = Append(events, e)
      BY <1>7, <2>2 DEF Persist, Recorded, OneEventEach
    <3>2. At(w) \in Nat \cup {Tx[m].at : m \in Messages}
      BY DEF VInv, Informed, At, Scored
    <3>3. e \in EventType /\ e.id = w /\ Logged(e)
      BY <3>2 DEF EventType, Logged
    <3> HIDE DEF e
    <3> QED BY <1>5, <1>6, <1>7, <2>2, <3>1, <3>3, EventAdded
  <2> QED BY <2>1, <2>2
<1>9. \A s \in answered : work'[s].at = work[s].at
  BY <1>5, <1>7
<1>10. ASSUME NEW q \in Scores, q # w PROVE Informed(q)'
  <2>1. Onward(q) /\ (q \in DOMAIN stored' => q \in DOMAIN stored) /\ DOMAIN stored \subseteq DOMAIN stored'
    BY <1>4, <1>6, <1>10 DEF Onward
  <2> QED BY <1>1, <1>6, <1>7, <1>8, <1>9, <2>1, StaysInformed
<1>11. ASSUME w \in Scores PROVE Informed(w)'
  <2>1. Informed(w) /\ w \notin DOMAIN stored /\ w \notin answered /\ Ranged(w, work[w].row)
    BY <1>1, <1>11 DEF VInv, Informed, Past
  <2>2. /\ KnownTo(w)' = KnownTo(w) /\ OtherThan(w)' = OtherThan(w)
        /\ \A s \in work[w].before : work'[s].at = work[s].at
    BY <1>5, <1>6, <1>9, <1>11, <2>1, KnownKept DEF OtherThan
  <2>3. stored'[w] = work[w].row
    BY <1>6, <2>1
  <2>4. Ranged(w, stored[w])'
    BY <2>1, <2>2, <2>3 DEF Ranged
  <2>5. work'[w].pc \in {"returning", "broken"} /\ w \in DOMAIN stored'
    BY <1>3, <1>4, <1>6
  <2>6. /\ work'[w].at \in Nat /\ work'[w].at <= clock'
        /\ work'[w].before \subseteq answered' /\ \A s \in work'[w].before : work'[s].at < work'[w].at
    BY <1>1, <1>5, <1>11, <2>1, <2>2 DEF Informed
  <2> QED BY <1>1, <2>1, <2>4, <2>5, <2>6 DEF Informed, Past
<1> QED BY <1>1, <1>7, <1>8, <1>10, <1>11 DEF VInv

\* An answer is given after what it is about was stored, and time passes.
LEMMA ReturnInforms == ASSUME IInv, VInv, NEW r \in Requests, Return(r) PROVE VInv'
<1> DEFINE new == [work[r] EXCEPT !.conn = None, !.pc = "done"]
<1>1. /\ work[r].pc = "returning" /\ Set(r, new) /\ UNCHANGED tables
      /\ clock' = clock + 1 /\ answered' = answered \cup ({r} \cap Scores)
  BY DEF Return
<1>2. new.pc = "done" /\ new.at = work[r].at /\ new.before = work[r].before
  BY RequestTyped DEF WorkLike
<1> HIDE DEF new
<1>3. work'[r] = new /\ \A q \in Scores \ {r} : work'[q] = work[q]
  BY <1>1, OneRequest, OnlineAssumption
<1>4. \A q \in Scores : work'[q].at = work[q].at /\ work'[q].before = work[q].before
  BY <1>2, <1>3
<1>5. /\ OneEventEach /\ clock \in Nat /\ answered \subseteq Scores
      /\ clock' \in Nat /\ clock' > clock /\ answered' \subseteq Scores
  BY <1>1 DEF VInv
<1>6. OneEventEach' /\ stored' = stored /\ \A s \in answered : work'[s].at = work[s].at
  BY <1>1, <1>4, <1>5, EventsKept DEF tables
<1>7. ASSUME NEW q \in Scores, q # r PROVE Informed(q)'
  <2>1. Onward(q) /\ (q \in answered' => q \in answered) /\ answered \subseteq answered'
    BY <1>1, <1>3, <1>7 DEF Onward
  <2>2. clock' >= clock
    BY <1>5
  <2> QED BY <1>5, <1>6, <2>1, <2>2, StaysInformed
<1>8. ASSUME r \in Scores PROVE Informed(r)'
  <2>1. Informed(r) /\ r \in DOMAIN stored /\ Ranged(r, stored[r])
    BY <1>1, <1>8 DEF VInv, Informed
  <2>2. /\ KnownTo(r)' = KnownTo(r) /\ OtherThan(r)' = OtherThan(r)
        /\ \A s \in work[r].before : work'[s].at = work[s].at
    BY <1>4, <1>6, <1>8, <2>1, KnownKept DEF OtherThan
  <2>3. Ranged(r, stored[r])'
    BY <1>6, <2>1, <2>2 DEF Ranged
  <2>4. /\ work'[r].at \in Nat /\ work'[r].at < clock'
        /\ work'[r].before \subseteq answered' /\ \A s \in work'[r].before : work'[s].at < work'[r].at
    BY <1>1, <1>4, <1>5, <1>8, <2>1, <2>2 DEF Informed
  <2>5. work'[r].pc = "done" /\ r \in DOMAIN stored'
    BY <1>2, <1>3, <1>6, <2>1
  <2> QED BY <1>5, <2>3, <2>4, <2>5 DEF Informed, Past
<1> QED BY <1>5, <1>6, <1>7, <1>8 DEF VInv

LEMMA InitInforms == Init => VInv
<1> SUFFICES ASSUME Init PROVE VInv
  OBVIOUS
<1>1. events = <<>> /\ DOMAIN events = {} /\ stored = <<>> /\ DOMAIN stored = {}
  BY DEF Init
<1>2. OneEventEach
  BY <1>1 DEF OneEventEach
<1>3. \A r \in Scores : work[r] = Idle
  BY OnlineAssumption DEF Init, Workers
<1>4. clock = 1 /\ answered = {}
  BY DEF Init
<1>5. \A r \in Scores : Informed(r)
  BY <1>1, <1>3, <1>4 DEF Informed, Idle
<1> QED BY <1>2, <1>4, <1>5 DEF VInv

LEMMA StepInforms == IInv /\ VInv /\ [Next]_vars => VInv'
<1> SUFFICES ASSUME IInv, VInv, [Next]_vars PROVE VInv'
  OBVIOUS
<1>1. ASSUME UNCHANGED <<clock, tables, answered, work>> PROVE VInv'
  <2>1. \A r \in Scores : Onward(r)
    BY <1>1 DEF Onward
  <2> QED BY <1>1, <2>1, OnwardKeeps
<1>2. CASE UNCHANGED vars \/ Recover
  BY <1>1, <1>2 DEF vars, tables, Recover
<1>3. ASSUME NEW r \in Requests,
             Call(r) \/ Ping(r) \/ Replace(r) \/ PingAgain(r) \/ Query(r) \/ Stamp(r)
               \/ Return(r) \/ Fail(r)
      PROVE  VInv'
  BY <1>3, CallMovesOn, StampInforms, ReturnInforms
<1>4. ASSUME NEW m \in Messages, Connect(m) \/ Disconnect(m)
      PROVE  VInv'
  BY <1>4, AttemptMovesOn DEF Scored
<1>5. ASSUME NEW w \in Scored, Read(w) \/ (\E told \in BOOLEAN : Persist(w, told)) \/ PersistFails(w)
      PROVE  VInv'
  BY <1>5, ReadInforms, PersistInforms, AttemptMovesOn
<1> QED BY <1>2, <1>3, <1>4, <1>5, OutageLeavesAnswers DEF Next

\* Every request knows what had been answered when it took its time, and every
\* event is that of the one score of its transaction.
THEOREM EveryAnswerIsInformed == Spec => []VInv
<1>1. Init => IInv /\ VInv
  BY InitHolds, InitInforms
<1> QED BY <1>1, Inductive, StepInforms, PTL DEF Spec

\* However requests and retried messages overlap and fail, a decision's velocity
\* is never behind the answers given before its request took its time, and
\* counts no transaction twice.
THEOREM DecisionsSeeEarlierAnswers == Spec => []VelocitySeesEarlierAnswers
<1>1. VInv => VelocitySeesEarlierAnswers
  BY DEF VInv, Informed, Ranged, KnownTo, OtherThan, VelocitySeesEarlierAnswers
<1> QED BY <1>1, EveryAnswerIsInformed, PTL
=============================================================================
