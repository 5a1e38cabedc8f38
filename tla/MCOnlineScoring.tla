-------------------------- MODULE MCOnlineScoring --------------------------
EXTENDS OnlineScoring, TLC

SomeTx(id, customer, at, device) ==
    [id |-> id, customer |-> customer, at |-> at, amount |-> 6, merchant |-> "m1",
     country |-> "c1", device |-> device]
Transactions == [w \in Scores \cup Messages |->
                   SomeTx(w, "ann", 1, IF w \in Scores THEN "new" ELSE "old")]
Seeded == [ann |-> [avg |-> 1, stddev |-> 2, devices |-> {"old"}, countries |-> {"c1"}]]
RiskyMerchant == [merchant |-> [m1 |-> <<1, 2>>], country |-> [c2 |-> <<1, 2>>], default |-> <<1, 5>>]

OneHourEach(t) == t % 24
ByVelocity(f) == 40 * f.last24h + (IF f.newDevice THEN 35 ELSE 0)
EitherScore == Permutations(Scores)
=============================================================================
