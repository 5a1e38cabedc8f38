---------------------------- MODULE EntityGraph ----------------------------
(***************************************************************************)
(* The in-process entity graph (fraud_intel/graph/entity_graph.py), built  *)
(* anew for every scoring call from the context's historical events.       *)
(*                                                                         *)
(* An entity is a pair <<type, id>>; an event is a record with a time and  *)
(* an id at least, entities[e] the entities a channel's extractor names in *)
(* it (two at least).  Scores and weights are in hundredths.               *)
(***************************************************************************)
EXTENDS Integers, Sequences, FiniteSets, FiniteSetsExt, SequencesExt

\* At most one entity of an event plays the other party; ACH names none.
CounterpartyTypes == {"beneficiary", "recipient", "card", "atm", "check_payee"}
CounterpartyKeys(entities) == {x \in entities : x[1] \in CounterpartyTypes}

\* ResolvedFraudEntityEvidence not strictly before the event, GraphLeakageError.
EvidenceLeaks(evidence, now) == \E x \in evidence : x.basis >= now

Earlier(a, b) == a.time < b.time \/ (a.time = b.time /\ a.id < b.id)

LeaksInto(history, now) == \E e \in history : e.time >= now

EdgesAmong(entities) == {link \in entities \X entities : link[1] # link[2]}

(* Newest first, up to the history cap, until the next older event would   *)
(* pass the node or the edge bound: what is older than that is left out.   *)
KeptEvents(history, policy, entities) ==
    LET newer     == [e \in history |-> Cardinality({x \in history : Earlier(e, x)})]
        Newest(n) == {e \in history : newer[e] < n}
        Nodes(n)  == UNION {entities[e] : e \in Newest(n)}
        Edges(n)  == MapThenSumSet(LAMBDA e : Cardinality(EdgesAmong(entities[e])), Newest(n))
        fits      == {n \in 0..policy.maxHistory :
                         Cardinality(Nodes(n)) <= policy.maxNodes /\ Edges(n) <= policy.maxEdges}
    IN  Newest(Max(fits))

\* One extractor, the scored event's channel's own, reads every event of the history.
Graph(history, policy, entities) ==
    LET kept == KeptEvents(history, policy, entities)
    IN  [links |-> UNION {EdgesAmong(entities[e]) : e \in kept}, truncated |-> kept # history]

NeighboursOf(g, x) == {link[2] : link \in {l \in g.links : l[1] = x}}

CustomersBeside(g, x) == {y \in NeighboursOf(g, x) : y[1] = "customer"}

SharedDeviceCount(g, devices)  == Cardinality(UNION {CustomersBeside(g, d) : d \in devices})
FanInCount(g, counterparties)  == Cardinality(UNION {CustomersBeside(g, c) : c \in counterparties})
FanOutCount(g, customer) ==
    Cardinality({y \in NeighboursOf(g, customer) : y[1] \in {"recipient", "beneficiary"}})

Unreachable == -1

\* Neighbours not yet visited.
NextFrontier(g, before) == (UNION {NeighboursOf(g, x) : x \in before.frontier}) \ before.visited

\* Breadth-first search, one frontier a round.
Rounds(g, start, maxNodes) ==
    LET Round[n \in 0..maxNodes] ==
            IF n = 0 THEN [visited |-> {start}, frontier |-> {start}]
            ELSE LET before == Round[n - 1]
                     next   == NextFrontier(g, before)
                 IN  [visited |-> before.visited \cup next, frontier |-> next]
    IN  Round

(* The distance is the number of the first round that comes to a linked    *)
(* entity; maxNodes of them explore a graph of no more nodes.              *)
HopsToFraud(g, start, linked, maxNodes) ==
    LET round == Rounds(g, start, maxNodes)
        hits  == {n \in 1..maxNodes : \E x \in linked : x \in round[n].frontier}
    IN  IF start \in linked THEN 0 ELSE IF hits = {} THEN Unreachable ELSE Min(hits)

\* Every weight is in hundredths; a count saturates at its cap.
Saturated(count, cap) == (100 * Min({count, cap})) \div cap

GraphRisk(g, customer, devices, others, linked, policy) ==
    LET hops     == HopsToFraud(g, customer, linked, policy.maxNodes)
        nearness == IF hops = Unreachable THEN 0 ELSE 100 \div (1 + hops)
        weighted == policy.deviceWeight * Saturated(SharedDeviceCount(g, devices), policy.deviceCap)
                  + policy.fanInWeight * Saturated(FanInCount(g, others), policy.fanInCap)
                  + policy.fanOutWeight * Saturated(FanOutCount(g, customer), policy.fanOutCap)
                  + policy.pathWeight * nearness
    IN  Min({weighted \div 100, 100})

\* GraphPolicy's validators: positive bounds, weights that sum to at most 1.
ValidGraphPolicy(p) ==
    /\ {p.deviceCap, p.fanInCap, p.fanOutCap, p.maxHistory, p.maxNodes, p.maxEdges} \subseteq Nat \ {0}
    /\ {p.deviceWeight, p.fanInWeight, p.fanOutWeight, p.pathWeight} \subseteq Nat
    /\ p.deviceWeight + p.fanInWeight + p.fanOutWeight + p.pathWeight <= 100
=============================================================================
