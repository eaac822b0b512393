----------------------------- MODULE MCApDynamo -----------------------------
(* Small instances of ApDynamo for TLC.                                    *)
EXTENDS ApDynamo

CONSTANTS t1, t2

\* Nodes 1 and 2 hold the keys, node 3 only coordinates.
OneRegion == [n \in Nodes |-> "r"]
FirstNodes == [k \in Keys |-> [n \in Nodes |-> 10 - n]]
HomeOf == [t \in Threads |-> IF t = t1 THEN 1 ELSE 3]
TasksOf == [t \in Threads |-> IF t = t1 THEN {"write", "deliver", "anti_entropy"}
                              ELSE {"write", "strong", "range", "siblings"}]

\* Two regions of two nodes; a caller in each.
TwoRegions == [n \in Nodes |-> IF n < 3 THEN "r" ELSE "s"]
WriterAndReader == [t \in Threads |-> IF t = t1 THEN {"write"} ELSE {"strong"}]

\* Nothing is late and no hint waits.
Quiet == net = {} /\ \A n \in Nodes : hints[n] = {}
InAntiEntropy(t) == pc[t] \in {"leaves", "fetch", "fetched", "exchange", "push"}

\* A third write, a range and siblings are explored from a quiet network only,
\* anti-entropy and a second hint while nothing is late.
Focus ==
    /\ (\E t \in Threads : call[t] \in {"range", "siblings"}) => Quiet
    /\ (\E t \in Threads : InAntiEntropy(t)) => net = {} /\ Cardinality(issued) < 3
    /\ (\E n \in Nodes : Cardinality(hints[n]) > 1) => net = {}
    /\ Cardinality(issued) > 2 => Quiet
=============================================================================
