--------------------------- MODULE AtomicBatches ---------------------------
(***************************************************************************)
(* What a batch over several shards promises: it is asked for, and then    *)
(* all its rows are written at one instant, or none of them ever is.       *)
(***************************************************************************)
CONSTANTS Keys, Txns, Batches

VARIABLES
    rows,    \* what a read of a key returns when it returns
    asked,   \* the keys of every batch, {} before it is asked for
    done     \* the batches that were written

Init ==
    /\ rows = [k \in Keys |-> 0]
    /\ asked \in [Txns -> Batches \cup {{}}]
    /\ done = {}

Ask(t) ==
    /\ asked[t] = {}
    /\ \E b \in Batches : asked' = [asked EXCEPT ![t] = b]
    /\ UNCHANGED <<rows, done>>

WriteBatch(t) ==
    /\ t \notin done
    /\ rows' = [k \in Keys |-> IF k \in asked[t] THEN t ELSE rows[k]]
    /\ done' = done \cup {t}
    /\ UNCHANGED asked

\* A write to a single shard.
Write(k) ==
    /\ rows' = [rows EXCEPT ![k] = 0]
    /\ UNCHANGED <<asked, done>>

Next == \/ \E t \in Txns : Ask(t) \/ WriteBatch(t)
        \/ \E k \in Keys : Write(k)

Spec == Init /\ [][Next]_<<rows, asked, done>>
=============================================================================
