----------------------------- MODULE MCDistTxn -----------------------------
(* Instances of DistTxn for TLC: two shards, k1 on the first.              *)
EXTENDS DistTxn, TLC

CONSTANTS k1, k2

OwnerOfTwo == (k1 :> 1) @@ (k2 :> 2)
AllKeys == {Keys}
Symmetry == Permutations(Routers)
=============================================================================
