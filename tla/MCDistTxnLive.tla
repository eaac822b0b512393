--------------------------- MODULE MCDistTxnLive ---------------------------
(* Instance of DistTxnLive for TLC: two shards, k1 on the first.           *)
EXTENDS DistTxnLive, TLC

CONSTANTS k1, k2

OwnerOfTwo == (k1 :> 1) @@ (k2 :> 2)
AllKeys == {Keys}
=============================================================================
