------------------------------- MODULE MCTxn -------------------------------
(* Small instances of Txn for TLC.                                         *)
EXTENDS Txn

CONSTANTS k1, k2

\* Every nonempty interval of two ordered keys but the point ranges.
AllKeys == {{k1, k2}}
=============================================================================
