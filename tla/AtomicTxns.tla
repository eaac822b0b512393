---------------------------- MODULE AtomicTxns -----------------------------
(***************************************************************************)
(* What transactions promise: each one that commits runs at a single       *)
(* instant.  A serializable one has read exactly the rows of that instant; *)
(* the weaker isolation levels promise nothing about reads here.           *)
(***************************************************************************)
CONSTANTS Keys, Values, Tombstone, NoRow, NoWrite, Txns, NoResult

VARIABLES
    base,    \* the committed rows
    result   \* the reads and writes of each transaction that committed

Row == Values \cup {NoRow}
Results == [reads : SUBSET (Keys \X Row), writes : [Keys -> Values \cup {Tombstone, NoWrite}]]

After(writes) ==
    [k \in Keys |-> IF writes[k] = NoWrite THEN base[k]
                    ELSE IF writes[k] = Tombstone THEN NoRow
                    ELSE writes[k]]

Init ==
    /\ base = [k \in Keys |-> NoRow]
    /\ result = [t \in Txns |-> NoResult]

\* All reads and writes of t happen now.
Execute(t) ==
    /\ result[t] = NoResult
    /\ \E res \in {result'[t]} :
          /\ res \in Results
          /\ \A r \in res.reads : base[r[1]] = r[2]
          /\ base' = After(res.writes)
          /\ result' = [result EXCEPT ![t] = res]

Collect(t) ==
    /\ result' = [result EXCEPT ![t] = NoResult]
    /\ UNCHANGED base

\* A write outside any transaction.
Write(k) ==
    /\ \E v \in Row : base' = [base EXCEPT ![k] = v]
    /\ UNCHANGED result

Next == \/ \E t \in Txns : Execute(t) \/ Collect(t)
        \/ \E k \in Keys : Write(k)

Spec == Init /\ [][Next]_<<base, result>>
=============================================================================
