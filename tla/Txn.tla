-------------------------------- MODULE Txn --------------------------------
(***************************************************************************)
(* MultiModelTxn (db/mod.rs): optimistic transactions over the local       *)
(* store, with three isolation levels, savepoints and the retry loop, next *)
(* to writers that commit without a transaction.                           *)
(*                                                                         *)
(* A key range is the set of keys between its bounds.                      *)
(*                                                                         *)
(* Definitions marked "faulty variant" are plausible bugs in the           *)
(* definition below them; no specification uses them.                      *)
(***************************************************************************)
EXTENDS Integers, FiniteSets

CONSTANTS
    Keys, Values,
    Tombstone,   \* a staged delete
    NoRow,       \* no row under the key
    NoWrite,     \* nothing staged for the key
    NoSave,      \* no savepoint under the name
    NoResult,    \* what AtomicTxns knows of an uncommitted transaction
    Ranges,      \* the key ranges callers read
    Txns,        \* threads, each running one transaction after the other
    Isolations,  \* the isolation levels they choose from
    Names,       \* savepoint names
    MaxRetries,  \* TxnOptions::max_retries
    MaxOps,      \* bound on the calls of one attempt
    MaxLsn       \* bound on the number of commits

ASSUME RangeAssumption == Ranges \subseteq SUBSET Keys
ASSUME CellAssumption == /\ NoWrite \notin Values \cup {Tombstone}
                         /\ {NoRow, Tombstone} \cap Values = {}
ASSUME BoundAssumption == MaxLsn \in Nat /\ MaxOps \in Nat /\ MaxRetries \in Nat
ASSUME IsolationAssumption ==
    Isolations \subseteq {"ReadCommitted", "SnapshotIsolation", "Serializable"}

Lsn0 == 0..MaxLsn
Row == Values \cup {NoRow}
WriteSets == [Keys -> Values \cup {Tombstone, NoWrite}]
Reads == SUBSET (Keys \X Row)
NoRows == [k \in Keys |-> NoRow]
EmptyWriteSet == [k \in Keys |-> NoWrite]
Savepoints == [write_set : WriteSets, read_keys : SUBSET Keys,
               read_ranges : SUBSET Ranges, observed : Reads]

VARIABLES
    current_txn_id,  \* last committed LSN
    base,            \* the user tables
    versions,        \* __txn_versions: LSN of the last commit of every key
    pc,              \* "idle", "active", "committed" or "failed"
    isolation,
    snapshot_id,
    read,            \* the storage snapshot: the user tables at snapshot_id
    write_set,
    read_keys,
    read_ranges,
    savepoints,
    attempts,        \* of transaction_with_retry_with_options
    ops,             \* calls made by the attempt
    touched,         \* auxiliary: keys committed by anyone since begin
    observed         \* auxiliary: rows read from storage, less rolled-back reads

db == <<current_txn_id, base, versions, touched>>
tracked == <<write_set, read_keys, read_ranges, observed>>
control == <<pc, isolation, snapshot_id, read, attempts>>
vars == <<db, tracked, control, savepoints, ops>>

-----------------------------------------------------------------------------
\* A call on the transaction of t.
Call(t) ==
    /\ pc[t] = "active"
    /\ ops[t] < MaxOps
    /\ ops' = [ops EXCEPT ![t] = @ + 1]
    /\ UNCHANGED <<db, control>>

\* Where reads go: read committed looks at the current rows, the others at
\* the snapshot.
View(t) == IF isolation[t] = "ReadCommitted" THEN base ELSE read[t]

\* Faulty variant: deletions are staged and lost.
ApplyPutsOnly(rows, ws) ==
    [k \in Keys |-> IF ws[k] \in {NoWrite, Tombstone} THEN rows[k] ELSE ws[k]]

\* The rows with the staged writes on top.
Apply(rows, ws) == [k \in Keys |-> IF ws[k] = NoWrite THEN rows[k]
                                   ELSE IF ws[k] = Tombstone THEN NoRow ELSE ws[k]]

Written(ws) == {k \in Keys : ws[k] # NoWrite}

\* t sees the stored rows of ks and, when serializable, records rkeys and rranges.
Observe(t, ks, rkeys, rranges) ==
    LET rows == {<<k, View(t)[k]>> : k \in ks}
        track == isolation[t] = "Serializable"
    IN  /\ observed' = [observed EXCEPT ![t] = @ \cup rows]
        /\ read_keys' = [read_keys EXCEPT ![t] = IF track THEN @ \cup rkeys ELSE @]
        /\ read_ranges' = [read_ranges EXCEPT ![t] = IF track THEN @ \cup rranges ELSE @]
        /\ UNCHANGED <<write_set, savepoints>>

\* read_raw of a key without a staged write; a staged value is returned as it
\* is and recorded nowhere.
ReadRaw(t, k) ==
    /\ Call(t)
    /\ write_set[t][k] = NoWrite
    /\ Observe(t, {k}, {k}, {})

\* range_raw merges stored rows with staged writes; it records the range and
\* the key of every row it returns.
RangeRaw(t, range) ==
    /\ Call(t)
    /\ Observe(t, range \ Written(write_set[t]),
               {k \in range : Apply(View(t), write_set[t])[k] # NoRow}, {range})

\* queue_ops
QueueOp(t, k, v) ==
    /\ Call(t)
    /\ write_set' = [write_set EXCEPT ![t][k] = v]
    /\ UNCHANGED <<read_keys, read_ranges, observed, savepoints>>

\* Faulty variant.
SavepointWithoutReads(t, name) ==
    /\ Call(t)
    /\ savepoints' = [savepoints EXCEPT ![t][name] =
          [write_set |-> write_set[t], read_keys |-> {},
           read_ranges |-> {}, observed |-> observed[t]]]
    /\ UNCHANGED <<tracked>>

\* savepoint
Savepoint(t, name) ==
    /\ Call(t)
    /\ savepoints' = [savepoints EXCEPT ![t][name] =
          [write_set |-> write_set[t], read_keys |-> read_keys[t],
           read_ranges |-> read_ranges[t], observed |-> observed[t]]]
    /\ UNCHANGED <<tracked>>

\* rollback_to_savepoint; a missing name is an error and changes nothing.
RollbackToSavepoint(t, name) ==
    LET savepoint == savepoints[t][name]
    IN  /\ Call(t)
        /\ savepoint # NoSave
        /\ write_set' = [write_set EXCEPT ![t] = savepoint.write_set]
        /\ read_keys' = [read_keys EXCEPT ![t] = savepoint.read_keys]
        /\ read_ranges' = [read_ranges EXCEPT ![t] = savepoint.read_ranges]
        /\ observed' = [observed EXCEPT ![t] = savepoint.observed]
        /\ UNCHANGED <<savepoints>>

\* release_savepoint
ReleaseSavepoint(t, name) ==
    /\ Call(t)
    /\ savepoints[t][name] # NoSave
    /\ savepoints' = [savepoints EXCEPT ![t][name] = NoSave]
    /\ UNCHANGED <<tracked>>

-----------------------------------------------------------------------------
(* Begin and commit.                                                       *)

\* commit and drop consume everything but the result of a commit, which the
\* model keeps in observed and write_set until the caller has it.
Consume(t) ==
    /\ snapshot_id' = [snapshot_id EXCEPT ![t] = 0]
    /\ read' = [read EXCEPT ![t] = NoRows]
    /\ read_keys' = [read_keys EXCEPT ![t] = {}]
    /\ read_ranges' = [read_ranges EXCEPT ![t] = {}]
    /\ savepoints' = [savepoints EXCEPT ![t] = [n \in Names |-> NoSave]]
    /\ ops' = [ops EXCEPT ![t] = 0]

Drop(t) ==
    /\ Consume(t)
    /\ write_set' = [write_set EXCEPT ![t] = EmptyWriteSet]
    /\ observed' = [observed EXCEPT ![t] = {}]

\* begin_transaction_with_options reads the LSN from the storage snapshot.
Begin(t) ==
    /\ pc[t] = "idle"
    /\ \E i \in Isolations :
          /\ attempts[t] > 0 => i = isolation[t]
          /\ isolation' = [isolation EXCEPT ![t] = i]
    /\ snapshot_id' = [snapshot_id EXCEPT ![t] = current_txn_id]
    /\ read' = [read EXCEPT ![t] = base]
    /\ touched' = [touched EXCEPT ![t] = {}]
    /\ pc' = [pc EXCEPT ![t] = "active"]
    /\ UNCHANGED <<current_txn_id, base, versions, tracked, attempts, savepoints, ops>>

\* Faulty variants.
WriteConflictOnSnapshot(t) ==
    \E k \in Written(write_set[t]) : versions[k] >= snapshot_id[t]
WriteConflictByValue(t) == \E k \in Written(write_set[t]) : base[k] # read[t][k]

\* commit_write_set: a written key changed after the snapshot.
WriteConflict(t) ==
    \E k \in Written(write_set[t]) : versions[k] > snapshot_id[t]

\* Faulty variant.
ReadConflictOnKeys(t) ==
    /\ isolation[t] = "Serializable"
    /\ \E k \in read_keys[t] \ Written(write_set[t]) : versions[k] > snapshot_id[t]

\* validate_serializable_reads: a tracked key, or a row that is now in a
\* tracked range, changed after the snapshot.
ReadConflict(t) ==
    /\ isolation[t] = "Serializable"
    /\ \E k \in Keys \ Written(write_set[t]) :
          /\ versions[k] > snapshot_id[t]
          /\ \/ k \in read_keys[t]
             \/ \E range \in read_ranges[t] : k \in range /\ base[k] # NoRow

\* apply_commit_record_in_txn
ApplyCommitRecord(ws) ==
    LET n == current_txn_id + 1
    IN  /\ n <= MaxLsn
        /\ current_txn_id' = n
        /\ base' = Apply(base, ws)
        /\ versions' = [k \in Keys |-> IF ws[k] = NoWrite THEN versions[k] ELSE n]
        /\ touched' = [t \in Txns |-> IF pc'[t] = "active" THEN touched[t] \cup Written(ws)
                                      ELSE {}]

\* A commit without conflict; one without writes only validates its reads.
CommitOk(t) ==
    /\ pc[t] = "active"
    /\ ~WriteConflict(t)
    /\ ~ReadConflict(t)
    /\ pc' = [pc EXCEPT ![t] = "committed"]
    /\ IF Written(write_set[t]) = {}
       THEN /\ touched' = [touched EXCEPT ![t] = {}]
            /\ UNCHANGED <<current_txn_id, base, versions>>
       ELSE ApplyCommitRecord(write_set[t])
    /\ Consume(t)
    /\ UNCHANGED <<isolation, attempts, write_set, observed>>

\* The attempt of t is over without a commit.
Abandon(t, next) ==
    /\ pc' = [pc EXCEPT ![t] = next]
    /\ touched' = [touched EXCEPT ![t] = {}]
    /\ Drop(t)
    /\ UNCHANGED <<current_txn_id, base, versions, isolation>>

\* StorageError::Conflict: the retry loop starts over or gives up.
CommitConflict(t) ==
    /\ pc[t] = "active"
    /\ WriteConflict(t) \/ ReadConflict(t)
    /\ IF attempts[t] < MaxRetries
       THEN /\ attempts' = [attempts EXCEPT ![t] = @ + 1]
            /\ Abandon(t, "idle")
       ELSE /\ UNCHANGED attempts
            /\ Abandon(t, "failed")

\* rollback, a closure error, or a rejection by a trigger, hook or quota.
Rollback(t) ==
    /\ pc[t] = "active"
    /\ Abandon(t, "failed")
    /\ UNCHANGED attempts

\* The caller has its result; the thread may start another transaction.
Return(t) ==
    /\ pc[t] \in {"committed", "failed"}
    /\ pc' = [pc EXCEPT ![t] = "idle"]
    /\ attempts' = [attempts EXCEPT ![t] = 0]
    /\ isolation' = [isolation EXCEPT ![t] = "SnapshotIsolation"]
    /\ Drop(t)
    /\ UNCHANGED db

\* commit_ops_at_current: a write outside any MultiModelTxn.
WriteAtCurrent(k, v) ==
    /\ UNCHANGED <<tracked, control, savepoints, ops>>
    /\ ApplyCommitRecord([EmptyWriteSet EXCEPT ![k] = v])

-----------------------------------------------------------------------------
Init ==
    /\ current_txn_id = 0
    /\ base = NoRows
    /\ versions = [k \in Keys |-> 0]
    /\ touched = [t \in Txns |-> {}]
    /\ pc = [t \in Txns |-> "idle"]
    /\ isolation = [t \in Txns |-> "SnapshotIsolation"]   \* TxnOptions::default
    /\ snapshot_id = [t \in Txns |-> 0]
    /\ read = [t \in Txns |-> NoRows]
    /\ write_set = [t \in Txns |-> EmptyWriteSet]
    /\ read_keys = [t \in Txns |-> {}]
    /\ read_ranges = [t \in Txns |-> {}]
    /\ savepoints = [t \in Txns |-> [n \in Names |-> NoSave]]
    /\ attempts = [t \in Txns |-> 0]
    /\ ops = [t \in Txns |-> 0]
    /\ observed = [t \in Txns |-> {}]

CallStep(t) ==
    \/ \E k \in Keys : ReadRaw(t, k)
    \/ \E range \in Ranges : RangeRaw(t, range)
    \/ \E k \in Keys, v \in Values \cup {Tombstone} : QueueOp(t, k, v)
    \/ \E name \in Names : \/ Savepoint(t, name)
                           \/ RollbackToSavepoint(t, name)
                           \/ ReleaseSavepoint(t, name)

EndStep(t) == CommitOk(t) \/ CommitConflict(t) \/ Rollback(t) \/ Return(t)

Next ==
    \/ \E t \in Txns : Begin(t) \/ CallStep(t) \/ EndStep(t)
    \/ \E k \in Keys, v \in Values \cup {Tombstone} : WriteAtCurrent(k, v)

Spec == Init /\ [][Next]_vars

-----------------------------------------------------------------------------
(* Properties.                                                             *)

TypeOK ==
    /\ current_txn_id \in Lsn0
    /\ base \in [Keys -> Row]
    /\ versions \in [Keys -> Lsn0]
    /\ pc \in [Txns -> {"idle", "active", "committed", "failed"}]
    /\ isolation \in [Txns -> Isolations \cup {"SnapshotIsolation"}]
    /\ snapshot_id \in [Txns -> Lsn0]
    /\ read \in [Txns -> [Keys -> Row]]
    /\ write_set \in [Txns -> WriteSets]
    /\ read_keys \in [Txns -> SUBSET Keys]
    /\ read_ranges \in [Txns -> SUBSET Ranges]
    /\ savepoints \in [Txns -> [Names -> Savepoints \cup {NoSave}]]
    /\ attempts \in [Txns -> 0..MaxRetries]
    /\ ops \in [Txns -> 0..MaxOps]
    /\ touched \in [Txns -> SUBSET Keys]
    /\ observed \in [Txns -> Reads]

Committed(t) == pc[t] = "active" /\ pc'[t] = "committed"

\* commit_write_set, first committer wins: between the snapshot and the commit
\* of a transaction nobody else committed a key it writes, at any isolation
\* level, so no update is lost.
NoLostUpdate ==
    [][\A t \in Txns : Committed(t) => touched[t] \cap Written(write_set[t]) = {}]_vars

\* validate_serializable_reads: what a serializable transaction read, absent
\* rows of its ranges included, is still what is committed when it commits,
\* so commit order is a serial order.
SerialOrder ==
    [][\A t \in Txns : Committed(t) /\ isolation[t] = "Serializable" =>
          \A r \in observed[t] : base[r[1]] = r[2]]_vars

\* transaction_with_retry_with_options: an attempt only starts over when some
\* other writer committed a key this one wrote or read since its snapshot.
RetryMeansProgress ==
    [][\A t \in Txns : attempts'[t] > attempts[t] =>
          touched[t] \cap (Written(write_set[t]) \cup read_keys[t] \cup
                           UNION read_ranges[t]) # {}]_vars

\* MultiModelTxn::commit as AtomicTxns sees it: a serializable transaction
\* that commits takes effect, with all it has read, at one instant.
Result(t) ==
    IF pc[t] = "committed"
    THEN [reads |-> IF isolation[t] = "Serializable" THEN observed[t] ELSE {},
          writes |-> write_set[t]]
    ELSE NoResult
Atomic == INSTANCE AtomicTxns WITH result <- [t \in Txns |-> Result(t)]
TakesEffectAtOnce == Atomic!Spec

-----------------------------------------------------------------------------
(* The inductive invariant behind these properties.                        *)

\* The reads os of a transaction are those of its snapshot, and each is
\* covered by a tracked key or, when it found no row, by a tracked range.
Covered(os, rkeys, rranges, rows) ==
    \A r \in os : /\ rows[r[1]] = r[2]
                  /\ \/ r[1] \in rkeys
                     \/ r[2] = NoRow /\ \E range \in rranges : r[1] \in range

\* __txn_versions tells exactly what changed after the snapshot of an active
\* transaction.
ActiveInv(t) ==
    pc[t] = "active" =>
        /\ snapshot_id[t] <= current_txn_id
        /\ touched[t] = {k \in Keys : versions[k] > snapshot_id[t]}
        /\ \A k \in Keys \ touched[t] : base[k] = read[t][k]

\* Read tracking of a serializable transaction is complete, also in every
\* savepoint it may return to.
TrackingInv(t) ==
    /\ pc[t] # "active" => savepoints[t] = [n \in Names |-> NoSave]
    /\ pc[t] \notin {"active", "committed"} =>
          write_set[t] = EmptyWriteSet /\ observed[t] = {}
    /\ pc[t] = "active" /\ isolation[t] = "Serializable" =>
          /\ Covered(observed[t], read_keys[t], read_ranges[t], read[t])
          /\ \A n \in Names : savepoints[t][n] # NoSave =>
                Covered(savepoints[t][n].observed, savepoints[t][n].read_keys,
                        savepoints[t][n].read_ranges, read[t])

TxnInv == /\ TypeOK
          /\ \A k \in Keys : versions[k] <= current_txn_id
          /\ \A t \in Txns : ActiveInv(t) /\ TrackingInv(t)
=============================================================================
