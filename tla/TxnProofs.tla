----------------------------- MODULE TxnProofs -----------------------------
(***************************************************************************)
(* Proofs about Txn, for any number of keys, transactions, savepoints and  *)
(* commits.  The invariant TxnInv says that __txn_versions tells what      *)
(* changed since a snapshot and that read tracking covers every read; the  *)
(* two together make the checks of a commit sufficient.                    *)
(***************************************************************************)
EXTENDS Txn, TLAPS

-----------------------------------------------------------------------------
(* Types.                                                                  *)

(* Staged writes on top of rows are rows again.                            *)
LEMMA ApplyType ==
    ASSUME NEW rows \in [Keys -> Row], NEW ws \in WriteSets
    PROVE  Apply(rows, ws) \in [Keys -> Row]
BY Zenon DEF Apply, Row, WriteSets

(* Nothing staged and no rows have their types.                            *)
LEMMA EmptyTypes == EmptyWriteSet \in WriteSets /\ NoRows \in [Keys -> Row]
BY Zenon DEF EmptyWriteSet, NoRows, WriteSets, Row

(* A commit record keeps the types of the store.                           *)
LEMMA CommitRecordType ==
    ASSUME TypeOK, NEW ws \in WriteSets, ApplyCommitRecord(ws)
    PROVE  /\ current_txn_id' \in Lsn0
           /\ base' \in [Keys -> Row]
           /\ versions' \in [Keys -> Lsn0]
           /\ touched' \in [Txns -> SUBSET Keys]
<1>1. current_txn_id' \in Lsn0 /\ current_txn_id' = current_txn_id + 1
  BY BoundAssumption DEF ApplyCommitRecord, TypeOK, Lsn0
<1>2. base' \in [Keys -> Row]
  BY ApplyType, Zenon DEF ApplyCommitRecord, TypeOK
<1>3. versions' \in [Keys -> Lsn0]
  BY <1>1, Zenon DEF ApplyCommitRecord, TypeOK
<1>4. Written(ws) \subseteq Keys
  BY Zenon DEF Written
<1>5. touched' \in [Txns -> SUBSET Keys]
  BY <1>4, Zenon DEF ApplyCommitRecord, TypeOK
<1> QED
  BY Zenon, <1>1, <1>2, <1>3, <1>5

(* Reads record rows of the view.                                          *)
LEMMA ObserveType ==
    ASSUME TypeOK, NEW t \in Txns, NEW ks \in SUBSET Keys, NEW rkeys \in SUBSET Keys,
           NEW rranges \in SUBSET Ranges, Observe(t, ks, rkeys, rranges)
    PROVE  /\ observed' \in [Txns -> Reads]
           /\ read_keys' \in [Txns -> SUBSET Keys]
           /\ read_ranges' \in [Txns -> SUBSET Ranges]
           /\ UNCHANGED <<write_set, savepoints>>
<1> DEFINE rows == {<<k, View(t)[k]>> : k \in ks}
<1>1. View(t) \in [Keys -> Row]
  BY Zenon DEF View, TypeOK
<1>2. rows \in Reads
  BY <1>1 DEF Reads
<1>3. \A x \in Reads : x \cup rows \in Reads
  BY <1>2, Zenon DEF Reads
<1>4. observed' = [observed EXCEPT ![t] = @ \cup rows]
  BY Zenon DEF Observe
<1> HIDE DEF rows
<1>5. observed' \in [Txns -> Reads]
  BY <1>3, <1>4, Zenon DEF TypeOK
<1> QED
  BY <1>5, Zenon DEF Observe, TypeOK

(* Dropping an attempt keeps types.                                        *)
LEMMA ConsumeType ==
    ASSUME TypeOK, NEW t \in Txns, Consume(t)
    PROVE  /\ snapshot_id' \in [Txns -> Lsn0]
           /\ read' \in [Txns -> [Keys -> Row]]
           /\ read_keys' \in [Txns -> SUBSET Keys]
           /\ read_ranges' \in [Txns -> SUBSET Ranges]
           /\ savepoints' \in [Txns -> [Names -> Savepoints \cup {NoSave}]]
           /\ ops' \in [Txns -> 0..MaxOps]
BY EmptyTypes, BoundAssumption DEF Consume, TypeOK, Lsn0

(* So does forgetting its writes and reads.                                *)
LEMMA DropType ==
    ASSUME TypeOK, NEW t \in Txns, Drop(t)
    PROVE  /\ Consume(t)
           /\ write_set' \in [Txns -> WriteSets]
           /\ observed' \in [Txns -> Reads]
BY EmptyTypes, Zenon DEF Drop, TypeOK, Reads

(* Every call on a transaction keeps types.                                *)
LEMMA CallType == ASSUME TypeOK, NEW t \in Txns, CallStep(t) PROVE TypeOK'
<1>0. Call(t) => /\ ops' \in [Txns -> 0..MaxOps]
                 /\ UNCHANGED <<current_txn_id, base, versions, touched>>
                 /\ UNCHANGED <<pc, isolation, snapshot_id, read, attempts>>
  BY BoundAssumption DEF Call, TypeOK, db, control
<1>1. ASSUME NEW k \in Keys, ReadRaw(t, k) PROVE TypeOK'
  BY <1>0, <1>1, ObserveType, {k} \in SUBSET Keys, {} \in SUBSET Ranges, Zenon DEF ReadRaw, TypeOK
<1>2. ASSUME NEW range \in Ranges, RangeRaw(t, range) PROVE TypeOK'
  <2>1. range \in SUBSET Keys
    BY Zenon, RangeAssumption
  <2> DEFINE hit == {k \in range : Apply(View(t), write_set[t])[k] # NoRow}
  <2>2. range \ Written(write_set[t]) \in SUBSET Keys /\ hit \in SUBSET Keys /\ {range} \in SUBSET Ranges
    BY Zenon, <2>1
  <2>3. Observe(t, range \ Written(write_set[t]), hit, {range}) /\ Call(t)
    BY <1>2, Zenon DEF RangeRaw
  <2> HIDE DEF hit
  <2> QED
    BY <1>0, <2>2, <2>3, ObserveType, Zenon DEF TypeOK
<1>3. ASSUME NEW k \in Keys, NEW v \in Values \cup {Tombstone}, QueueOp(t, k, v) PROVE TypeOK'
  <2>1. write_set' \in [Txns -> WriteSets]
    BY <1>3, Zenon DEF QueueOp, TypeOK, WriteSets
  <2> QED
    BY <1>0, <1>3, <2>1, Zenon DEF QueueOp, TypeOK
<1>4. ASSUME NEW n \in Names, Savepoint(t, n) PROVE TypeOK'
  <2> DEFINE sp == [write_set |-> write_set[t], read_keys |-> read_keys[t],
                    read_ranges |-> read_ranges[t], observed |-> observed[t]]
  <2>1. sp \in Savepoints
    BY Zenon DEF Savepoints, TypeOK
  <2>2. savepoints' = [savepoints EXCEPT ![t][n] = sp]
    BY <1>4, Zenon DEF Savepoint
  <2> HIDE DEF sp
  <2>3. savepoints' \in [Txns -> [Names -> Savepoints \cup {NoSave}]]
    BY <2>1, <2>2, Zenon DEF TypeOK
  <2> QED
    BY <1>0, <1>4, <2>3, Zenon DEF Savepoint, tracked, TypeOK
<1>5. ASSUME NEW n \in Names, RollbackToSavepoint(t, n) PROVE TypeOK'
  <2>1. savepoints[t][n] \in Savepoints
    BY <1>5 DEF RollbackToSavepoint, TypeOK
  <2>2. /\ savepoints[t][n].write_set \in WriteSets
        /\ savepoints[t][n].read_keys \in SUBSET Keys
        /\ savepoints[t][n].read_ranges \in SUBSET Ranges
        /\ savepoints[t][n].observed \in Reads
    BY <2>1, Zenon DEF Savepoints
  <2> QED
    BY <1>0, <1>5, <2>2, Zenon DEF RollbackToSavepoint, TypeOK
<1>6. ASSUME NEW n \in Names, ReleaseSavepoint(t, n) PROVE TypeOK'
  <2>1. savepoints' \in [Txns -> [Names -> Savepoints \cup {NoSave}]]
    BY <1>6, Zenon DEF ReleaseSavepoint, TypeOK
  <2> QED
    BY <1>0, <1>6, <2>1, Zenon DEF ReleaseSavepoint, tracked, TypeOK
<1> QED
  BY <1>1, <1>2, <1>3, <1>4, <1>5, <1>6, Zenon DEF CallStep

(* Begin, commit, retry, rollback and return keep types.                   *)
LEMMA LifeType ==
    ASSUME TypeOK, NEW t \in Txns, Begin(t) \/ EndStep(t)
    PROVE  TypeOK'
<1>1. CASE Begin(t)
  <2>1. isolation' \in [Txns -> Isolations \cup {"SnapshotIsolation"}]
    BY <1>1 DEF Begin, TypeOK
  <2> QED
    BY <1>1, <2>1, Zenon DEF Begin, TypeOK, tracked
<1>2. CASE CommitOk(t)
  <2>1. Consume(t) /\ UNCHANGED <<isolation, attempts, write_set, observed>>
    BY <1>2, Zenon DEF CommitOk
  <2>2. pc' \in [Txns -> {"idle", "active", "committed", "failed"}]
    BY <1>2, Zenon DEF CommitOk, TypeOK
  <2>3. CASE Written(write_set[t]) = {}
    <3>1. touched' = [touched EXCEPT ![t] = {}] /\ UNCHANGED <<current_txn_id, base, versions>>
      BY <1>2, <2>3, Zenon DEF CommitOk
    <3>2. touched' \in [Txns -> SUBSET Keys]
      BY <3>1, Zenon DEF TypeOK
    <3> QED
      BY <2>1, <2>2, <3>1, <3>2, ConsumeType, Zenon DEF TypeOK
  <2>4. CASE Written(write_set[t]) # {}
    <3>1. ApplyCommitRecord(write_set[t]) /\ write_set[t] \in WriteSets
      BY <1>2, <2>4, Zenon DEF CommitOk, TypeOK
    <3> QED
      BY <2>1, <2>2, <3>1, ConsumeType, CommitRecordType, Zenon DEF TypeOK
  <2> QED
    BY Zenon, <2>3, <2>4
<1>3. ASSUME NEW next \in {"idle", "failed"}, Abandon(t, next),
             attempts' \in [Txns -> 0..MaxRetries]
      PROVE  TypeOK'
  <2>1. pc' \in [Txns -> {"idle", "active", "committed", "failed"}]
    BY <1>3, Zenon DEF Abandon, TypeOK
  <2>2. touched' \in [Txns -> SUBSET Keys]
    BY <1>3, Zenon DEF Abandon, TypeOK
  <2> QED
    BY <1>3, <2>1, <2>2, DropType, ConsumeType, Zenon DEF Abandon, TypeOK
<1>4. CASE CommitConflict(t)
  <2>1. CASE attempts[t] < MaxRetries
    <3>1. attempts' \in [Txns -> 0..MaxRetries]
      <4>1. attempts[t] + 1 \in 0..MaxRetries
        BY <2>1, BoundAssumption DEF TypeOK
      <4>2. attempts' = [attempts EXCEPT ![t] = attempts[t] + 1]
        BY <1>4, <2>1, Zenon DEF CommitConflict
      <4> QED
        BY <4>1, <4>2, Zenon DEF TypeOK
    <3> QED
      BY <1>3, <1>4, <2>1, <3>1, Zenon DEF CommitConflict
  <2>2. CASE ~(attempts[t] < MaxRetries)
    BY <1>3, <1>4, <2>2, Zenon DEF CommitConflict, TypeOK
  <2> QED
    BY Zenon, <2>1, <2>2
<1>5. CASE Rollback(t)
  BY <1>3, <1>5, Zenon DEF Rollback, TypeOK
<1>6. CASE Return(t)
  <2>1. /\ pc' \in [Txns -> {"idle", "active", "committed", "failed"}]
        /\ attempts' \in [Txns -> 0..MaxRetries]
        /\ isolation' \in [Txns -> Isolations \cup {"SnapshotIsolation"}]
    BY <1>6, BoundAssumption DEF Return, TypeOK
  <2> QED
    BY <1>6, <2>1, DropType, ConsumeType, Zenon DEF Return, TypeOK, db
<1> QED
  BY <1>1, <1>2, <1>4, <1>5, <1>6, Zenon DEF EndStep

(* A write outside any transaction has a write set of its own.             *)
LEMMA SingleWriteType ==
    ASSUME NEW k \in Keys, NEW v \in Values \cup {Tombstone}
    PROVE  [EmptyWriteSet EXCEPT ![k] = v] \in WriteSets
BY Zenon DEF EmptyWriteSet, WriteSets

(* Every step keeps every variable in its type.                            *)
LEMMA TypeStep == TypeOK /\ [Next]_vars => TypeOK'
<1> SUFFICES ASSUME TypeOK, [Next]_vars PROVE TypeOK'
  BY Zenon
<1>1. ASSUME NEW t \in Txns, Begin(t) \/ CallStep(t) \/ EndStep(t) PROVE TypeOK'
  BY Zenon, <1>1, CallType, LifeType
<1>2. ASSUME NEW k \in Keys, NEW v \in Values \cup {Tombstone}, WriteAtCurrent(k, v)
      PROVE  TypeOK'
  BY <1>2, SingleWriteType, CommitRecordType, Zenon DEF WriteAtCurrent, TypeOK, tracked, control
<1>3. CASE UNCHANGED vars
  BY <1>3, Zenon DEF TypeOK, vars, db, tracked, control
<1> QED
  BY <1>1, <1>2, <1>3, Zenon DEF Next

(* An empty database and idle threads have their types.                    *)
LEMMA TypeInit == Init => TypeOK
<1> SUFFICES ASSUME Init PROVE TypeOK
  BY Zenon
<1>1. {} \in Reads
  BY Zenon DEF Reads
<1> QED
  BY <1>1, EmptyTypes, BoundAssumption DEF Init, TypeOK, Lsn0

-----------------------------------------------------------------------------
(* The invariant.                                                          *)

(* Another commit: __txn_versions and the auxiliary touched move together. *)
LEMMA CommitRecordKeepsActive ==
    ASSUME TxnInv, NEW ws \in WriteSets, ApplyCommitRecord(ws)
    PROVE  /\ \A k \in Keys : versions'[k] <= current_txn_id'
           /\ \A u \in Txns :
                 /\ pc[u] = "active" /\ pc'[u] = "active"
                 /\ snapshot_id'[u] = snapshot_id[u] /\ read'[u] = read[u]
                 => ActiveInv(u)'
<1>1. current_txn_id' = current_txn_id + 1 /\ current_txn_id \in Nat /\ versions \in [Keys -> Nat]
      /\ snapshot_id \in [Txns -> Nat]
  BY BoundAssumption DEF ApplyCommitRecord, TxnInv, TypeOK, Lsn0
<1>2. \A k \in Keys : versions'[k] <= current_txn_id'
  BY <1>1 DEF ApplyCommitRecord, TxnInv
<1>3. ASSUME NEW u \in Txns, pc[u] = "active", pc'[u] = "active",
             snapshot_id'[u] = snapshot_id[u], read'[u] = read[u]
      PROVE  ActiveInv(u)'
  <2>1. /\ snapshot_id[u] <= current_txn_id
        /\ touched[u] = {k \in Keys : versions[k] > snapshot_id[u]}
        /\ \A k \in Keys \ touched[u] : base[k] = read[u][k]
    BY <1>3, Zenon DEF TxnInv, ActiveInv
  <2>2. touched'[u] = touched[u] \cup Written(ws)
    BY <1>3, Zenon DEF ApplyCommitRecord
  <2>3. \A k \in Keys :
          IF k \in Written(ws) THEN versions'[k] = current_txn_id + 1
                               ELSE versions'[k] = versions[k] /\ base'[k] = base[k]
    BY Zenon DEF ApplyCommitRecord, Apply, Written
  <2>4. touched'[u] = {k \in Keys : versions'[k] > snapshot_id[u]}
    BY <1>1, <2>1, <2>2, <2>3 DEF Written
  <2>5. \A k \in Keys \ touched'[u] : base'[k] = read[u][k]
    BY Zenon, <2>1, <2>2, <2>3
  <2> QED
    BY <1>1, <1>3, <2>1, <2>4, <2>5 DEF ActiveInv
<1> QED
  BY Zenon, <1>2, <1>3

(* A transaction nobody touches keeps its part of the invariant.           *)
LEMMA QuietTxn ==
    ASSUME TxnInv, NEW u \in Txns,
           UNCHANGED <<current_txn_id, base, versions>>, touched'[u] = touched[u],
           pc'[u] = pc[u], snapshot_id'[u] = snapshot_id[u], read'[u] = read[u]
    PROVE  ActiveInv(u)'
BY DEF TxnInv, ActiveInv

(* The same for its read tracking.                                         *)
LEMMA QuietTracking ==
    ASSUME TxnInv, NEW u \in Txns,
           pc'[u] = pc[u], isolation'[u] = isolation[u], read'[u] = read[u],
           write_set'[u] = write_set[u], read_keys'[u] = read_keys[u],
           read_ranges'[u] = read_ranges[u], observed'[u] = observed[u],
           savepoints'[u] = savepoints[u]
    PROVE  TrackingInv(u)'
BY Zenon DEF TxnInv, TrackingInv

(* A read is covered by what it records.                                   *)
LEMMA ObserveCovers ==
    ASSUME TxnInv, NEW t \in Txns, pc[t] = "active", isolation[t] = "Serializable",
           NEW ks \in SUBSET Keys, NEW rkeys \in SUBSET Keys,
           NEW rranges \in SUBSET Ranges, Observe(t, ks, rkeys, rranges),
           \A k \in ks : k \in rkeys \/ (read[t][k] = NoRow /\ \E range \in rranges : k \in range)
    PROVE  Covered(observed'[t], read_keys'[t], read_ranges'[t], read[t])
<1> DEFINE rows == {<<k, read[t][k]>> : k \in ks}
<1>1. View(t) = read[t]
  BY Zenon DEF View
<1>2. /\ observed'[t] = observed[t] \cup rows
      /\ read_keys'[t] = read_keys[t] \cup rkeys
      /\ read_ranges'[t] = read_ranges[t] \cup rranges
  BY <1>1 DEF Observe, TxnInv, TypeOK
<1>3. Covered(observed[t], read_keys[t], read_ranges[t], read[t])
  BY Zenon DEF TxnInv, TrackingInv
<1>4. ASSUME NEW r \in rows
      PROVE  /\ read[t][r[1]] = r[2]
             /\ \/ r[1] \in rkeys
                \/ r[2] = NoRow /\ \E range \in rranges : r[1] \in range
  <2>1. PICK k \in ks : r = <<k, read[t][k]>>
    BY Zenon
  <2> QED
    BY Zenon, <2>1
<1> HIDE DEF rows
<1> QED
  BY <1>2, <1>3, <1>4, Zenon DEF Covered

(* Every call on a transaction preserves the invariant.                    *)
LEMMA CallKeepsInv ==
    ASSUME TxnInv, NEW t \in Txns, CallStep(t)
    PROVE  \A u \in Txns : ActiveInv(u)' /\ TrackingInv(u)'
<1>0. /\ pc[t] = "active"
      /\ UNCHANGED <<current_txn_id, base, versions, touched>>
      /\ UNCHANGED <<pc, isolation, snapshot_id, read, attempts>>
  BY Zenon DEF CallStep, ReadRaw, RangeRaw, QueueOp, Savepoint, RollbackToSavepoint,
         ReleaseSavepoint, Call, db, control
<1>1. \A u \in Txns : ActiveInv(u)'
  BY Zenon, <1>0, QuietTxn
<1>2. ASSUME NEW u \in Txns \ {t} PROVE TrackingInv(u)'
  <2>1. /\ write_set'[u] = write_set[u] /\ read_keys'[u] = read_keys[u]
        /\ read_ranges'[u] = read_ranges[u] /\ observed'[u] = observed[u]
        /\ savepoints'[u] = savepoints[u]
    BY DEF CallStep, ReadRaw, RangeRaw, QueueOp, Savepoint, RollbackToSavepoint,
           ReleaseSavepoint, Observe, tracked, TxnInv, TypeOK
  <2> QED
    BY Zenon, <1>0, <2>1, QuietTracking
<1>3. TrackingInv(t)'
  <2> SUFFICES ASSUME isolation[t] = "Serializable"
               PROVE  /\ Covered(observed'[t], read_keys'[t], read_ranges'[t], read[t])
                      /\ \A n \in Names : savepoints'[t][n] # NoSave =>
                            Covered(savepoints'[t][n].observed, savepoints'[t][n].read_keys,
                                    savepoints'[t][n].read_ranges, read[t])
    BY <1>0, Zenon DEF TrackingInv
  <2>0. /\ Covered(observed[t], read_keys[t], read_ranges[t], read[t])
        /\ \A n \in Names : savepoints[t][n] # NoSave =>
              Covered(savepoints[t][n].observed, savepoints[t][n].read_keys,
                      savepoints[t][n].read_ranges, read[t])
    BY <1>0, Zenon DEF TxnInv, TrackingInv
  <2>1. CASE \E k \in Keys : ReadRaw(t, k)
    <3>1. PICK k \in Keys : ReadRaw(t, k)
      BY Zenon, <2>1
    <3>2. Observe(t, {k}, {k}, {})
      BY <3>1, Zenon DEF ReadRaw
    <3>3. {k} \in SUBSET Keys /\ {} \in SUBSET Ranges
      BY Zenon
    <3>4. Covered(observed'[t], read_keys'[t], read_ranges'[t], read[t])
      BY Zenon, <1>0, <3>2, <3>3, ObserveCovers
    <3>5. UNCHANGED savepoints
      BY <3>2, Zenon DEF Observe
    <3> QED
      BY Zenon, <2>0, <3>4, <3>5
  <2>2. CASE \E range \in Ranges : RangeRaw(t, range)
    <3>1. PICK range \in Ranges : RangeRaw(t, range)
      BY Zenon, <2>2
    <3> DEFINE ks == range \ Written(write_set[t])
               hit == {k \in range : Apply(View(t), write_set[t])[k] # NoRow}
    <3>2. Observe(t, ks, hit, {range})
      BY <3>1, Zenon DEF RangeRaw
    <3>3. ks \in SUBSET Keys /\ hit \in SUBSET Keys /\ {range} \in SUBSET Ranges
      BY Zenon, RangeAssumption
    <3>4. ASSUME NEW k \in ks
          PROVE  k \in hit \/ (read[t][k] = NoRow /\ \E rg \in {range} : k \in rg)
      <4>1. k \in Keys /\ k \in range /\ write_set[t][k] = NoWrite
        BY <3>3, Zenon DEF Written
      <4>2. Apply(View(t), write_set[t])[k] = read[t][k]
        BY <4>1, Zenon DEF Apply, View
      <4> QED
        BY Zenon, <4>1, <4>2
    <3> HIDE DEF ks, hit
    <3>5. Covered(observed'[t], read_keys'[t], read_ranges'[t], read[t])
      BY <1>0, <3>2, <3>3, <3>4, ObserveCovers
    <3>6. UNCHANGED savepoints
      BY <3>2, Zenon DEF Observe
    <3> QED
      BY Zenon, <2>0, <3>5, <3>6
  <2>3. CASE \E k \in Keys, v \in Values \cup {Tombstone} : QueueOp(t, k, v)
    BY <2>0, <2>3, Zenon DEF QueueOp
  <2>4. ASSUME NEW n \in Names, Savepoint(t, n)
        PROVE  /\ Covered(observed'[t], read_keys'[t], read_ranges'[t], read[t])
               /\ \A m \in Names : savepoints'[t][m] # NoSave =>
                     Covered(savepoints'[t][m].observed, savepoints'[t][m].read_keys,
                             savepoints'[t][m].read_ranges, read[t])
    <3> DEFINE sp == [write_set |-> write_set[t], read_keys |-> read_keys[t],
                      read_ranges |-> read_ranges[t], observed |-> observed[t]]
    <3>1. savepoints' = [savepoints EXCEPT ![t][n] = sp] /\ UNCHANGED tracked
      BY <2>4, Zenon DEF Savepoint
    <3>2. savepoints \in [Txns -> [Names -> Savepoints \cup {NoSave}]]
      BY Zenon DEF TxnInv, TypeOK
    <3>3. /\ sp.observed = observed[t] /\ sp.read_keys = read_keys[t]
          /\ sp.read_ranges = read_ranges[t]
      BY Zenon
    <3> HIDE DEF sp
    <3>4. \A m \in Names : savepoints'[t][m] = IF m = n THEN sp ELSE savepoints[t][m]
      BY Zenon, <3>1, <3>2
    <3> QED
      BY <2>0, <3>1, <3>3, <3>4, Zenon DEF tracked
  <2>5. ASSUME NEW n \in Names, RollbackToSavepoint(t, n)
        PROVE  /\ Covered(observed'[t], read_keys'[t], read_ranges'[t], read[t])
               /\ UNCHANGED savepoints
    <3>1. /\ observed'[t] = savepoints[t][n].observed
          /\ read_keys'[t] = savepoints[t][n].read_keys
          /\ read_ranges'[t] = savepoints[t][n].read_ranges
          /\ savepoints[t][n] # NoSave
          /\ UNCHANGED savepoints
      BY <2>5, Zenon DEF RollbackToSavepoint, TxnInv, TypeOK
    <3> QED
      BY Zenon, <2>0, <3>1
  <2>6. ASSUME NEW n \in Names, ReleaseSavepoint(t, n)
        PROVE  /\ UNCHANGED tracked
               /\ \A m \in Names : savepoints'[t][m] # NoSave =>
                     savepoints'[t][m] = savepoints[t][m]
    BY <2>6, Zenon DEF ReleaseSavepoint, TxnInv, TypeOK
  <2> QED
    BY <2>0, <2>1, <2>2, <2>3, <2>4, <2>5, <2>6, Zenon DEF CallStep, tracked
<1> QED
  BY Zenon, <1>1, <1>2, <1>3

(* A transaction that is not active after Drop or Consume holds nothing.   *)
LEMMA StoppedTxn ==
    ASSUME TxnInv, NEW t \in Txns, Consume(t), pc'[t] # "active",
           pc'[t] = "committed" \/ Drop(t)
    PROVE  ActiveInv(t)' /\ TrackingInv(t)'
<1>1. savepoints'[t] = [n \in Names |-> NoSave]
  BY Zenon DEF Consume, TxnInv, TypeOK
<1>2. pc'[t] # "committed" => write_set'[t] = EmptyWriteSet /\ observed'[t] = {}
  BY DEF Drop, TxnInv, TypeOK
<1> QED
  BY <1>1, <1>2, Zenon DEF ActiveInv, TrackingInv

(* Begin, commit, retry, rollback and return preserve the invariant.       *)
LEMMA LifeKeepsInv ==
    ASSUME TxnInv, NEW t \in Txns, Begin(t) \/ EndStep(t)
    PROVE  /\ \A k \in Keys : versions'[k] <= current_txn_id'
           /\ \A u \in Txns : ActiveInv(u)' /\ TrackingInv(u)'
<1>0. TypeOK /\ \A k \in Keys : versions[k] <= current_txn_id
  BY Zenon DEF TxnInv
<1>1. ASSUME NEW u \in Txns \ {t}
      PROVE  /\ TrackingInv(u)'
             /\ pc'[u] = pc[u] /\ snapshot_id'[u] = snapshot_id[u] /\ read'[u] = read[u]
  <2>1. /\ pc'[u] = pc[u] /\ isolation'[u] = isolation[u] /\ read'[u] = read[u]
        /\ snapshot_id'[u] = snapshot_id[u]
        /\ write_set'[u] = write_set[u] /\ read_keys'[u] = read_keys[u]
        /\ read_ranges'[u] = read_ranges[u] /\ observed'[u] = observed[u]
        /\ savepoints'[u] = savepoints[u]
    <3>1. CASE Begin(t)
      BY <3>1, <1>0, Zenon DEF Begin, tracked, TypeOK
    <3>2. CASE CommitOk(t)
      BY <3>2, <1>0, Zenon DEF CommitOk, Consume, TypeOK
    <3>3. CASE CommitConflict(t)
      BY <3>3, <1>0 DEF CommitConflict, Abandon, Drop, Consume, TypeOK
    <3>4. CASE Rollback(t)
      BY <3>4, <1>0, Zenon DEF Rollback, Abandon, Drop, Consume, TypeOK
    <3>5. CASE Return(t)
      BY <3>5, <1>0, Zenon DEF Return, Drop, Consume, TypeOK
    <3> QED
      BY <3>1, <3>2, <3>3, <3>4, <3>5, Zenon DEF EndStep
  <2> QED
    BY Zenon, <2>1, QuietTracking
<1>2. CASE Begin(t)
  <2>1. /\ pc[t] = "idle" /\ pc'[t] = "active"
        /\ snapshot_id'[t] = current_txn_id /\ read'[t] = base /\ touched'[t] = {}
        /\ UNCHANGED <<current_txn_id, base, versions, savepoints>>
        /\ UNCHANGED <<write_set, read_keys, read_ranges, observed>>
        /\ \A u \in Txns \ {t} : touched'[u] = touched[u]
    BY <1>0, <1>2, Zenon DEF Begin, tracked, TypeOK
  <2>2. ActiveInv(t)'
    <3>1. {k \in Keys : versions[k] > current_txn_id} = {}
      BY <1>0 DEF TypeOK, Lsn0
    <3>2. current_txn_id <= current_txn_id
      BY <1>0 DEF TypeOK, Lsn0
    <3> QED
      BY <2>1, <3>1, <3>2, Zenon DEF ActiveInv
  <2>3. TrackingInv(t)'
    <3>1. observed[t] = {} /\ savepoints[t] = [n \in Names |-> NoSave]
      BY <2>1, Zenon DEF TxnInv, TrackingInv
    <3>2. observed'[t] = {} /\ \A n \in Names : savepoints'[t][n] = NoSave
      BY Zenon, <2>1, <3>1
    <3> QED
      BY <2>1, <3>2, Zenon DEF TrackingInv, Covered
  <2>4. \A u \in Txns \ {t} : ActiveInv(u)'
    BY Zenon, <1>1, <2>1, QuietTxn
  <2> QED
    BY Zenon, <1>0, <1>1, <2>1, <2>2, <2>3, <2>4
<1>3. CASE CommitOk(t)
  <2>1. ActiveInv(t)' /\ TrackingInv(t)'
    <3>1. Consume(t) /\ pc'[t] = "committed"
      BY <1>0, <1>3, Zenon DEF CommitOk, TypeOK
    <3> QED
      BY Zenon, <3>1, StoppedTxn
  <2>2. CASE Written(write_set[t]) = {}
    <3>1. /\ UNCHANGED <<current_txn_id, base, versions>>
          /\ \A u \in Txns \ {t} : touched'[u] = touched[u]
      BY <1>0, <1>3, <2>2, Zenon DEF CommitOk, TypeOK
    <3>2. \A u \in Txns \ {t} : ActiveInv(u)'
      BY Zenon, <1>1, <3>1, QuietTxn
    <3> QED
      BY Zenon, <1>0, <1>1, <2>1, <3>1, <3>2
  <2>3. CASE Written(write_set[t]) # {}
    <3>1. ApplyCommitRecord(write_set[t]) /\ write_set[t] \in WriteSets
      BY <1>0, <1>3, <2>3, Zenon DEF CommitOk, TypeOK
    <3>2. \A k \in Keys : versions'[k] <= current_txn_id'
      BY Zenon, <3>1, CommitRecordKeepsActive
    <3>3. ASSUME NEW u \in Txns \ {t} PROVE ActiveInv(u)'
      <4>1. CASE pc[u] = "active"
        BY Zenon, <1>1, <3>1, <4>1, CommitRecordKeepsActive
      <4>2. CASE pc[u] # "active"
        BY <1>1, <4>2, Zenon DEF ActiveInv
      <4> QED
        BY Zenon, <4>1, <4>2
    <3> QED
      BY Zenon, <1>1, <2>1, <3>2, <3>3
  <2> QED
    BY Zenon, <2>2, <2>3
<1>4. CASE CommitConflict(t) \/ Rollback(t) \/ Return(t)
  <2>1. /\ Drop(t) /\ Consume(t) /\ pc'[t] # "active"
        /\ UNCHANGED <<current_txn_id, base, versions>>
        /\ \A u \in Txns \ {t} : touched'[u] = touched[u]
    BY <1>0, <1>4 DEF CommitConflict, Rollback, Return, Abandon, Drop, db, TypeOK
  <2>2. ActiveInv(t)' /\ TrackingInv(t)'
    BY Zenon, <2>1, StoppedTxn
  <2>3. \A u \in Txns \ {t} : ActiveInv(u)'
    BY Zenon, <1>1, <2>1, QuietTxn
  <2> QED
    BY Zenon, <1>0, <1>1, <2>1, <2>2, <2>3
<1> QED
  BY <1>2, <1>3, <1>4, Zenon DEF EndStep

(* The invariant is inductive.                                             *)
LEMMA TxnInvStep == TxnInv /\ [Next]_vars => TxnInv'
<1> SUFFICES ASSUME TxnInv, [Next]_vars PROVE TxnInv'
  BY Zenon
<1>0. TypeOK'
  BY TypeStep, Zenon DEF TxnInv
<1>1. ASSUME NEW t \in Txns, Begin(t) \/ EndStep(t) PROVE TxnInv'
  BY <1>0, <1>1, LifeKeepsInv, Zenon DEF TxnInv
<1>2. ASSUME NEW t \in Txns, CallStep(t) PROVE TxnInv'
  <2>1. UNCHANGED <<current_txn_id, versions>>
    BY <1>2, Zenon DEF CallStep, ReadRaw, RangeRaw, QueueOp, Savepoint, RollbackToSavepoint,
                ReleaseSavepoint, Call, db
  <2> QED
    BY <1>0, <1>2, <2>1, CallKeepsInv, Zenon DEF TxnInv
<1>3. ASSUME NEW k \in Keys, NEW v \in Values \cup {Tombstone}, WriteAtCurrent(k, v)
      PROVE  TxnInv'
  <2>1. /\ UNCHANGED <<pc, isolation, snapshot_id, read, savepoints>>
        /\ UNCHANGED <<write_set, read_keys, read_ranges, observed>>
    BY <1>3, Zenon DEF WriteAtCurrent, tracked, control
  <2>2. \A u \in Txns : TrackingInv(u)'
    BY Zenon, <2>1, QuietTracking
  <2>3. /\ \A j \in Keys : versions'[j] <= current_txn_id'
        /\ \A u \in Txns : pc[u] = "active" => ActiveInv(u)'
    BY <1>3, <2>1, SingleWriteType, CommitRecordKeepsActive, Zenon DEF WriteAtCurrent
  <2>4. \A u \in Txns : pc[u] # "active" => ActiveInv(u)'
    BY <2>1, Zenon DEF ActiveInv
  <2> QED
    BY <1>0, <2>2, <2>3, <2>4, Zenon DEF TxnInv
<1>4. CASE UNCHANGED vars
  <2>1. /\ UNCHANGED <<current_txn_id, base, versions, touched>>
        /\ UNCHANGED <<pc, isolation, snapshot_id, read, savepoints>>
        /\ UNCHANGED <<write_set, read_keys, read_ranges, observed>>
    BY <1>4, Zenon DEF vars, db, tracked, control
  <2> QED
    BY <1>0, <2>1, QuietTxn, QuietTracking, Zenon DEF TxnInv
<1> QED
  BY <1>1, <1>2, <1>3, <1>4, Zenon DEF Next

(* Idle threads on an empty database satisfy it.                           *)
LEMMA TxnInvInit == Init => TxnInv
<1> SUFFICES ASSUME Init PROVE TxnInv
  BY Zenon
<1>1. TypeOK
  BY Zenon, TypeInit
<1>2. \A k \in Keys : versions[k] <= current_txn_id
  BY DEF Init
<1>3. \A t \in Txns : ActiveInv(t) /\ TrackingInv(t)
  BY Zenon DEF Init, ActiveInv, TrackingInv
<1> QED
  BY <1>1, <1>2, <1>3, Zenon DEF TxnInv

(* The transaction state keeps its types; in particular no retry loop runs  *)
(* past max_retries.                                                        *)
THEOREM TxnTypeCorrect == Spec => []TypeOK
BY TypeInit, TypeStep, PTL DEF Spec

(* In every reachable state __txn_versions and the read tracking of every  *)
(* transaction tell the truth.                                             *)
THEOREM TxnInvariance == Spec => []TxnInv
BY TxnInvInit, TxnInvStep, PTL DEF Spec

-----------------------------------------------------------------------------
(* What commits guarantee.                                                 *)

(* Only a commit makes a transaction committed.                            *)
LEMMA CommittedByCommit ==
    ASSUME TxnInv, [Next]_vars, NEW t \in Txns, pc[t] # "committed", pc'[t] = "committed"
    PROVE  CommitOk(t)
<1>0. TypeOK
  BY Zenon DEF TxnInv
<1>1. ASSUME NEW u \in Txns, Begin(u) \/ EndStep(u), ~CommitOk(t) PROVE FALSE
  BY <1>0, <1>1, Zenon DEF Begin, EndStep, CommitOk, CommitConflict, Rollback, Return, Abandon, TypeOK
<1>2. ASSUME NEW u \in Txns, CallStep(u) PROVE FALSE
  BY <1>2, Zenon DEF CallStep, ReadRaw, RangeRaw, QueueOp, Savepoint, RollbackToSavepoint,
              ReleaseSavepoint, Call, control
<1>3. ASSUME NEW k \in Keys, NEW v \in Values \cup {Tombstone}, WriteAtCurrent(k, v)
      PROVE  FALSE
  BY <1>3, Zenon DEF WriteAtCurrent, control
<1>4. CASE UNCHANGED vars
  BY <1>4, Zenon DEF vars, control
<1> QED
  BY <1>1, <1>2, <1>3, <1>4, Zenon DEF Next

(* What t wrote or tracked has not changed since its snapshot, and what a  *)
(* serializable t has read is what is committed now.                       *)
LEMMA CommitChecks ==
    ASSUME TxnInv, NEW t \in Txns, CommitOk(t)
    PROVE  /\ touched[t] \cap Written(write_set[t]) = {}
           /\ isolation[t] = "Serializable" => \A r \in observed[t] : base[r[1]] = r[2]
<1>1. /\ pc[t] = "active" /\ ~WriteConflict(t) /\ ~ReadConflict(t)
      /\ touched[t] = {k \in Keys : versions[k] > snapshot_id[t]}
      /\ \A k \in Keys \ touched[t] : base[k] = read[t][k]
  BY Zenon DEF CommitOk, TxnInv, ActiveInv
<1>2. touched[t] \cap Written(write_set[t]) = {}
  BY <1>1, Zenon DEF WriteConflict
<1>3. ASSUME isolation[t] = "Serializable", NEW r \in observed[t]
      PROVE  base[r[1]] = r[2]
  <2>1. r[1] \in Keys
    BY DEF TxnInv, TypeOK, Reads
  <2>2. /\ read[t][r[1]] = r[2]
        /\ \/ r[1] \in read_keys[t]
           \/ r[2] = NoRow /\ \E range \in read_ranges[t] : r[1] \in range
    BY <1>1, <1>3, Zenon DEF TxnInv, TrackingInv, Covered
  <2>3. CASE r[1] \in touched[t]
    <3>1. versions[r[1]] > snapshot_id[t] /\ r[1] \notin Written(write_set[t])
      BY Zenon, <1>1, <1>2, <2>3
    <3>2. /\ r[1] \notin read_keys[t]
          /\ \A range \in read_ranges[t] : r[1] \in range => base[r[1]] = NoRow
      BY <1>1, <1>3, <2>1, <3>1, Zenon DEF ReadConflict
    <3> QED
      BY Zenon, <2>2, <3>2
  <2>4. CASE r[1] \notin touched[t]
    BY Zenon, <1>1, <2>1, <2>2, <2>4
  <2> QED
    BY Zenon, <2>3, <2>4
<1> QED
  BY Zenon, <1>2, <1>3

(* commit_write_set: the first committer wins at every isolation level.    *)
THEOREM FirstCommitterWins == Spec => NoLostUpdate
<1> DEFINE Good == \A t \in Txns : Committed(t) => touched[t] \cap Written(write_set[t]) = {}
<1>1. TxnInv /\ [Next]_vars => [Good]_vars
  BY CommittedByCommit, CommitChecks, Zenon DEF Committed
<1> QED
  BY <1>1, TxnInvariance, PTL DEF Spec, NoLostUpdate

(* validate_serializable_reads: commit order is a serial order, phantoms   *)
(* included, for the reads a transaction has not rolled back.              *)
THEOREM SerializableReads == Spec => SerialOrder
<1> DEFINE Good == \A t \in Txns : Committed(t) /\ isolation[t] = "Serializable" =>
                      \A r \in observed[t] : base[r[1]] = r[2]
<1>1. TxnInv /\ [Next]_vars => [Good]_vars
  BY CommittedByCommit, CommitChecks, Zenon DEF Committed
<1> QED
  BY <1>1, TxnInvariance, PTL DEF Spec, SerialOrder

(* transaction_with_retry_with_options: no attempt starts over unless      *)
(* another writer got in between, so conflicts are never spurious.         *)
THEOREM RetriesMeanProgress == Spec => RetryMeansProgress
<1> DEFINE Good == \A t \in Txns : attempts'[t] > attempts[t] =>
                      touched[t] \cap (Written(write_set[t]) \cup read_keys[t] \cup
                                       UNION read_ranges[t]) # {}
<1>1. TxnInv /\ [Next]_vars => [Good]_vars
  <2> SUFFICES ASSUME TxnInv, Next, NEW t \in Txns, attempts'[t] > attempts[t]
               PROVE  touched[t] \cap (Written(write_set[t]) \cup read_keys[t] \cup
                                       UNION read_ranges[t]) # {}
    BY Zenon
  <2>0. TypeOK
    BY Zenon DEF TxnInv
  <2>n. attempts[t] \in Nat
    BY <2>0, BoundAssumption DEF TypeOK
  <2>m. attempts'[t] # attempts[t] /\ attempts'[t] # 0
    BY <2>n
  <2>1. CommitConflict(t)
    <3>1. ASSUME NEW u \in Txns, Begin(u) \/ CallStep(u) PROVE FALSE
      <4>1. UNCHANGED attempts
        BY <3>1, Zenon DEF Begin, CallStep, ReadRaw, RangeRaw, QueueOp, Savepoint,
             RollbackToSavepoint, ReleaseSavepoint, Call, control
      <4> QED
        BY Zenon, <2>m, <4>1
    <3>2. ASSUME NEW u \in Txns, EndStep(u), ~CommitConflict(t) PROVE FALSE
      <4>1. attempts'[t] = attempts[t] \/ attempts'[t] = 0
        BY <2>0, <3>2, Zenon DEF EndStep, CommitOk, CommitConflict, Rollback, Return, TypeOK
      <4> QED
        BY Zenon, <2>m, <4>1
    <3>3. ASSUME NEW k \in Keys, NEW v \in Values \cup {Tombstone}, WriteAtCurrent(k, v)
          PROVE  FALSE
      BY <2>m, <3>3, Zenon DEF WriteAtCurrent, control
    <3> QED
      BY <3>1, <3>2, <3>3, Zenon DEF Next
  <2>2. touched[t] = {k \in Keys : versions[k] > snapshot_id[t]}
    BY <2>1, Zenon DEF CommitConflict, TxnInv, ActiveInv
  <2>3. CASE WriteConflict(t)
    <3>1. PICK k \in Written(write_set[t]) : versions[k] > snapshot_id[t]
      BY <2>3, Zenon DEF WriteConflict
    <3>2. k \in Keys
      BY <3>1, Zenon DEF Written
    <3> QED
      BY Zenon, <2>2, <3>1, <3>2
  <2>4. CASE ReadConflict(t)
    BY <2>2, <2>4, Zenon DEF ReadConflict
  <2> QED
    BY <2>1, <2>3, <2>4, Zenon DEF CommitConflict
<1> QED
  BY <1>1, TxnInvariance, PTL DEF Spec, RetryMeansProgress

(* Txn implements AtomicTxns: whatever begins, calls, savepoints, retries  *)
(* and other commits come in between, a transaction takes effect at once.  *)
THEOREM TxnsTakeEffectAtOnce == Spec => TakesEffectAtOnce
<1> DEFINE res == [t \in Txns |-> Result(t)]
<1>1. Init => Atomic!Init
  BY Zenon DEF Init, Atomic!Init, Result, NoRows
<1>2. ASSUME TxnInv, [Next]_vars
      PROVE  [Atomic!Next]_<<base, res>>
  <2>0. TypeOK
    BY <1>2, Zenon DEF TxnInv
  <2>1. ASSUME NEW t \in Txns, CommitOk(t) PROVE Atomic!Execute(t)
    <3> DEFINE new == [reads |-> IF isolation[t] = "Serializable" THEN observed[t] ELSE {},
                       writes |-> write_set[t]]
    <3>1. res[t] = NoResult
      BY <2>1, Zenon DEF CommitOk, Result
    <3>2. /\ pc' = [pc EXCEPT ![t] = "committed"]
          /\ UNCHANGED <<isolation, observed, write_set>>
      BY <2>1, Zenon DEF CommitOk
    <3>3. res'[t] = new
      BY <2>0, <3>2, Zenon DEF Result, TypeOK
    <3>4. \A u \in Txns \ {t} : Result(u)' = Result(u)
      BY <2>0, <3>2, Zenon DEF Result, TypeOK
    <3>5. res' = [res EXCEPT ![t] = new]
      BY Zenon, <3>3, <3>4
    <3>6. new \in Atomic!Results
      BY <2>0, Zenon DEF Atomic!Results, Atomic!Row, Row, TypeOK, Reads, WriteSets
    <3>7. \A r \in new.reads : base[r[1]] = r[2]
      BY Zenon, <1>2, <2>1, CommitChecks
    <3>8. base' = Atomic!After(new.writes)
      <4>1. CASE Written(write_set[t]) = {}
        <5>1. UNCHANGED base /\ \A k \in Keys : write_set[t][k] = NoWrite
          BY <2>1, <4>1, Zenon DEF CommitOk, Written
        <5> QED
          <6>1. new.writes = write_set[t]
            BY Zenon
          <6>2. Atomic!After(write_set[t]) = [k \in Keys |-> base[k]]
            BY <5>1, Zenon DEF Atomic!After
          <6>3. base = [k \in Keys |-> base[k]]
            BY <2>0, Zenon DEF TypeOK
          <6> QED
            BY Zenon, <5>1, <6>1, <6>2, <6>3
      <4>2. CASE Written(write_set[t]) # {}
        <5>1. base' = Apply(base, write_set[t])
          BY <2>1, <4>2, Zenon DEF CommitOk, ApplyCommitRecord
        <5> QED
          BY <5>1, CellAssumption, Zenon DEF Atomic!After, Apply
      <4> QED
        BY Zenon, <4>1, <4>2
    <3> HIDE DEF new, res
    <3> QED
      BY <3>1, <3>3, <3>5, <3>6, <3>7, <3>8, Zenon DEF Atomic!Execute, res
  <2>2. ASSUME NEW t \in Txns, Begin(t) \/ CommitConflict(t) \/ Rollback(t) \/ Return(t)
        PROVE  Atomic!Collect(t)
    <3>1. /\ pc'[t] # "committed"
          /\ \A u \in Txns \ {t} : /\ pc'[u] = pc[u] /\ isolation'[u] = isolation[u]
                                    /\ observed'[u] = observed[u] /\ write_set'[u] = write_set[u]
          /\ UNCHANGED base
      BY <2>0, <2>2 DEF Begin, CommitConflict, Rollback, Return, Abandon, Drop, db, tracked, TypeOK
    <3>2. res' = [res EXCEPT ![t] = NoResult]
      BY <3>1, Zenon DEF Result
    <3> QED
      BY <3>1, <3>2, Zenon DEF Atomic!Collect
  <2>3. ASSUME NEW t \in Txns, CallStep(t) PROVE UNCHANGED <<base, res>>
    <3>1. /\ pc[t] = "active" /\ UNCHANGED <<pc, isolation, base>>
          /\ \A u \in Txns \ {t} : /\ observed'[u] = observed[u] /\ write_set'[u] = write_set[u]
      BY <2>0, <2>3 DEF CallStep, ReadRaw, RangeRaw, QueueOp, Savepoint, RollbackToSavepoint,
           ReleaseSavepoint, Observe, Call, db, control, tracked, TypeOK
    <3>2. \A u \in Txns : Result(u)' = Result(u)
      BY <3>1, Zenon DEF Result
    <3> QED
      BY Zenon, <3>1, <3>2
  <2>4. ASSUME NEW k \in Keys, NEW v \in Values \cup {Tombstone}, WriteAtCurrent(k, v)
        PROVE  Atomic!Write(k)
    <3>1. UNCHANGED <<pc, isolation, observed, write_set>>
      BY <2>4, Zenon DEF WriteAtCurrent, tracked, control
    <3>2. UNCHANGED res
      BY <3>1, Zenon DEF Result
    <3> DEFINE row == IF v = Tombstone THEN NoRow ELSE v
    <3>3. base' = Apply(base, [EmptyWriteSet EXCEPT ![k] = v])
      BY <2>4, Zenon DEF WriteAtCurrent, ApplyCommitRecord
    <3>4. base' = [base EXCEPT ![k] = row]
      BY <2>0, <3>3, CellAssumption, Zenon DEF Apply, EmptyWriteSet, TypeOK
    <3>5. row \in Atomic!Row
      BY Zenon DEF Atomic!Row
    <3> QED
      BY <3>2, <3>4, <3>5, Zenon DEF Atomic!Write
  <2>5. CASE UNCHANGED vars
    <3>1. UNCHANGED <<pc, isolation, observed, write_set, base>>
      BY <2>5, Zenon DEF vars, db, control, tracked
    <3> QED
      BY <3>1, Zenon DEF Result
  <2> HIDE DEF res
  <2> QED
    BY <1>2, <2>1, <2>2, <2>3, <2>4, <2>5, Zenon DEF Next, EndStep, Atomic!Next
<1> QED
  BY <1>1, <1>2, TxnInvariance, PTL DEF Spec, TakesEffectAtOnce, Atomic!Spec
=============================================================================
