-------------------------- MODULE HistoryGcProofs --------------------------
(***************************************************************************)
(* Proofs about HistoryGc for every set of keys, values, readers and       *)
(* consumers, every batch size and every largest LSN.                      *)
(***************************************************************************)
EXTENDS HistoryGc, Extrema

-----------------------------------------------------------------------------
(* What RowAsOf returns.                                                   *)

(* rows_as_of_lsn: the newest version at or below the LSN decides the row. *)
LEMMA RowAsOfNewest ==
    ASSUME NEW cells \in [LSN -> Cell], NEW n \in Int, NEW l \in LSN,
           l <= n, cells[l] # NoRow,
           \A j \in LSN : l < j /\ j <= n => cells[j] = NoRow
    PROVE  RowAsOf(cells, n) = IF cells[l] = Tombstone THEN NoRow ELSE cells[l]
<1> DEFINE vs == Versions(cells, n)
<1>1. l \in vs
  BY Zenon DEF Versions
<1>2. vs \subseteq 0..MaxLsn
  BY DEF Versions, LSN
<1>3. \A j \in vs : j <= l
  BY DEF Versions, LSN
<1>4. Max(vs) \in vs /\ \A x \in vs : x <= Max(vs)
  BY Zenon, <1>1, <1>2, MaxOfBounded, MaxLsnAssumption
<1>5. Max(vs) = l
  <2>1. Max(vs) <= l /\ l <= Max(vs)
    BY Zenon, <1>1, <1>3, <1>4
  <2>2. Max(vs) \in Int /\ l \in Int
    BY <1>2, <1>4 DEF LSN
  <2> QED
    BY <2>1, <2>2
<1> QED
  BY <1>1, <1>5, Zenon DEF RowAsOf

(* rows_as_of_lsn: a key without a version at or below the LSN has no row. *)
LEMMA RowAsOfNone ==
    ASSUME NEW cells \in [LSN -> Cell], NEW n \in Int,
           \A j \in LSN : j <= n => cells[j] = NoRow
    PROVE  RowAsOf(cells, n) = NoRow
<1>1. Versions(cells, n) = {}
  BY Zenon DEF Versions
<1> QED
  BY <1>1, Zenon DEF RowAsOf

(* One of the two cases applies: a key with a version has a newest one.    *)
LEMMA NewestExists ==
    ASSUME NEW cells \in [LSN -> Cell], NEW n \in Int
    PROVE  \/ \A j \in LSN : j <= n => cells[j] = NoRow
           \/ \E l \in LSN : /\ l <= n
                             /\ cells[l] # NoRow
                             /\ \A j \in LSN : l < j /\ j <= n => cells[j] = NoRow
<1> DEFINE vs == Versions(cells, n)
<1>1. CASE vs = {}
  BY <1>1, Zenon DEF Versions
<1>2. CASE vs # {}
  <2>1. vs \subseteq 0..MaxLsn
    BY DEF Versions, LSN
  <2>2. Max(vs) \in vs /\ \A x \in vs : x <= Max(vs)
    BY Zenon, <1>2, <2>1, MaxOfBounded, MaxLsnAssumption
  <2>3. \A j \in LSN : Max(vs) < j /\ j <= n => cells[j] = NoRow
    BY <2>2 DEF Versions, LSN
  <2>4. Max(vs) \in LSN /\ Max(vs) <= n /\ cells[Max(vs)] # NoRow
    BY <2>2, Zenon DEF Versions
  <2> QED
    BY Zenon, <2>3, <2>4
<1> QED
  BY Zenon, <1>1, <1>2

(* The committed history of a key has one cell per LSN.                    *)
LEMMA KeyHistoryType ==
    ASSUME TypeOK, NEW k \in Keys
    PROVE  /\ KeyHistory(k) \in [LSN -> Cell]
           /\ \A l \in LSN : KeyHistory(k)[l] = hist[l][k]
BY DEF TypeOK, KeyHistory, WriteSets, Cell

(* A temporal read at or above the point up to which its rows were pruned  *)
(* returns what was committed at its LSN.                                  *)
LEMMA AgreeingRowsAreExact ==
    ASSUME TypeOK,
           NEW rows \in [Keys -> [LSN -> Cell]],
           NEW c \in Lsn0, NEW n \in Lsn0, NEW lsn \in Lsn0,
           c <= lsn, c <= n, VersionsAgree(hist, rows, c, n),
           NEW k \in Keys
    PROVE  RowAsOf(rows[k], lsn) = RowAsOf(KeyHistory(k), Min({lsn, n}))
<1> DEFINE m == Min({lsn, n})
           h == KeyHistory(k)
<1>1. /\ m \in Lsn0
      /\ c <= m /\ m <= lsn /\ m <= n
      /\ m = lsn \/ m = n
  <2>1. {lsn, n} \subseteq Nat /\ {lsn, n} # {}
    BY DEF Lsn0
  <2>2. m \in {lsn, n} /\ \A x \in {lsn, n} : m <= x
    BY Zenon, <2>1, MinOfNaturals
  <2> QED
    BY Zenon, <2>2
<1> HIDE DEF m
<1>2. h \in [LSN -> Cell] /\ \A l \in LSN : h[l] = hist[l][k]
  BY Zenon, KeyHistoryType
<1> HIDE DEF h
<1>3. ASSUME NEW l \in LSN, l <= lsn, l <= m => h[l] = NoRow
      PROVE  rows[k][l] = NoRow
  <2>1. CASE l > n
    BY <2>1, Zenon DEF VersionsAgree
  <2>2. CASE c < l /\ l <= n
    <3>1. rows[k][l] = hist[l][k]
      BY <2>2, Zenon DEF VersionsAgree
    <3>2. l <= m
      BY Zenon, <2>2, <1>1, <1>3
    <3> QED
      BY Zenon, <3>1, <3>2, <1>2, <1>3
  <2>3. CASE l <= c
    <3>1. rows[k][l] \in {NoRow, hist[l][k]}
      BY <2>3, Zenon DEF VersionsAgree
    <3>2. l <= m
      BY <2>3, <1>1 DEF LSN, Lsn0
    <3> QED
      BY Zenon, <3>1, <3>2, <1>2, <1>3
  <2> QED
    BY <2>1, <2>2, <2>3 DEF LSN, Lsn0
<1>4. CASE \A j \in LSN : j <= m => h[j] = NoRow
  <2>1. \A j \in LSN : j <= lsn => rows[k][j] = NoRow
    BY Zenon, <1>3, <1>4
  <2>2. RowAsOf(rows[k], lsn) = NoRow
    BY <2>1, RowAsOfNone DEF Lsn0
  <2>3. RowAsOf(h, m) = NoRow
    BY <1>1, <1>2, <1>4, RowAsOfNone DEF Lsn0
  <2> QED
    BY <2>2, <2>3, Zenon DEF m, h
<1>5. ASSUME NEW l \in LSN, l <= m, h[l] # NoRow,
             \A j \in LSN : l < j /\ j <= m => h[j] = NoRow
      PROVE  RowAsOf(rows[k], lsn) = RowAsOf(h, m)
  <2>1. RowAsOf(h, m) = IF h[l] = Tombstone THEN NoRow ELSE h[l]
    BY <1>1, <1>2, <1>5, RowAsOfNewest DEF Lsn0
  <2>2. \A j \in LSN : l < j /\ j <= lsn => rows[k][j] = NoRow
    BY Zenon, <1>3, <1>5
  <2>3. l <= lsn
    BY <1>1, <1>5 DEF LSN, Lsn0
  <2>4. CASE rows[k][l] = h[l]
    <3>1. RowAsOf(rows[k], lsn) = IF h[l] = Tombstone THEN NoRow ELSE h[l]
      BY <2>2, <2>3, <2>4, <1>5, RowAsOfNewest DEF Lsn0
    <3> QED
      BY <3>1, <2>1
  <2>5. CASE rows[k][l] # h[l]
    <3>1. l <= c
      BY <2>5, <1>1, <1>2, <1>5 DEF VersionsAgree, LSN, Lsn0
    <3>2. ~Superseded(hist, k, l, c)
      BY <3>1, <1>1, <1>2, <1>5 DEF Superseded, LSN, Lsn0
    <3>3. hist[l][k] = Tombstone /\ rows[k][l] = NoRow
      BY <3>1, <3>2, <2>5, <1>2, Zenon DEF VersionsAgree
    <3>4. \A j \in LSN : j < l => rows[k][j] = NoRow
      <4> SUFFICES ASSUME NEW j \in LSN, j < l PROVE rows[k][j] = NoRow
        BY Zenon
      <4>1. Superseded(hist, k, j, c)
        BY <3>1, <1>2, <1>5, Zenon DEF Superseded
      <4>2. j <= c
        BY <3>1 DEF LSN, Lsn0
      <4> QED
        BY <4>1, <4>2, Zenon DEF VersionsAgree
    <3>5. \A j \in LSN : j <= lsn => rows[k][j] = NoRow
      BY <3>3, <3>4, <2>2 DEF LSN, Lsn0
    <3>6. RowAsOf(rows[k], lsn) = NoRow
      BY <3>5, RowAsOfNone DEF Lsn0
    <3> QED
      BY Zenon, <3>3, <3>6, <2>1, <1>2
  <2> QED
    BY Zenon, <2>4, <2>5
<1>6. \/ \A j \in LSN : j <= m => h[j] = NoRow
      \/ \E l \in LSN : /\ l <= m
                        /\ h[l] # NoRow
                        /\ \A j \in LSN : l < j /\ j <= m => h[j] = NoRow
  BY <1>1, <1>2, NewestExists DEF Lsn0
<1>7. RowAsOf(rows[k], lsn) = RowAsOf(h, m)
  BY <1>4, <1>5, <1>6, Zenon DEF m, h
<1> QED
  BY <1>7, Zenon DEF m, h

-----------------------------------------------------------------------------
(* Type correctness.                                                       *)

(* mvcc_watermark: the watermark is at or below every bound, the current   *)
(* LSN included.                                                           *)
LEMMA WatermarkType ==
    ASSUME TypeOK, NEW retain \in Retains
    PROVE  /\ Min(WatermarkBounds(retain)) \in Lsn0
           /\ Min(WatermarkBounds(retain)) <= current_txn_id
           /\ Min(WatermarkBounds(retain)) <= retention
           /\ \A r \in Readers : Pinned(r) => Min(WatermarkBounds(retain)) <= rlsn[r]
<1> DEFINE B == WatermarkBounds(retain)
<1>1. Kept(retain) \in Nat
  BY MaxLsnAssumption, RetainsAssumption
  DEF Kept, SaturatingAdd, SaturatingSub, TypeOK, Lsn0
<1>2. B \subseteq Nat
  BY <1>1, MaxLsnAssumption
  DEF WatermarkBounds, RetentionPins, TypeOK, Lsn0, NoRetention
<1>3. current_txn_id \in B /\ retention \in B
  BY Zenon DEF WatermarkBounds
<1>4. \A r \in Readers : Pinned(r) => rlsn[r] \in B
  BY Zenon DEF WatermarkBounds, RetentionPins
<1> HIDE DEF B
<1>5. Min(B) \in B /\ \A x \in B : Min(B) <= x
  BY Zenon, <1>2, <1>3, MinOfNaturals
<1>6. Min(B) \in Nat /\ Min(B) <= current_txn_id
  BY Zenon, <1>2, <1>3, <1>5
<1>7. Min(B) \in Lsn0
  BY <1>6, MaxLsnAssumption DEF TypeOK, Lsn0
<1> QED
  BY <1>3, <1>4, <1>5, <1>6, <1>7, Zenon DEF B

(* commit_log_floor_target: at or below the watermark and the record that  *)
(* every consumer reads next.                                              *)
LEMMA FloorTargetType ==
    ASSUME TypeOK, NEW w \in Lsn0, NEW retain \in Retains
    PROVE  /\ Min(FloorBounds(w, retain)) \in Lsn0
           /\ Min(FloorBounds(w, retain)) <= w
           /\ \A c \in Consumers : Min(FloorBounds(w, retain)) <= ack[c] + 1
<1> DEFINE B == FloorBounds(w, retain)
<1>1. Kept(retain) \in Nat
  BY MaxLsnAssumption, RetainsAssumption
  DEF Kept, SaturatingAdd, SaturatingSub, TypeOK, Lsn0
<1>2. \A c \in Consumers : /\ SaturatingAdd(ack[c], 1) \in Nat
                            /\ SaturatingAdd(ack[c], 1) <= ack[c] + 1
                            /\ ack[c] \in Nat
  BY MaxLsnAssumption DEF SaturatingAdd, TypeOK, Lsn0
<1>3. B \subseteq Nat
  BY <1>1, <1>2 DEF FloorBounds, Lsn0
<1>4. w \in B
  BY Zenon DEF FloorBounds
<1>5. \A c \in Consumers : SaturatingAdd(ack[c], 1) \in B
  BY Zenon DEF FloorBounds
<1> HIDE DEF B
<1>6. Min(B) \in B /\ \A x \in B : Min(B) <= x
  BY Zenon, <1>3, <1>4, MinOfNaturals
<1>7. Min(B) \in Nat /\ Min(B) <= w
  BY Zenon, <1>3, <1>4, <1>6
<1>8. \A c \in Consumers : Min(B) <= ack[c] + 1
  BY <1>2, <1>5, <1>6, <1>7
<1>9. Min(B) \in Lsn0
  BY <1>7, MaxLsnAssumption DEF Lsn0
<1> QED
  BY <1>7, <1>8, <1>9, Zenon DEF B

(* HistoryGcBatchPlan::floor_target: never above the planned target, the   *)
(* watermark, or the record after the cursor.                              *)
LEMMA EffectiveFloorTarget ==
    ASSUME TypeOK, NEW c \in Lsn0
    PROVE  /\ FloorTarget(c) \in Lsn0
           /\ FloorTarget(c) <= floor_target
           /\ FloorTarget(c) <= watermark
<1> DEFINE B == {floor_target, watermark, SaturatingAdd(c, 1)}
<1>1. B \subseteq Nat
  BY MaxLsnAssumption DEF SaturatingAdd, TypeOK, Lsn0
<1>2. floor_target \in B /\ watermark \in B
  BY Zenon
<1>3. FloorTarget(c) = Min(B)
  BY Zenon DEF FloorTarget
<1> HIDE DEF B
<1>4. Min(B) \in B /\ \A x \in B : Min(B) <= x
  BY Zenon, <1>1, <1>2, MinOfNaturals
<1>5. Min(B) \in Nat /\ Min(B) <= floor_target /\ Min(B) <= watermark
  BY Zenon, <1>1, <1>2, <1>4
<1> QED
  BY <1>3, <1>5, MaxLsnAssumption DEF TypeOK, Lsn0

(* apply_commit_record_in_txn keeps the stored tables well-typed.          *)
LEMMA CommitRecordType ==
    ASSUME TypeOK, NEW ws \in WriteSets, ApplyCommitRecord(ws)
    PROVE  /\ current_txn_id' \in LSN
           /\ base' \in [Keys -> Values \cup {NoRow}]
           /\ txn_versions' \in [Keys -> Lsn0]
           /\ txn_mvcc' \in [Keys -> [LSN -> Cell]]
           /\ commit_log' \in [LSN -> WriteSets \cup {NoRecord}]
           /\ hist' \in [LSN -> WriteSets]
<1> DEFINE n == current_txn_id + 1
<1>1. n \in LSN
  BY MaxLsnAssumption DEF ApplyCommitRecord, TypeOK, LSN, Lsn0
<1>2. \A k \in Keys : ws[k] \in Cell
  BY Zenon DEF WriteSets
<1>3. current_txn_id' \in LSN
  BY <1>1, Zenon DEF ApplyCommitRecord
<1>4. base' \in [Keys -> Values \cup {NoRow}]
  BY <1>2, Zenon DEF ApplyCommitRecord, TypeOK, Cell
<1>5. txn_versions' \in [Keys -> Lsn0]
  <2>1. n \in Lsn0
    BY <1>1, MaxLsnAssumption DEF LSN, Lsn0
  <2> QED
    BY <2>1, Zenon DEF ApplyCommitRecord, TypeOK
<1>6. txn_mvcc' \in [Keys -> [LSN -> Cell]]
  <2>1. \A k \in Keys : [txn_mvcc[k] EXCEPT ![n] = ws[k]] \in [LSN -> Cell]
    BY <1>2, Zenon DEF TypeOK
  <2> QED
    BY <2>1, Zenon DEF ApplyCommitRecord
<1>7. commit_log' \in [LSN -> WriteSets \cup {NoRecord}]
  BY Zenon DEF ApplyCommitRecord, TypeOK
<1>8. hist' \in [LSN -> WriteSets]
  BY Zenon DEF ApplyCommitRecord, TypeOK
<1> QED
  BY Zenon, <1>3, <1>4, <1>5, <1>6, <1>7, <1>8

(* A write set without a cell in Keys is a write set.                      *)
LEMMA NoWritesType == NoWrites \in WriteSets
BY Zenon DEF NoWrites, WriteSets, Cell

(* Every step keeps every variable in its type.                            *)
LEMMA TypeStep == TypeOK /\ [Next]_vars => TypeOK'
<1> SUFFICES ASSUME TypeOK, [Next]_vars PROVE TypeOK'
  BY Zenon
<1> USE MaxLsnAssumption
<1>1. CASE Commit
  <2>1. PICK ws \in WriteSets : ApplyCommitRecord(ws)
    BY <1>1, Zenon DEF Commit
  <2>2. current_txn_id' \in Lsn0
    BY <2>1, CommitRecordType DEF LSN, Lsn0
  <2> QED
    BY Zenon, <1>1, <2>1, <2>2, CommitRecordType
    DEF Commit, TypeOK, meta, catalog, run, readers
<1>2. ASSUME NEW c \in Consumers, AckConsumer(c) PROVE TypeOK'
  <2>1. ApplyCommitRecord(NoWrites)
    BY <1>2, Zenon DEF AckConsumer
  <2>2. current_txn_id' \in Lsn0
    BY <2>1, CommitRecordType, NoWritesType DEF LSN, Lsn0
  <2>3. ack' \in [Consumers -> Lsn0]
    BY <1>2, Zenon DEF AckConsumer, TypeOK
  <2> QED
    BY Zenon, <1>2, <2>1, <2>2, <2>3, CommitRecordType, NoWritesType
    DEF AckConsumer, TypeOK, meta, run, readers
<1>3. CASE EnableSystemVersioning
  <2>1. ApplyCommitRecord(NoWrites)
    BY <1>3, Zenon DEF EnableSystemVersioning
  <2>2. current_txn_id' \in Lsn0
    BY <2>1, CommitRecordType, NoWritesType DEF LSN, Lsn0
  <2>3. retention' \in Lsn0 \cup {NoRetention}
    BY <1>3, Zenon DEF EnableSystemVersioning
  <2> QED
    BY Zenon, <1>3, <2>1, <2>2, <2>3, CommitRecordType, NoWritesType
    DEF EnableSystemVersioning, TypeOK, meta, run, readers
<1>4. CASE StartGc
  <2>1. PICK retain \in Retains, log_retain \in Retains :
           /\ watermark' = Min(WatermarkBounds(retain))
           /\ floor_target' = IF log_retain = 0 THEN 0
                              ELSE Min(FloorBounds(watermark', log_retain))
    BY <1>4, Zenon DEF StartGc
  <2>2. watermark' \in Lsn0
    BY Zenon, <2>1, WatermarkType
  <2>3. floor_target' \in Lsn0
    BY <2>1, <2>2, FloorTargetType DEF Lsn0
  <2> QED
    BY <1>4, <2>2, <2>3, Zenon DEF StartGc, TypeOK, store, meta, catalog, readers
<1>5. CASE GcBatch
  <2>1. UNCHANGED <<current_txn_id, base, txn_versions, hist, retention, ack,
                    watermark, floor_target, rpc, rkind, rlsn, rrows, rcursor, rcurrent>>
    BY <1>5, Zenon DEF GcBatch, catalog, readers
  <2>2. ASSUME NEW end \in BatchEnds, PruneMvccBatch(end),
               gc' = IF Done THEN "finish" ELSE "batch"
        PROVE  TypeOK'
    <3>1. end \in Lsn0
      BY DEF BatchEnds, TypeOK, Lsn0
    <3>2. Max({history_horizon, end}) \in Lsn0
      <4>1. {history_horizon, end} \subseteq 0..MaxLsn
        BY <3>1, Zenon DEF TypeOK, Lsn0
      <4> QED
        BY <4>1, MaxOfBounded, Zenon DEF Lsn0
    <3>3. \A k \in Keys : \A m : PruneKeyVersions(k, m) \in [LSN -> Cell]
      BY DEF PruneKeyVersions, TypeOK, Cell
    <3>4. txn_mvcc' \in [Keys -> [LSN -> Cell]]
      BY <2>2, <3>3, Zenon DEF PruneMvccBatch, TypeOK
    <3>5. gc' \in {"idle", "batch", "finish"}
      BY Zenon, <2>2
    <3> QED
      BY <2>1, <2>2, <3>1, <3>2, <3>4, <3>5, Zenon DEF PruneMvccBatch, TypeOK
  <2>3. ASSUME NEW end \in (commit_log_floor + 1)..
                     Min({FloorTarget(mvcc_cursor), commit_log_floor + BatchSize}),
               TruncateCommitLogBatch(end),
               gc' = IF Done THEN "finish" ELSE "batch"
        PROVE  TypeOK'
    <3>1. end \in LSN
      <4>1. FloorTarget(mvcc_cursor) \in Lsn0
        BY EffectiveFloorTarget, Zenon DEF TypeOK
      <4>2. {FloorTarget(mvcc_cursor), commit_log_floor + BatchSize} \subseteq Nat
        BY <4>1, BatchAssumption DEF TypeOK, LSN, Lsn0
      <4>3. Min({FloorTarget(mvcc_cursor), commit_log_floor + BatchSize}) \in Nat
        BY Zenon, <4>2, MinOfNaturals
      <4>4. Min({FloorTarget(mvcc_cursor), commit_log_floor + BatchSize})
               <= FloorTarget(mvcc_cursor)
        BY Zenon, <4>2, MinOfNaturals
      <4> QED
        BY <4>1, <4>3, <4>4 DEF TypeOK, LSN, Lsn0
    <3>2. commit_log' \in [LSN -> WriteSets \cup {NoRecord}]
      BY <2>3, Zenon DEF TruncateCommitLogBatch, TypeOK
    <3>3. gc' \in {"idle", "batch", "finish"}
      BY Zenon, <2>3
    <3> QED
      BY <2>1, <2>3, <3>1, <3>2, <3>3, Zenon DEF TruncateCommitLogBatch, TypeOK
  <2>4. CASE gc' = "finish" /\ UNCHANGED <<meta, txn_mvcc, commit_log>>
    BY <2>1, <2>4, Zenon DEF TypeOK, meta
  <2> QED
    BY <1>5, <2>2, <2>3, <2>4, Zenon DEF GcBatch
<1>6. CASE FinishGc
  BY <1>6 DEF FinishGc, EndOfRun, TypeOK, store, meta, catalog, readers, Lsn0
<1>7. ASSUME NEW r \in Readers, OpenRead(r) PROVE TypeOK'
  <2>1. UNCHANGED <<store, meta, catalog, run, rrows, rcursor, rcurrent>>
    BY <1>7, Zenon DEF OpenRead
  <2>2. rpc \in [Readers -> {"idle", "pinned", "open", "checked", "ranged",
                            "listed", "done", "expired", "missing_point"}]
        /\ rkind \in [Readers -> {"query", "rows", "scan"}]
        /\ rlsn \in [Readers -> Lsn0]
        /\ retention \in Lsn0 \cup {NoRetention}
    BY Zenon DEF TypeOK
  <2>3. rpc' \in [Readers -> {"idle", "pinned", "open", "checked", "ranged",
                             "listed", "done", "expired", "missing_point"}]
    BY <1>7, <2>2 DEF OpenRead
  <2>4. rkind' \in [Readers -> {"query", "rows", "scan"}]
    BY <1>7, <2>2 DEF OpenRead
  <2>5. rlsn' \in [Readers -> Lsn0]
    BY <1>7, <2>2 DEF OpenRead
  <2> QED
    BY <2>1, <2>3, <2>4, <2>5, Zenon DEF TypeOK, store, meta, catalog, run
<1>8. ASSUME NEW r \in Readers, ReadStep(r) PROVE TypeOK'
  <2> USE DEF TypeOK, store, meta, catalog, run
  <2>1. CASE CheckPin(r)
    BY <2>1, Zenon DEF CheckPin
  <2>2. CASE CheckBefore(r)
    BY <2>2, Zenon DEF CheckBefore
  <2>3. CASE RangeRead(r)
    BY <2>3, Zenon DEF RangeRead
  <2>4. CASE CheckAfter(r)
    BY <2>4, Zenon DEF CheckAfter
  <2>5. CASE ReadBoundaries(r)
    BY <2>5, Zenon DEF ReadBoundaries
  <2> QED
    BY <1>8, <2>1, <2>2, <2>3, <2>4, <2>5, Zenon DEF ReadStep
<1>9. ASSUME NEW rs \in SUBSET Readers, Reset(rs), UNCHANGED <<store, meta, catalog>>,
             UNCHANGED run \/ EndOfRun
      PROVE  TypeOK'
  <2>1. NoVersions \in [Keys -> [LSN -> Cell]]
    BY Zenon DEF NoVersions, Cell
  <2> QED
    BY <1>9, <2>1 DEF Reset, EndOfRun, TypeOK, store, meta, catalog, run, Lsn0
<1>10. ASSUME NEW r \in Readers, CloseRead(r) PROVE TypeOK'
  BY <1>9, <1>10, Zenon DEF CloseRead
<1>11. CASE Crash
  BY <1>9, <1>11, Zenon DEF Crash
<1>12. CASE UNCHANGED vars
  BY <1>12, Zenon DEF vars, TypeOK, store, meta, catalog, run, readers
<1> QED
  BY <1>1, <1>2, <1>3, <1>4, <1>5, <1>6, <1>7, <1>8, <1>10, <1>11, <1>12, Zenon DEF Next

(* The initial state of a new database is well-typed.                      *)
LEMMA TypeInit == Init => TypeOK
BY MaxLsnAssumption
DEF Init, TypeOK, Lsn0, LSN, WriteSets, Cell, NoWrites, NoVersions, NoRetention

(* Every value the commit, GC and read paths store is in range: no LSN     *)
(* passes the largest transaction id and no cell holds anything but a row, *)
(* a tombstone or nothing.                                                 *)
THEOREM TypeCorrect == Spec => []TypeOK
BY TypeInit, TypeStep, PTL DEF Spec

-----------------------------------------------------------------------------
(* How commits and GC batches change the version rows.                     *)

(* A commit after the range read does not change what its rows agree with. *)
LEMMA AgreeOnPrefix ==
    ASSUME NEW h, NEW h2, NEW rows, NEW c \in Lsn0, NEW n \in Lsn0, c <= n,
           \A l \in LSN : l <= n => h2[l] = h[l],
           VersionsAgree(h, rows, c, n)
    PROVE  VersionsAgree(h2, rows, c, n)
<1>1. \A k \in Keys, l \in LSN : Superseded(h2, k, l, c) <=> Superseded(h, k, l, c)
  BY DEF Superseded, LSN, Lsn0
<1>2. \A l \in LSN : l <= c => l <= n
  BY DEF LSN, Lsn0
<1> QED
  BY <1>1, <1>2 DEF VersionsAgree

(* apply_commit_record_in_txn adds the new version of every written key    *)
(* above all others, and the base table takes its value.                   *)
LEMMA CommitKeepsStore ==
    ASSUME TypeOK, StoreInv, MetaInv, NEW ws \in WriteSets,
           ApplyCommitRecord(ws), UNCHANGED meta
    PROVE  StoreInv'
<1> DEFINE n == current_txn_id + 1
<1>1. n \in LSN /\ current_txn_id' = n /\ current_txn_id \in Lsn0
  BY MaxLsnAssumption DEF ApplyCommitRecord, TypeOK, LSN, Lsn0
<1>2. hist' = [hist EXCEPT ![n] = ws]
  BY Zenon DEF ApplyCommitRecord
<1>3. \A l \in LSN : l > current_txn_id' => hist'[l] = NoWrites
  BY <1>1, <1>2 DEF StoreInv, TypeOK, LSN, Lsn0
<1>4. \A l \in LSN : commit_log_floor' <= l /\ l <= current_txn_id' => commit_log'[l] = hist'[l]
  <2>1. commit_log' = [commit_log EXCEPT ![n] = ws]
    BY Zenon DEF ApplyCommitRecord
  <2>2. commit_log_floor' = commit_log_floor
    BY Zenon DEF meta
  <2>3. \A l \in LSN : l <= n => l = n \/ l <= current_txn_id
    BY <1>1 DEF LSN, Lsn0
  <2> QED
    BY <2>1, <2>2, <2>3, <1>1, <1>2, Zenon DEF StoreInv, TypeOK
<1>5. ASSUME NEW k \in Keys
      PROVE  base'[k] = RowAsOf(KeyHistory(k)', current_txn_id')
  <2> DEFINE h == KeyHistory(k)
             h2 == [l \in LSN |-> hist'[l][k]]
  <2>1. h \in [LSN -> Cell] /\ \A l \in LSN : h[l] = hist[l][k]
    BY Zenon, KeyHistoryType
  <2>2. ws[k] \in Cell
    BY Zenon DEF WriteSets
  <2>3. h2 = [h EXCEPT ![n] = ws[k]]
    BY <1>2, <2>1, Zenon DEF TypeOK
  <2>4. h2 \in [LSN -> Cell]
    BY Zenon, <2>1, <2>2, <2>3
  <2>5. KeyHistory(k)' = h2
    BY Zenon DEF KeyHistory
  <2>6. base'[k] = IF ws[k] = NoRow THEN base[k]
                   ELSE IF ws[k] = Tombstone THEN NoRow ELSE ws[k]
    BY Zenon DEF ApplyCommitRecord
  <2> HIDE DEF h, h2
  <2>7. CASE ws[k] # NoRow
    <3>1. h2[n] = ws[k]
      BY Zenon, <1>1, <2>1, <2>3
    <3>2. \A j \in LSN : n < j /\ j <= n => h2[j] = NoRow
      BY <1>1 DEF LSN
    <3>3. RowAsOf(h2, n) = IF ws[k] = Tombstone THEN NoRow ELSE ws[k]
      <4>1. n \in Int /\ n <= n
        BY <1>1 DEF LSN
      <4> HIDE DEF n
      <4> QED
        BY Zenon, <4>1, <3>1, <3>2, <2>4, <2>7, <1>1, RowAsOfNewest
    <3> QED
      BY Zenon, <3>3, <2>5, <2>6, <2>7, <1>1
  <2>8. CASE ws[k] = NoRow
    <3>1. h[n] = NoRow
      BY <1>1, <2>1 DEF StoreInv, NoWrites, LSN, Lsn0
    <3>2. h2 = h
      BY Zenon, <3>1, <2>1, <2>3, <2>8
    <3>3. Versions(h, n) = Versions(h, current_txn_id)
      BY <3>1, <1>1 DEF Versions, LSN, Lsn0
    <3>4. RowAsOf(h, n) = RowAsOf(h, current_txn_id)
      BY <3>3, Zenon DEF RowAsOf
    <3>5. base[k] = RowAsOf(h, current_txn_id)
      BY Zenon DEF StoreInv, h
    <3> QED
      BY Zenon, <3>2, <3>4, <3>5, <2>5, <2>6, <2>8, <1>1
  <2> QED
    BY Zenon, <2>7, <2>8
<1>6. VersionsAgree(hist', txn_mvcc', mvcc_cursor', current_txn_id')
  <2>1. mvcc_cursor' = mvcc_cursor /\ mvcc_cursor \in Lsn0 /\ mvcc_cursor <= current_txn_id
    BY Zenon DEF meta, MetaInv, TypeOK
  <2>2. VersionsAgree(hist', txn_mvcc, mvcc_cursor, current_txn_id)
    <3>1. \A l \in LSN : l <= current_txn_id => hist'[l] = hist[l]
      BY <1>1, <1>2 DEF TypeOK, LSN, Lsn0
    <3>2. VersionsAgree(hist, txn_mvcc, mvcc_cursor, current_txn_id)
      BY Zenon DEF StoreInv
    <3> QED
      BY Zenon, <3>1, <3>2, <2>1, <1>1, AgreeOnPrefix
  <2>3. \A k \in Keys, l \in LSN : txn_mvcc'[k][l] = IF l = n THEN ws[k] ELSE txn_mvcc[k][l]
    BY <1>1, Zenon DEF ApplyCommitRecord, TypeOK
  <2>4. \A k \in Keys : hist'[n][k] = ws[k]
    BY <1>1, <1>2, Zenon DEF TypeOK
  <2> SUFFICES ASSUME NEW k \in Keys, NEW l \in LSN
               PROVE  /\ l > n => txn_mvcc'[k][l] = NoRow
                      /\ mvcc_cursor < l /\ l <= n => txn_mvcc'[k][l] = hist'[l][k]
                      /\ l <= mvcc_cursor =>
                            /\ txn_mvcc'[k][l] \in {NoRow, hist'[l][k]}
                            /\ Superseded(hist', k, l, mvcc_cursor) => txn_mvcc'[k][l] = NoRow
                            /\ ~Superseded(hist', k, l, mvcc_cursor) =>
                                  txn_mvcc'[k][l] = hist'[l][k] \/ hist'[l][k] = Tombstone
    BY <1>1, <2>1, Zenon DEF VersionsAgree
  <2>5. CASE l = n
    BY <2>1, <2>3, <2>4, <2>5, <1>1 DEF LSN, Lsn0
  <2>6. CASE l # n
    <3>1. txn_mvcc'[k][l] = txn_mvcc[k][l]
      BY Zenon, <2>3, <2>6
    <3>2. /\ l > n => l > current_txn_id
          /\ l <= n => l <= current_txn_id
      BY <2>6, <1>1 DEF LSN, Lsn0
    <3> QED
      BY <3>1, <3>2, <2>2, Zenon DEF VersionsAgree
  <2> QED
    BY Zenon, <2>5, <2>6
<1> QED
  BY <1>3, <1>4, <1>5, <1>6, Zenon DEF StoreInv

(* collect_processed_writes and prune_key_versions: after a batch that     *)
(* processed commits up to end, each key keeps its newest version at or    *)
(* below end, unless that is a tombstone, and everything above end.        *)
LEMMA PruneKeepsAgreement ==
    ASSUME TypeOK, StoreInv, MetaInv, NEW end \in Lsn0,
           mvcc_cursor < end, end <= current_txn_id, PruneMvccBatch(end)
    PROVE  VersionsAgree(hist, txn_mvcc', end, current_txn_id)
<1> DEFINE cursor == mvcc_cursor
<1>1. cursor \in Lsn0 /\ current_txn_id \in Lsn0
  BY Zenon DEF TypeOK
<1>2. VersionsAgree(hist, txn_mvcc, cursor, current_txn_id)
  BY Zenon DEF StoreInv
<1> SUFFICES ASSUME NEW k \in Keys, NEW l \in LSN
             PROVE  /\ l > current_txn_id => txn_mvcc'[k][l] = NoRow
                    /\ end < l /\ l <= current_txn_id => txn_mvcc'[k][l] = hist[l][k]
                    /\ l <= end =>
                          /\ txn_mvcc'[k][l] \in {NoRow, hist[l][k]}
                          /\ Superseded(hist, k, l, end) => txn_mvcc'[k][l] = NoRow
                          /\ ~Superseded(hist, k, l, end) =>
                                txn_mvcc'[k][l] = hist[l][k] \/ hist[l][k] = Tombstone
  BY Zenon DEF VersionsAgree
<1> DEFINE P == ProcessedWrites(k, end)
<1>3. P = {j \in LSN : cursor < j /\ j <= end /\ hist[j][k] # NoRow}
  <2>1. \A j \in LSN : cursor < j /\ j <= end => commit_log[j] = hist[j]
    BY <1>1 DEF StoreInv, MetaInv, TypeOK, LSN, Lsn0
  <2>2. \A j \in LSN : hist[j] # NoRecord
    BY RecordAssumption DEF TypeOK, WriteSets, Cell
  <2>3. \A j : j \in (mvcc_cursor + 1)..end <=> j \in LSN /\ cursor < j /\ j <= end
    BY <1>1, MaxLsnAssumption DEF LSN, Lsn0
  <2> QED
    BY <2>1, <2>2, <2>3, Zenon DEF ProcessedWrites
<1>4. txn_mvcc'[k] = IF P = {} \/ txn_mvcc[k][Max(P)] = NoRow
                     THEN txn_mvcc[k] ELSE PruneKeyVersions(k, Max(P))
  BY Zenon DEF PruneMvccBatch
<1> HIDE DEF P
<1>5. \A j \in LSN : cursor < j /\ j <= end => txn_mvcc[k][j] = hist[j][k]
  BY <1>1, <1>2 DEF VersionsAgree, LSN, Lsn0
<1>6. CASE P = {}
  <2>1. txn_mvcc'[k][l] = txn_mvcc[k][l]
    BY Zenon, <1>4, <1>6
  <2>2. \A j \in LSN : cursor < j /\ j <= end => hist[j][k] = NoRow
    BY Zenon, <1>3, <1>6
  <2>3. CASE l > end
    BY <2>1, <2>3, <1>1, <1>2 DEF VersionsAgree, LSN, Lsn0
  <2>4. CASE cursor < l /\ l <= end
    <3>1. txn_mvcc'[k][l] = NoRow /\ hist[l][k] = NoRow
      BY Zenon, <2>1, <2>2, <2>4, <1>5
    <3> QED
      BY <3>1, <2>4, Zenon DEF LSN, Lsn0
  <2>5. CASE l <= cursor
    <3>1. Superseded(hist, k, l, end) <=> Superseded(hist, k, l, cursor)
      BY <2>2, <1>1 DEF Superseded, LSN, Lsn0
    <3>2. l <= end /\ l <= current_txn_id
      BY <2>5, <1>1 DEF LSN, Lsn0
    <3> QED
      BY <3>1, <3>2, <2>1, <2>5, <1>1, <1>2 DEF VersionsAgree, LSN, Lsn0
  <2> QED
    BY <2>3, <2>4, <2>5, <1>1 DEF LSN, Lsn0
<1>7. CASE P # {}
  <2> DEFINE m == Max(P)
  <2>1. m \in P /\ \A x \in P : x <= m
    <3>1. P \subseteq 0..MaxLsn
      BY <1>3 DEF LSN
    <3> QED
      BY Zenon, <3>1, <1>7, MaxOfBounded, MaxLsnAssumption
  <2>2. m \in LSN /\ cursor < m /\ m <= end /\ hist[m][k] # NoRow
    BY Zenon, <2>1, <1>3
  <2>3. \A j \in LSN : m < j /\ j <= end => hist[j][k] = NoRow
    BY <2>1, <2>2, <1>1, <1>3 DEF LSN, Lsn0
  <2>4. txn_mvcc[k][m] = hist[m][k]
    BY Zenon, <2>2, <1>5
  <2>5. txn_mvcc'[k] = PruneKeyVersions(k, m)
    BY Zenon, <2>2, <2>4, <1>4, <1>7
  <2> HIDE DEF m
  <2>6. CASE l < m
    <3>1. txn_mvcc'[k][l] = NoRow
      BY <2>5, <2>6, Zenon DEF PruneKeyVersions
    <3>2. Superseded(hist, k, l, end)
      BY <2>2, <2>6, Zenon DEF Superseded
    <3>3. l <= end /\ l <= current_txn_id
      BY <2>2, <2>6, <1>1 DEF LSN, Lsn0
    <3> QED
      BY <3>1, <3>2, <3>3, <1>1 DEF LSN, Lsn0
  <2>7. CASE l = m
    <3>1. \/ txn_mvcc'[k][l] = hist[l][k]
          \/ txn_mvcc'[k][l] = NoRow /\ hist[l][k] = Tombstone
      BY <2>2, <2>4, <2>5, <2>7 DEF PruneKeyVersions, LSN
    <3>2. ~Superseded(hist, k, l, end)
      BY <2>3, <2>7, Zenon DEF Superseded
    <3>3. l <= end /\ l <= current_txn_id
      BY <2>2, <2>7, <1>1 DEF LSN, Lsn0
    <3> QED
      BY <3>1, <3>2, <3>3, <1>1 DEF LSN, Lsn0
  <2>8. CASE m < l
    <3>1. txn_mvcc'[k][l] = txn_mvcc[k][l]
      BY <2>2, <2>5, <2>8 DEF PruneKeyVersions, LSN
    <3>2. CASE l <= end
      <4>1. txn_mvcc'[k][l] = NoRow /\ hist[l][k] = NoRow
        BY <3>1, <3>2, <2>2, <2>3, <2>8, <1>1, <1>5 DEF LSN, Lsn0
      <4> QED
        BY <4>1, <3>2, <1>1, Zenon DEF LSN, Lsn0
    <3>3. CASE l > end
      BY <3>1, <3>3, <1>1, <1>2 DEF VersionsAgree, LSN, Lsn0
    <3> QED
      BY <3>2, <3>3, <1>1 DEF LSN, Lsn0
  <2> QED
    BY <2>2, <2>6, <2>7, <2>8 DEF LSN
<1> QED
  BY Zenon, <1>6, <1>7

-----------------------------------------------------------------------------
(* Every step keeps the inductive invariant.                               *)

(* Commits only add to the history, so a reader that is under way keeps    *)
(* agreeing with it.                                                       *)
LEMMA CommitKeepsReaders ==
    ASSUME IInv, NEW ws \in WriteSets, ApplyCommitRecord(ws),
           UNCHANGED <<meta, readers>>,
           retention' = retention \/ \A r \in Readers : rpc[r] = "idle"
    PROVE  \A r \in Readers : ReaderInv(r)'
<1> SUFFICES ASSUME NEW r \in Readers PROVE ReaderInv(r)'
  BY Zenon
<1>1. UNCHANGED <<mvcc_cursor, history_horizon, rpc, rkind, rlsn, rrows, rcursor, rcurrent>>
  BY Zenon DEF meta, readers
<1>2. current_txn_id' = current_txn_id + 1 /\ current_txn_id \in Lsn0
  BY Zenon DEF ApplyCommitRecord, IInv, TypeOK
<1>3. ReaderInv(r)
  BY Zenon DEF IInv
<1>4. ASSUME rpc[r] \in {"ranged", "listed", "done"}
      PROVE  /\ rcurrent[r] <= current_txn_id'
             /\ VersionsAgree(hist', rrows[r], rcursor[r], rcurrent[r])
  <2>1. /\ rcursor[r] <= mvcc_cursor
        /\ rcurrent[r] <= current_txn_id
        /\ VersionsAgree(hist, rrows[r], rcursor[r], rcurrent[r])
        /\ rcursor[r] <= rcurrent[r]
    BY <1>3, <1>4, Zenon DEF ReaderInv
  <2>2. rcursor[r] \in Lsn0 /\ rcurrent[r] \in Lsn0
    BY Zenon DEF IInv, TypeOK
  <2>3. \A l \in LSN : l <= rcurrent[r] => hist'[l] = hist[l]
    BY <2>1, <2>2, <1>2 DEF ApplyCommitRecord, IInv, TypeOK, LSN, Lsn0
  <2> QED
    BY <2>1, <2>2, <2>3, <1>2, AgreeOnPrefix DEF Lsn0
<1>5. Pinned(r)' = Pinned(r)
  BY <1>1, Zenon DEF Pinned
<1>6. rkind[r] = "scan" /\ rpc[r] # "idle" => rlsn[r] = retention'
  BY <1>3, Zenon DEF ReaderInv
<1> QED
  BY <1>1, <1>3, <1>4, <1>5, <1>6, Zenon DEF ReaderInv

(* A commit keeps the store, the GC metadata, the running plan and readers. *)
LEMMA CommitStep ==
    ASSUME IInv, NEW ws \in WriteSets, ApplyCommitRecord(ws),
           UNCHANGED <<meta, run, readers>>,
           \/ retention' = retention
           \/ /\ gc = "idle"
              /\ \A r \in Readers : rpc[r] = "idle"
              /\ history_horizon <= retention',
           \A c \in Consumers : ack[c] <= ack'[c] /\ ack'[c] \in Lsn0
    PROVE  /\ StoreInv'
           /\ MetaInv'
           /\ PlanInv'
           /\ \A r \in Readers : ReaderInv(r)'
<1>1. StoreInv'
  BY CommitKeepsStore, Zenon DEF IInv
<1>2. current_txn_id' = current_txn_id + 1 /\ current_txn_id \in Lsn0
  BY Zenon DEF ApplyCommitRecord, IInv, TypeOK
<1>3. \A c \in Consumers : ack[c] \in Lsn0
  BY Zenon DEF IInv, TypeOK
<1>4. MetaInv'
  BY <1>2, <1>3 DEF IInv, MetaInv, TypeOK, meta, Lsn0, LSN
<1>5. PlanInv'
  <2>1. \A r \in Readers : Pinned(r)' = Pinned(r) /\ rlsn'[r] = rlsn[r]
    BY Zenon DEF Pinned, readers
  <2>2. UNCHANGED <<gc, watermark, floor_target>>
    BY Zenon DEF run
  <2>3. watermark \in Lsn0 /\ floor_target \in Lsn0
    BY Zenon DEF IInv, TypeOK
  <2> QED
    BY <2>1, <2>2, <2>3, <1>2, <1>3 DEF IInv, PlanInv, Lsn0
<1>6. \A r \in Readers : ReaderInv(r)'
  BY Zenon, CommitKeepsReaders
<1> QED
  BY Zenon, <1>1, <1>4, <1>5, <1>6

(* One gc_history_batch stays below the watermark, so it disturbs neither  *)
(* pinned queries, nor the system-versioned table, nor a consumer.         *)
LEMMA GcBatchStep ==
    ASSUME IInv, GcBatch
    PROVE  /\ StoreInv'
           /\ MetaInv'
           /\ PlanInv'
           /\ \A r \in Readers : ReaderInv(r)'
           /\ mvcc_cursor <= mvcc_cursor' /\ commit_log_floor <= commit_log_floor'
<1> USE MaxLsnAssumption
<1>1. /\ UNCHANGED <<current_txn_id, base, hist, retention, ack, watermark, floor_target>>
      /\ UNCHANGED <<rpc, rkind, rlsn, rrows, rcursor, rcurrent>>
  BY Zenon DEF GcBatch, catalog, readers
<1>2. /\ gc = "batch"
      /\ watermark <= current_txn_id
      /\ watermark <= retention
      /\ floor_target <= watermark
      /\ \A c \in Consumers : floor_target <= ack[c] + 1
      /\ \A r \in Readers : Pinned(r) => watermark <= rlsn[r]
  BY Zenon DEF GcBatch, IInv, PlanInv
<1>3. /\ mvcc_cursor \in Lsn0 /\ watermark \in Lsn0 /\ floor_target \in Lsn0
      /\ current_txn_id \in Lsn0 /\ history_horizon \in Lsn0 /\ commit_log_floor \in LSN
      /\ retention \in Nat
      /\ \A c \in Consumers : ack[c] \in Lsn0
      /\ \A r \in Readers : rlsn[r] \in Lsn0 /\ rcursor[r] \in Lsn0
  BY DEF IInv, TypeOK, Lsn0, NoRetention
<1>4. \A r \in Readers : Pinned(r)' = Pinned(r)
  BY <1>1, Zenon DEF Pinned
<1>5. PlanInv'
  BY <1>1, <1>2, <1>4, Zenon DEF PlanInv
<1>6. \A k \in Keys : base'[k] = RowAsOf(KeyHistory(k)', current_txn_id')
  BY <1>1, Zenon DEF IInv, StoreInv, KeyHistory
<1>7. ASSUME mvcc_cursor <= mvcc_cursor', mvcc_cursor' = history_horizon', mvcc_cursor' \in Lsn0,
             mvcc_cursor' = mvcc_cursor \/ mvcc_cursor' <= watermark
      PROVE  \A r \in Readers : ReaderInv(r)'
  <2> SUFFICES ASSUME NEW r \in Readers PROVE ReaderInv(r)'
    BY Zenon
  <2>1. ReaderInv(r)
    BY Zenon DEF IInv
  <2>2. Pinned(r) /\ rpc[r] \notin {"pinned", "expired"} => history_horizon' <= rlsn[r]
    <3>1. mvcc_cursor = history_horizon
      BY Zenon DEF IInv, MetaInv
    <3> QED
      BY <3>1, <2>1, <1>2, <1>3, <1>7 DEF ReaderInv, Lsn0
  <2>3. rpc[r] \in {"ranged", "listed", "done"} => rcursor[r] <= mvcc_cursor'
    BY <2>1, <1>3, <1>7 DEF ReaderInv, Lsn0
  <2> QED
    BY <2>1, <2>2, <2>3, <1>1, <1>4, Zenon DEF ReaderInv
<1>8. ASSUME mvcc_cursor < watermark, NEW end \in BatchEnds, PruneMvccBatch(end)
      PROVE  /\ StoreInv' /\ MetaInv' /\ \A r \in Readers : ReaderInv(r)'
             /\ mvcc_cursor <= mvcc_cursor' /\ commit_log_floor <= commit_log_floor'
  <2>1. end \in Lsn0 /\ mvcc_cursor < end /\ end <= watermark /\ end <= current_txn_id
    BY <1>2, <1>3 DEF BatchEnds, Lsn0
  <2>2. mvcc_cursor' = end /\ commit_log_floor' = commit_log_floor /\ commit_log' = commit_log
    BY <1>8, Zenon DEF PruneMvccBatch
  <2>3. history_horizon' = end
    <3>1. {history_horizon, end} \subseteq 0..MaxLsn /\ {history_horizon, end} # {}
      BY <2>1, <1>3, Zenon DEF Lsn0
    <3>2. /\ Max({history_horizon, end}) \in {history_horizon, end}
          /\ \A x \in {history_horizon, end} : x <= Max({history_horizon, end})
      BY Zenon, <3>1, MaxOfBounded
    <3>3. history_horizon < end
      BY <2>1, <1>3, Zenon DEF IInv, MetaInv
    <3> QED
      BY <3>2, <3>3, <2>1, <1>3, <1>8 DEF PruneMvccBatch, Lsn0
  <2>4. StoreInv'
    <3>1. VersionsAgree(hist, txn_mvcc', end, current_txn_id)
      BY <2>1, <1>8, PruneKeepsAgreement, Zenon DEF IInv
    <3> QED
      BY <3>1, <2>2, <1>1, <1>6, Zenon DEF IInv, StoreInv
  <2>5. MetaInv'
    BY <2>1, <2>2, <2>3, <1>1, <1>2, <1>3 DEF IInv, MetaInv, LSN, Lsn0
  <2>6. \A r \in Readers : ReaderInv(r)'
    BY <2>1, <2>2, <2>3, <1>3, <1>7 DEF Lsn0
  <2> QED
    BY <2>1, <2>2, <2>4, <2>5, <2>6, <1>3 DEF LSN, Lsn0
<1>9. ASSUME mvcc_cursor >= watermark,
             NEW end \in (commit_log_floor + 1)..
                   Min({FloorTarget(mvcc_cursor), commit_log_floor + BatchSize}),
             TruncateCommitLogBatch(end)
      PROVE  /\ StoreInv' /\ MetaInv' /\ \A r \in Readers : ReaderInv(r)'
             /\ mvcc_cursor <= mvcc_cursor' /\ commit_log_floor <= commit_log_floor'
  <2>1. end \in Int /\ commit_log_floor < end /\ end <= floor_target
    <3> DEFINE B == {FloorTarget(mvcc_cursor), commit_log_floor + BatchSize}
    <3>1. FloorTarget(mvcc_cursor) \in Lsn0 /\ FloorTarget(mvcc_cursor) <= floor_target
      BY <1>3, EffectiveFloorTarget, Zenon DEF IInv
    <3>2. B \subseteq Nat /\ B # {}
      BY <3>1, <1>3, BatchAssumption DEF LSN, Lsn0
    <3>3. Min(B) \in Nat /\ Min(B) <= FloorTarget(mvcc_cursor)
      BY Zenon, <3>2, MinOfNaturals
    <3> HIDE DEF B
    <3>4. end \in (commit_log_floor + 1)..Min(B)
      BY Zenon DEF B
    <3> QED
      BY <3>1, <3>3, <3>4, <1>3 DEF LSN, Lsn0
  <2>2. commit_log_floor' = end /\ UNCHANGED <<mvcc_cursor, history_horizon, txn_mvcc>>
    BY <1>9, Zenon DEF TruncateCommitLogBatch
  <2>3. StoreInv'
    <3>1. \A l \in LSN : end <= l => commit_log'[l] = commit_log[l]
      BY <2>1, <1>3, <1>9 DEF TruncateCommitLogBatch, LSN
    <3>2. \A l \in LSN : end <= l /\ l <= current_txn_id => commit_log'[l] = hist[l]
      BY <3>1, <2>1, <1>3 DEF IInv, StoreInv, LSN
    <3> QED
      BY <3>2, <2>2, <1>1, <1>6, Zenon DEF IInv, StoreInv
  <2>4. MetaInv'
    BY <2>1, <2>2, <1>1, <1>2, <1>3, <1>9 DEF IInv, MetaInv, LSN, Lsn0
  <2>5. \A r \in Readers : ReaderInv(r)'
    BY <2>2, <1>3, <1>7 DEF IInv, MetaInv, Lsn0
  <2> QED
    BY <2>1, <2>2, <2>3, <2>4, <2>5, <1>3 DEF LSN, Lsn0
<1>10. ASSUME UNCHANGED <<meta, txn_mvcc, commit_log>>
       PROVE  /\ StoreInv' /\ MetaInv' /\ \A r \in Readers : ReaderInv(r)'
             /\ mvcc_cursor <= mvcc_cursor' /\ commit_log_floor <= commit_log_floor'
  <2>1. UNCHANGED <<mvcc_cursor, history_horizon, commit_log_floor, txn_mvcc, commit_log>>
    BY <1>10, Zenon DEF meta
  <2>2. StoreInv' /\ MetaInv'
    BY <2>1, <1>1, <1>6, Zenon DEF IInv, StoreInv, MetaInv
  <2>3. \A r \in Readers : ReaderInv(r)'
    BY <2>1, <1>3, <1>7 DEF IInv, MetaInv, Lsn0
  <2> QED
    BY <2>1, <2>2, <2>3, <1>3 DEF LSN, Lsn0
<1> QED
  BY <1>5, <1>8, <1>9, <1>10, Zenon DEF GcBatch

(* The plan of run_history_gc respects everybody who needs history.        *)
LEMMA StartGcStep == IInv /\ StartGc => PlanInv'
<1> SUFFICES ASSUME IInv, StartGc PROVE PlanInv'
  BY Zenon
<1>1. TypeOK
  BY Zenon DEF IInv
<1>2. UNCHANGED <<current_txn_id, retention, ack, rpc, rkind, rlsn>>
  BY Zenon DEF StartGc, store, catalog, readers
<1>3. PICK retain \in Retains, log_retain \in Retains :
        /\ watermark' = Min(WatermarkBounds(retain))
        /\ floor_target' = IF log_retain = 0 THEN 0
                           ELSE Min(FloorBounds(watermark', log_retain))
  BY Zenon DEF StartGc
<1>4. /\ watermark' \in Lsn0
      /\ watermark' <= current_txn_id
      /\ watermark' <= retention
      /\ \A r \in Readers : Pinned(r) => watermark' <= rlsn[r]
  BY Zenon, <1>1, <1>3, WatermarkType
<1>5. /\ floor_target' <= watermark'
      /\ \A c \in Consumers : floor_target' <= ack[c] + 1
  <2>1. CASE log_retain = 0
    BY <2>1, <1>1, <1>3, <1>4, MaxLsnAssumption DEF TypeOK, Lsn0
  <2>2. CASE log_retain # 0
    BY Zenon, <2>2, <1>1, <1>3, <1>4, FloorTargetType
  <2> QED
    BY Zenon, <2>1, <2>2
<1>6. \A r \in Readers : Pinned(r)' = Pinned(r)
  BY <1>2, Zenon DEF Pinned
<1> QED
  BY <1>2, <1>4, <1>5, <1>6, Zenon DEF PlanInv

(* A reader's own step keeps what is known about it: the second horizon    *)
(* check bounds the cursor its rows were read at, and the boundaries of a  *)
(* scan all have their commit record.                                      *)
LEMMA ReadStepKeepsReader ==
    ASSUME IInv, NEW r \in Readers, ReadStep(r)
    PROVE  ReaderInv(r)'
<1> USE MaxLsnAssumption
<1>1. TypeOK /\ StoreInv /\ MetaInv /\ ReaderInv(r)
  BY Zenon DEF IInv
<1>2. CASE CheckPin(r)
  BY <1>1, <1>2 DEF CheckPin, ReaderInv, Pinned, TypeOK, Lsn0, store, meta, catalog, run
<1>3. CASE CheckBefore(r)
  BY <1>1, <1>3, Zenon DEF CheckBefore, ReaderInv, Pinned, TypeOK, Lsn0, store, meta, catalog, run
<1>4. CASE RangeRead(r)
  <2>1. /\ rpc'[r] = "ranged" /\ rpc[r] = "checked"
        /\ rrows'[r] = txn_mvcc
        /\ rcursor'[r] = mvcc_cursor
        /\ rcurrent'[r] = current_txn_id
        /\ UNCHANGED <<hist, mvcc_cursor, history_horizon, current_txn_id, retention, rkind, rlsn>>
    BY <1>1, <1>4, Zenon DEF RangeRead, TypeOK, store, meta, catalog
  <2>2. VersionsAgree(hist', rrows'[r], rcursor'[r], rcurrent'[r])
    BY <1>1, <2>1, Zenon DEF StoreInv
  <2> QED
    BY <1>1, <2>1, <2>2 DEF ReaderInv, Pinned, MetaInv, TypeOK, Lsn0
<1>5. CASE CheckAfter(r)
  <2>1. /\ rpc[r] = "ranged"
        /\ rpc'[r] \in {"expired", "listed", "done"}
        /\ rpc'[r] # "expired" => history_horizon <= rlsn[r]
        /\ rpc'[r] = "listed" => rkind[r] = "scan"
        /\ UNCHANGED <<hist, mvcc_cursor, history_horizon, current_txn_id, retention,
                       rkind, rlsn, rrows, rcursor, rcurrent>>
    BY <1>1, <1>5 DEF CheckAfter, TypeOK, Lsn0, store, meta, catalog
  <2>2. rpc'[r] # "expired" => rcursor[r] <= rlsn[r]
    BY <1>1, <2>1 DEF ReaderInv, MetaInv, TypeOK, Lsn0
  <2> QED
    BY <1>1, <2>1, <2>2, Zenon DEF ReaderInv, Pinned
<1>6. CASE ReadBoundaries(r)
  <2>1. /\ rpc[r] = "listed" /\ rkind[r] = "scan" /\ rlsn[r] = retention
        /\ rcursor[r] <= rlsn[r] /\ rcurrent[r] <= current_txn_id
        /\ VersionsAgree(hist, rrows[r], rcursor[r], rcurrent[r])
    BY <1>1, <1>6, Zenon DEF ReaderInv, ReadBoundaries
  <2>2. ASSUME NEW k \in Keys, NEW l \in ScanVersions(rrows[r][k], rlsn[r])
        PROVE  commit_log[l] # NoRecord
    <3>1. l \in LSN /\ l >= rlsn[r] /\ rrows[r][k][l] # NoRow
      BY Zenon DEF ScanVersions
    <3>2. l <= rcurrent[r]
      BY <1>1, <2>1, <3>1 DEF VersionsAgree, TypeOK, LSN, Lsn0
    <3>3. commit_log_floor <= l
      BY <1>1, <2>1, <3>1 DEF MetaInv, TypeOK, LSN, Lsn0
    <3>4. commit_log[l] = hist[l]
      BY <1>1, <2>1, <3>1, <3>2, <3>3 DEF StoreInv, TypeOK, LSN, Lsn0
    <3> QED
      BY <1>1, <3>1, <3>4, RecordAssumption DEF TypeOK, WriteSets, Cell
  <2>3. rpc'[r] = "done"
    BY <1>1, <1>6, <2>2, Zenon DEF ReadBoundaries, TypeOK
  <2>4. UNCHANGED <<hist, mvcc_cursor, history_horizon, current_txn_id, retention,
                    rkind, rlsn, rrows, rcursor, rcurrent>>
    BY <1>6, Zenon DEF ReadBoundaries, store, meta, catalog
  <2> QED
    BY <1>1, <2>1, <2>3, <2>4, Zenon DEF ReaderInv, Pinned
<1> QED
  BY <1>2, <1>3, <1>4, <1>5, <1>6, Zenon DEF ReadStep

(* Nothing a reader does changes the store, the metadata or the plan.      *)
LEMMA ReadersOnlyRead ==
    ASSUME IInv, UNCHANGED <<store, meta, catalog>>
    PROVE  StoreInv' /\ MetaInv'
BY Zenon DEF IInv, StoreInv, MetaInv, KeyHistory, store, meta, catalog

(* A reader that does not move keeps its invariant.                        *)
LEMMA QuietReader ==
    ASSUME IInv, NEW r \in Readers, UNCHANGED <<store, meta, catalog>>,
           rpc'[r] = rpc[r], rkind'[r] = rkind[r], rlsn'[r] = rlsn[r], rrows'[r] = rrows[r],
           rcursor'[r] = rcursor[r], rcurrent'[r] = rcurrent[r]
    PROVE  ReaderInv(r)' /\ Pinned(r)' = Pinned(r)
BY Zenon DEF IInv, ReaderInv, Pinned, store, meta, catalog

(* A stopped reader holds nothing.                                         *)
LEMMA IdleReader ==
    ASSUME NEW r \in Readers, rpc'[r] = "idle"
    PROVE  ReaderInv(r)' /\ ~Pinned(r)'
BY Zenon DEF ReaderInv, Pinned

-----------------------------------------------------------------------------
(* The invariant is inductive.                                             *)

(* An empty database satisfies the invariant.                              *)
LEMMA IInvInit == Init => IInv
<1> SUFFICES ASSUME Init PROVE IInv
  BY Zenon
<1> USE MaxLsnAssumption
<1>1. TypeOK
  BY Zenon, TypeInit
<1>2. \A k \in Keys, l \in LSN : hist[l][k] = NoRow /\ txn_mvcc[k][l] = NoRow
  BY Zenon DEF Init, NoWrites, NoVersions
<1>3. StoreInv
  <2>1. \A k \in Keys : base[k] = RowAsOf(KeyHistory(k), current_txn_id)
    <3> SUFFICES ASSUME NEW k \in Keys PROVE base[k] = RowAsOf(KeyHistory(k), 0)
      BY Zenon DEF Init
    <3>1. RowAsOf(KeyHistory(k), 0) = NoRow
      BY <1>1, <1>2, RowAsOfNone, KeyHistoryType
    <3> QED
      BY <3>1, Zenon DEF Init
  <2>2. VersionsAgree(hist, txn_mvcc, mvcc_cursor, current_txn_id)
    BY <1>2, Zenon DEF Init, VersionsAgree, LSN
  <2> QED
    BY <2>1, <2>2 DEF Init, StoreInv, LSN
<1>4. MetaInv /\ PlanInv
  BY DEF Init, MetaInv, PlanInv, NoRetention
<1>5. \A r \in Readers : ReaderInv(r)
  BY Zenon DEF Init, ReaderInv, Pinned
<1> QED
  BY <1>1, <1>3, <1>4, <1>5, Zenon DEF IInv

(* Every step of commits, GC, temporal reads and crashes preserves it.     *)
LEMMA IInvStep == IInv /\ [Next]_vars => IInv'
<1> SUFFICES ASSUME IInv, [Next]_vars PROVE IInv'
  BY Zenon
<1> USE MaxLsnAssumption
<1>1. TypeOK'
  BY TypeStep, Zenon DEF IInv
<1>2. CASE Commit
  <2>1. PICK ws \in WriteSets : ApplyCommitRecord(ws)
    BY <1>2, Zenon DEF Commit
  <2>2. UNCHANGED <<meta, run, readers, retention, ack>>
    BY <1>2, Zenon DEF Commit, catalog
  <2>3. \A c \in Consumers : ack[c] <= ack'[c] /\ ack'[c] \in Lsn0
    BY <2>2 DEF IInv, TypeOK, Lsn0
  <2> QED
    BY <2>1, <2>2, <2>3, <1>1, CommitStep, Zenon DEF IInv
<1>3. ASSUME NEW c \in Consumers, AckConsumer(c) PROVE IInv'
  <2>1. ApplyCommitRecord(NoWrites) /\ UNCHANGED <<meta, run, readers, retention>>
    BY <1>3, Zenon DEF AckConsumer
  <2>2. \A d \in Consumers : ack[d] <= ack'[d] /\ ack'[d] \in Lsn0
    BY <1>3 DEF AckConsumer, IInv, TypeOK, Lsn0
  <2> QED
    BY <2>1, <2>2, <1>1, NoWritesType, CommitStep, Zenon DEF IInv
<1>4. CASE EnableSystemVersioning
  <2>1. /\ ApplyCommitRecord(NoWrites) /\ UNCHANGED <<meta, run, readers, ack>>
        /\ gc = "idle" /\ \A r \in Readers : rpc[r] = "idle"
    BY <1>4, Zenon DEF EnableSystemVersioning
  <2>2. history_horizon <= retention'
    BY <1>4, Zenon DEF EnableSystemVersioning, IInv, TypeOK, Lsn0
  <2>3. \A c \in Consumers : ack[c] <= ack'[c] /\ ack'[c] \in Lsn0
    BY <2>1 DEF IInv, TypeOK, Lsn0
  <2> QED
    BY <2>1, <2>2, <2>3, <1>1, NoWritesType, CommitStep, Zenon DEF IInv
<1>5. CASE StartGc
  <2>1. UNCHANGED <<store, meta, catalog>>
        /\ UNCHANGED <<rpc, rkind, rlsn, rrows, rcursor, rcurrent>>
    BY <1>5, Zenon DEF StartGc, readers
  <2>2. \A r \in Readers : ReaderInv(r)'
    BY Zenon, <2>1, QuietReader
  <2> QED
    BY <2>1, <2>2, <1>1, <1>5, StartGcStep, ReadersOnlyRead, Zenon DEF IInv
<1>6. CASE GcBatch
  BY <1>1, <1>6, GcBatchStep, Zenon DEF IInv
<1>7. CASE FinishGc
  <2>1. UNCHANGED <<store, meta, catalog>> /\ gc' = "idle"
        /\ UNCHANGED <<rpc, rkind, rlsn, rrows, rcursor, rcurrent>>
    BY <1>7, Zenon DEF FinishGc, EndOfRun, readers
  <2>2. \A r \in Readers : ReaderInv(r)'
    BY Zenon, <2>1, QuietReader
  <2> QED
    BY <2>1, <2>2, <1>1, ReadersOnlyRead, Zenon DEF IInv, PlanInv
<1>8. ASSUME NEW r \in Readers, OpenRead(r) \/ ReadStep(r) \/ CloseRead(r)
      PROVE  IInv'
  <2>1. /\ UNCHANGED <<store, meta, catalog>>
        /\ UNCHANGED <<gc, watermark, floor_target>>
    BY <1>8, Zenon DEF OpenRead, ReadStep, CheckPin, CheckBefore, RangeRead, CheckAfter,
                ReadBoundaries, CloseRead, run
  <2>2. \A s \in Readers \ {r} :
          /\ rpc'[s] = rpc[s] /\ rkind'[s] = rkind[s] /\ rlsn'[s] = rlsn[s]
          /\ rrows'[s] = rrows[s] /\ rcursor'[s] = rcursor[s] /\ rcurrent'[s] = rcurrent[s]
    <3>1. CASE OpenRead(r)
      BY <3>1, Zenon DEF OpenRead, IInv, TypeOK
    <3>2. CASE ReadStep(r)
      BY <3>2 DEF ReadStep, CheckPin, CheckBefore, RangeRead, CheckAfter, ReadBoundaries,
                  IInv, TypeOK
    <3>3. CASE CloseRead(r)
      BY <3>3, Zenon DEF CloseRead, Reset, IInv, TypeOK
    <3> QED
      BY Zenon, <3>1, <3>2, <3>3, <1>8
  <2>3. \A s \in Readers \ {r} : ReaderInv(s)' /\ Pinned(s)' = Pinned(s)
    BY Zenon, <2>1, <2>2, QuietReader
  <2>4. ReaderInv(r)' /\ (gc # "idle" /\ Pinned(r)' => Pinned(r) /\ rlsn'[r] = rlsn[r])
    <3>1. CASE OpenRead(r)
      BY <3>1, <2>1, Zenon DEF OpenRead, ReaderInv, Pinned, IInv, TypeOK, catalog, run
    <3>2. CASE ReadStep(r)
      <4>1. Pinned(r)' => Pinned(r) /\ rlsn'[r] = rlsn[r]
        BY <3>2, Zenon DEF ReadStep, CheckPin, CheckBefore, RangeRead, CheckAfter, ReadBoundaries,
                    Pinned, IInv, TypeOK
      <4> QED
        BY Zenon, <4>1, <3>2, ReadStepKeepsReader
    <3>3. CASE CloseRead(r)
      <4>1. rpc'[r] = "idle"
        BY <3>3, Zenon DEF CloseRead, Reset
      <4> QED
        BY Zenon, <4>1, IdleReader
    <3> QED
      BY Zenon, <3>1, <3>2, <3>3, <1>8
  <2>5. PlanInv'
    BY <2>1, <2>2, <2>3, <2>4, Zenon DEF IInv, PlanInv, store, catalog
  <2> QED
    BY <2>1, <2>3, <2>4, <2>5, <1>1, ReadersOnlyRead, Zenon DEF IInv
<1>9. CASE Crash
  <2>1. UNCHANGED <<store, meta, catalog>> /\ gc' = "idle"
    BY <1>9, Zenon DEF Crash, EndOfRun
  <2>2. \A r \in Readers : rpc'[r] = "idle"
    BY <1>9, Zenon DEF Crash, Reset
  <2> QED
    BY <2>1, <2>2, <1>1, ReadersOnlyRead, IdleReader, Zenon DEF IInv, PlanInv
<1>10. CASE UNCHANGED vars
  <2>1. UNCHANGED <<store, meta, catalog>>
        /\ UNCHANGED <<gc, watermark, floor_target>>
        /\ UNCHANGED <<rpc, rkind, rlsn, rrows, rcursor, rcurrent>>
    BY <1>10, Zenon DEF vars, run, readers
  <2>2. \A r \in Readers : ReaderInv(r)' /\ Pinned(r)' = Pinned(r)
    BY Zenon, <2>1, QuietReader
  <2>3. PlanInv'
    BY <2>1, <2>2, Zenon DEF IInv, PlanInv, store, catalog
  <2> QED
    BY <2>1, <2>2, <2>3, <1>1, ReadersOnlyRead, Zenon DEF IInv
<1> QED
  BY <1>2, <1>3, <1>4, <1>5, <1>6, <1>7, <1>8, <1>9, <1>10, Zenon DEF Next

(* The store, the GC metadata, the plan of a running GC and every reader   *)
(* agree with the committed history in every reachable state.              *)
THEOREM Invariance == Spec => []IInv
BY IInvInit, IInvStep, PTL DEF Spec

-----------------------------------------------------------------------------
(* What the invariant gives to callers.                                    *)

(* rows_as_of_lsn: a read that passes both horizon checks returns exactly  *)
(* the rows committed at its LSN, pinned or not, for any number of keys,   *)
(* readers, consumers and commits.                                         *)
THEOREM AsOfReadsAreExact == Spec => []AsOfExact
<1>1. IInv => AsOfExact
  <2> SUFFICES ASSUME IInv, NEW r \in Readers, rpc[r] = "done", NEW k \in Keys
               PROVE  RowAsOf(rrows[r][k], rlsn[r]) =
                          RowAsOf(KeyHistory(k), Min({rlsn[r], rcurrent[r]}))
    BY Zenon DEF AsOfExact
  <2>1. /\ TypeOK
        /\ rcursor[r] <= rlsn[r] /\ rcursor[r] <= rcurrent[r]
        /\ VersionsAgree(hist, rrows[r], rcursor[r], rcurrent[r])
    BY Zenon DEF IInv, ReaderInv
  <2>2. /\ rrows[r] \in [Keys -> [LSN -> Cell]]
        /\ rcursor[r] \in Lsn0 /\ rcurrent[r] \in Lsn0 /\ rlsn[r] \in Lsn0
    BY <2>1, Zenon DEF TypeOK
  <2> QED
    BY <2>1, <2>2, AgreeingRowsAreExact
<1> QED
  BY <1>1, Invariance, PTL

(* history_rows_for_table: a scan that succeeds lists every version since  *)
(* min_lsn and everything that ends its validity.                          *)
THEOREM ScansAreComplete == Spec => []ScanComplete
<1>1. IInv => ScanComplete
  <2> SUFFICES ASSUME IInv, NEW r \in Readers, rpc[r] = "done", rkind[r] = "scan",
                      NEW k \in Keys, NEW l \in LSN, rlsn[r] <= l, l <= rcurrent[r],
                      hist[l][k] \in Values, NEW j \in l..rcurrent[r]
               PROVE  rrows[r][k][j] = hist[j][k]
    BY Zenon DEF ScanComplete
  <2>1. /\ TypeOK
        /\ rcursor[r] <= rlsn[r]
        /\ VersionsAgree(hist, rrows[r], rcursor[r], rcurrent[r])
    BY Zenon DEF IInv, ReaderInv
  <2>2. rcursor[r] \in Lsn0 /\ rcurrent[r] \in Lsn0 /\ rlsn[r] \in Lsn0
    BY <2>1, Zenon DEF TypeOK
  <2>3. j \in LSN /\ rcursor[r] <= j /\ j <= rcurrent[r] /\ (rcursor[r] < j \/ j = l)
    BY <2>1, <2>2, MaxLsnAssumption DEF LSN, Lsn0
  <2>4. CASE rcursor[r] < j
    BY <2>1, <2>3, <2>4, Zenon DEF VersionsAgree
  <2>5. CASE j = l /\ rcursor[r] = j
    <3>1. ~Superseded(hist, k, l, rcursor[r])
      BY <2>2, <2>5 DEF Superseded, LSN, Lsn0
    <3>2. hist[l][k] # Tombstone
      BY Zenon, CellAssumption
    <3> QED
      BY <2>1, <2>2, <2>3, <2>5, <3>1, <3>2, Zenon DEF VersionsAgree, LSN, Lsn0
  <2> QED
    BY <2>2, <2>3, <2>4, <2>5 DEF LSN, Lsn0
<1> QED
  BY <1>1, Invariance, PTL

(* history_boundary always finds the commit record it asks for.            *)
THEOREM ScansHaveRecords == Spec => []ScanHasRecords
<1>1. IInv => ScanHasRecords
  BY Zenon DEF IInv, ReaderInv, ScanHasRecords
<1> QED
  BY <1>1, Invariance, PTL

(* pin_history_lsn: an accepted pin keeps its history until it is dropped. *)
THEOREM PinsHold == Spec => []PinHolds
<1>1. IInv => PinHolds
  BY Zenon DEF IInv, ReaderInv, PinHolds
<1> QED
  BY <1>1, Invariance, PTL

(* mvcc_watermark: GC never prunes below a declared temporal retention.    *)
THEOREM RetentionIsKept == Spec => []RetentionHolds
<1>1. IInv => RetentionHolds
  BY Zenon DEF IInv, MetaInv, RetentionHolds
<1> QED
  BY <1>1, Invariance, PTL

(* commit_log_floor_target: truncation never overtakes a durable consumer. *)
THEOREM ConsumersFindRecords == Spec => []ConsumersKeepUp
<1>1. IInv => ConsumersKeepUp
  <2> SUFFICES ASSUME IInv, NEW c \in Consumers, NEW l \in (ack[c] + 1)..current_txn_id
               PROVE  commit_log[l] = hist[l]
    BY Zenon DEF ConsumersKeepUp
  <2>1. /\ ack[c] \in Lsn0 /\ current_txn_id \in Lsn0 /\ commit_log_floor \in LSN
        /\ commit_log_floor <= ack[c] + 1
    BY Zenon DEF IInv, TypeOK, MetaInv
  <2>2. l \in LSN /\ commit_log_floor <= l /\ l <= current_txn_id
    BY <2>1, MaxLsnAssumption DEF LSN, Lsn0
  <2> QED
    BY <2>2, Zenon DEF IInv, StoreInv
<1> QED
  BY <1>1, Invariance, PTL

(* collect_processed_writes: GC can always resume from its stored cursor.  *)
THEOREM GcCanResume == Spec => []ResumeHasRecords
<1>1. IInv => ResumeHasRecords
  <2> SUFFICES ASSUME IInv, NEW l \in (mvcc_cursor + 1)..current_txn_id
               PROVE  commit_log[l] = hist[l]
    BY Zenon DEF ResumeHasRecords
  <2>1. /\ mvcc_cursor \in Lsn0 /\ current_txn_id \in Lsn0 /\ commit_log_floor \in LSN
        /\ commit_log_floor = 1 \/ commit_log_floor <= mvcc_cursor
    BY Zenon DEF IInv, TypeOK, MetaInv
  <2>2. l \in LSN /\ commit_log_floor <= l /\ l <= current_txn_id
    BY <2>1, MaxLsnAssumption DEF LSN, Lsn0
  <2> QED
    BY <2>2, Zenon DEF IInv, StoreInv
<1> QED
  BY <1>1, Invariance, PTL

(* prune_key_versions leaves the base table and the newest versions in     *)
(* agreement.                                                              *)
THEOREM NewestVersionIsBase == Spec => []NewestIsBase
<1>1. IInv => NewestIsBase
  <2> SUFFICES ASSUME IInv, NEW k \in Keys
               PROVE  RowAsOf(txn_mvcc[k], current_txn_id) = base[k]
    BY Zenon DEF NewestIsBase
  <2> DEFINE n == current_txn_id
  <2>1. /\ TypeOK /\ n \in Lsn0 /\ mvcc_cursor \in Lsn0 /\ mvcc_cursor <= n
        /\ txn_mvcc \in [Keys -> [LSN -> Cell]]
        /\ VersionsAgree(hist, txn_mvcc, mvcc_cursor, n)
        /\ base[k] = RowAsOf(KeyHistory(k), n)
    BY Zenon DEF IInv, TypeOK, MetaInv, StoreInv
  <2>2. Min({n, n}) = n
    BY <2>1, MinOfNaturals, {n, n} \subseteq Nat, {n, n} # {}, Zenon DEF Lsn0
  <2> HIDE DEF n
  <2>3. RowAsOf(txn_mvcc[k], n) = RowAsOf(KeyHistory(k), Min({n, n}))
    BY <2>1, AgreeingRowsAreExact
  <2> QED
    BY <2>1, <2>2, <2>3, Zenon DEF n
<1> QED
  BY <1>1, Invariance, PTL

(* The stored cursor, horizon and floor never move back, over GC batches,  *)
(* commits and crashes.                                                    *)
THEOREM GcProgressIsMonotone == Spec => ProgressMonotone
<1> DEFINE Forward == /\ mvcc_cursor <= mvcc_cursor'
                      /\ history_horizon <= history_horizon'
                      /\ commit_log_floor <= commit_log_floor'
<1>1. IInv /\ [Next]_vars => [Forward]_vars
  <2> SUFFICES ASSUME IInv, Next PROVE Forward
    BY Zenon DEF vars
  <2>1. CASE UNCHANGED meta
    BY <2>1 DEF meta, IInv, TypeOK, LSN, Lsn0
  <2>2. CASE GcBatch
    BY <2>2, GcBatchStep, Zenon DEF IInv, MetaInv
  <2> QED
    BY <2>1, <2>2, Zenon DEF Next, Commit, AckConsumer, EnableSystemVersioning, StartGc, FinishGc,
       OpenRead, ReadStep, CheckPin, CheckBefore, RangeRead, CheckAfter, ReadBoundaries,
       CloseRead, Crash
<1> QED
  BY <1>1, Invariance, PTL DEF Spec, ProgressMonotone
=============================================================================
