----------------------------- MODULE HistoryGc -----------------------------
(***************************************************************************)
(* The MVCC history of a single-node database: what a commit writes        *)
(* (txn/mod.rs), how bounded history GC prunes it (txn/history.rs,         *)
(* db/history.rs), and how AS OF queries and system-versioned history      *)
(* scans read it (temporal.rs).                                            *)
(*                                                                         *)
(* Keys are the logical keys whose history is followed.  A commit that     *)
(* only writes other tables (catalog rows, consumer positions) appears as  *)
(* an LSN whose write set has no cell in Keys.                             *)
(*                                                                         *)
(* Definitions marked "faulty variant" are plausible bugs in the           *)
(* definition below them; no specification uses them.  Each shows that     *)
(* one of the properties would notice.                                     *)
(***************************************************************************)
EXTENDS Integers, FiniteSets, FiniteSetsExt

CONSTANTS
    Keys,        \* logical (table, key) pairs
    Values,      \* row contents
    Tombstone,   \* an MvccRecord whose value is None
    NoRow,       \* no record at this place
    NoRecord,    \* no commit record under this LSN
    MaxLsn,      \* u64::MAX, the largest transaction id
    Readers,     \* threads that run temporal reads
    Consumers,   \* durable log consumers: subscriptions, views, indexes
    BatchSize,   \* HistoryGcOptions::batch_size
    Retains      \* LSN counts a caller may ask GC to retain; 0 is None

ASSUME MaxLsnAssumption == MaxLsn \in Nat \ {0}
ASSUME CellAssumption == /\ Tombstone \notin Values
                         /\ NoRow \notin Values
                         /\ Tombstone # NoRow
ASSUME RecordAssumption == NoRecord \notin [Keys -> Values \cup {Tombstone, NoRow}]
ASSUME BatchAssumption == BatchSize \in Nat \ {0}
ASSUME RetainsAssumption == Retains \subseteq Nat

LSN == 1..MaxLsn
Lsn0 == 0..MaxLsn
Cell == Values \cup {Tombstone, NoRow}
WriteSets == [Keys -> Cell]
NoWrites == [k \in Keys |-> NoRow]
NoVersions == [k \in Keys |-> [l \in LSN |-> NoRow]]
\* TemporalRetention of the one system-versioned table; above every LSN when
\* there is none, so it never lowers a watermark.
NoRetention == MaxLsn + 1

VARIABLES
    current_txn_id,    \* __txn_meta: last committed LSN
    base,              \* the user table: current value of every key
    txn_versions,      \* __txn_versions: LSN of the last commit of every key
    txn_mvcc,          \* __txn_mvcc: one cell per key and LSN
    commit_log,        \* __commit_log: the write set of every retained LSN
    mvcc_cursor,       \* __txn_meta: commits up to here have been pruned
    history_horizon,   \* __txn_meta: AS OF below it is rejected
    commit_log_floor,  \* __txn_meta: lowest retained commit-log LSN
    retention,         \* catalog: min_lsn of the system-versioned table
    ack,               \* durable position of every log consumer
    gc,                \* phase of run_history_gc, which holds history_pins
    watermark,         \* HistoryGcBatchPlan::watermark
    floor_target,      \* HistoryGcBatchPlan::commit_log_floor_target; 0 is None
    rpc,               \* where each reader is
    rkind,             \* which read it runs
    rlsn,              \* the LSN it asked for
    rrows,             \* the __txn_mvcc rows its range read returned
    hist,              \* auxiliary: every write set ever committed
    rcursor,           \* auxiliary: mvcc_cursor at the range read
    rcurrent           \* auxiliary: current_txn_id at the range read

store == <<current_txn_id, base, txn_versions, txn_mvcc, commit_log, hist>>
meta == <<mvcc_cursor, history_horizon, commit_log_floor>>
catalog == <<retention, ack>>
run == <<gc, watermark, floor_target>>
readers == <<rpc, rkind, rlsn, rrows, rcursor, rcurrent>>
vars == <<store, meta, catalog, run, readers>>

-----------------------------------------------------------------------------
(* What a temporal read computes from the version rows of one key.         *)

Versions(cells, lsn) == {l \in LSN : l <= lsn /\ cells[l] # NoRow}

\* The newest version at or below lsn; a tombstone, like no version, is no row.
RowAsOf(cells, lsn) ==
    LET vs == Versions(cells, lsn)
    IN  IF vs = {} \/ cells[Max(vs)] = Tombstone THEN NoRow ELSE cells[Max(vs)]

KeyHistory(k) == [l \in LSN |-> hist[l][k]]

-----------------------------------------------------------------------------
(* Commits.                                                                *)

\* apply_commit_record_in_txn under the next LSN, in one storage transaction.
ApplyCommitRecord(ws) ==
    LET n == current_txn_id + 1
    IN  /\ current_txn_id < MaxLsn       \* "transaction id overflow" otherwise
        /\ current_txn_id' = n
        /\ txn_mvcc' = [k \in Keys |-> [txn_mvcc[k] EXCEPT ![n] = ws[k]]]
        /\ base' = [k \in Keys |-> IF ws[k] = NoRow THEN base[k]
                                   ELSE IF ws[k] = Tombstone THEN NoRow
                                   ELSE ws[k]]
        /\ txn_versions' = [k \in Keys |-> IF ws[k] = NoRow THEN txn_versions[k] ELSE n]
        /\ commit_log' = [commit_log EXCEPT ![n] = ws]
        /\ hist' = [hist EXCEPT ![n] = ws]

\* commit_write_set_at_current: a write set against the current snapshot.
Commit ==
    /\ \E ws \in WriteSets : ApplyCommitRecord(ws)
    /\ UNCHANGED <<meta, catalog, run, readers>>

\* A consumer acknowledges a later position; the position is itself a commit.
AckConsumer(c) ==
    /\ \E p \in Lsn0 : /\ ack[c] < p
                       /\ p <= current_txn_id
                       /\ ack' = [ack EXCEPT ![c] = p]
    /\ ApplyCommitRecord(NoWrites)
    /\ UNCHANGED <<meta, retention, run, readers>>

\* enable_system_versioning takes &mut Database: no read and no GC is running.
EnableSystemVersioning ==
    /\ retention = NoRetention
    /\ gc = "idle"
    /\ \A r \in Readers : rpc[r] = "idle"
    /\ \E min_lsn \in Lsn0 : /\ min_lsn >= history_horizon
                             /\ retention' = min_lsn
    /\ ApplyCommitRecord(NoWrites)
    /\ UNCHANGED <<meta, ack, run, readers>>

-----------------------------------------------------------------------------
(* History GC.                                                             *)

\* LSNs held by AS OF queries in the ActiveSnapshotRegistry.
Pinned(r) == rkind[r] = "query" /\ rpc[r] # "idle"
RetentionPins == {rlsn[r] : r \in {x \in Readers : Pinned(x)}}

SaturatingAdd(a, b) == IF a + b > MaxLsn THEN MaxLsn ELSE a + b
SaturatingSub(a, b) == IF a > b THEN a - b ELSE 0
Kept(retain) == SaturatingSub(SaturatingAdd(current_txn_id, 1), retain)

\* Faulty variant.
WatermarkIgnoringPins(retain) ==
    {current_txn_id, retention} \cup (IF retain = 0 THEN {} ELSE {Kept(retain)})

\* The bounds of mvcc_watermark: the least of them is the watermark.
WatermarkBounds(retain) ==
    {current_txn_id} \cup RetentionPins \cup {retention}
        \cup (IF retain = 0 THEN {} ELSE {Kept(retain)})

\* Faulty variant.
FloorIgnoringConsumers(w, retain) == {IF Kept(retain) < 1 THEN 1 ELSE Kept(retain), w}

\* The bounds of commit_log_floor_target, given the watermark.
FloorBounds(w, retain) ==
    {IF Kept(retain) < 1 THEN 1 ELSE Kept(retain), w}
        \cup {SaturatingAdd(ack[c], 1) : c \in Consumers}

\* run_history_gc takes the history_pins mutex and fixes its plan.
StartGc ==
    /\ gc = "idle"
    /\ \E retain, log_retain \in Retains :
          /\ watermark' = Min(WatermarkBounds(retain))
          /\ floor_target' = IF log_retain = 0 THEN 0
                             ELSE Min(FloorBounds(watermark', log_retain))
    /\ gc' = "batch"
    /\ UNCHANGED <<store, meta, catalog, readers>>

\* Faulty variants.
FloorPastCursor(cursor) == Min({current_txn_id, SaturatingAdd(cursor, 2)})
\* HistoryGcBatchPlan::floor_target
FloorTarget(cursor) == Min({floor_target, watermark, SaturatingAdd(cursor, 1)})

\* Writes the batch has examined once it processed commits up to lsn.
Examined(lsn) ==
    LET weight(l) == Max({1, Cardinality({k \in Keys : commit_log[l][k] # NoRow})})
    IN  MapThenSumSet(weight, (mvcc_cursor + 1)..lsn)

\* collect_processed_writes stops at the first commit that uses up the write
\* budget, at the watermark, or earlier when the records are large.
BatchEnds == {c \in (mvcc_cursor + 1)..watermark : Examined(c - 1) < BatchSize}

\* Commits in (mvcc_cursor, end] that wrote k; the largest is `newest`.
ProcessedWrites(k, end) ==
    {l \in (mvcc_cursor + 1)..end : /\ commit_log[l] # NoRecord
                                    /\ commit_log[l][k] # NoRow}

\* The cells of k after prune_key_versions: those below `newest` go, and so
\* does `newest` itself when it is a tombstone, the last commit of a key that
\* the base table no longer holds.
PruneKeyVersions(k, newest) ==
    [l \in LSN |->
        IF \/ l < newest
           \/ /\ l = newest
              /\ txn_mvcc[k][newest] = Tombstone
              /\ txn_versions[k] = newest
              /\ base[k] = NoRow
        THEN NoRow ELSE txn_mvcc[k][l]]

\* Faulty variant.
PruneWithoutProgress(end) ==
    UNCHANGED <<txn_mvcc, mvcc_cursor, history_horizon, commit_log_floor, commit_log>>

PruneMvccBatch(end) ==
    /\ txn_mvcc' = [k \in Keys |->
          LET ws == ProcessedWrites(k, end)
          IN  IF ws = {} \/ txn_mvcc[k][Max(ws)] = NoRow
              THEN txn_mvcc[k]
              ELSE PruneKeyVersions(k, Max(ws))]
    /\ mvcc_cursor' = end
    /\ history_horizon' = Max({history_horizon, end})
    /\ UNCHANGED <<commit_log_floor, commit_log>>

TruncateCommitLogBatch(end) ==
    /\ commit_log' = [l \in LSN |-> IF l \in commit_log_floor..(end - 1)
                                    THEN NoRecord ELSE commit_log[l]]
    /\ commit_log_floor' = end
    /\ UNCHANGED <<mvcc_cursor, history_horizon, txn_mvcc>>

\* HistoryGcBatchOutcome::done
Done == /\ mvcc_cursor' >= watermark
        /\ commit_log_floor' >= FloorTarget(mvcc_cursor')

\* One gc_history_batch under the commit lock: prune, else truncate, else
\* change nothing.
GcBatch ==
    /\ gc = "batch"
    /\ \/ /\ mvcc_cursor < watermark
          /\ \E end \in BatchEnds : PruneMvccBatch(end)
          /\ gc' = IF Done THEN "finish" ELSE "batch"
       \/ /\ mvcc_cursor >= watermark
          /\ commit_log_floor < FloorTarget(mvcc_cursor)
          /\ \E end \in (commit_log_floor + 1)..
                        Min({FloorTarget(mvcc_cursor), commit_log_floor + BatchSize}) :
                TruncateCommitLogBatch(end)
          /\ gc' = IF Done THEN "finish" ELSE "batch"
       \/ /\ mvcc_cursor >= watermark
          /\ commit_log_floor >= FloorTarget(mvcc_cursor)
          /\ gc' = "finish"
          /\ UNCHANGED <<meta, txn_mvcc, commit_log>>
    /\ UNCHANGED <<current_txn_id, base, txn_versions, hist, catalog,
                   watermark, floor_target, readers>>

\* The plan is dropped with the mutex guard.
EndOfRun == /\ gc' = "idle"
            /\ watermark' = 0
            /\ floor_target' = 0

\* The loop of run_history_gc_batches is over: the last batch was done or
\* changed nothing, max_batches (any number) is used up, or a batch failed and
\* was rolled back.  The report is built and history_pins released.
FinishGc ==
    /\ gc \in {"batch", "finish"}
    /\ EndOfRun
    /\ UNCHANGED <<store, meta, catalog, readers>>

-----------------------------------------------------------------------------
(* Temporal reads.                                                         *)

\* query_as_of registers its pin first; this needs the history_pins mutex,
\* which a GC run keeps.  rows_as_of_lsn and history scans take no pin.
OpenRead(r) ==
    /\ rpc[r] = "idle"
    /\ \/ /\ gc = "idle"
          /\ \E lsn \in Lsn0 : rlsn' = [rlsn EXCEPT ![r] = lsn]
          /\ rkind' = [rkind EXCEPT ![r] = "query"]
          /\ rpc' = [rpc EXCEPT ![r] = "pinned"]
       \/ /\ \E lsn \in Lsn0 : rlsn' = [rlsn EXCEPT ![r] = lsn]
          /\ rkind' = [rkind EXCEPT ![r] = "rows"]
          /\ rpc' = [rpc EXCEPT ![r] = "open"]
       \/ /\ retention # NoRetention
          /\ rlsn' = [rlsn EXCEPT ![r] = retention]
          /\ rkind' = [rkind EXCEPT ![r] = "scan"]
          /\ rpc' = [rpc EXCEPT ![r] = "open"]
    /\ UNCHANGED <<store, meta, catalog, run, rrows, rcursor, rcurrent>>

\* pin_history_lsn reads the horizon after registering the pin.
CheckPin(r) ==
    /\ rpc[r] = "pinned"
    /\ rpc' = [rpc EXCEPT ![r] = IF rlsn[r] < history_horizon THEN "expired" ELSE "open"]
    /\ UNCHANGED <<store, meta, catalog, run, rkind, rlsn, rrows, rcursor, rcurrent>>

\* ensure_history_retained before the range read.
CheckBefore(r) ==
    /\ rpc[r] = "open"
    /\ rpc' = [rpc EXCEPT ![r] = IF rlsn[r] < history_horizon THEN "expired" ELSE "checked"]
    /\ UNCHANGED <<store, meta, catalog, run, rkind, rlsn, rrows, rcursor, rcurrent>>

\* Faulty variant.
RangeReadAfterMin(r) ==
    /\ rpc[r] = "checked"
    /\ rpc' = [rpc EXCEPT ![r] = "ranged"]
    /\ rrows' = [rrows EXCEPT ![r] = [k \in Keys |-> [l \in LSN |->
          IF rkind[r] = "scan" /\ l <= rlsn[r] THEN NoRow ELSE txn_mvcc[k][l]]]]
    /\ rcursor' = [rcursor EXCEPT ![r] = mvcc_cursor]
    /\ rcurrent' = [rcurrent EXCEPT ![r] = current_txn_id]
    /\ UNCHANGED <<store, meta, catalog, run, rkind, rlsn>>

\* The range read of __txn_mvcc, in one storage snapshot.
RangeRead(r) ==
    /\ rpc[r] = "checked"
    /\ rpc' = [rpc EXCEPT ![r] = "ranged"]
    /\ rrows' = [rrows EXCEPT ![r] = txn_mvcc]
    /\ rcursor' = [rcursor EXCEPT ![r] = mvcc_cursor]
    /\ rcurrent' = [rcurrent EXCEPT ![r] = current_txn_id]
    /\ UNCHANGED <<store, meta, catalog, run, rkind, rlsn>>

\* A history scan also rejects every row below the horizon it reads here.
HasAnchorBelow(rows, horizon) ==
    \E k \in Keys, l \in LSN : l < horizon /\ rows[k][l] # NoRow

\* Faulty variant.
CheckOnlyBefore(r) ==
    /\ rpc[r] = "ranged"
    /\ rpc' = [rpc EXCEPT ![r] = IF rkind[r] = "scan" THEN "listed" ELSE "done"]
    /\ UNCHANGED <<store, meta, catalog, run, rkind, rlsn, rrows, rcursor, rcurrent>>

\* ensure_history_retained after the range read.
CheckAfter(r) ==
    /\ rpc[r] = "ranged"
    /\ rpc' = [rpc EXCEPT ![r] =
          IF \/ rlsn[r] < history_horizon
             \/ rkind[r] = "scan" /\ HasAnchorBelow(rrows[r], history_horizon)
          THEN "expired"
          ELSE IF rkind[r] = "scan" THEN "listed" ELSE "done"]
    /\ UNCHANGED <<store, meta, catalog, run, rkind, rlsn, rrows, rcursor, rcurrent>>

\* Versions a history scan lists or uses as the end of a validity interval.
ScanVersions(cells, min_lsn) == {l \in LSN : l >= min_lsn /\ cells[l] # NoRow}

\* history_boundary reads the commit record of every listed version.
ReadBoundaries(r) ==
    /\ rpc[r] = "listed"
    /\ rpc' = [rpc EXCEPT ![r] =
          IF \E k \in Keys : \E l \in ScanVersions(rrows[r][k], rlsn[r]) :
                commit_log[l] = NoRecord
          THEN "missing_point" ELSE "done"]
    /\ UNCHANGED <<store, meta, catalog, run, rkind, rlsn, rrows, rcursor, rcurrent>>

\* The readers in rs stop and drop what they hold.
Reset(rs) ==
    /\ rpc' = [r \in Readers |-> IF r \in rs THEN "idle" ELSE rpc[r]]
    /\ rkind' = [r \in Readers |-> IF r \in rs THEN "query" ELSE rkind[r]]
    /\ rlsn' = [r \in Readers |-> IF r \in rs THEN 0 ELSE rlsn[r]]
    /\ rrows' = [r \in Readers |-> IF r \in rs THEN NoVersions ELSE rrows[r]]
    /\ rcursor' = [r \in Readers |-> IF r \in rs THEN 0 ELSE rcursor[r]]
    /\ rcurrent' = [r \in Readers |-> IF r \in rs THEN 0 ELSE rcurrent[r]]

\* The read returns, fails or is cancelled; dropping a HistoryPin needs the
\* mutex.
CloseRead(r) ==
    /\ rpc[r] # "idle"
    /\ Pinned(r) => gc = "idle"
    /\ Reset({r})
    /\ UNCHANGED <<store, meta, catalog, run>>

ReadStep(r) == \/ CheckPin(r) \/ CheckBefore(r) \/ RangeRead(r)
               \/ CheckAfter(r) \/ ReadBoundaries(r)

\* Faulty variant.
CrashLosingCursor ==
    /\ EndOfRun
    /\ Reset(Readers)
    /\ mvcc_cursor' = 0
    /\ UNCHANGED <<store, history_horizon, commit_log_floor, catalog>>

\* A process crash: pins and a running GC are lost, every committed storage
\* transaction survives.
Crash ==
    /\ EndOfRun
    /\ Reset(Readers)
    /\ UNCHANGED <<store, meta, catalog>>

-----------------------------------------------------------------------------
Init ==
    /\ current_txn_id = 0
    /\ base = [k \in Keys |-> NoRow]
    /\ txn_versions = [k \in Keys |-> 0]
    /\ txn_mvcc = NoVersions
    /\ commit_log = [l \in LSN |-> NoRecord]
    /\ hist = [l \in LSN |-> NoWrites]
    /\ mvcc_cursor = 0
    /\ history_horizon = 0
    /\ commit_log_floor = 1
    /\ retention = NoRetention
    /\ ack = [c \in Consumers |-> 0]
    /\ gc = "idle"
    /\ watermark = 0
    /\ floor_target = 0
    /\ rpc = [r \in Readers |-> "idle"]
    /\ rkind = [r \in Readers |-> "query"]
    /\ rlsn = [r \in Readers |-> 0]
    /\ rrows = [r \in Readers |-> NoVersions]
    /\ rcursor = [r \in Readers |-> 0]
    /\ rcurrent = [r \in Readers |-> 0]

Next ==
    \/ Commit
    \/ \E c \in Consumers : AckConsumer(c)
    \/ EnableSystemVersioning
    \/ StartGc
    \/ GcBatch
    \/ FinishGc
    \/ \E r \in Readers : OpenRead(r) \/ ReadStep(r) \/ CloseRead(r)
    \/ Crash

Spec == Init /\ [][Next]_vars

\* The GC thread keeps running its batches and leaves the loop after the last
\* one.  No fairness makes a budget run out or a batch fail.
FairSpec == Spec /\ WF_vars(GcBatch) /\ WF_vars(gc = "finish" /\ FinishGc)

-----------------------------------------------------------------------------
(* Properties.                                                             *)

TypeOK ==
    /\ current_txn_id \in Lsn0
    /\ base \in [Keys -> Values \cup {NoRow}]
    /\ txn_versions \in [Keys -> Lsn0]
    /\ txn_mvcc \in [Keys -> [LSN -> Cell]]
    /\ commit_log \in [LSN -> WriteSets \cup {NoRecord}]
    /\ hist \in [LSN -> WriteSets]
    /\ mvcc_cursor \in Lsn0
    /\ history_horizon \in Lsn0
    /\ commit_log_floor \in LSN
    /\ retention \in Lsn0 \cup {NoRetention}
    /\ ack \in [Consumers -> Lsn0]
    /\ gc \in {"idle", "batch", "finish"}
    /\ watermark \in Lsn0
    /\ floor_target \in Lsn0
    /\ rpc \in [Readers -> {"idle", "pinned", "open", "checked", "ranged",
                            "listed", "done", "expired", "missing_point"}]
    /\ rkind \in [Readers -> {"query", "rows", "scan"}]
    /\ rlsn \in [Readers -> Lsn0]
    /\ rrows \in [Readers -> [Keys -> [LSN -> Cell]]]
    /\ rcursor \in [Readers -> Lsn0]
    /\ rcurrent \in [Readers -> Lsn0]

\* rows_as_of_lsn: a read that succeeds returns exactly the rows that were
\* committed at its LSN, whatever GC batches and commits ran between its two
\* horizon checks, with or without a pin.
AsOfExact ==
    \A r \in Readers : rpc[r] = "done" /\ rkind[r] # "scan" =>
        \A k \in Keys :
            RowAsOf(rrows[r][k], rlsn[r]) =
                RowAsOf(KeyHistory(k), Min({rlsn[r], rcurrent[r]}))

\* history_rows_for_table: a scan that succeeds lists every row version
\* committed since min_lsn, and each with the right end of validity.
ScanComplete ==
    \A r \in Readers : rpc[r] = "done" /\ rkind[r] = "scan" =>
        \A k \in Keys, l \in LSN :
            (rlsn[r] <= l /\ l <= rcurrent[r] /\ hist[l][k] \in Values) =>
                \A j \in l..rcurrent[r] : rrows[r][k][j] = hist[j][k]

\* history_boundary: truncation never removes the commit record of a version
\* that a history scan lists.
ScanHasRecords == \A r \in Readers : rpc[r] # "missing_point"

\* pin_history_lsn: once a query passed its horizon check, no GC run raises
\* the horizon over its LSN.
PinHolds ==
    \A r \in Readers :
        Pinned(r) /\ rpc[r] \notin {"pinned", "expired"} => history_horizon <= rlsn[r]

\* mvcc_watermark: the history a system-versioned table promised is kept.
RetentionHolds == history_horizon <= retention

\* commit_log_floor_target: every consumer still finds the record of each
\* commit it has not acknowledged.
ConsumersKeepUp ==
    \A c \in Consumers : \A l \in (ack[c] + 1)..current_txn_id : commit_log[l] = hist[l]

\* collect_processed_writes: a run that resumes from the stored cursor, after
\* a crash or a used-up budget, finds every commit it still has to process.
ResumeHasRecords ==
    \A l \in (mvcc_cursor + 1)..current_txn_id : commit_log[l] = hist[l]

\* prune_key_versions: the newest version left for a key agrees with the base
\* table.
NewestIsBase ==
    \A k \in Keys : RowAsOf(txn_mvcc[k], current_txn_id) = base[k]

\* GC progress is durable and never moves back, not even over a crash.
ProgressMonotone ==
    [][/\ mvcc_cursor <= mvcc_cursor'
       /\ history_horizon <= history_horizon'
       /\ commit_log_floor <= commit_log_floor']_vars

\* run_history_gc_batches: every run ends and releases the history_pins mutex
\* that AS OF queries wait for.
GcEnds == gc # "idle" ~> gc = "idle"

-----------------------------------------------------------------------------
(* The inductive invariant behind these properties.                        *)

\* A commit of the history h in (l, c] wrote k again.
Superseded(h, k, l, c) == \E j \in LSN : l < j /\ j <= c /\ h[j][k] # NoRow

\* rows are the versions of a store with the first n commits of h, pruned
\* up to c: complete above c, and below it at most the newest version of
\* every key, which may only be missing when it is a tombstone.
VersionsAgree(h, rows, c, n) ==
    \A k \in Keys, l \in LSN :
        /\ l > n => rows[k][l] = NoRow
        /\ c < l /\ l <= n => rows[k][l] = h[l][k]
        /\ l <= c => /\ rows[k][l] \in {NoRow, h[l][k]}
                     /\ Superseded(h, k, l, c) => rows[k][l] = NoRow
                     /\ ~Superseded(h, k, l, c) =>
                           rows[k][l] = h[l][k] \/ h[l][k] = Tombstone

StoreInv ==
    /\ \A l \in LSN : l > current_txn_id => hist[l] = NoWrites
    /\ \A l \in LSN : commit_log_floor <= l /\ l <= current_txn_id => commit_log[l] = hist[l]
    /\ \A k \in Keys : base[k] = RowAsOf(KeyHistory(k), current_txn_id)
    /\ VersionsAgree(hist, txn_mvcc, mvcc_cursor, current_txn_id)

MetaInv ==
    /\ mvcc_cursor = history_horizon
    /\ mvcc_cursor <= current_txn_id
    /\ commit_log_floor = 1 \/ commit_log_floor <= mvcc_cursor
    /\ history_horizon <= retention
    /\ \A c \in Consumers : commit_log_floor <= ack[c] + 1

\* What the plan of a running GC promises to everybody it must not disturb.
PlanInv ==
    gc # "idle" =>
        /\ watermark <= current_txn_id
        /\ watermark <= retention
        /\ floor_target <= watermark
        /\ \A c \in Consumers : floor_target <= ack[c] + 1
        /\ \A r \in Readers : Pinned(r) => watermark <= rlsn[r]

ReaderInv(r) ==
    /\ Pinned(r) /\ rpc[r] \notin {"pinned", "expired"} => history_horizon <= rlsn[r]
    /\ rkind[r] = "scan" /\ rpc[r] # "idle" => rlsn[r] = retention
    /\ rpc[r] \in {"ranged", "listed", "done"} =>
          /\ rcursor[r] <= mvcc_cursor
          /\ rcursor[r] <= rcurrent[r]
          /\ rcurrent[r] <= current_txn_id
          /\ VersionsAgree(hist, rrows[r], rcursor[r], rcurrent[r])
    /\ rpc[r] \in {"listed", "done"} => rcursor[r] <= rlsn[r]
    /\ rpc[r] = "listed" => rkind[r] = "scan"
    /\ rpc[r] # "missing_point"

\* Type correctness, the store, the GC metadata, the plan of a running GC and
\* every reader agree with the committed history.
IInv == /\ TypeOK
        /\ StoreInv
        /\ MetaInv
        /\ PlanInv
        /\ \A r \in Readers : ReaderInv(r)
=============================================================================
