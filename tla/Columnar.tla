------------------------------ MODULE Columnar ------------------------------
(* The segments of a columnar table (src/query/mod.rs) and their tiering     *)
(* into an object store (src/cloud.rs).  A writer reads all segments and     *)
(* commits under the condition that they are still there; a filtered scan    *)
(* pairs segments and zone maps that it read apart; a tiering run swaps a    *)
(* segment for a pointer to an uploaded object.  They interleave between any *)
(* two calls to storage, in one or several databases that share the store.   *)
(*                                                                           *)
(* A row is its primary key, a number, which is also what filters compare.   *)
EXTENDS Integers, Sequences, FiniteSetsExt

CONSTANTS
    Rows,         \* primary keys, 1..n
    SegmentRows,  \* COLUMNAR_SEGMENT_ROWS
    Attempts,     \* SEGMENT_PRUNING_READ_ATTEMPTS
    Dbs,          \* databases
    Threads,
    Starts,       \* what is explored: the first rows, the database and the calls
                  \* of each thread, whether calls fail
    None

\* Keys are numbers, and a segment takes at least one row.
ASSUME RowsAssumption == Rows \subseteq Nat /\ IsFiniteSet(Rows)
ASSUME SegmentRowsAssumption == SegmentRows \in Nat \ {0}

VARIABLES
    start,       \* the element of Starts that this behavior explores
    lsn,         \* the commit LSN of each database
    seg,         \* REL_COLUMNAR_SEGMENTS_TABLE: rows, a pointer, or nothing
    zone,        \* REL_COLUMNAR_SEGMENT_META_TABLE: least and greatest row
    tier,        \* CLOUD_SEGMENTS_TABLE: where tiering is with a segment
    objects,     \* the objects of the store
    th,          \* the call each thread is in
    todo,        \* the calls each thread still makes
    table,       \* the rows that the committed statements leave
    installed,   \* every pointer ever installed, with its segment
    interrupted  \* segments whose tiering stopped halfway

data == <<lsn, seg, zone, tier, table>>
cloud == <<objects, installed, interrupted>>

\* Segment ids are dense; one more is looked at.
Ids == 0..Cardinality(Rows)
Db(t) == start.db[t]

Idle == [call |-> "none", pc |-> "idle", row |-> 0, snap |-> None, zones |-> None, lsn |-> 0,
         tries |-> 0, rows |-> {}, res |-> {}, meta |-> None, id |-> 0, ptr |-> None,
         record |-> None, next |-> "none", lease |-> None, backup |-> 0]

At(t, pc) == th[t].pc = pc
Goes(t, local) == th' = [th EXCEPT ![t] = local]
Stops(t) == Goes(t, Idle)
Resting(t) == th[t].pc \in {"idle", "done"}

Begins(t, call) ==
    /\ Resting(t)
    /\ todo[t] # <<>>
    /\ Head(todo[t]) = call
    /\ todo' = [todo EXCEPT ![t] = Tail(@)]

-----------------------------------------------------------------------------
(* Segments.                                                               *)

Local(rows) == [at |-> "local", rows |-> rows]
Pointer(path, rows) == [at |-> "remote", path |-> path, checksum |-> rows]

\* Faulty variant: the object of a segment is named after its key alone.
KeyPath(i, rows) == <<i, {}>>

\* tiered_segment_object_path: the key and the hash of the bytes.
Path(i, rows) == <<i, rows>>

\* Segments hold rows.
RowSets == {rows \in SUBSET Rows : rows # {}}
Paths == {Path(i, rows) : i \in Ids, rows \in RowSets}
Segments == {Local(rows) : rows \in RowSets} \cup {Pointer(p, p[2]) : p \in Paths}
ASSUME NoneAssumption == None \notin Segments

\* resolve_tiered_segment_payload: the object is there and its checksum is right.
Resolves(value) ==
    value.at = "remote" => value.path \in DOMAIN objects /\ objects[value.path] = value.checksum
Content(value) == IF value.at = "remote" THEN value.checksum ELSE value.rows

Used(s) == {i \in Ids : s[i] # None}
NextId(s) == Max({-1} \cup Used(s)) + 1
AllResolve(s) == \A i \in Used(s) : Resolves(s[i])
RowsOf(s) == UNION {Content(s[i]) : i \in Used(s)}

\* The rows in the order of their keys, in chunks of SegmentRows.
Chunk(rows, i) ==
    {r \in rows : Cardinality({x \in rows : x < r}) \div SegmentRows = i}
Chunks(rows) ==
    [i \in Ids |-> IF Chunk(rows, i) = {} THEN None ELSE Local(Chunk(rows, i))]

ZoneOf(value) == IF value = None THEN None ELSE [min |-> Min(value.rows), max |-> Max(value.rows)]
Zones(s) == [i \in Ids |-> ZoneOf(s[i])]

-----------------------------------------------------------------------------
(* Writers: insert, update and delete.                                     *)

\* columnar_append_ops: a partial tail is extended; a full one is written again
\* as it is, and the row starts a new segment.
columnar_append_ops(s, r) ==
    LET last == NextId(s) - 1
    IN  IF last = -1 THEN [i \in {0} |-> Local({r})]
        ELSE IF Cardinality(Content(s[last])) < SegmentRows
             THEN [i \in {last} |-> Local(Content(s[last]) \cup {r})]
             ELSE [i \in {last, last + 1} |-> IF i = last THEN s[last] ELSE Local({r})]

\* columnar_rewrite_ops: every segment that was read goes, the rows are chunked
\* anew.
columnar_rewrite_ops(s, rows) ==
    LET new == Chunks(rows)
    IN  [i \in Used(s) \cup Used(new) |-> new[i]]

\* Faulty variant: only the segments that were read are compared.
ReadUnchanged(d, s, written) == \A i \in Used(s) : seg[d][i] = s[i]

\* The conditions of columnar_append_batch and columnar_rewrite_batch: what was
\* read is still there, and no segment is where none was read.
Unchanged(d, s, written) ==
    \A i \in Used(s) \cup written \cup {NextId(s)} : seg[d][i] = s[i]

\* The rows that a statement leaves.
Changed(call, rows, r) == IF call = "delete" THEN rows \ {r} ELSE rows \cup {r}

Commits(d) == lsn' = [lsn EXCEPT ![d] = @ + 1]

WriteStart(t, call) ==
    /\ Begins(t, call)
    /\ \E r \in Rows : Goes(t, [Idle EXCEPT !.call = call, !.pc = "read", !.row = r])
    /\ UNCHANGED <<start, data, cloud>>

ReadSegments(t) ==
    /\ At(t, "read")
    /\ Goes(t, [th[t] EXCEPT !.pc = "write", !.snap = seg[Db(t)]])
    /\ UNCHANGED <<start, data, cloud, todo>>

\* DuplicatePrimaryKey, or nothing to delete.  A call that meets an unreadable
\* segment, here and below, can only Fail.
WriteEnds(t) ==
    /\ At(t, "write")
    /\ AllResolve(th[t].snap)
    /\ \/ th[t].call = "insert" /\ th[t].row \in RowsOf(th[t].snap)
       \/ th[t].call = "delete" /\ th[t].row \notin RowsOf(th[t].snap)
    /\ Stops(t)
    /\ UNCHANGED <<start, data, cloud, todo>>

\* append_columnar_rows and rewrite_columnar_rows: the batch commits, or the
\* segments are read again, or the retries are used up.
WriteBatch(t) ==
    LET d == Db(t)
        s == th[t].snap
        rows == RowsOf(s)
        new == Changed(th[t].call, rows, th[t].row)
        ops == IF th[t].call = "insert" THEN columnar_append_ops(s, th[t].row)
               ELSE columnar_rewrite_ops(s, new)
    IN  /\ At(t, "write")
        /\ AllResolve(s)
        /\ th[t].call = "insert" => th[t].row \notin rows
        /\ th[t].call = "delete" => th[t].row \in rows
        /\ IF Unchanged(d, s, DOMAIN ops)
           THEN /\ Commits(d)
                /\ seg' = [seg EXCEPT ![d] =
                       [i \in Ids |-> IF i \in DOMAIN ops THEN ops[i] ELSE @[i]]]
                /\ zone' = [zone EXCEPT ![d] =
                       [i \in Ids |-> IF i \in DOMAIN ops /\ ops[i] # s[i] THEN ZoneOf(ops[i]) ELSE @[i]]]
                /\ table' = [table EXCEPT ![d] = Changed(th[t].call, @, th[t].row)]
                /\ Stops(t)
           ELSE /\ \/ Goes(t, [th[t] EXCEPT !.pc = "read"])
                   \/ Stops(t)
                /\ UNCHANGED <<lsn, seg, zone, table>>
        /\ UNCHANGED <<start, tier, cloud, todo>>

-----------------------------------------------------------------------------
(* A filtered scan: columnar_segments_with_meta, query_filter_columnar.    *)

ScanStart(t) ==
    /\ Begins(t, "scan")
    /\ \E r \in Rows : Goes(t, [Idle EXCEPT !.call = "scan", !.pc = "lsn", !.row = r])
    /\ UNCHANGED <<start, data, cloud>>

ScanLsn(t) ==
    /\ At(t, "lsn")
    /\ Goes(t, [th[t] EXCEPT !.pc = "segments", !.lsn = lsn[Db(t)], !.tries = @ + 1])
    /\ UNCHANGED <<start, data, cloud, todo>>

\* `rows` is auxiliary: what the table holds at this read.
ScanSegments(t) ==
    /\ At(t, "segments")
    /\ Goes(t, [th[t] EXCEPT !.pc = "zones", !.snap = seg[Db(t)], !.rows = table[Db(t)]])
    /\ UNCHANGED <<start, data, cloud, todo>>

ScanZones(t) ==
    /\ At(t, "zones")
    /\ Goes(t, [th[t] EXCEPT !.pc = "check", !.zones = zone[Db(t)]])
    /\ UNCHANGED <<start, data, cloud, todo>>

\* Faulty variant: the zone maps are used as they were read.
ZonesAsRead(t) == TRUE

\* The commit LSN did not move over the reads.
Paired(t) == lsn[Db(t)] = th[t].lsn

\* segment_may_match_filter; a segment without a zone map may always match.
segment_may_match_filter(z, r) == z = None \/ (z.min <= r /\ r <= z.max)

Kept(t, zones) == {i \in Used(th[t].snap) : segment_may_match_filter(zones[i], th[t].row)}
Found(t, zones) == (UNION {Content(th[t].snap[i]) : i \in Kept(t, zones)}) \cap {th[t].row}

Scanned(t, zones) ==
    /\ \A i \in Kept(t, zones) : Resolves(th[t].snap[i])
    /\ Goes(t, [Idle EXCEPT !.call = "scan", !.pc = "done", !.row = th[t].row,
                            !.rows = th[t].rows, !.res = Found(t, zones)])

ScanCheck(t) ==
    /\ At(t, "check")
    /\ IF Paired(t) THEN Scanned(t, th[t].zones)
       ELSE IF th[t].tries < Attempts THEN Goes(t, [th[t] EXCEPT !.pc = "lsn"])
       ELSE Scanned(t, [i \in Ids |-> None])
    /\ UNCHANGED <<start, data, cloud, todo>>

-----------------------------------------------------------------------------
(* tier_columnar_segments.                                                 *)

\* SegmentMetadata
Meta(state, path, rows) == [state |-> state, path |-> path, checksum |-> rows]

\* A put to CLOUD_SEGMENTS_TABLE by propose_system.
SaveMeta(t, m) ==
    /\ Commits(Db(t))
    /\ tier' = [tier EXCEPT ![Db(t)][th[t].id] = m]
    /\ UNCHANGED <<seg, zone, table>>

\* recover_tiering reads all metadata.
TierStart(t) ==
    /\ Begins(t, "tier")
    /\ Goes(t, [Idle EXCEPT !.call = "tier", !.pc = "recover", !.meta = tier[Db(t)]])
    /\ UNCHANGED <<start, data, cloud>>

\* The next segment whose upload was interrupted or failed, or the end of
\* recovery.
Unfinished(t) ==
    {i \in Ids : i >= th[t].id /\ th[t].meta[i] # None
                 /\ th[t].meta[i].state \in {"Uploading", "Failed"}}

\* recover_remote_candidate and segment_has_local_payload
RecoverNext(t) ==
    /\ At(t, "recover")
    /\ Unfinished(t) # {}
    /\ LET i == Min(Unfinished(t))
           m == th[t].meta[i]
           value == seg[Db(t)][i]
           self == [th[t] EXCEPT !.id = i, !.record = m, !.next = "recover"]
           there == m.path \in DOMAIN objects /\ objects[m.path] = m.checksum
       IN  Goes(t, IF m.state = "Uploading"
                   THEN IF there THEN [self EXCEPT !.pc = "install", !.ptr = Pointer(m.path, m.checksum)]
                        ELSE [self EXCEPT !.pc = "reconcile"]
                   ELSE IF value # None /\ value.at = "local"
                        THEN [self EXCEPT !.pc = "save", !.record = Meta("Local", None, m.checksum)]
                        ELSE [th[t] EXCEPT !.id = i + 1])
    /\ UNCHANGED <<start, data, cloud, todo>>

\* The list of segments.  max_local_bytes lets those before some id stay.
TierList(t) ==
    /\ At(t, "recover")
    /\ Unfinished(t) = {}
    /\ \E i \in Ids :
          Goes(t, [th[t] EXCEPT !.pc = "tier", !.meta = None, !.snap = seg[Db(t)], !.id = i])
    /\ UNCHANGED <<start, data, cloud, todo>>

LocalSegments(t) ==
    {i \in Used(th[t].snap) : i >= th[t].id /\ th[t].snap[i].at = "local"}

TierEnd(t) ==
    /\ At(t, "tier")
    /\ LocalSegments(t) = {}
    /\ Stops(t)
    /\ UNCHANGED <<start, data, cloud, todo>>

\* tier_segment: the Uploading record.
TierSegment(t) ==
    /\ At(t, "tier")
    /\ LocalSegments(t) # {}
    /\ LET i == Min(LocalSegments(t))
           rows == th[t].snap[i].rows
           m == Meta("Uploading", Path(i, rows), rows)
       IN  /\ Goes(t, [th[t] EXCEPT !.pc = "upload", !.id = i, !.record = m, !.next = "tier",
                                    !.ptr = Pointer(Path(i, rows), rows)])
           /\ Commits(Db(t))
           /\ tier' = [tier EXCEPT ![Db(t)][i] = m]
    /\ UNCHANGED <<start, seg, zone, table, cloud, todo>>

\* An object with these bytes is reused, another one replaced.
Upload(t) ==
    /\ At(t, "upload")
    /\ objects' = [p \in DOMAIN objects \cup {th[t].ptr.path} |->
                     IF p = th[t].ptr.path THEN th[t].ptr.checksum ELSE objects[p]]
    /\ Goes(t, [th[t] EXCEPT !.pc = "install"])
    /\ UNCHANGED <<start, data, installed, interrupted, todo>>

\* The condition of install_tiered_pointer.
StillUploaded(t) == seg[Db(t)][th[t].id] = Local(th[t].ptr.checksum)

Install(t) ==
    /\ At(t, "install")
    /\ IF StillUploaded(t)
       THEN /\ Commits(Db(t))
            /\ seg' = [seg EXCEPT ![Db(t)][th[t].id] = th[t].ptr]
            /\ installed' = installed \cup {<<th[t].id, th[t].ptr>>}
            /\ Goes(t, [th[t] EXCEPT !.pc = "finish"])
       ELSE /\ Goes(t, [th[t] EXCEPT !.pc = "reread"])
            /\ UNCHANGED <<lsn, seg, installed>>
    /\ UNCHANGED <<start, zone, tier, table, objects, interrupted, todo>>

\* A conflict: the same pointer may be there already.
Reread(t) ==
    /\ At(t, "reread")
    /\ Goes(t, [th[t] EXCEPT !.pc = IF seg[Db(t)][th[t].id] = th[t].ptr THEN "finish" ELSE "reconcile"])
    /\ UNCHANGED <<start, data, cloud, todo>>

\* Faulty variant: the location of the upload is kept.
ReconciledAsUploaded(value, m) ==
    IF value = None THEN [m EXCEPT !.state = "Failed"]
    ELSE IF value.at = "remote" THEN [m EXCEPT !.state = "Remote"]
    ELSE Meta("Local", None, m.checksum)

\* The metadata that reconcile_segment_metadata derives from the segment.
Reconciled(value, m) ==
    IF value = None THEN [m EXCEPT !.state = "Failed"]
    ELSE IF value.at = "remote" THEN Meta("Remote", value.path, value.checksum)
    ELSE Meta("Local", None, m.checksum)

Reconcile(t) ==
    /\ At(t, "reconcile")
    /\ Goes(t, [th[t] EXCEPT !.pc = "save", !.record = Reconciled(seg[Db(t)][th[t].id], @)])
    /\ UNCHANGED <<start, data, cloud, todo>>

\* The record of the outcome; the run goes on behind this segment.
Saved(t, m) ==
    /\ SaveMeta(t, m)
    /\ interrupted' = interrupted \ {<<Db(t), th[t].id>>}
    /\ Goes(t, [th[t] EXCEPT !.pc = th[t].next, !.id = @ + 1, !.ptr = None, !.record = None])
    /\ UNCHANGED <<start, objects, installed, todo>>

Finish(t) == At(t, "finish") /\ Saved(t, [th[t].record EXCEPT !.state = "Remote"])
Save(t) == At(t, "save") /\ Saved(t, th[t].record)

-----------------------------------------------------------------------------
\* t is between the Uploading record of its segment and the record of the outcome.
Uploading(t) ==
    th[t].pc \in {"upload", "install", "reread", "reconcile", "finish", "save"}

\* The call fails, or its process dies, between two steps.
Fail(t) ==
    /\ ~Resting(t)
    /\ start.fails
    /\ Stops(t)
    /\ interrupted' = interrupted \cup (IF Uploading(t) THEN {<<Db(t), th[t].id>>} ELSE {})
    /\ UNCHANGED <<start, data, objects, installed, todo>>

TableStep(t) ==
    \/ \E call \in {"insert", "update", "delete"} : WriteStart(t, call)
    \/ ReadSegments(t) \/ WriteEnds(t) \/ WriteBatch(t)
    \/ ScanStart(t) \/ ScanLsn(t) \/ ScanSegments(t) \/ ScanZones(t) \/ ScanCheck(t)
    \/ TierStart(t) \/ RecoverNext(t) \/ TierList(t) \/ TierEnd(t) \/ TierSegment(t)
    \/ Upload(t) \/ Install(t) \/ Reread(t) \/ Reconcile(t) \/ Finish(t) \/ Save(t)
    \/ Fail(t)
=============================================================================
