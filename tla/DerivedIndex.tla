---------------------------- MODULE DerivedIndex ----------------------------
(* A full-text or geo index derived from a document collection (src/text.rs, *)
(* src/geo.rs) of a database with a commit log.  Writes through a           *)
(* collection handle (src/model/mod.rs) keep it in their own batch; raw      *)
(* writes pass it by, and refresh_incremental replays them from the commit   *)
(* log; refresh_full clears and rebuilds it page by page.  Refreshes, writes *)
(* and failures interleave between any two calls to storage.                 *)
(*                                                                           *)
(* Both indexes have one entry for a document (the indexed text, the point   *)
(* row) and keys that lead to it (the postings of its terms, its cell).      *)
(* What differs is how a refresh writes: the full-text index under           *)
(* conditions on all it read, the geo index without.  A page of a rebuild is *)
(* one row; a document without the indexed path counts as none.              *)
EXTENDS Integers, Sequences, FiniteSetsExt

CONSTANTS
    Docs,      \* document ids, 1..n: the order of their keys
    Values,    \* what a document has at the indexed path
    NoDoc,     \* no document, no entry
    Terms,     \* the terms of a value that is a text
    CellOf,    \* the cell of a value that is a point
    Threads,
    Starts,    \* what is explored: the kind of the index, the calls of each
               \* thread, the documents written and a bound on their writes
    PageSize   \* records of a changefeed page

ASSUME DocsAssumption == Docs \subseteq Nat \ {0} /\ IsFiniteSet(Docs)
ASSUME PageSizeAssumption == PageSize \in Nat \ {0}

\* The geo index has one refresher at a time.
ASSUME StartsAssumption ==
    \A s \in Starts :
        /\ s.calls \in [Threads -> Seq({"inc", "full"})]
        /\ s.kind = "text" \/ \A t, u \in Threads : t # u => s.calls[t] = <<>> \/ s.calls[u] = <<>>

VARIABLES
    start,     \* the element of Starts that this behavior explores
    hist,      \* the commits 1..Len(hist): the document written, and its value
    src,       \* DOCUMENT_TABLE
    entry,     \* FULL_TEXT_DOCS_TABLE, GEO_POINTS_TABLE
    keys,      \* FULL_TEXT_POSTINGS_TABLE, GEO_INDEX_TABLE: pairs of a key and a document
    frontier,  \* refreshed_to of the stored state
    th,        \* the call each thread is in
    todo,      \* the calls each thread still makes
    writes,    \* user writes so far
    raw,       \* the LSN of the last raw write of each document
    last,      \* the LSN of the last write of each document
    dirty      \* the LSN of the last batch of each thread whose refresh_full began to
               \* rewrite the index, until one that began later has ended; else 0

vars == <<start, hist, src, entry, keys, frontier, th, todo, writes, raw, last, dirty>>
source == <<src, writes, raw, last>>
index == <<entry, keys, frontier>>

Text == start.kind = "text"

\* The rows that append_index_doc_ops and append_point_ops put.
TextRows(d, value) == Terms[value] \X {d}
GeoRows(d, value) == {<<CellOf[value], d>>}
Rows(d, value) == IF value = NoDoc THEN {}
                  ELSE IF Text THEN TextRows(d, value) ELSE GeoRows(d, value)

current_lsn == Len(hist)
System == [doc |-> 0, value |-> NoDoc]
Commit(record) == hist' = Append(hist, record)

Idle == [call |-> "none", pc |-> "idle", target |-> 0, base |-> 0, next |-> 0, cursor |-> 0,
         changes |-> <<>>, got |-> <<>>, rows |-> {}]

At(t, call, pc) == th[t].call = call /\ th[t].pc = pc
Goes(t, local) == th' = [th EXCEPT ![t] = local]
Stops(t) == Goes(t, Idle)
Reads == UNCHANGED <<start, hist, source, index, dirty>>

-----------------------------------------------------------------------------
(* Writers.                                                                *)

Written(d, lsn, is_raw) ==
    /\ d \in start.docs
    /\ writes < start.max_writes
    /\ writes' = writes + 1
    /\ last' = [last EXCEPT ![d] = lsn]
    /\ raw' = IF is_raw THEN [raw EXCEPT ![d] = lsn] ELSE raw

\* The difference of the old and the new value.
append_document_change_ops(d, old, new) ==
    IF old = new THEN UNCHANGED <<entry, keys>>
    ELSE /\ entry' = [entry EXCEPT ![d] = new]
         /\ keys' = (keys \ Rows(d, old)) \cup Rows(d, new)

\* DocumentCollection::update and delete: the old document is read, and its
\* replacement is committed with the index writes if it is still there.
Update(d, value) ==
    /\ value = NoDoc => src[d] # NoDoc
    /\ Written(d, current_lsn + 1, FALSE)
    /\ Commit([doc |-> d, value |-> value])
    /\ src' = [src EXCEPT ![d] = value]
    /\ append_document_change_ops(d, src[d], value)
    /\ UNCHANGED <<start, frontier, th, todo, dirty>>

\* A raw batch, or a stored procedure, writes the document alone.
RawWrite(d, value) ==
    /\ Written(d, current_lsn + 1, TRUE)
    /\ Commit([doc |-> d, value |-> value])
    /\ src' = [src EXCEPT ![d] = value]
    /\ UNCHANGED <<start, index, th, todo, dirty>>

-----------------------------------------------------------------------------
(* refresh_incremental.                                                    *)

Begins(t, call) ==
    /\ th[t].pc = "idle"
    /\ todo[t] # <<>>
    /\ Head(todo[t]) = call
    /\ todo' = [todo EXCEPT ![t] = Tail(@)]

\* The state, and the LSN to reach.
IncStart(t) ==
    /\ Begins(t, "inc")
    /\ Goes(t, [Idle EXCEPT !.call = "inc", !.pc = "poll", !.base = frontier,
                            !.target = current_lsn])
    /\ Reads

\* Faulty variant: the first value of each document is kept.
FirstOfEach(page) ==
    LET docs == {hist[l].doc : l \in page} \ {0}
    IN  [d \in docs |-> hist[Min({l \in page : hist[l].doc = d})].value]

\* coalesce_document_changes: the last value of each document in a page.
Coalesced(page) ==
    LET docs == {hist[l].doc : l \in page} \ {0}
    IN  [d \in docs |-> hist[Max({l \in page : hist[l].doc = d})].value]

\* The full-text index reads its state again for each page, the geo index goes
\* on from its own.
Base(t) == IF Text THEN frontier ELSE th[t].base

IncPoll(t) ==
    /\ At(t, "inc", "poll")
    /\ LET base == Base(t)
           next == Min({base + PageSize, current_lsn})
       IN  IF base >= th[t].target THEN Stops(t)
           ELSE Goes(t, [th[t] EXCEPT !.pc = "read", !.base = base, !.next = next,
                                      !.changes = Coalesced((base + 1)..next)])
    /\ Reads /\ UNCHANGED todo

\* What reconcile_document_ops and remove_existing_point_ops read.
Snapshot(docs) == [d \in docs |-> [source |-> src[d], entry |-> entry[d]]]

IncRead(t) ==
    /\ At(t, "inc", "read")
    /\ Goes(t, [th[t] EXCEPT !.pc = "commit", !.got = Snapshot(DOMAIN th[t].changes)])
    /\ Reads /\ UNCHANGED todo

\* Faulty variants: one kind of condition is left out.
MetadataUnchanged(t) ==
    Text => frontier = th[t].base /\ th[t].rows \subseteq keys
SourcesUnchanged(t) ==
    Text => th[t].got = Snapshot(DOMAIN th[t].got) /\ th[t].rows \subseteq keys

\* The conditions of a batch of the full-text index: the metadata, and the
\* sources, entries and postings it was made from.
Unchanged(t) ==
    Text => /\ frontier = th[t].base
            /\ th[t].got = Snapshot(DOMAIN th[t].got)
            /\ th[t].rows \subseteq keys

\* The full-text index takes the source it read, the geo index the event.
Reconciled(t, d) == IF Text THEN th[t].got[d].source ELSE th[t].changes[d]

\* The entries that were read are removed, the new ones are put.
Replace(got, new) ==
    /\ entry' = [d \in Docs |-> IF d \in DOMAIN got THEN new[d] ELSE entry[d]]
    /\ keys' = (keys \ UNION {Rows(d, got[d].entry) : d \in DOMAIN got})
                \cup UNION {Rows(d, new[d]) : d \in DOMAIN got}

IncCommit(t) ==
    /\ At(t, "inc", "commit")
    /\ \/ /\ Unchanged(t)
          /\ Replace(th[t].got, [d \in DOMAIN th[t].got |-> Reconciled(t, d)])
          /\ frontier' = th[t].next
          /\ Commit(System)
          /\ Goes(t, [th[t] EXCEPT !.pc = "poll", !.base = th[t].next,
                                   !.changes = <<>>, !.got = <<>>])
       \/ /\ ~Unchanged(t)
          /\ Stops(t)
          /\ UNCHANGED <<hist, index>>
    /\ UNCHANGED <<start, source, todo, dirty>>

-----------------------------------------------------------------------------
(* refresh_full, rebuild_entries.                                          *)

\* The metadata, and the resume token before anything is read.
FullStart(t) ==
    /\ Begins(t, "full")
    /\ Goes(t, [Idle EXCEPT !.call = "full", !.pc = "entries", !.base = frontier,
                            !.target = current_lsn])
    /\ Reads

\* scan_page: the first row after the cursor, or the next table.
NextRow(t, found, batch, then) ==
    LET Rank(row) == row[1] * (Cardinality(Docs) + 1) + row[2]
        rest == {row \in found : Rank(row) > th[t].cursor}
        next == CHOOSE row \in rest : \A other \in rest : Rank(row) <= Rank(other)
    IN  Goes(t, IF rest = {} THEN [th[t] EXCEPT !.pc = then, !.cursor = 0]
                ELSE [th[t] EXCEPT !.pc = batch, !.cursor = Rank(next),
                                   !.got = Snapshot({next[2]}), !.rows = {next} \cap keys])

\* clear_index_entries: the entries, then the keys that are left.
ScanEntries(t) ==
    /\ At(t, "full", "entries")
    /\ NextRow(t, {0} \X {d \in Docs : entry[d] # NoDoc}, "clear_entry", "keys")
    /\ Reads /\ UNCHANGED todo

ScanKeys(t) ==
    /\ At(t, "full", "keys")
    /\ NextRow(t, keys, "clear_key", "sources")
    /\ Reads /\ UNCHANGED todo

\* The documents of the collection.
ScanSources(t) ==
    /\ At(t, "full", "sources")
    /\ NextRow(t, {0} \X {d \in Docs : src[d] # NoDoc}, "rebuild", "state")
    /\ Reads /\ UNCHANGED todo

\* The one document of a page.
Doc(t) == CHOOSE d \in DOMAIN th[t].got : TRUE

\* A batch of the rebuild; the full-text index gives up when it finds a change.
Batch(t, then) ==
    /\ \/ /\ Unchanged(t)
          /\ Commit(System)
          /\ dirty' = [dirty EXCEPT ![t] = current_lsn + 1]
          /\ Goes(t, [th[t] EXCEPT !.pc = then, !.got = <<>>, !.rows = {}])
       \/ /\ ~Unchanged(t)
          /\ Stops(t)
          /\ UNCHANGED <<hist, dirty>>
    /\ UNCHANGED <<start, source, frontier, todo>>

ClearEntry(t) ==
    /\ At(t, "full", "clear_entry")
    /\ Batch(t, "entries")
    /\ entry' = IF Unchanged(t) THEN [entry EXCEPT ![Doc(t)] = NoDoc] ELSE entry
    /\ UNCHANGED keys

ClearKey(t) ==
    /\ At(t, "full", "clear_key")
    /\ Batch(t, "keys")
    /\ keys' = IF Unchanged(t) THEN keys \ th[t].rows ELSE keys
    /\ UNCHANGED entry

\* reconcile_document_ops removes what is there, append_rebuild_ops does not.
Outdated(t, d) == IF Text THEN Rows(d, th[t].got[d].entry) ELSE {}

Rebuild(t) ==
    LET d     == Doc(t)
        value == th[t].got[d].source
    IN  /\ At(t, "full", "rebuild")
        /\ Batch(t, "sources")
        /\ IF Unchanged(t)
           THEN /\ entry' = [entry EXCEPT ![d] = value]
                /\ keys' = (keys \ Outdated(t, d)) \cup Rows(d, value)
           ELSE UNCHANGED <<entry, keys>>

\* The state, with the token of the start.
WriteState(t) ==
    /\ At(t, "full", "state")
    /\ \/ /\ Unchanged(t)
          /\ frontier' = th[t].target
          /\ Commit(System)
          /\ dirty' = [u \in Threads |->
                          IF u = t \/ dirty[u] <= th[t].target THEN 0 ELSE dirty[u]]
       \/ /\ ~Unchanged(t)
          /\ UNCHANGED <<hist, frontier, dirty>>
    /\ Stops(t)
    /\ UNCHANGED <<start, source, entry, keys, todo>>

\* A call to storage fails, or the process stops: the rest of the call is lost.
Fail(t) ==
    /\ th[t].pc # "idle"
    /\ Stops(t)
    /\ Reads /\ UNCHANGED todo

-----------------------------------------------------------------------------
Init ==
    /\ start \in Starts
    /\ hist = <<>>
    /\ src = [d \in Docs |-> NoDoc]
    /\ entry = [d \in Docs |-> NoDoc]
    /\ keys = {}
    /\ frontier = 0
    /\ th = [t \in Threads |-> Idle]
    /\ todo = start.calls
    /\ writes = 0
    /\ raw = [d \in Docs |-> 0]
    /\ last = [d \in Docs |-> 0]
    /\ dirty = [t \in Threads |-> 0]

Step(t) ==
    \/ IncStart(t) \/ IncPoll(t) \/ IncRead(t) \/ IncCommit(t)
    \/ FullStart(t) \/ ScanEntries(t) \/ ScanKeys(t) \/ ScanSources(t)
    \/ ClearEntry(t) \/ ClearKey(t) \/ Rebuild(t) \/ WriteState(t)
    \/ Fail(t)

Next ==
    \/ \E d \in Docs, value \in Values \cup {NoDoc} : Update(d, value) \/ RawWrite(d, value)
    \/ \E t \in Threads : Step(t)

Spec == Init /\ [][Next]_vars

-----------------------------------------------------------------------------
\* A search finds the document under what it holds now, and an old value is not
\* taken for it.
Exact(d) ==
    /\ entry[d] = src[d]
    /\ Rows(d, src[d]) \subseteq keys

\* No rebuild is under way or was given up since the last one that ended.
Settled == \A t \in Threads : dirty[t] = 0

\* The full-text index holds every document as it is, unless a raw write of it
\* is still to be replayed or a rebuild is under way or was given up: whatever
\* refreshes, rebuilds, failures and writers of collection handles do meanwhile.
TextIsExact ==
    Text /\ Settled => \A d \in Docs : raw[d] <= frontier => Exact(d)

\* The geo index of one refresher at a time agrees on every document that was
\* last written at or before the frontier: what the frontier has passed is never
\* left stale, so replaying from it repairs the index.
GeoFollows ==
    ~Text /\ Settled => \A d \in Docs : last[d] <= frontier => Exact(d)

\* What the documentation of refresh_full says of the geo index: writes through
\* collection handles already maintain it, only raw writes need a refresh.
GeoIsExact ==
    ~Text /\ Settled => \A d \in Docs : raw[d] <= frontier => Exact(d)

\* The stored frontier never moves back, so the collector of history, which
\* keeps what lies after it, never took what a refresh still has to replay.
FrontierAdvances == [][frontier' >= frontier]_vars
=============================================================================
