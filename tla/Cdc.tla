-------------------------------- MODULE Cdc --------------------------------
(* The consumers of the commit log of a database with a commit log         *)
(* (SingleNode or CP): changefeeds, subscriptions, continuous queries,     *)
(* materialized views and after-commit hooks (src/cdc.rs,                  *)
(* src/continuous.rs), next to history GC truncating the log and to        *)
(* backups and restores of the database (src/backup.rs).                   *)
(*                                                                         *)
(* Every read and every proposal goes to storage on its own, so a call is  *)
(* as many steps as it has reads whose order matters.  A thread runs one   *)
(* kind of call; several threads interleave.  All cursors and view states  *)
(* are rows of system tables: writing one is a commit of its own.          *)
EXTENDS ViewState, Sequences

CONSTANTS
    Specs,       \* view specs
    Filters,     \* subscription filters: the keys they let through
    Principals,  \* owners of subscriptions
    Root,        \* the owner of a trusted subscription
    Threads,
    Starts,      \* what is explored: the history and timeline of the database, the
                 \* call that each thread makes, the users' write sets (functions
                 \* from some keys to rows), bounds on commits, backups, restores
    PageSize,    \* records of one page
    Retains,     \* commit_log_retain_lsns of the GC runs
    None         \* no such row, nothing read

VARIABLES
    hist,      \* the commits 1..current_lsn, as they were written
    floor,     \* COMMIT_LOG_FLOOR_KEY: the log holds floor..Len(hist)
    timeline,  \* timeline_id
    db,        \* the tables
    start,     \* the element of Starts that this behavior explores
    th,        \* where each thread is
    client,    \* a caller that polls the changefeed and keeps its token
    backups,   \* the backups taken
    restores,  \* restores so far
    sent,      \* events pushed: <<created_at of the subscription, LSN>>
    overtaken, \* a subscription was replaced while a push was under way
    owed       \* commits whose writer read an after-commit hook on their keys

vars == <<hist, floor, timeline, db, start, th, client, backups, restores,
          sent, overtaken, owed>>
feeds == <<client, sent, overtaken>>
recovery == <<timeline, backups, restores>>

-----------------------------------------------------------------------------
(* The database.                                                           *)

current_lsn == Len(hist)
Token(tl, lsn) == [timeline_id |-> tl, lsn |-> lsn]

\* ResumeToken::default
DefaultToken == Token("default", 0)

\* The tables after a commit: rows are merged, a metadata row is replaced.
ApplyCommit(tables, w) ==
    [t \in DOMAIN tables |->
        IF t \notin DOMAIN w THEN tables[t]
        ELSE IF t = "rows"
        THEN [k \in Keys |-> IF k \in DOMAIN w.rows THEN w.rows[k] ELSE tables.rows[k]]
        ELSE w[t]]

\* A commit; its record holds its writes, and no two databases commit the same
\* record at an LSN (committed_at and hlc differ).
Commit(w) ==
    /\ current_lsn < start.max_lsn
    /\ hist' = Append(hist, [branch |-> restores, writes |-> w])
    /\ db' = ApplyCommit(db, w)

NoCommit == UNCHANGED <<hist, db>>
OnlyReads == NoCommit /\ UNCHANGED <<floor, start, recovery, feeds, owed>>

\* The rows a commit wrote; none for a system write.
RowsOf(lsn) == IF "rows" \in DOMAIN hist[lsn].writes THEN hist[lsn].writes.rows ELSE <<>>

\* filter_matches, hook_matches_parts: the commits that wrote one of the keys.
Matching(keys, lsns) == {l \in lsns : DOMAIN RowsOf(l) \cap keys # {}}

NoTables == [rows |-> [k \in Keys |-> NoRow], sub |-> None, query |-> None,
             view |-> [spec |-> None, state |-> None], fork |-> None, hook |-> None,
             deliveries |-> {}, failures |-> {}]

\* The commits of a history that wrote table t, and those that wrote the row of k.
Wrote(h, t) == {i \in 1..Len(h) : t \in DOMAIN h[i].writes}
WroteRow(h, k) == {i \in Wrote(h, "rows") : k \in DOMAIN h[i].writes.rows}

\* The tables as of a history: the newest version of everything.
TablesOf(h) ==
    [t \in DOMAIN NoTables |->
        IF t = "rows"
        THEN [k \in Keys |-> IF WroteRow(h, k) = {} THEN NoRow
                             ELSE h[Max(WroteRow(h, k))].writes.rows[k]]
        ELSE IF Wrote(h, t) = {} THEN NoTables[t] ELSE h[Max(Wrote(h, t))].writes[t]]

Idle == [pc |-> "idle", who |-> None, tok |-> DefaultToken, through |-> 0, page |-> <<1, 0>>,
         more |-> FALSE, snap |-> None, state |-> None]

Timelines == {"default", "persisted"}
Tokens == [timeline_id : Timelines, lsn : Nat]

\* What the commit with LSN l may write: cursors, offsets and views are behind it.
Recorded(w, l) ==
    /\ DOMAIN w \subseteq DOMAIN NoTables
    /\ "sub" \in DOMAIN w =>
          /\ DOMAIN w.sub = {"owner", "filter", "last_ack", "since", "created_at"}
          /\ w.sub.last_ack \in Tokens /\ w.sub.last_ack.lsn < l
          /\ w.sub.since \in Tokens /\ w.sub.created_at \in 1..l
    /\ "query" \in DOMAIN w =>
          /\ DOMAIN w.query = {"last_ack", "created_at"}
          /\ w.query.last_ack \in Tokens /\ w.query.created_at \in 1..l
    /\ "view" \in DOMAIN w =>
          w.view.spec \in Specs /\ w.view.state.fresh_to_lsn \in 0..(l - 1)

ASSUME PageAssumption == PageSize \in Nat \ {0}
ASSUME RetainsAssumption == Retains \subseteq Nat
ASSUME NoneAssumption == None \notin Specs

\* The database starts with commits of its own, no cursor has moved since its
\* subscription was written, and one caller polls the changefeed.
ASSUME StartsAssumption ==
    \A s \in Starts :
        /\ s.timeline \in Timelines /\ s.max_lsn \in Nat
        /\ s.hist \in Seq({s.hist[l] : l \in DOMAIN s.hist})
        /\ \A l \in DOMAIN s.hist :
              /\ s.hist[l].branch = 0 /\ Recorded(s.hist[l].writes, l)
              /\ "sub" \in DOMAIN s.hist[l].writes =>
                    s.hist[l].writes.sub.since = s.hist[l].writes.sub.last_ack
        /\ \A t, u \in Threads : s.call[t] = "feed" /\ s.call[u] = "feed" => t = u

Runs(t, call, pc) == start.call[t] = call /\ th[t].pc = pc
Goes(t, local) == th' = [th EXCEPT ![t] = local]
Stops(t) == Goes(t, Idle)

-----------------------------------------------------------------------------
(* One page of the changefeed, poll_changefeed_page_through.               *)

\* map_resume_token_to_current_timeline accepts the token.
Resumes(token) ==
    \/ token.timeline_id = timeline
    \/ /\ db.fork # None
       /\ db.fork.timeline_id = timeline
       /\ db.fork.parent = token.timeline_id
       /\ token.lsn <= db.fork.fork_lsn

\* Timeline, mapping and the first look at the retained floor.
PollStart(t) ==
    /\ th[t].pc = "poll"
    /\ Goes(t, IF Resumes(th[t].tok) /\ th[t].tok.lsn + 1 >= floor
               THEN [th[t] EXCEPT !.pc = "page", !.tok.timeline_id = timeline] ELSE Idle)
    /\ OnlyReads

\* current_lsn, then commit_records_after.  Records that were truncated are
\* skipped; what is left of the log is contiguous, so the page is an interval.
PollPage(t) ==
    /\ th[t].pc = "page"
    /\ LET current == Min({current_lsn, th[t].through})
           first   == Max({th[t].tok.lsn + 1, floor})
           last    == Min({current, first + PageSize - 1})
       IN  Goes(t, [th[t] EXCEPT !.pc = "paged", !.through = current,
                                 !.page = <<first, last>>, !.more = current > last])
    /\ OnlyReads

Empty(page) == page[1] > page[2]

\* Faulty variant.
PageAsRead(t) == TRUE

\* ensure_no_truncated_prefix
PageIntact(t) ==
    \/ th[t].tok.lsn >= th[t].through
    \/ ~Empty(th[t].page) /\ th[t].page[1] = th[t].tok.lsn + 1
    \/ th[t].tok.lsn + 1 >= floor

\* The token of the next page.
NextToken(t) ==
    IF Empty(th[t].page) THEN th[t].tok ELSE Token(th[t].tok.timeline_id, th[t].page[2])

\* poll_changefeed_page for a caller that keeps the token itself.
FeedPoll(t) ==
    /\ Runs(t, "feed", "idle")
    /\ Goes(t, [Idle EXCEPT !.pc = "poll", !.tok = client.tok, !.through = start.max_lsn])
    /\ OnlyReads

\* The caller takes the events of the page and the next token.
FeedTake(t) ==
    /\ Runs(t, "feed", "paged")
    /\ client' = IF ~PageIntact(t) THEN client
                 ELSE [tok  |-> NextToken(t),
                       seen |-> client.seen \o SubSeq(hist, th[t].page[1], th[t].page[2])]
    /\ Stops(t)
    /\ NoCommit
    /\ UNCHANGED <<floor, start, recovery, sent, overtaken, owed>>

-----------------------------------------------------------------------------
(* Subscriptions.                                                          *)

\* push_subscription_once, push_subscription_once_as and one turn of the
\* subscription workers read the state; the pusher acts for its owner.
PushRead(t) ==
    /\ Runs(t, "push", "idle")
    /\ db.sub # None
    /\ Goes(t, [Idle EXCEPT !.pc = "poll", !.who = db.sub.owner, !.tok = db.sub.last_ack,
                            !.through = start.max_lsn, !.snap = db.sub])
    /\ OnlyReads

\* The events of the page that the filter of the subscription lets through.
Events(t) == Matching(th[t].snap.filter, th[t].page[1]..th[t].page[2])

\* Faulty variant.
PushAll(t) ==
    /\ Runs(t, "push", "paged")
    /\ \E events \in SUBSET Events(t) :
          /\ sent' = sent \cup {<<th[t].snap.created_at, l>> : l \in events}
          /\ Goes(t, IF PageIntact(t)
                     THEN [th[t] EXCEPT !.pc = "acks", !.tok = NextToken(t),
                                        !.page = <<1, 0>>, !.more = FALSE]
                     ELSE Idle)
    /\ NoCommit
    /\ UNCHANGED <<floor, start, recovery, client, overtaken, owed>>

\* The events are sent in order; a full or closed channel, or a shutdown, ends
\* the push before the acknowledgement.
PushSend(t) ==
    /\ Runs(t, "push", "paged")
    /\ \/ /\ PageIntact(t)
          /\ sent' = sent \cup {<<th[t].snap.created_at, l>> : l \in Events(t)}
          /\ Goes(t, [th[t] EXCEPT !.pc = "acks", !.tok = NextToken(t),
                                   !.page = <<1, 0>>, !.more = FALSE])
       \/ /\ PageIntact(t)
          /\ \E l \in Events(t) :
                sent' = sent \cup {<<th[t].snap.created_at, e>> : e \in {e \in Events(t) : e < l}}
          /\ Stops(t)
       \/ /\ ~PageIntact(t)
          /\ sent' = sent
          /\ Stops(t)
    /\ NoCommit
    /\ UNCHANGED <<floor, start, recovery, client, overtaken, owed>>

\* validate_ack_advance
Advances(previous, token) ==
    ~(previous.timeline_id = token.timeline_id /\ token.lsn < previous.lsn)

\* ack_subscription, ack_subscription_as: a new snapshot of the state, checked;
\* the trusted push asks for no owner.
AckRead(t) ==
    /\ Runs(t, "push", "acks")
    /\ Goes(t, IF /\ db.sub # None
                  /\ th[t].who \in {Root, db.sub.owner}
                  /\ Advances(db.sub.last_ack, th[t].tok)
                  /\ db.sub.last_ack # th[t].tok
               THEN [th[t] EXCEPT !.pc = "ack", !.snap = db.sub] ELSE Idle)
    /\ OnlyReads

\* Faulty variants.
SameOwner(snap) == db.sub # None /\ db.sub.owner = snap.owner
SameCursor(snap) == db.sub # None /\ db.sub.last_ack = snap.last_ack

\* write_subscription_if_unchanged: its condition.
SubUnchanged(snap) == db.sub = snap

\* ack_subscription_snapshot
AckWrite(t) ==
    /\ Runs(t, "push", "ack")
    /\ \/ SubUnchanged(th[t].snap) /\ Commit([sub |-> [th[t].snap EXCEPT !.last_ack = th[t].tok]])
       \/ ~SubUnchanged(th[t].snap) /\ NoCommit
    /\ Stops(t)
    /\ UNCHANGED <<floor, start, recovery, feeds, owed>>

\* create_subscription for a principal, create_subscription_trusted for Root.
CreateSubRead(t) ==
    /\ Runs(t, "create_sub", "idle")
    /\ \E who \in Principals \cup {Root}, lsn \in {0, current_lsn} :
          /\ \/ who = Root
             \/ db.sub = None
             \/ db.sub.owner = who
          /\ Goes(t, [Idle EXCEPT !.pc = "write", !.who = who, !.tok = Token(timeline, lsn),
                                  !.snap = db.sub])
    /\ OnlyReads

Pushing == \E t \in Threads : start.call[t] = "push" /\ th[t].pc # "idle"

CreateSubWrite(t) ==
    /\ Runs(t, "create_sub", "write")
    /\ \/ /\ db.sub = th[t].snap
          /\ \E filter \in Filters :
                Commit([sub |-> [owner |-> th[t].who, filter |-> filter, last_ack |-> th[t].tok,
                                 since |-> th[t].tok, created_at |-> current_lsn + 1]])
          /\ overtaken' = (overtaken \/ Pushing)
       \/ db.sub # th[t].snap /\ NoCommit /\ UNCHANGED overtaken
    /\ Stops(t)
    /\ UNCHANGED <<floor, start, recovery, client, sent, owed>>

\* adopt_subscription_as: the operator binds the subscription to an owner.
AdoptRead(t) ==
    /\ Runs(t, "adopt", "idle")
    /\ db.sub # None
    /\ \E owner \in Principals : Goes(t, [Idle EXCEPT !.pc = "write", !.who = owner, !.snap = db.sub])
    /\ OnlyReads

AdoptWrite(t) ==
    /\ Runs(t, "adopt", "write")
    /\ \/ db.sub = th[t].snap /\ Commit([sub |-> [th[t].snap EXCEPT !.owner = th[t].who]])
       \/ db.sub # th[t].snap /\ NoCommit
    /\ Stops(t)
    /\ UNCHANGED <<floor, start, recovery, feeds, owed>>

-----------------------------------------------------------------------------
(* Continuous queries: an offset of the query next to the cursor of its    *)
(* subscription.                                                           *)

\* create_continuous_query_as reads the state of the query, ...
ApplyQueryRead(t) ==
    /\ Runs(t, "apply_query", "idle")
    /\ \E who \in Principals : Goes(t, [Idle EXCEPT !.pc = "sub", !.who = who, !.state = db.query])
    /\ OnlyReads

\* ... that of its subscription, whose owner it must be, ...
ApplyQuerySub(t) ==
    /\ Runs(t, "apply_query", "sub")
    /\ Goes(t, IF db.sub = None \/ db.sub.owner = th[t].who
               THEN [th[t] EXCEPT !.pc = "write", !.snap = db.sub] ELSE Idle)
    /\ OnlyReads

BothUnchanged(t) == db.query = th[t].state /\ db.sub = th[t].snap

\* Reapplying keeps both acknowledged positions and both creation times.  (since
\* is no field of the row: the cursor when the filter was last written.)
Reapplied(t, filter) ==
    [query |-> IF th[t].state = None
               THEN [last_ack |-> DefaultToken, created_at |-> current_lsn + 1]
               ELSE th[t].state,
     sub   |-> IF th[t].snap = None
               THEN [owner |-> th[t].who, filter |-> filter, last_ack |-> DefaultToken,
                     since |-> DefaultToken, created_at |-> current_lsn + 1]
               ELSE [th[t].snap EXCEPT !.filter = filter, !.since = th[t].snap.last_ack]]

\* ... and writes both if neither changed.
ApplyQueryWrite(t) ==
    /\ Runs(t, "apply_query", "write")
    /\ \/ /\ BothUnchanged(t)
          /\ \E filter \in Filters : Commit(Reapplied(t, filter))
          /\ overtaken' = (overtaken \/ Pushing)
       \/ ~BothUnchanged(t) /\ NoCommit /\ UNCHANGED overtaken
    /\ Stops(t)
    /\ UNCHANGED <<floor, start, recovery, client, sent, owed>>

\* create_continuous_query, without a principal: the offset starts over.
CreateQuery(t) ==
    /\ Runs(t, "apply_query", "idle")
    /\ Commit([query |-> [last_ack |-> DefaultToken, created_at |-> current_lsn + 1]])
    /\ UNCHANGED <<floor, start, th, recovery, feeds, owed>>

\* ack_query_and_subscription: the query, ...
AckQueryRead(t) ==
    /\ Runs(t, "ack_query", "idle")
    /\ db.query # None
    /\ \E who \in Principals \cup {Root}, lsn \in 0..current_lsn :
          Goes(t, [Idle EXCEPT !.pc = "sub", !.who = who, !.tok = Token(timeline, lsn),
                               !.state = db.query])
    /\ OnlyReads

\* ... its subscription, whose owner is checked for a principal, ...
AckQuerySub(t) ==
    /\ Runs(t, "ack_query", "sub")
    /\ Goes(t, IF /\ db.sub # None
                  /\ th[t].who \in {Root, db.sub.owner}
                  /\ Advances(th[t].state.last_ack, th[t].tok)
                  /\ Advances(db.sub.last_ack, th[t].tok)
                  /\ {th[t].state.last_ack, db.sub.last_ack} # {th[t].tok}
               THEN [th[t] EXCEPT !.pc = "ack", !.snap = db.sub] ELSE Idle)
    /\ OnlyReads

\* ... and both cursors in one conditional commit.  The caller answers for
\* having handled what it acknowledges.
AckQueryWrite(t) ==
    /\ Runs(t, "ack_query", "ack")
    /\ \/ /\ BothUnchanged(t)
          /\ Commit([query |-> [th[t].state EXCEPT !.last_ack = th[t].tok],
                     sub   |-> [th[t].snap EXCEPT !.last_ack = th[t].tok]])
          /\ sent' = sent \cup {<<th[t].snap.created_at, l>> : l \in 1..th[t].tok.lsn}
       \/ ~BothUnchanged(t) /\ NoCommit /\ UNCHANGED sent
    /\ Stops(t)
    /\ UNCHANGED <<floor, start, recovery, client, overtaken, owed>>

\* ack_continuous_query: the offset of the query only.  It is read and written
\* back under a condition on it.
AckQueryOnly(t) ==
    /\ Runs(t, "ack_query", "idle")
    /\ db.query # None
    /\ \E lsn \in 0..current_lsn :
          /\ Advances(db.query.last_ack, Token(timeline, lsn))
          /\ db.query.last_ack # Token(timeline, lsn)
          /\ Commit([query |-> [db.query EXCEPT !.last_ack = Token(timeline, lsn)]])
    /\ UNCHANGED <<floor, start, th, recovery, feeds, owed>>

-----------------------------------------------------------------------------
(* Materialized views.                                                     *)

HasView == db.view.spec # None

\* create_materialized_view reads the spec and then the state it may replace.
CreateViewSpec(t) ==
    /\ Runs(t, "create_view", "idle")
    /\ \E spec \in Specs :
          Goes(t, [Idle EXCEPT !.pc = "state", !.who = spec, !.snap = <<db.view.spec>>])
    /\ OnlyReads

\* The earliest LSN: from LSN 0 when the whole log is there, else the token of
\* now, taken before the scan.
CreateViewStart(t) ==
    /\ Runs(t, "create_view", "state")
    /\ Goes(t, [th[t] EXCEPT !.pc = IF floor > 1 THEN "seed" ELSE "apply",
                             !.snap = Append(@, db.view.state),
                             !.tok = Token(timeline, IF floor > 1 THEN current_lsn ELSE 0),
                             !.state = EmptyState])
    /\ OnlyReads

CreateViewSeed(t) ==
    /\ Runs(t, "create_view", "seed")
    /\ Goes(t, [th[t] EXCEPT !.pc = "apply",
                             !.state = seed_view_from_source_rows(th[t].who, db.rows)])
    /\ OnlyReads

\* refresh_materialized_view: the spec, then the state, decoded with that spec.
RefreshSpec(t) ==
    /\ Runs(t, "refresh", "idle")
    /\ HasView
    /\ Goes(t, [Idle EXCEPT !.pc = "state", !.who = db.view.spec, !.snap = <<db.view.spec>>])
    /\ OnlyReads

RefreshState(t) ==
    /\ Runs(t, "refresh", "state")
    /\ Goes(t, [th[t] EXCEPT !.pc = "apply", !.snap = Append(@, db.view.state),
                  !.tok = Token(timeline, db.view.state.fresh_to_lsn),
                  !.state = upgrade_legacy_view_counts(th[t].who,
                     [source_rows |-> db.view.state.source_rows, groups |-> db.view.state.groups])])
    /\ OnlyReads

\* Faulty variant.
TokenAfterScan(t) ==
    /\ th[t].pc = "apply"
    /\ Goes(t, [th[t] EXCEPT !.pc = "poll", !.through = current_lsn,
                             !.tok.lsn = IF start.call[t] = "create_view" /\ @ > 0
                                        THEN current_lsn ELSE @])
    /\ OnlyReads

\* apply_view_changefeed fixes how far it goes.
ApplyThrough(t) ==
    /\ th[t].pc = "apply"
    /\ Goes(t, [th[t] EXCEPT !.pc = "poll", !.through = current_lsn])
    /\ OnlyReads

\* The events of the page, applied one commit after the other.
ApplyPage(t) ==
    LET first == th[t].page[1]
        applied[l \in (first - 1)..th[t].page[2]] ==
            IF l < first THEN th[t].state ELSE ApplyRows(th[t].who, applied[l - 1], RowsOf(l))
    IN  applied[th[t].page[2]]

ViewTake(t) ==
    /\ start.call[t] \in {"create_view", "refresh"}
    /\ th[t].pc = "paged"
    /\ Goes(t, IF ~PageIntact(t) THEN Idle
               ELSE [th[t] EXCEPT !.pc = IF th[t].more THEN "poll" ELSE "write",
                                  !.state = IF Empty(th[t].page) THEN @ ELSE ApplyPage(t),
                                  !.tok = NextToken(t), !.page = <<1, 0>>, !.more = FALSE])
    /\ OnlyReads

\* Faulty variant.
SameSpec(snap) == snap[1] = db.view.spec

\* The conditions of write_view.
ViewUnchanged(snap) == snap = <<db.view.spec, db.view.state>>

WriteView(t) ==
    /\ start.call[t] \in {"create_view", "refresh"}
    /\ th[t].pc = "write"
    /\ \/ /\ ViewUnchanged(th[t].snap)
          /\ Commit([view |-> [spec  |-> th[t].who,
                               state |-> [fresh_to_lsn |-> th[t].tok.lsn,
                                          source_rows  |-> th[t].state.source_rows,
                                          groups       |-> th[t].state.groups]]])
       \/ ~ViewUnchanged(th[t].snap) /\ NoCommit
    /\ Stops(t)
    /\ UNCHANGED <<floor, start, recovery, feeds, owed>>

-----------------------------------------------------------------------------
(* Writes and after-commit hooks: WritePipeline::execute, after_commit.    *)

\* register_hook with the keys of its target, unregister_hook.
SetHook(t) ==
    /\ Runs(t, "hook", "idle")
    /\ \E target \in Filters : Commit([hook |-> IF db.hook = None THEN target ELSE None])
    /\ UNCHANGED <<floor, start, th, recovery, feeds, owed>>

\* Without an after-commit hook the pipeline only reads before and after its
\* commit.
Put(t) ==
    /\ Runs(t, "put", "idle")
    /\ db.hook = None
    /\ \E w \in start.writes : Commit([rows |-> w])
    /\ UNCHANGED <<floor, start, th, recovery, feeds, owed>>

\* The LSN before the commit.
WriteBegin(t) ==
    /\ Runs(t, "write", "idle")
    /\ Goes(t, [Idle EXCEPT !.pc = "commit", !.tok.lsn = current_lsn])
    /\ OnlyReads

\* Faulty variant.
WriteThenBegin(t) ==
    /\ Runs(t, "write", "commit")
    /\ \E w \in start.writes : Commit([rows |-> w])
    /\ Goes(t, [th[t] EXCEPT !.pc = "after", !.tok.lsn = current_lsn + 1, !.snap = current_lsn + 1])
    /\ UNCHANGED <<floor, start, recovery, feeds, owed>>

\* The commit; the writer does not learn its LSN (snap keeps it for owed).
WriteCommit(t) ==
    /\ Runs(t, "write", "commit")
    /\ \E w \in start.writes : Commit([rows |-> w])
    /\ Goes(t, [th[t] EXCEPT !.pc = "after", !.snap = current_lsn + 1])
    /\ UNCHANGED <<floor, start, recovery, feeds, owed>>

\* The LSN after the commit, then read_hooks and ensure_commit_log_retained.
\* When the LSN cannot be read, the missed delivery is recorded from the start.
WriteAfter(t) ==
    /\ Runs(t, "write", "after")
    /\ IF db.hook = None THEN Stops(t) /\ owed' = owed
       ELSE /\ owed' = owed \cup Matching(db.hook, {th[t].snap})
            /\ \/ Goes(t, [th[t] EXCEPT !.pc = IF th[t].tok.lsn + 1 < floor THEN "fail" ELSE "log",
                                        !.through = current_lsn, !.state = db.hook])
               \/ Goes(t, [th[t] EXCEPT !.pc = "fail", !.through = th[t].tok.lsn])
    /\ NoCommit
    /\ UNCHANGED <<floor, start, recovery, feeds>>

\* commit_records_between: every record of (start, end], or an error.
HookRecords(t) ==
    /\ Runs(t, "write", "log")
    /\ Goes(t, [th[t] EXCEPT !.pc = IF th[t].tok.lsn + 1 < floor THEN "fail" ELSE "deliver"])
    /\ OnlyReads

\* deliver_after_hooks: one row per hook and commit in one system batch, which
\* the backend may refuse.
HookDeliver(t) ==
    /\ Runs(t, "write", "deliver")
    /\ LET lsns == Matching(th[t].state, (th[t].tok.lsn + 1)..th[t].through)
       IN  \/ lsns = {} /\ NoCommit /\ Stops(t)
           \/ /\ lsns # {}
              /\ Commit([deliveries |-> db.deliveries \cup lsns])
              /\ Stops(t)
           \/ NoCommit /\ Goes(t, [th[t] EXCEPT !.pc = "fail"])
    /\ UNCHANGED <<floor, start, recovery, feeds, owed>>

\* record_post_commit_failures, best effort: a refused write is only counted.
HookFail(t) ==
    /\ Runs(t, "write", "fail")
    /\ \/ /\ Commit([failures |-> db.failures \cup {<<th[t].tok.lsn, th[t].through>>}])
          /\ owed' = owed
       \/ NoCommit /\ owed' = owed \ {th[t].snap}
    /\ Stops(t)
    /\ UNCHANGED <<floor, start, recovery, feeds>>

-----------------------------------------------------------------------------
(* History GC of the commit log, and crashes.                              *)

\* commit_log_floor_target; the rows of subscriptions, queries and views bound
\* it.  The MVCC watermark is at most the current LSN.
GcPlan(t) ==
    /\ Runs(t, "gc", "idle")
    /\ \E retain \in Retains :
          Goes(t, [Idle EXCEPT !.pc = "truncate", !.through =
             Min({Max({1, current_lsn + 1 - retain}), current_lsn}
                 \cup {r.last_ack.lsn + 1 : r \in {db.sub, db.query} \ {None}}
                 \cup IF HasView THEN {db.view.state.fresh_to_lsn + 1} ELSE {})])
    /\ OnlyReads

\* truncate_commit_log_batch, under the commit lock; the run may end early.
GcTruncate(t) ==
    /\ Runs(t, "gc", "truncate")
    /\ \/ \E end \in (floor + 1)..th[t].through : floor' = end /\ th' = th
       \/ floor' = floor /\ Stops(t)
    /\ NoCommit
    /\ UNCHANGED <<start, recovery, feeds, owed>>

\* The process stops: every call is lost, what was committed stays.
Crash ==
    /\ \E t \in Threads : th[t] # Idle
    /\ th' = [t \in Threads |-> Idle]
    /\ owed' = owed \ {th[t].snap : t \in {u \in Threads : start.call[u] = "write"}}
    /\ NoCommit
    /\ UNCHANGED <<floor, start, recovery, feeds>>

-----------------------------------------------------------------------------
(* Backups and restores.  An image is what restoring the chain of a backup *)
(* to its end gives; a full backup is one read snapshot of every table.    *)

\* full_backup; the first one of a database gives it a timeline.
FullBackup(t) ==
    /\ Runs(t, "backup", "idle")
    /\ Cardinality(backups) < start.max_backups
    /\ timeline' = IF timeline = "default" THEN "persisted" ELSE timeline
    /\ backups' = backups \cup
          {[timeline_id |-> timeline', full_end |-> current_lsn, image |-> hist,
            floor |-> floor, source |-> hist]}
    /\ NoCommit
    /\ UNCHANGED <<floor, start, th, restores, feeds, owed>>

\* Faulty variant.
SameTimeline(parent) ==
    /\ timeline = parent.timeline_id
    /\ current_lsn >= Len(parent.image)
    /\ Len(parent.image) = current_lsn \/ Len(parent.image) + 1 >= floor

\* The checks of incremental_backup: the timeline, the LSN, the retained log
\* and the commit hash at the end of the parent.
Follows(parent) ==
    LET end == Len(parent.image)
    IN  /\ timeline = parent.timeline_id
        /\ current_lsn >= end
        /\ end = current_lsn \/ end + 1 >= floor
        /\ end > 0 => end >= floor /\ hist[end] = parent.image[end]

\* incremental_backup: the records after the end of the parent.
IncrementalBackup(t) ==
    /\ Runs(t, "backup", "idle")
    /\ Cardinality(backups) < start.max_backups
    /\ \E parent \in backups :
          /\ Follows(parent)
          /\ backups' = backups \cup
                {[parent EXCEPT !.image = @ \o SubSeq(hist, Len(@) + 1, current_lsn),
                                !.source = hist]}
    /\ NoCommit
    /\ UNCHANGED <<floor, start, th, timeline, restores, feeds, owed>>

\* restore_backup_with_config into a new database that takes over: the target is
\* any LSN from the end of the full backup to the end of the chain.  The
\* timeline of the chain is written back.
Restore(t) ==
    /\ Runs(t, "restore", "idle")
    /\ restores < start.max_restores
    /\ \E b \in backups : \E target \in b.full_end..Len(b.image) :
          /\ hist' = SubSeq(b.image, 1, target)
          /\ db' = TablesOf(hist')
          /\ floor' = b.floor
          /\ timeline' = b.timeline_id
    /\ restores' = restores + 1
    /\ th' = [u \in Threads |-> Idle]
    /\ owed' = {}
    /\ UNCHANGED <<start, backups, feeds>>

\* record_timeline_fork, which the embedding program calls after the timeline
\* changed: tokens of the default timeline up to now are tokens of this one.
RecordFork(t) ==
    /\ Runs(t, "backup", "idle")
    /\ timeline # start.timeline
    /\ restores = 0
    /\ db.fork = None
    /\ Commit([fork |-> [timeline_id |-> timeline, parent |-> start.timeline, fork_lsn |-> current_lsn]])
    /\ UNCHANGED <<floor, start, th, recovery, feeds, owed>>

-----------------------------------------------------------------------------
Init ==
    /\ start \in Starts
    /\ hist = start.hist
    /\ floor = 1
    /\ timeline = start.timeline
    /\ db = TablesOf(hist)
    /\ th = [t \in Threads |-> Idle]
    /\ client = [tok |-> Token(timeline, 0), seen |-> <<>>]
    /\ backups = {}
    /\ restores = 0
    /\ sent = {}
    /\ overtaken = FALSE
    /\ owed = {}

Step(t) ==
    \/ PollStart(t) \/ PollPage(t) \/ FeedPoll(t) \/ FeedTake(t)
    \/ PushRead(t) \/ PushSend(t) \/ AckRead(t) \/ AckWrite(t)
    \/ CreateSubRead(t) \/ CreateSubWrite(t) \/ AdoptRead(t) \/ AdoptWrite(t)
    \/ ApplyQueryRead(t) \/ ApplyQuerySub(t) \/ ApplyQueryWrite(t) \/ CreateQuery(t)
    \/ AckQueryRead(t) \/ AckQuerySub(t) \/ AckQueryWrite(t) \/ AckQueryOnly(t)
    \/ CreateViewSpec(t) \/ CreateViewStart(t) \/ CreateViewSeed(t)
    \/ RefreshSpec(t) \/ RefreshState(t) \/ ApplyThrough(t) \/ ViewTake(t) \/ WriteView(t)
    \/ SetHook(t) \/ Put(t) \/ WriteBegin(t) \/ WriteCommit(t) \/ WriteAfter(t)
    \/ HookRecords(t) \/ HookDeliver(t) \/ HookFail(t)
    \/ GcPlan(t) \/ GcTruncate(t)
    \/ FullBackup(t) \/ IncrementalBackup(t) \/ Restore(t) \/ RecordFork(t)

Next == Crash \/ \E t \in Threads : Step(t)

Spec == Init /\ [][Next]_vars

-----------------------------------------------------------------------------
(* Properties.                                                             *)

\* A caller that resumes from the tokens of poll_changefeed_page has seen
\* exactly the commits up to its token: GC racing with a poll skips nothing
\* silently, a page is never repeated, and a token of another history is
\* refused (TimelineForked) rather than resumed.
FeedIsExact ==
    [][client' # client =>
        /\ client'.tok.lsn <= Len(hist)
        /\ client'.seen = SubSeq(hist, 1, client'.tok.lsn)]_vars

\* A subscription is acknowledged past an event only after a push has sent it:
\* the channel may fail, workers may crash and race, and every matching commit up
\* to the cursor, since the filter was written, was sent for this subscription
\* at least once.  A subscription replaced under a running push is outside of this.
SentBeforeAcked ==
    db.sub # None /\ ~overtaken =>
        \A l \in Matching(db.sub.filter, (db.sub.since.lsn + 1)..db.sub.last_ack.lsn) :
            <<db.sub.created_at, l>> \in sent

\* Neither cursor moves back while it is the same subscription and the same
\* query, whatever stale acknowledgements, reapplied queries and adoptions race.
CursorsAdvance ==
    [][restores' = restores =>
        \A c \in {"sub", "query"} :
            /\ db[c] # None
            /\ db'[c] # None
            /\ db'[c].created_at = db[c].created_at
            => Advances(db[c].last_ack, db'[c].last_ack)]_vars

\* A principal's push or query acknowledgement never moves a cursor that
\* belongs to another principal at that moment (adopt_subscription_as racing).
OwnersAcknowledge ==
    [][restores' = restores =>
       \A t \in Threads :
        /\ th[t].pc = "ack"
        /\ th[t].who # Root
        /\ db'.sub # db.sub
        /\ th'[t] # th[t]
        => db.sub.owner = th[t].who]_vars

\* The stored view is the view of the source rows as of fresh_to_lsn: its rows
\* and its groups, decoded with the stored spec, are those a query would give.
ViewIsExact ==
    HasView =>
        LET state == upgrade_legacy_view_counts(db.view.spec, db.view.state)
            rows  == TablesOf(SubSeq(hist, 1, state.fresh_to_lsn)).rows
        IN  /\ state.source_rows = rows
            /\ state.groups = GroupBy(db.view.spec, rows)

\* A stale refresh or a racing creation never replaces a fresher view, and a
\* refresh never brings back a spec that was replaced.
ViewAdvances ==
    [][restores' = restores /\ HasView =>
        /\ db'.view.state.fresh_to_lsn >= db.view.state.fresh_to_lsn
        /\ (\A t \in Threads : start.call[t] = "create_view" => th'[t] = th[t])
              => db'.view.spec = db.view.spec]_vars

\* A commit whose writer saw an enabled after-commit hook is delivered to it,
\* or its range is a recorded post-commit failure, once the call is over.  (A
\* crash, and a failure whose record is refused, are the documented exceptions.)
HooksAccounted ==
    \A l \in owed :
        \/ l \in db.deliveries
        \/ \E f \in db.failures : f[1] < l /\ (l <= f[2] \/ f[1] = f[2])
        \/ \E t \in Threads : start.call[t] = "write" /\ th[t].snap = l

\* Restoring the chain of a backup to its end gives the history of the database
\* that took the backup, also when a restored branch shares the timeline.
ChainsAreHistories == \A b \in backups : b.image = b.source
=============================================================================
