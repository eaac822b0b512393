----------------------------- MODULE CdcProofs -----------------------------
(***************************************************************************)
(* Cursors, acknowledgements, views, hooks, changefeeds and backup chains  *)
(* of Cdc, for every number of threads, every history and every mix of     *)
(* calls: the inductive invariant and what follows from it.                *)
(***************************************************************************)
EXTENDS Cdc, TLAPS

(* A leaf that names no prover is Zenon's. *)
USE Zenon

-----------------------------------------------------------------------------
(* The inductive invariant.                                                *)

Fields == {"pc", "who", "tok", "through", "page", "more", "snap", "state"}
Tables == {"rows", "sub", "query", "view", "fork", "hook", "deliveries", "failures"}

(* A history is a sequence of well-formed commits. *)
IsLog(h) ==
    /\ \E T : h \in Seq(T)
    /\ \A l \in DOMAIN h : Recorded(h[l].writes, l)

(* The rows that consumers keep are rows of the history. *)
DbInv ==
    /\ DOMAIN db = Tables
    /\ \A c \in {"sub", "query"} : db[c] # None =>
          \E l \in DOMAIN hist : c \in DOMAIN hist[l].writes /\ db[c] = hist[l].writes[c]
    /\ HasView =>
          \E l \in DOMAIN hist : "view" \in DOMAIN hist[l].writes /\ db.view = hist[l].writes.view

(* Two histories that hold a commit of the same branch at an LSN are the same
   up to there. *)
Agree(g, h) ==
    \A l \in DOMAIN g \cap DOMAIN h : g[l].branch = h[l].branch => \A i \in 1..l : g[i] = h[i]

(* Images are histories; commits of the running branch are commits of hist. *)
BackupInv ==
    /\ \A l \in DOMAIN hist : hist[l].branch \in 0..restores
    /\ \A b \in backups :
          /\ DOMAIN b = {"timeline_id", "full_end", "image", "floor", "source"}
          /\ IsLog(b.image) /\ b.image = b.source
          /\ b.timeline_id \in Timelines /\ b.floor \in Nat /\ b.full_end \in Nat
          /\ Agree(b.image, hist)
          /\ \A l \in DOMAIN b.image :
                b.image[l].branch \in 0..restores /\ (b.image[l].branch = restores => l <= Len(hist))
    /\ \A b, c \in backups : Agree(b.image, c.image)

(* Commit l of history h is an event for the keys. *)
IsEvent(h, keys, l) == "rows" \in DOMAIN h[l].writes /\ DOMAIN h[l].writes.rows \cap keys # {}

(* Every event of history h for subscription s up to LSN n is in the set. *)
SentUpTo(h, s, n, set) ==
    \A l \in (s.since.lsn + 1)..n : IsEvent(h, s.filter, l) => <<s.created_at, l>> \in set

SentLog(h, set) ==
    \A l \in DOMAIN h : "sub" \in DOMAIN h[l].writes =>
        SentUpTo(h, h[l].writes.sub, h[l].writes.sub.last_ack.lsn, set)

SentInv == overtaken \/ (SentLog(hist, sent) /\ \A b \in backups : SentLog(b.image, sent))

(* A page lies behind the cursor, and starts right after it unless the log was
   truncated there. *)
PageInv(v) ==
    /\ v.page[1] \in Nat /\ v.page[2] \in Int
    /\ v.page[1] > v.tok.lsn
    /\ v.page[1] = v.tok.lsn + 1 \/ v.page[1] <= floor
    /\ v.page[2] <= v.through /\ v.through <= Len(hist)
    /\ ~v.more => v.through <= v.page[2]

(* Thread t at v in its call: as far as the call has come. *)
TypedInv(t, v) ==
    /\ DOMAIN v = Fields /\ v.tok \in Tokens /\ v.through \in Int
    /\ v.pc # "idle" /\ start.call[t] # "feed" => v.tok.lsn <= Len(hist)
    /\ v.pc = "paged" => PageInv(v)

(* The row of the subscription that the push has read is still the one it
   pushes for, and what precedes its token was sent. *)
PushInv(t, v) ==
    start.call[t] = "push" /\ v.pc # "idle" =>
        \/ overtaken
        \/ /\ db.sub.created_at = v.snap.created_at
           /\ db.sub.filter = v.snap.filter
           /\ db.sub.since = v.snap.since
           /\ v.snap.since \in Tokens
           /\ SentUpTo(hist, v.snap, v.tok.lsn, sent)

(* An acknowledgement that was checked against the rows it read. *)
AckInv(t, v) ==
    /\ v.pc = "ack" =>
          /\ v.snap # None /\ v.who \in {Root, v.snap.owner}
          /\ Advances(v.snap.last_ack, v.tok)
          /\ start.call[t] = "ack_query" =>
                v.state # None /\ Advances(v.state.last_ack, v.tok)
    /\ start.call[t] = "ack_query" /\ v.pc = "sub" => v.state # None
    /\ start.call[t] = "adopt" /\ v.pc = "write" => v.snap # None

(* The view a call has read is not fresher than what the call goes through. *)
ViewInv(t, v) ==
    start.call[t] \in {"create_view", "refresh"} /\ v.pc # "idle" =>
        /\ v.who \in Specs
        /\ start.call[t] = "refresh" => v.who = v.snap[1]
        /\ IF v.pc = "state"
           THEN v.snap = <<v.snap[1]>> /\ (v.snap[1] # None => HasView)
           ELSE v.snap[1] # None =>
                  /\ v.snap[2].fresh_to_lsn \in Nat
                  /\ v.snap[2].fresh_to_lsn <=
                        IF v.pc \in {"seed", "apply"} THEN Len(hist) ELSE v.through
        /\ v.pc \in {"poll", "page", "paged", "write"} => v.through <= Len(hist)
        /\ v.pc = "write" => v.through <= v.tok.lsn

(* A writer knows a range of the log that holds its own commit. *)
WriteInv(t, v) ==
    start.call[t] = "write" =>
        /\ v.pc \in {"idle", "commit", "after", "log", "deliver", "fail"}
        /\ v.pc \in {"after", "log", "deliver", "fail"} =>
              /\ v.snap \in 1..Len(hist) /\ v.tok.lsn < v.snap
              /\ v.pc = "after" => v.snap \notin owed
              /\ v.pc \in {"log", "deliver"} =>
                    /\ v.snap <= v.through
                    /\ v.snap \in owed => IsEvent(hist, v.state, v.snap)
              /\ v.pc = "fail" =>
                    v.snap <= v.through \/ v.through = v.tok.lsn

Committed(t) == start.call[t] = "write" /\ th[t].pc \in {"after", "log", "deliver", "fail"}

(* Every commit that is owed to a hook is accounted for, or its writer is. *)
HookInv ==
    /\ \A l \in owed :
          /\ l \in 1..Len(hist)
          /\ \/ l \in db.deliveries
             \/ \E f \in db.failures : f[1] < l /\ (l <= f[2] \/ f[1] = f[2])
             \/ \E t \in Threads : Committed(t) /\ th[t].snap = l
    /\ \A t, u \in Threads : Committed(t) /\ Committed(u) /\ th[t].snap = th[u].snap => t = u

ThreadInv(t, v) == TypedInv(t, v) /\ PushInv(t, v) /\ AckInv(t, v) /\ ViewInv(t, v) /\ WriteInv(t, v)

StateInv ==
    /\ start \in Starts /\ timeline \in Timelines /\ floor \in Nat /\ restores \in Nat
    /\ client.tok \in Tokens
    /\ DOMAIN th = Threads

CdcInv ==
    /\ StateInv /\ IsLog(hist) /\ DbInv /\ BackupInv /\ SentInv /\ HookInv
    /\ \A t \in Threads : ThreadInv(t, th[t])

(* The caller of the changefeed, in a database that is never restored, has seen
   the history up to its token. *)
FeedInv ==
    \A t \in Threads : start.call[t] = "feed" =>
        /\ restores = 0
        /\ client.tok.lsn <= Len(hist)
        /\ client.seen = SubSeq(hist, 1, client.tok.lsn)
        /\ th[t].pc # "idle" => th[t].tok.lsn = client.tok.lsn

(* Commit l has a delivery, or a failure that covers it. *)
Accounted(tables, l) ==
    l \in tables.deliveries \/ \E f \in tables.failures : f[1] < l /\ (l <= f[2] \/ f[1] = f[2])

(* A step that only adds to the history and to what was sent. *)
Forward ==
    /\ start' = start
    /\ \E T : hist' \in Seq(T)
    /\ Len(hist) <= Len(hist') /\ \A l \in 1..Len(hist) : hist'[l] = hist[l]
    /\ floor' \in Nat /\ floor <= floor'
    /\ sent \subseteq sent' /\ (overtaken => overtaken') /\ (HasView => HasView')

SameSub ==
    /\ db'.sub.created_at = db.sub.created_at
    /\ db'.sub.filter = db.sub.filter
    /\ db'.sub.since = db.sub.since

-----------------------------------------------------------------------------
(* Histories.                                                              *)

(* What a history is. *)
LEMMA LogFacts ==
    ASSUME NEW h, \E T : h \in Seq(T)
    PROVE  Len(h) \in Nat /\ DOMAIN h = 1..Len(h) /\ \A l : l \in DOMAIN h <=> l \in Nat /\ 1 <= l /\ l <= Len(h)
<1>1. PICK T : h \in Seq(T)
  BY SMT
<1>2. Len(h) \in Nat /\ DOMAIN h = 1..Len(h)
  BY <1>1, SMT
<1> QED
  BY <1>2, SMT

(* A commit adds one record to the history. *)
LEMMA AppendFacts ==
    ASSUME NEW h, \E T : h \in Seq(T), NEW e
    PROVE  /\ \E T : Append(h, e) \in Seq(T)
           /\ Len(Append(h, e)) = Len(h) + 1 /\ Append(h, e)[Len(h) + 1] = e
           /\ \A l \in 1..Len(h) : Append(h, e)[l] = h[l]
<1>1. PICK T : h \in Seq(T)
  BY SMT
<1>2. h \in Seq(T \cup {e})
  <2>1. Len(h) \in Nat /\ DOMAIN h = 1..Len(h) /\ h = [i \in 1..Len(h) |-> h[i]] /\ \A i \in 1..Len(h) : h[i] \in T
    BY <1>1, SMT
  <2> QED
    BY <2>1, SMT
<1>3. Append(h, e) \in Seq(T \cup {e})
  BY <1>2, SMT
<1> QED
  BY <1>2, <1>3, SMT

(* The history up to an LSN. *)
LEMMA PrefixFacts ==
    ASSUME NEW h, \E T : h \in Seq(T), NEW n \in 0..Len(h)
    PROVE  /\ \E T : SubSeq(h, 1, n) \in Seq(T)
           /\ Len(SubSeq(h, 1, n)) = n
           /\ \A l \in 1..n : SubSeq(h, 1, n)[l] = h[l]
<1>1. PICK T : h \in Seq(T)
  BY SMT
<1>2. SubSeq(h, 1, n) \in Seq(T)
  BY <1>1, SMT
<1>3. Len(SubSeq(h, 1, n)) = n
  BY <1>1, SMT
<1>4. \A l \in 1..n : SubSeq(h, 1, n)[l] = h[l]
  BY <1>1, SMT
<1> QED
  BY <1>2, <1>3, <1>4, SMT

(* Two histories of one length with the same records are the same. *)
LEMMA SameLog ==
    ASSUME NEW g, \E T : g \in Seq(T), NEW h, \E T : h \in Seq(T), Len(g) = Len(h),
           \A l \in 1..Len(h) : g[l] = h[l]
    PROVE  g = h
<1>1. /\ g = [l \in 1..Len(g) |-> g[l]]
      /\ h = [l \in 1..Len(h) |-> h[l]]
  BY SMT
<1>2. [l \in 1..Len(g) |-> g[l]] = [l \in 1..Len(h) |-> h[l]]
  BY SMT
<1> QED
  BY <1>1, <1>2

-----------------------------------------------------------------------------
(* Tables.                                                                 *)

LEMMA TableNames == DOMAIN NoTables = Tables /\ DOMAIN Idle = Fields
  BY SMT DEF NoTables, Tables, Idle, Fields

(* The rows behind the cursors are well formed. *)
LEMMA RowFacts ==
    ASSUME IsLog(hist), DbInv
    PROVE  /\ db.sub # None =>
                 /\ DOMAIN db.sub = {"owner", "filter", "last_ack", "since", "created_at"}
                 /\ db.sub.last_ack \in Tokens /\ db.sub.last_ack.lsn < Len(hist)
                 /\ db.sub.since \in Tokens
                 /\ db.sub.created_at \in 1..Len(hist)
           /\ db.query # None =>
                 /\ DOMAIN db.query = {"last_ack", "created_at"}
                 /\ db.query.last_ack \in Tokens
                 /\ db.query.created_at \in 1..Len(hist)
           /\ HasView =>
                 /\ db.view.spec \in Specs
                 /\ db.view.state.fresh_to_lsn \in Nat /\ db.view.state.fresh_to_lsn < Len(hist)
<1>1. \A l : l \in DOMAIN hist <=> l \in Nat /\ 1 <= l /\ l <= Len(hist)
  BY LogFacts DEF IsLog
<1>2. Len(hist) \in Nat
  BY LogFacts DEF IsLog
<1>3. ASSUME db.sub # None
      PROVE  /\ DOMAIN db.sub = {"owner", "filter", "last_ack", "since", "created_at"}
             /\ db.sub.last_ack \in Tokens /\ db.sub.last_ack.lsn < Len(hist)
             /\ db.sub.since \in Tokens
             /\ db.sub.created_at \in 1..Len(hist)
  <2>1. PICK l \in DOMAIN hist : "sub" \in DOMAIN hist[l].writes /\ db.sub = hist[l].writes.sub
    BY <1>3 DEF DbInv
  <2>2. /\ DOMAIN db.sub = {"owner", "filter", "last_ack", "since", "created_at"}
        /\ db.sub.last_ack \in Tokens /\ db.sub.last_ack.lsn < l
        /\ db.sub.since \in Tokens /\ db.sub.created_at \in 1..l
    BY <2>1 DEF IsLog, Recorded
  <2>3. l \in Nat /\ l <= Len(hist) /\ db.sub.last_ack.lsn \in Nat
    BY <1>1, <2>2 DEF Tokens
  <2>4. db.sub.last_ack.lsn < Len(hist) /\ db.sub.created_at \in 1..Len(hist)
    BY <1>2, <2>2, <2>3, SMTT(30)
  <2> QED
    BY <2>2, <2>4
<1>4. ASSUME db.query # None
      PROVE  /\ DOMAIN db.query = {"last_ack", "created_at"}
             /\ db.query.last_ack \in Tokens
             /\ db.query.created_at \in 1..Len(hist)
  <2>1. PICK l \in DOMAIN hist : "query" \in DOMAIN hist[l].writes /\ db.query = hist[l].writes.query
    BY <1>4 DEF DbInv
  <2>2. /\ DOMAIN db.query = {"last_ack", "created_at"}
        /\ db.query.last_ack \in Tokens /\ db.query.created_at \in 1..l
    BY <2>1 DEF IsLog, Recorded
  <2>3. l \in Nat /\ l <= Len(hist)
    BY <1>1
  <2>4. db.query.created_at \in 1..Len(hist)
    BY <1>2, <2>2, <2>3, SMTT(30)
  <2> QED
    BY <2>2, <2>4
<1>5. ASSUME HasView
      PROVE  /\ db.view.spec \in Specs
             /\ db.view.state.fresh_to_lsn \in Nat /\ db.view.state.fresh_to_lsn < Len(hist)
  <2>1. PICK l \in DOMAIN hist : "view" \in DOMAIN hist[l].writes /\ db.view = hist[l].writes.view
    BY <1>5 DEF DbInv
  <2>2. db.view.spec \in Specs /\ db.view.state.fresh_to_lsn \in 0..(l - 1)
    BY <2>1 DEF IsLog, Recorded
  <2>3. l \in Nat /\ l <= Len(hist)
    BY <1>1
  <2>4. db.view.state.fresh_to_lsn \in Nat /\ db.view.state.fresh_to_lsn < Len(hist)
    BY <1>2, <2>2, <2>3, SMTT(30)
  <2> QED
    BY <2>2, <2>4
<1> QED
  BY <1>3, <1>4, <1>5

-----------------------------------------------------------------------------
(* What a step of another thread leaves alone.                             *)

(* Events that were sent stay sent while the history grows. *)
LEMMA SentKeeps ==
    ASSUME Forward, Len(hist) \in Nat, NEW s, s.since \in Tokens, NEW n \in Nat, n <= Len(hist),
           SentUpTo(hist, s, n, sent)
    PROVE  SentUpTo(hist', s, n, sent')
<1> SUFFICES ASSUME NEW l \in (s.since.lsn + 1)..n, IsEvent(hist', s.filter, l)
             PROVE  <<s.created_at, l>> \in sent'
  BY DEF SentUpTo
<1>1. s.since.lsn \in Nat
  BY DEF Tokens
<1>2. l \in 1..Len(hist)
  BY <1>1, SMTT(30)
<1>3. IsEvent(hist, s.filter, l)
  BY <1>2 DEF IsEvent, Forward
<1>4. <<s.created_at, l>> \in sent
  BY <1>3 DEF SentUpTo
<1> QED
  BY <1>4 DEF Forward

(* What the invariant says of one thread. *)
LEMMA ThreadFacts ==
    ASSUME CdcInv, NEW t \in Threads
    PROVE  /\ DOMAIN th = Threads /\ DOMAIN th[t] = Fields
           /\ th[t].tok \in Tokens /\ th[t].tok.lsn \in Nat /\ th[t].through \in Int
           /\ Len(hist) \in Nat /\ floor \in Nat /\ start \in Starts /\ timeline \in Timelines
           /\ TypedInv(t, th[t]) /\ PushInv(t, th[t]) /\ AckInv(t, th[t]) /\ ViewInv(t, th[t]) /\ WriteInv(t, th[t])
<1>1. StateInv /\ IsLog(hist) /\ ThreadInv(t, th[t])
  BY DEF CdcInv
<1>2. Len(hist) \in Nat
  BY <1>1, LogFacts DEF IsLog
<1>3. th[t].tok \in Tokens
  BY <1>1 DEF ThreadInv, TypedInv
<1>4. th[t].tok.lsn \in Nat
  BY <1>3 DEF Tokens
<1> QED
  BY <1>1, <1>2, <1>3, <1>4 DEF ThreadInv, TypedInv, StateInv

(* A call keeps what it knows while other calls write, send, truncate and
   acknowledge. *)
LEMMA ThreadKeeps ==
    ASSUME CdcInv, Forward, NEW t \in Threads, th'[t] = th[t],
           overtaken' \/ SameSub \/ start.call[t] # "push" \/ th[t].pc = "idle",
           Committed(t) => (th[t].snap \in owed' => th[t].snap \in owed)
    PROVE  ThreadInv(t, th[t])'
<1>0. /\ DOMAIN th[t] = Fields /\ th[t].tok \in Tokens /\ th[t].tok.lsn \in Nat /\ th[t].through \in Int
      /\ Len(hist) \in Nat /\ floor \in Nat
      /\ TypedInv(t, th[t]) /\ PushInv(t, th[t]) /\ AckInv(t, th[t]) /\ ViewInv(t, th[t]) /\ WriteInv(t, th[t])
  BY ThreadFacts
<1>1. /\ start' = start /\ Len(hist) <= Len(hist') /\ floor' \in Nat /\ floor <= floor'
      /\ \A l \in 1..Len(hist) : hist'[l] = hist[l]
      /\ sent \subseteq sent' /\ (overtaken => overtaken') /\ (HasView => HasView')
  BY DEF Forward
<1>2. Len(hist') \in Nat
  BY LogFacts DEF Forward
<1>3. \A n \in Int : n <= Len(hist) => n <= Len(hist')
  BY <1>0, <1>1, <1>2, SMTT(30)
<1>4. ASSUME th[t].pc = "paged" PROVE PageInv(th[t])'
  <2>1. PageInv(th[t])
    BY <1>0, <1>4 DEF TypedInv
  <2>2. /\ th'[t].page[1] \in Nat /\ th'[t].page[2] \in Int
        /\ th'[t].page[1] > th'[t].tok.lsn
        /\ th'[t].page[2] <= th'[t].through
        /\ ~th'[t].more => th'[t].through <= th'[t].page[2]
    BY <2>1 DEF PageInv
  <2>3. th'[t].through <= Len(hist')
    BY <1>0, <1>3, <2>1 DEF PageInv
  <2>4. th[t].page[1] <= floor => th[t].page[1] <= floor'
    <3>1. th[t].page[1] \in Nat
      BY <2>1 DEF PageInv
    <3> QED
      BY <3>1, <1>0, <1>1, SMTT(30)
  <2>5. th'[t].page[1] = th'[t].tok.lsn + 1 \/ th'[t].page[1] <= floor'
    BY <2>1, <2>4 DEF PageInv
  <2> QED
    BY <2>2, <2>3, <2>5 DEF PageInv
<1>5. TypedInv(t, th[t])'
  <2>1. th[t].pc # "idle" /\ start.call[t] # "feed" => th[t].tok.lsn <= Len(hist')
    <3>1. th[t].tok.lsn \in Int
      BY <1>0, SMTT(30)
    <3> QED
      BY <3>1, <1>0, <1>3 DEF TypedInv
  <2> QED
    BY <1>0, <1>1, <1>4, <2>1 DEF TypedInv
<1>6. PushInv(t, th[t])'
  <2> SUFFICES ASSUME start.call[t] = "push", th[t].pc # "idle", ~overtaken'
               PROVE  /\ db'.sub.created_at = th[t].snap.created_at
                      /\ db'.sub.filter = th[t].snap.filter
                      /\ db'.sub.since = th[t].snap.since
                      /\ th[t].snap.since \in Tokens
                      /\ SentUpTo(hist', th[t].snap, th[t].tok.lsn, sent')
    BY <1>1 DEF PushInv
  <2>1. ~overtaken /\ SameSub
    BY <1>1
  <2>2. /\ db.sub.created_at = th[t].snap.created_at
        /\ db.sub.filter = th[t].snap.filter
        /\ db.sub.since = th[t].snap.since
        /\ th[t].snap.since \in Tokens
        /\ SentUpTo(hist, th[t].snap, th[t].tok.lsn, sent)
    BY <1>0, <2>1 DEF PushInv
  <2>3. th[t].tok.lsn <= Len(hist)
    BY <1>0 DEF TypedInv
  <2>4. SentUpTo(hist', th[t].snap, th[t].tok.lsn, sent')
    BY <1>0, <2>2, <2>3, SentKeeps
  <2> QED
    BY <2>1, <2>2, <2>4 DEF SameSub
<1>7. AckInv(t, th[t])'
  BY <1>0, <1>1 DEF AckInv, Advances
<1>8. ViewInv(t, th[t])'
  <2> SUFFICES ASSUME start.call[t] \in {"create_view", "refresh"}, th[t].pc # "idle"
               PROVE  ViewInv(t, th[t])'
    BY <1>1 DEF ViewInv
  <2>1. /\ th[t].who \in Specs
        /\ start.call[t] = "refresh" => th[t].who = th[t].snap[1]
        /\ th[t].pc = "write" => th[t].through <= th[t].tok.lsn
        /\ th[t].pc = "state" => th[t].snap = <<th[t].snap[1]>> /\ (th[t].snap[1] # None => HasView')
    BY <1>0, <1>1 DEF ViewInv
  <2>2. th[t].pc \in {"poll", "page", "paged", "write"} => th[t].through <= Len(hist')
    BY <1>0, <1>3 DEF ViewInv
  <2>3. ASSUME th[t].pc # "state", th[t].snap[1] # None
        PROVE  /\ th[t].snap[2].fresh_to_lsn \in Nat
               /\ th[t].snap[2].fresh_to_lsn <=
                     IF th[t].pc \in {"seed", "apply"} THEN Len(hist') ELSE th[t].through
    <3>1. /\ th[t].snap[2].fresh_to_lsn \in Nat
          /\ th[t].snap[2].fresh_to_lsn <=
                IF th[t].pc \in {"seed", "apply"} THEN Len(hist) ELSE th[t].through
      BY <1>0, <2>3 DEF ViewInv
    <3>2. th[t].snap[2].fresh_to_lsn \in Int
      BY <3>1, SMTT(30)
    <3> QED
      BY <3>1, <3>2, <1>3
  <2> QED
    BY <1>1, <2>1, <2>2, <2>3 DEF ViewInv
<1>9. WriteInv(t, th[t])'
  <2> SUFFICES ASSUME start.call[t] = "write" PROVE WriteInv(t, th[t])'
    BY <1>1 DEF WriteInv
  <2>1. th[t].pc \in {"idle", "commit", "after", "log", "deliver", "fail"}
    BY <1>0 DEF WriteInv
  <2>2. ASSUME th[t].pc \in {"after", "log", "deliver", "fail"}
        PROVE  /\ th[t].snap \in 1..Len(hist') /\ th[t].tok.lsn < th[t].snap
               /\ th[t].pc = "after" => th[t].snap \notin owed'
               /\ th[t].pc \in {"log", "deliver"} =>
                     /\ th[t].snap <= th[t].through
                     /\ th[t].snap \in owed' => IsEvent(hist', th[t].state, th[t].snap)
               /\ th[t].pc = "fail" =>
                     th[t].snap <= th[t].through \/ th[t].through = th[t].tok.lsn
    <3>1. /\ th[t].snap \in 1..Len(hist) /\ th[t].tok.lsn < th[t].snap
          /\ th[t].pc = "after" => th[t].snap \notin owed
          /\ th[t].pc \in {"log", "deliver"} =>
                /\ th[t].snap <= th[t].through
                /\ th[t].snap \in owed => IsEvent(hist, th[t].state, th[t].snap)
          /\ th[t].pc = "fail" =>
                th[t].snap <= th[t].through \/ th[t].through = th[t].tok.lsn
      BY <1>0, <2>2 DEF WriteInv
    <3>2. th[t].snap \in owed' => th[t].snap \in owed
      BY <2>2 DEF Committed
    <3>3. th[t].snap \in 1..Len(hist')
      BY <3>1, <1>0, <1>1, <1>2, SMTT(30)
    <3>4. IsEvent(hist, th[t].state, th[t].snap) => IsEvent(hist', th[t].state, th[t].snap)
      BY <3>1, <1>1 DEF IsEvent
    <3> QED
      BY <3>1, <3>2, <3>3, <3>4
  <2> QED
    BY <1>1, <2>1, <2>2 DEF WriteInv
<1> QED
  BY <1>5, <1>6, <1>7, <1>8, <1>9 DEF ThreadInv

-----------------------------------------------------------------------------
(* What a commit, a read and a writer leave alone.                         *)

(* Only thread t moves. *)
Alone(t) == DOMAIN th' = Threads /\ \A u \in Threads \ {t} : th'[u] = th[u]

(* Thread t has the commit it had. *)
SameCommit(t) == (Committed(t)' <=> Committed(t)) /\ (Committed(t) => th'[t].snap = th[t].snap)

LEMMA GoesAlone ==
    ASSUME CdcInv, NEW t \in Threads, NEW v, Goes(t, v)
    PROVE  Alone(t) /\ th'[t] = v
<1>1. DOMAIN th = Threads
  BY DEF CdcInv, StateInv
<1> QED
  BY <1>1 DEF Goes, Alone

(* A commit adds a record, and replaces the tables it writes. *)
LEMMA CommitFacts ==
    ASSUME CdcInv, NEW w, Commit(w), Recorded(w, Len(hist) + 1), start' = start, floor' = floor,
           sent \subseteq sent', overtaken => overtaken'
    PROVE  /\ Forward
           /\ Len(hist) \in Nat /\ Len(hist') = Len(hist) + 1
           /\ hist'[Len(hist) + 1].branch = restores /\ hist'[Len(hist) + 1].writes = w
           /\ DOMAIN db' = Tables
           /\ \A c \in Tables : c \notin DOMAIN w => db'[c] = db[c]
           /\ \A c \in Tables \ {"rows"} : c \in DOMAIN w => db'[c] = w[c]
<1>1. /\ IsLog(hist) /\ DbInv /\ floor \in Nat /\ hist' = Append(hist, [branch |-> restores, writes |-> w])
      /\ db' = ApplyCommit(db, w)
  BY DEF CdcInv, StateInv, Commit
<1>2. /\ \E T : hist' \in Seq(T)
      /\ Len(hist') = Len(hist) + 1
      /\ hist'[Len(hist) + 1].branch = restores /\ hist'[Len(hist) + 1].writes = w
      /\ \A l \in 1..Len(hist) : hist'[l] = hist[l]
  <2> DEFINE e == [branch |-> restores, writes |-> w]
  <2>0. e.branch = restores /\ e.writes = w
    BY SMT
  <2> HIDE DEF e
  <2>1. hist' = Append(hist, e) /\ \E T : hist \in Seq(T)
    BY <1>1 DEF e, IsLog
  <2>2. /\ \E T : Append(hist, e) \in Seq(T)
        /\ Len(Append(hist, e)) = Len(hist) + 1 /\ Append(hist, e)[Len(hist) + 1] = e
        /\ \A l \in 1..Len(hist) : Append(hist, e)[l] = hist[l]
    BY <2>1, AppendFacts, ZenonT(60)
  <2> QED
    BY <2>0, <2>1, <2>2
<1>3. Len(hist) \in Nat
  BY <1>1, LogFacts DEF IsLog
<1>4. /\ DOMAIN db' = Tables
      /\ \A c \in Tables : c \notin DOMAIN w => db'[c] = db[c]
      /\ \A c \in Tables \ {"rows"} : c \in DOMAIN w => db'[c] = w[c]
  BY <1>1 DEF ApplyCommit, DbInv
<1>5. HasView => HasView'
  <2>1. CASE "view" \in DOMAIN w
    <3>1. db'.view = w.view
      BY <1>4, <2>1 DEF Tables
    <3>2. w.view.spec \in Specs
      BY <2>1 DEF Recorded
    <3> QED
      BY <3>1, <3>2, NoneAssumption DEF HasView
  <2>2. CASE "view" \notin DOMAIN w
    <3>1. db'.view = db.view
      BY <1>4, <2>2 DEF Tables
    <3> QED
      BY <3>1 DEF HasView
  <2> QED
    BY <2>1, <2>2
<1>6. Len(hist) <= Len(hist') /\ floor <= floor'
  BY <1>1, <1>2, <1>3, SMTT(30)
<1>7. Forward
  BY <1>1, <1>2, <1>5, <1>6 DEF Forward
<1> QED
  BY <1>2, <1>3, <1>4, <1>7

(* Hooks stay accounted for while the writers keep their commits. *)
LEMMA HookKeeps ==
    ASSUME CdcInv, Forward, owed' = owed, \A t \in Threads : SameCommit(t),
           db.deliveries \subseteq db'.deliveries, db.failures \subseteq db'.failures
    PROVE  HookInv'
<1>1. HookInv /\ Len(hist) \in Nat
  BY LogFacts DEF CdcInv, IsLog
<1>2. Len(hist) <= Len(hist') /\ Len(hist') \in Nat
  BY LogFacts DEF Forward
<1>3. ASSUME NEW l \in owed'
      PROVE  /\ l \in 1..Len(hist')
             /\ \/ l \in db'.deliveries
                \/ \E f \in db'.failures : f[1] < l /\ (l <= f[2] \/ f[1] = f[2])
                \/ \E t \in Threads : Committed(t)' /\ th'[t].snap = l
  <2>1. /\ l \in 1..Len(hist)
        /\ \/ l \in db.deliveries
           \/ \E f \in db.failures : f[1] < l /\ (l <= f[2] \/ f[1] = f[2])
           \/ \E t \in Threads : Committed(t) /\ th[t].snap = l
    BY <1>1 DEF HookInv
  <2>2. l \in 1..Len(hist')
    BY <2>1, <1>1, <1>2, SMTT(30)
  <2>3. (\E t \in Threads : Committed(t) /\ th[t].snap = l)
           => \E t \in Threads : Committed(t)' /\ th'[t].snap = l
    BY DEF SameCommit
  <2> QED
    BY <2>1, <2>2, <2>3
<1>4. ASSUME NEW t \in Threads, NEW u \in Threads, Committed(t)', Committed(u)', th'[t].snap = th'[u].snap
      PROVE  t = u
  <2>1. Committed(t) /\ Committed(u) /\ th[t].snap = th[u].snap
    BY <1>4 DEF SameCommit
  <2> QED
    BY <1>1, <2>1 DEF HookInv
<1> QED
  BY <1>3, <1>4 DEF HookInv

(* What a step that commits nothing leaves alone. *)
LEMMA QuietState ==
    ASSUME CdcInv, NoCommit, UNCHANGED <<start, recovery, overtaken>>, DOMAIN th' = Threads,
           floor' \in Nat, floor <= floor', client'.tok \in Tokens, sent \subseteq sent'
    PROVE  Forward /\ StateInv' /\ IsLog(hist)' /\ DbInv' /\ BackupInv' /\ SentInv'
<1>1. StateInv /\ IsLog(hist) /\ DbInv /\ BackupInv /\ SentInv
  BY DEF CdcInv
<1>2. UNCHANGED <<hist, db, start, timeline, backups, restores, overtaken>> /\ (overtaken => overtaken')
  BY SMTT(30) DEF NoCommit, recovery
<1>3. Len(hist) <= Len(hist') /\ \E T : hist' \in Seq(T)
  <2>1. Len(hist) \in Nat
    BY <1>1, LogFacts DEF IsLog
  <2>2. Len(hist) <= Len(hist)
    BY <2>1, SMTT(30)
  <2> QED
    BY <1>1, <1>2, <2>2 DEF IsLog
<1>4. Forward
  BY <1>2, <1>3 DEF Forward, HasView
<1>5. StateInv' /\ IsLog(hist)' /\ BackupInv'
  BY <1>1, <1>2 DEF StateInv, BackupInv
<1>6. DbInv'
  BY <1>1, <1>2 DEF DbInv, HasView
<1>7. SentInv'
  <2>1. ASSUME NEW h, SentLog(h, sent) PROVE SentLog(h, sent')
    BY <2>1 DEF SentLog, SentUpTo
  <2> QED
    BY <1>1, <1>2, <2>1 DEF SentInv
<1> QED
  BY <1>4, <1>5, <1>6, <1>7

(* A step that commits nothing. *)
LEMMA QuietKeeps ==
    ASSUME CdcInv, NEW t \in Threads, Alone(t), NoCommit, UNCHANGED <<start, recovery, overtaken>>,
           floor' \in Nat, floor <= floor', client'.tok \in Tokens, sent \subseteq sent',
           ThreadInv(t, th[t])', HookInv',
           \A u \in Threads \ {t} : Committed(u) => (th[u].snap \in owed' => th[u].snap \in owed)
    PROVE  CdcInv'
<1>1. Forward /\ StateInv' /\ IsLog(hist)' /\ DbInv' /\ BackupInv' /\ SentInv'
  BY QuietState DEF Alone
<1>2. ASSUME NEW u \in Threads PROVE ThreadInv(u, th[u])'
  <2>1. CASE u = t
    BY <2>1
  <2>2. CASE u # t
    BY <2>2, <1>1, ThreadKeeps DEF Alone, SameSub, NoCommit
  <2> QED
    BY <2>1, <2>2
<1> QED
  BY <1>1, <1>2 DEF CdcInv

(* A step that only changes the local state of its call. *)
LEMMA ReadKeeps ==
    ASSUME CdcInv, NEW t \in Threads, NEW v, Goes(t, v), OnlyReads, ThreadInv(t, v),
           start.call[t] # "write" \/ SameCommit(t)
    PROVE  CdcInv'
<1>1. Alone(t) /\ th'[t] = v
  BY GoesAlone
<1>2. UNCHANGED <<hist, db, floor, start, timeline, backups, restores, client, sent, overtaken, owed>>
  BY DEF OnlyReads, NoCommit, recovery, feeds
<1>3. /\ NoCommit /\ UNCHANGED <<start, recovery, overtaken>> /\ sent \subseteq sent'
      /\ floor \in Nat /\ client'.tok \in Tokens
  BY <1>2, ThreadFacts DEF NoCommit, recovery, CdcInv, StateInv
<1>4. floor <= floor' /\ floor' \in Nat
  BY <1>2, <1>3, SMTT(30)
<1>5. ThreadInv(t, th[t])'
  <2>1. TypedInv(t, th[t])'
    BY <1>1, <1>2 DEF ThreadInv, TypedInv, PageInv
  <2>2. PushInv(t, th[t])'
    BY <1>1, <1>2 DEF ThreadInv, PushInv
  <2>3. AckInv(t, th[t])' /\ WriteInv(t, th[t])'
    BY <1>1, <1>2 DEF ThreadInv, AckInv, Advances, WriteInv
  <2>4. ViewInv(t, th[t])'
    BY <1>1, <1>2 DEF ThreadInv, ViewInv, HasView
  <2> QED
    BY <2>1, <2>2, <2>3, <2>4 DEF ThreadInv
<1>6. HookInv'
  <2>1. ASSUME NEW u \in Threads PROVE SameCommit(u)
    BY <1>1, <1>2 DEF SameCommit, Committed, Alone
  <2>2. Forward
    BY <1>1, <1>3, <1>4, QuietState DEF Alone
  <2> QED
    BY <1>2, <2>1, <2>2, HookKeeps
<1> QED
  BY <1>1, <1>2, <1>3, <1>4, <1>5, <1>6, QuietKeeps

(* A commit whose subscription row, if it writes one, is covered by what was
   sent, and is the row that the running pushes know. *)
LEMMA CommitKeeps ==
    ASSUME CdcInv, NEW t \in Threads, NEW w, Commit(w), Recorded(w, Len(hist) + 1), Alone(t),
           UNCHANGED <<floor, start, recovery, client, owed>>,
           sent \subseteq sent', overtaken => overtaken',
           "sub" \in DOMAIN w => overtaken' \/ SentUpTo(hist, w.sub, w.sub.last_ack.lsn, sent'),
           "sub" \in DOMAIN w =>
              \/ overtaken' \/ SameSub
              \/ \A u \in Threads \ {t} : start.call[u] # "push" \/ th[u].pc = "idle",
           ThreadInv(t, th[t])', HookInv'
    PROVE  CdcInv'
<1>1. /\ start' = start /\ floor' = floor /\ timeline' = timeline /\ backups' = backups
      /\ restores' = restores /\ client' = client /\ owed' = owed
  BY DEF recovery
<1>2. /\ Forward /\ Len(hist) \in Nat /\ Len(hist') = Len(hist) + 1
      /\ hist'[Len(hist) + 1].branch = restores /\ hist'[Len(hist) + 1].writes = w
      /\ DOMAIN db' = Tables
      /\ \A c \in Tables : c \notin DOMAIN w => db'[c] = db[c]
      /\ \A c \in Tables \ {"rows"} : c \in DOMAIN w => db'[c] = w[c]
  BY <1>1, CommitFacts
<1>3. /\ \E T : hist' \in Seq(T)
      /\ \A l \in 1..Len(hist) : hist'[l] = hist[l]
  BY <1>2 DEF Forward
<1>4. hist'[Len(hist) + 1].branch = restores /\ hist'[Len(hist) + 1].writes = w
  BY <1>2
<1>5. /\ \A l : l \in DOMAIN hist' <=> l \in DOMAIN hist \/ l = Len(hist) + 1
      /\ \A l \in DOMAIN hist : hist'[l] = hist[l]
      /\ IsLog(hist) /\ DbInv /\ BackupInv /\ SentInv /\ StateInv
  <2>1. DOMAIN hist = 1..Len(hist) /\ DOMAIN hist' = 1..Len(hist')
    BY <1>3, LogFacts DEF CdcInv, IsLog
  <2>2. \A l : l \in 1..(Len(hist) + 1) <=> l \in 1..Len(hist) \/ l = Len(hist) + 1
    BY <1>2, SMTT(30)
  <2> QED
    BY <1>2, <1>3, <2>1, <2>2 DEF CdcInv
<1>6. StateInv'
  BY <1>1, <1>5 DEF StateInv, Alone
<1>7. IsLog(hist')
  BY <1>3, <1>4, <1>5 DEF IsLog
<1>8. DbInv'
  <2>1. ASSUME NEW c \in {"sub", "query"}, db'[c] # None
        PROVE  \E l \in DOMAIN hist' : c \in DOMAIN hist'[l].writes /\ db'[c] = hist'[l].writes[c]
    <3>0. c \in Tables \ {"rows"}
      BY DEF Tables
    <3>1. CASE c \in DOMAIN w
      <4>1. db'[c] = hist'[Len(hist) + 1].writes[c] /\ c \in DOMAIN hist'[Len(hist) + 1].writes
        BY <3>0, <3>1, <1>2
      <4> QED
        BY <4>1, <1>5
    <3>2. CASE c \notin DOMAIN w
      <4>1. db'[c] = db[c]
        BY <3>0, <3>2, <1>2
      <4>2. PICK l \in DOMAIN hist : c \in DOMAIN hist[l].writes /\ db[c] = hist[l].writes[c]
        BY <2>1, <4>1, <1>5 DEF DbInv
      <4> QED
        BY <4>1, <4>2, <1>5
    <3> QED
      BY <3>1, <3>2
  <2>2. ASSUME HasView'
        PROVE  \E l \in DOMAIN hist' : "view" \in DOMAIN hist'[l].writes /\ db'.view = hist'[l].writes.view
    <3>0. "view" \in Tables \ {"rows"}
      BY DEF Tables
    <3>1. CASE "view" \in DOMAIN w
      BY ZenonT(40), <3>0, <3>1, <1>2, <1>4, <1>5
    <3>2. CASE "view" \notin DOMAIN w
      <4>1. db'.view = db.view
        BY <3>0, <3>2, <1>2
      <4>2. PICK l \in DOMAIN hist : "view" \in DOMAIN hist[l].writes /\ db.view = hist[l].writes.view
        BY <2>2, <4>1, <1>5 DEF DbInv, HasView
      <4> QED
        BY <4>1, <4>2, <1>5
    <3> QED
      BY <3>1, <3>2
  <2> QED
    BY <1>2, <2>1, <2>2 DEF DbInv
<1>9. BackupInv'
  <2>0. restores \in Nat
    BY <1>5 DEF StateInv
  <2>1. ASSUME NEW l \in DOMAIN hist' PROVE hist'[l].branch \in 0..restores'
    <3>1. restores \in 0..restores
      BY <2>0, SMTT(30)
    <3> QED
      BY <3>1, <1>1, <1>4, <1>5 DEF BackupInv
  <2>2. ASSUME NEW b \in backups
        PROVE  /\ Agree(b.image, hist')
               /\ \A l \in DOMAIN b.image : b.image[l].branch = restores' => l <= Len(hist')
    <3>1. /\ IsLog(b.image) /\ Agree(b.image, hist)
          /\ \A l \in DOMAIN b.image : b.image[l].branch = restores => l <= Len(hist)
      BY <1>5 DEF BackupInv
    <3>2. ASSUME NEW l \in DOMAIN b.image, b.image[l].branch = restores PROVE l <= Len(hist) /\ l <= Len(hist')
      <4>1. l \in Nat /\ l <= Len(hist)
        BY <3>1, <3>2, LogFacts DEF IsLog
      <4> QED
        BY <4>1, <1>2, SMTT(30)
    <3>3. ASSUME NEW l \in DOMAIN b.image \cap DOMAIN hist', b.image[l].branch = hist'[l].branch,
                 NEW i \in 1..l
          PROVE  b.image[i] = hist'[i]
      <4>1. l \in DOMAIN hist
        <5>1. l # Len(hist) + 1
          <6>1. l = Len(hist) + 1 => l <= Len(hist)
            BY <3>2, <3>3, <1>4
          <6> QED
            BY <6>1, <1>2, SMTT(30)
        <5> QED
          BY <5>1, <1>5
      <4>2. b.image[i] = hist[i]
        BY <3>1, <3>3, <4>1, <1>5 DEF Agree
      <4>3. i \in DOMAIN hist
        <5>1. l \in Nat /\ l <= Len(hist) /\ DOMAIN hist = 1..Len(hist)
          BY <4>1, <1>5, LogFacts DEF IsLog
        <5> QED
          BY <5>1, <1>2, SMTT(30)
      <4> QED
        BY <4>2, <4>3, <1>5
    <3> QED
      BY <3>2, <3>3, <1>1 DEF Agree
  <2> QED
    BY <1>1, <1>5, <2>1, <2>2 DEF BackupInv
<1>10. SentInv'
  <2> SUFFICES ASSUME ~overtaken' PROVE SentLog(hist', sent') /\ \A b \in backups : SentLog(b.image, sent')
    BY <1>1 DEF SentInv
  <2>1. SentLog(hist, sent) /\ \A b \in backups : SentLog(b.image, sent)
    BY <1>5 DEF SentInv
  <2>2. ASSUME NEW b \in backups PROVE SentLog(b.image, sent')
    BY <2>1 DEF SentLog, SentUpTo
  <2>3. ASSUME NEW l \in DOMAIN hist', "sub" \in DOMAIN hist'[l].writes
        PROVE  SentUpTo(hist', hist'[l].writes.sub, hist'[l].writes.sub.last_ack.lsn, sent')
    <3>1. CASE l \in DOMAIN hist
      <4> DEFINE s == hist[l].writes.sub
      <4>1. hist'[l].writes.sub = s /\ "sub" \in DOMAIN hist[l].writes
        BY <2>3, <3>1, <1>5
      <4>2. /\ s.since \in Tokens /\ s.last_ack \in Tokens /\ s.last_ack.lsn < l
            /\ l \in Nat /\ l <= Len(hist)
        BY <3>1, <4>1, <1>5, LogFacts DEF IsLog, Recorded
      <4>3. SentUpTo(hist, s, s.last_ack.lsn, sent)
        BY <2>1, <3>1, <4>1 DEF SentLog
      <4> HIDE DEF s
      <4>4. s.last_ack.lsn \in Nat
        BY <4>2 DEF Tokens
      <4>5. s.last_ack.lsn <= Len(hist)
        BY <4>2, <4>4, <1>2, SMTT(30)
      <4>6. SentUpTo(hist', s, s.last_ack.lsn, sent')
        BY <4>2, <4>3, <4>4, <4>5, <1>2, SentKeeps
      <4> QED
        BY <4>1, <4>6
    <3>2. CASE l = Len(hist) + 1
      <4>1. hist'[l].writes = w /\ "sub" \in DOMAIN w
        BY <2>3, <3>2, <1>4
      <4>2. /\ w.sub.since \in Tokens /\ w.sub.last_ack \in Tokens /\ w.sub.last_ack.lsn < Len(hist) + 1
        BY <4>1 DEF Recorded
      <4>3. SentUpTo(hist, w.sub, w.sub.last_ack.lsn, sent')
        BY <4>1
      <4>4. ASSUME NEW i \in (w.sub.since.lsn + 1)..w.sub.last_ack.lsn PROVE hist'[i] = hist[i]
        <5>1. w.sub.since.lsn \in Nat /\ w.sub.last_ack.lsn \in Nat
          BY <4>2 DEF Tokens
        <5>2. i \in 1..Len(hist)
          BY <4>2, <5>1, <1>2, SMTT(30)
        <5> QED
          BY <5>2, <1>3
      <4>5. SentUpTo(hist', w.sub, w.sub.last_ack.lsn, sent')
        BY <4>3, <4>4 DEF SentUpTo, IsEvent
      <4> QED
        BY <4>1, <4>5
    <3> QED
      BY <3>1, <3>2, <1>5
  <2> QED
    BY <2>2, <2>3 DEF SentLog
<1>11. ASSUME NEW u \in Threads PROVE ThreadInv(u, th[u])'
  <2>1. CASE u = t
    BY <2>1
  <2>2. CASE u # t
    <3>1. "sub" \notin DOMAIN w => SameSub
      <4>1. "sub" \notin DOMAIN w => db'.sub = db.sub
        BY <1>2 DEF Tables
      <4> QED
        BY <4>1 DEF SameSub
    <3>2. overtaken' \/ SameSub \/ start.call[u] # "push" \/ th[u].pc = "idle"
      BY <2>2, <3>1
    <3>3. th'[u] = th[u]
      BY <2>2 DEF Alone
    <3> QED
      BY <1>1, <1>2, <3>2, <3>3, ThreadKeeps
  <2> QED
    BY <2>1, <2>2
<1> QED
  BY <1>6, <1>7, <1>8, <1>9, <1>10, <1>11 DEF CdcInv

-----------------------------------------------------------------------------
(* Calls that end, and pages.                                              *)

LEMMA IdleFacts ==
    /\ DOMAIN Idle = Fields /\ Idle.pc = "idle" /\ Idle.tok \in Tokens /\ Idle.tok.lsn = 0
    /\ Idle.through \in Int
  BY SMT DEF Idle, Fields, DefaultToken, Token, Tokens, Timelines

(* A call that has ended knows nothing. *)
LEMMA IdleInv ==
    ASSUME NEW t
    PROVE  ThreadInv(t, Idle)
<1>1. Idle.pc # "paged" /\ Idle.pc # "ack" /\ Idle.pc # "sub" /\ Idle.pc # "write"
      /\ Idle.pc \notin {"after", "log", "deliver", "fail"}
  BY IdleFacts
<1> QED
  BY <1>1, IdleFacts DEF ThreadInv, TypedInv, PushInv, AckInv, ViewInv, WriteInv

LEMMA EndedInv ==
    ASSUME NEW t, DOMAIN th'[t] = Fields, th'[t].pc = "idle", th'[t].tok \in Tokens, th'[t].through \in Int
    PROVE  ThreadInv(t, th[t])'
<1>1. th'[t].pc # "paged" /\ th'[t].pc # "ack" /\ th'[t].pc # "sub" /\ th'[t].pc # "write"
      /\ th'[t].pc \notin {"after", "log", "deliver", "fail"}
  OBVIOUS
<1> QED
  BY <1>1 DEF ThreadInv, TypedInv, PushInv, AckInv, ViewInv, WriteInv

(* A call that ends and has written nothing. *)
LEMMA StopKeeps ==
    ASSUME CdcInv, NEW t \in Threads, Stops(t), OnlyReads, start.call[t] # "write"
    PROVE  CdcInv'
  BY IdleInv, ReadKeeps DEF Stops

(* A commit that ends its call, or is all of it. *)
LEMMA LastCommit ==
    ASSUME CdcInv, NEW t \in Threads, NEW w, Commit(w), Recorded(w, Len(hist) + 1),
           start.call[t] # "write", Stops(t) \/ (th' = th /\ th[t].pc = "idle"),
           UNCHANGED <<floor, start, recovery, client, owed>>,
           sent \subseteq sent', overtaken => overtaken',
           "deliveries" \notin DOMAIN w, "failures" \notin DOMAIN w,
           "sub" \in DOMAIN w => overtaken' \/ SentUpTo(hist, w.sub, w.sub.last_ack.lsn, sent'),
           "sub" \in DOMAIN w =>
              \/ overtaken' \/ SameSub
              \/ \A u \in Threads \ {t} : start.call[u] # "push" \/ th[u].pc = "idle"
    PROVE  CdcInv'
<1>1. Alone(t) /\ th'[t].pc = "idle" /\ DOMAIN th'[t] = Fields /\ th'[t].tok \in Tokens /\ th'[t].through \in Int
  <2>1. CASE Stops(t)
    BY <2>1, IdleFacts, GoesAlone DEF Stops
  <2>2. CASE th' = th /\ th[t].pc = "idle"
    BY <2>2, ThreadFacts DEF Alone
  <2> QED
    BY <2>1, <2>2
<1>2. ThreadInv(t, th[t])'
  BY <1>1, EndedInv
<1>3. Forward /\ db'.deliveries = db.deliveries /\ db'.failures = db.failures
  <2>1. Forward /\ \A c \in Tables : c \notin DOMAIN w => db'[c] = db[c]
    BY CommitFacts
  <2> QED
    BY <2>1 DEF Tables
<1>4. ASSUME NEW u \in Threads PROVE SameCommit(u)
  <2>1. CASE u = t
    BY <2>1 DEF SameCommit, Committed
  <2>2. CASE u # t
    BY <2>2, <1>1 DEF SameCommit, Committed, Alone
  <2> QED
    BY <2>1, <2>2
<1>5. HookInv'
  BY <1>3, <1>4, HookKeeps
<1> QED
  BY <1>1, <1>2, <1>5, CommitKeeps

(* The greater and the smaller of two positions of the log. *)
LEMMA PairFacts ==
    ASSUME NEW a \in Int, NEW b \in Int
    PROVE  /\ Max({a, b}) \in {a, b} /\ a <= Max({a, b}) /\ b <= Max({a, b})
           /\ Min({a, b}) \in {a, b} /\ Min({a, b}) <= a /\ Min({a, b}) <= b
<1>1. \E x \in {a, b} : \A y \in {a, b} : x >= y
  BY SMTT(30)
<1>2. \E x \in {a, b} : \A y \in {a, b} : x <= y
  BY SMTT(30)
<1>3. Max({a, b}) \in {a, b} /\ \A y \in {a, b} : Max({a, b}) >= y
  BY <1>1 DEF Max
<1>4. Min({a, b}) \in {a, b} /\ \A y \in {a, b} : Min({a, b}) <= y
  BY <1>2 DEF Min
<1> QED
  BY <1>3, <1>4, SMTT(30)

(* What a page that is intact gives: it starts right after the cursor, and the
   cursor behind it is in the log. *)
LEMMA PageFacts ==
    ASSUME CdcInv, NEW t \in Threads, th[t].pc = "paged", PageIntact(t)
    PROVE  /\ NextToken(t) \in Tokens /\ th[t].tok.lsn <= NextToken(t).lsn
           /\ NextToken(t).lsn <= Len(hist) \/ NextToken(t) = th[t].tok
           /\ \A l \in (th[t].tok.lsn + 1)..NextToken(t).lsn : l \in th[t].page[1]..th[t].page[2]
           /\ ~Empty(th[t].page) =>
                 th[t].page[1] = th[t].tok.lsn + 1 /\ NextToken(t).lsn = th[t].page[2]
           /\ ~th[t].more => th[t].through <= NextToken(t).lsn
<1> DEFINE p == th[t].page[1]
           q == th[t].page[2]
           n == th[t].tok.lsn
           e == th[t].through
<1>1. /\ th[t].tok \in Tokens /\ n \in Nat /\ e \in Int /\ Len(hist) \in Nat /\ floor \in Nat
      /\ th[t].tok.timeline_id \in Timelines
      /\ PageInv(th[t])
  BY ThreadFacts DEF TypedInv, Tokens
<1>2. /\ p \in Nat /\ q \in Int /\ p > n /\ (p = n + 1 \/ p <= floor)
      /\ q <= e /\ e <= Len(hist) /\ (~th[t].more => e <= q)
  BY <1>1 DEF PageInv
<1>3. n >= e \/ (~(p > q) /\ p = n + 1) \/ n + 1 >= floor
  BY DEF PageIntact, Empty
<1>4. NextToken(t) = IF p > q THEN th[t].tok ELSE Token(th[t].tok.timeline_id, q)
  BY DEF NextToken, Empty
<1> HIDE DEF p, q, n, e
<1>5. CASE p > q
  <2>1. NextToken(t) = th[t].tok /\ NextToken(t).lsn = n
    BY <1>4, <1>5 DEF n
  <2>2. n <= n /\ (\A l \in (n + 1)..n : l \in p..q) /\ (~th[t].more => e <= n)
    BY <1>1, <1>2, <1>3, <1>5, SMTT(30)
  <2> QED
    BY <1>1, <1>5, <2>1, <2>2 DEF p, q, n, e, Empty
<1>6. CASE ~(p > q)
  <2>1. p = n + 1 /\ q \in Nat /\ n <= q /\ q <= Len(hist) /\ (\A l \in (n + 1)..q : l \in p..q)
    BY <1>1, <1>2, <1>3, <1>6, SMTT(30)
  <2>2. NextToken(t) = Token(th[t].tok.timeline_id, q)
    BY <1>4, <1>6
  <2>3. NextToken(t).lsn = q /\ NextToken(t) \in Tokens
    BY <1>1, <2>1, <2>2, SMTT(30) DEF Token, Tokens
  <2> QED
    BY <1>2, <2>1, <2>3 DEF p, q, n, e
<1> QED
  BY <1>5, <1>6

-----------------------------------------------------------------------------
(* One page of the changefeed.                                             *)

LEMMA PollStartKeeps ==
    ASSUME CdcInv, NEW t \in Threads, PollStart(t)
    PROVE  CdcInv'
<1> DEFINE v == [th[t] EXCEPT !.pc = "page", !.tok.timeline_id = timeline]
<1>1. /\ DOMAIN th[t] = Fields /\ th[t].tok \in Tokens /\ th[t].through \in Int /\ timeline \in Timelines
      /\ TypedInv(t, th[t]) /\ PushInv(t, th[t]) /\ ViewInv(t, th[t]) /\ WriteInv(t, th[t])
      /\ th[t].pc = "poll" /\ OnlyReads
      /\ Goes(t, v) \/ Stops(t)
  BY ThreadFacts DEF PollStart, Stops
<1>2. start.call[t] # "write"
  BY <1>1 DEF WriteInv
<1>3. CASE Goes(t, v)
  <2>1. /\ v.pc = "page" /\ DOMAIN v = Fields /\ v.tok \in Tokens /\ v.tok.lsn = th[t].tok.lsn
        /\ v.through = th[t].through /\ v.snap = th[t].snap /\ v.who = th[t].who
    BY <1>1, SMTT(30) DEF Fields, Tokens
  <2> HIDE DEF v
  <2>2. TypedInv(t, v)
    BY <1>1, <2>1 DEF TypedInv
  <2>3. PushInv(t, v)
    BY <1>1, <2>1 DEF PushInv
  <2>4. AckInv(t, v) /\ ViewInv(t, v) /\ WriteInv(t, v)
    BY <1>1, <1>2, <2>1 DEF AckInv, ViewInv, WriteInv
  <2> QED
    BY <1>1, <1>2, <1>3, <2>2, <2>3, <2>4, ReadKeeps DEF ThreadInv
<1> QED
  BY <1>1, <1>2, <1>3, StopKeeps

LEMMA PollPageKeeps ==
    ASSUME CdcInv, NEW t \in Threads, PollPage(t)
    PROVE  CdcInv'
<1> DEFINE current == Min({Len(hist), th[t].through})
           first   == Max({th[t].tok.lsn + 1, floor})
           last    == Min({current, first + PageSize - 1})
           v == [th[t] EXCEPT !.pc = "paged", !.through = current,
                              !.page = <<first, last>>, !.more = current > last]
<1>1. /\ DOMAIN th[t] = Fields /\ th[t].tok \in Tokens /\ th[t].tok.lsn \in Nat /\ th[t].through \in Int
      /\ Len(hist) \in Nat /\ floor \in Nat
      /\ TypedInv(t, th[t]) /\ PushInv(t, th[t]) /\ ViewInv(t, th[t]) /\ WriteInv(t, th[t])
  BY ThreadFacts
<1>2. th[t].pc = "page" /\ OnlyReads /\ Goes(t, v)
  BY DEF PollPage, current_lsn
<1>3. start.call[t] # "write"
  BY <1>1, <1>2 DEF WriteInv
<1>4. /\ current \in {Len(hist), th[t].through} /\ current <= Len(hist) /\ current <= th[t].through
      /\ first \in {th[t].tok.lsn + 1, floor} /\ th[t].tok.lsn + 1 <= first
  <2>1. Len(hist) \in Int /\ th[t].tok.lsn + 1 \in Int /\ floor \in Int
    BY <1>1, SMTT(30)
  <2> HIDE DEF v
  <2> QED
    BY <1>1, <2>1, PairFacts
<1> HIDE DEF current, first
<1>5. current \in Int /\ last \in Int /\ last <= current
  <2>1. current \in Int /\ first + PageSize - 1 \in Int
    BY <1>1, <1>4, PageAssumption, SMTT(30)
  <2> HIDE DEF v
  <2>2. last \in {current, first + PageSize - 1} /\ last <= current
    BY <2>1, PairFacts
  <2> QED
    BY <2>1, <2>2
<1> HIDE DEF last
<1>6. /\ v.pc = "paged" /\ DOMAIN v = Fields /\ v.tok = th[t].tok /\ v.snap = th[t].snap
      /\ v.who = th[t].who /\ v.through = current /\ v.more = (current > last)
      /\ v.page[1] = first /\ v.page[2] = last
  BY <1>1, SMTT(30) DEF Fields
<1> HIDE DEF v
<1>7. /\ first \in Nat /\ first > th[t].tok.lsn
      /\ first = th[t].tok.lsn + 1 \/ first <= floor
      /\ ~(current > last) => current <= last
  BY <1>1, <1>4, <1>5, SMTT(30)
<1>8. TypedInv(t, v)
  <2>1. PageInv(v)
    BY <1>4, <1>5, <1>6, <1>7 DEF PageInv
  <2> QED
    BY <1>1, <1>2, <1>5, <1>6, <2>1 DEF TypedInv
<1>9. PushInv(t, v)
  BY <1>1, <1>2, <1>6 DEF PushInv
<1>10. ViewInv(t, v)
  <2>1. ASSUME start.call[t] \in {"create_view", "refresh"}
        PROVE  /\ th[t].who \in Specs /\ (start.call[t] = "refresh" => th[t].who = th[t].snap[1])
               /\ th[t].through <= Len(hist)
               /\ th[t].snap[1] # None =>
                     /\ th[t].snap[2].fresh_to_lsn \in Nat
                     /\ th[t].snap[2].fresh_to_lsn <= th[t].through
    BY <1>1, <1>2, <2>1 DEF ViewInv
  <2>2. th[t].through <= Len(hist) => current = th[t].through
    BY <1>1, <1>4, SMTT(30)
  <2> QED
    BY <1>6, <2>1, <2>2 DEF ViewInv
<1>11. AckInv(t, v) /\ WriteInv(t, v)
  BY <1>3, <1>6 DEF AckInv, WriteInv
<1> QED
  BY <1>2, <1>3, <1>8, <1>9, <1>10, <1>11, ReadKeeps DEF ThreadInv

(* A step that commits nothing and owes nothing. *)
LEMMA MoveKeeps ==
    ASSUME CdcInv, NEW t \in Threads, Alone(t), NoCommit, UNCHANGED <<start, recovery, overtaken, owed>>,
           floor' \in Nat, floor <= floor', client'.tok \in Tokens, sent \subseteq sent',
           ThreadInv(t, th[t])', start.call[t] # "write"
    PROVE  CdcInv'
<1>1. Forward
  BY QuietState DEF Alone
<1>2. ASSUME NEW u \in Threads PROVE SameCommit(u)
  BY DEF SameCommit, Committed, Alone
<1>3. HookInv'
  BY <1>1, <1>2, HookKeeps DEF NoCommit
<1> QED
  BY <1>3, QuietKeeps

LEMMA FeedPollKeeps ==
    ASSUME CdcInv, NEW t \in Threads, FeedPoll(t)
    PROVE  CdcInv'
<1> DEFINE v == [Idle EXCEPT !.pc = "poll", !.tok = client.tok, !.through = start.max_lsn]
<1>1. start.call[t] = "feed" /\ OnlyReads /\ Goes(t, v) /\ client.tok \in Tokens /\ start.max_lsn \in Nat
  BY StartsAssumption DEF FeedPoll, Runs, CdcInv, StateInv
<1>2. v.pc = "poll" /\ DOMAIN v = Fields /\ v.tok = client.tok /\ v.through \in Int
  BY <1>1, IdleFacts, SMTT(30) DEF Fields
<1> HIDE DEF v
<1>3. ThreadInv(t, v)
  BY <1>1, <1>2 DEF ThreadInv, TypedInv, PushInv, AckInv, ViewInv, WriteInv
<1> QED
  BY <1>1, <1>3, ReadKeeps

LEMMA FeedTakeKeeps ==
    ASSUME CdcInv, NEW t \in Threads, FeedTake(t)
    PROVE  CdcInv'
<1>1. /\ start.call[t] = "feed" /\ th[t].pc = "paged" /\ Stops(t) /\ NoCommit
      /\ UNCHANGED <<floor, start, recovery, sent, overtaken, owed>>
  BY DEF FeedTake, Runs
<1>2. Alone(t) /\ ThreadInv(t, th[t])'
  BY <1>1, GoesAlone, IdleFacts, EndedInv DEF Stops
<1>3. client'.tok \in Tokens
  <2>1. CASE ~PageIntact(t)
    BY <2>1 DEF FeedTake, CdcInv, StateInv
  <2>2. CASE PageIntact(t)
    <3>1. client'.tok = NextToken(t)
      BY <2>2, SMTT(30) DEF FeedTake
    <3> QED
      BY ZenonT(40), <1>1, <2>2, <3>1, PageFacts
  <2> QED
    BY <2>1, <2>2
<1>4. floor' \in Nat /\ floor <= floor'
  <2>1. floor \in Nat
    BY ThreadFacts
  <2> QED
    BY <1>1, <2>1, SMTT(30)
<1> QED
  BY <1>1, <1>2, <1>3, <1>4, MoveKeeps

-----------------------------------------------------------------------------
(* Subscriptions.                                                          *)

(* What precedes the cursor of the subscription was sent. *)
LEMMA SubSent ==
    ASSUME CdcInv, db.sub # None, ~overtaken
    PROVE  SentUpTo(hist, db.sub, db.sub.last_ack.lsn, sent)
<1>1. PICK l \in DOMAIN hist : "sub" \in DOMAIN hist[l].writes /\ db.sub = hist[l].writes.sub
  BY DEF CdcInv, DbInv
<1> QED
  BY <1>1 DEF CdcInv, SentInv, SentLog

LEMMA PushReadKeeps ==
    ASSUME CdcInv, NEW t \in Threads, PushRead(t)
    PROVE  CdcInv'
<1> DEFINE v == [Idle EXCEPT !.pc = "poll", !.who = db.sub.owner, !.tok = db.sub.last_ack,
                             !.through = start.max_lsn, !.snap = db.sub]
<1>1. start.call[t] = "push" /\ db.sub # None /\ OnlyReads /\ Goes(t, v) /\ start.max_lsn \in Nat
  BY StartsAssumption DEF PushRead, Runs, CdcInv, StateInv
<1>2. /\ v.pc = "poll" /\ DOMAIN v = Fields /\ v.tok = db.sub.last_ack /\ v.through \in Int
      /\ v.snap = db.sub
  BY <1>1, IdleFacts, SMTT(30) DEF Fields
<1> HIDE DEF v
<1>3. db.sub.last_ack \in Tokens /\ db.sub.last_ack.lsn <= Len(hist) /\ db.sub.since \in Tokens
  <2>1. db.sub.last_ack \in Tokens /\ db.sub.last_ack.lsn < Len(hist) /\ db.sub.since \in Tokens
    BY <1>1, RowFacts DEF CdcInv
  <2>2. Len(hist) \in Nat /\ db.sub.last_ack.lsn \in Nat
    BY <2>1, ThreadFacts DEF Tokens
  <2>3. db.sub.last_ack.lsn <= Len(hist)
    BY <2>1, <2>2, SMTT(30)
  <2> QED
    BY <2>1, <2>3
<1>4. ThreadInv(t, v)
  BY <1>1, <1>2, <1>3, SubSent DEF ThreadInv, TypedInv, PushInv, AckInv, ViewInv, WriteInv
<1> QED
  BY <1>1, <1>4, ReadKeeps

LEMMA PushSendKeeps ==
    ASSUME CdcInv, NEW t \in Threads, PushSend(t)
    PROVE  CdcInv'
<1> DEFINE v == [th[t] EXCEPT !.pc = "acks", !.tok = NextToken(t), !.page = <<1, 0>>, !.more = FALSE]
           events == {<<th[t].snap.created_at, l>> : l \in Events(t)}
<1>1. /\ start.call[t] = "push" /\ th[t].pc = "paged" /\ NoCommit
      /\ UNCHANGED <<floor, start, recovery, client, overtaken, owed>>
  BY DEF PushSend, Runs
<1>2. UNCHANGED <<hist, db, start, overtaken, owed>>
  BY <1>1 DEF NoCommit
<1>3. /\ DOMAIN th[t] = Fields /\ th[t].tok \in Tokens /\ th[t].tok.lsn \in Nat /\ th[t].through \in Int
      /\ Len(hist) \in Nat /\ floor \in Nat /\ TypedInv(t, th[t]) /\ PushInv(t, th[t])
      /\ client.tok \in Tokens /\ floor' \in Nat /\ client'.tok \in Tokens
  BY <1>1, ThreadFacts DEF CdcInv, StateInv
<1>4. floor <= floor'
  BY <1>1, <1>3, SMTT(30)
<1>5. CASE Stops(t) /\ sent \subseteq sent'
  <2>1. Alone(t) /\ ThreadInv(t, th[t])'
    BY <1>5, GoesAlone, IdleFacts, EndedInv DEF Stops
  <2> QED
    BY <1>1, <1>3, <1>4, <1>5, <2>1, MoveKeeps
<1>6. CASE PageIntact(t) /\ sent' = sent \cup events /\ Goes(t, v)
  <2>1. Alone(t) /\ th'[t] = v
    BY <1>6, GoesAlone
  <2>2. /\ v.pc = "acks" /\ DOMAIN v = Fields /\ v.tok = NextToken(t) /\ v.through = th[t].through
        /\ v.snap = th[t].snap
    BY <1>3, SMTT(30) DEF Fields
  <2> HIDE DEF v
  <2>3. /\ NextToken(t) \in Tokens /\ (NextToken(t).lsn <= Len(hist) \/ NextToken(t) = th[t].tok)
        /\ \A l \in (th[t].tok.lsn + 1)..NextToken(t).lsn : l \in th[t].page[1]..th[t].page[2]
    BY <1>1, <1>6, PageFacts
  <2>4. TypedInv(t, th[t])'
    <3>1. th[t].tok.lsn <= Len(hist)
      BY <1>1, <1>3 DEF TypedInv
    <3> QED
      BY <1>2, <1>3, <2>1, <2>2, <2>3, <3>1 DEF TypedInv
  <2>5. ASSUME ~overtaken PROVE SentUpTo(hist, th[t].snap, NextToken(t).lsn, sent')
    <3> SUFFICES ASSUME NEW l \in (th[t].snap.since.lsn + 1)..NextToken(t).lsn,
                        IsEvent(hist, th[t].snap.filter, l)
                 PROVE  <<th[t].snap.created_at, l>> \in sent'
      BY DEF SentUpTo
    <3>1. /\ th[t].snap.since.lsn \in Nat /\ NextToken(t).lsn \in Nat
          /\ SentUpTo(hist, th[t].snap, th[t].tok.lsn, sent)
      BY <1>1, <1>3, <2>3, <2>5 DEF PushInv, Tokens
    <3>2. l \in (th[t].snap.since.lsn + 1)..th[t].tok.lsn \/ l \in (th[t].tok.lsn + 1)..NextToken(t).lsn
      BY <1>3, <3>1, SMTT(30)
    <3>3. CASE l \in (th[t].snap.since.lsn + 1)..th[t].tok.lsn
      BY <1>6, <3>1, <3>3 DEF SentUpTo
    <3>4. CASE l \in (th[t].tok.lsn + 1)..NextToken(t).lsn
      <4>1. l \in Events(t)
        BY <2>3, <3>4 DEF Events, Matching, RowsOf, IsEvent
      <4> QED
        BY <1>6, <4>1
    <3> QED
      BY <3>2, <3>3, <3>4
  <2>6. PushInv(t, th[t])'
    <3>1. CASE overtaken
      <4>1. overtaken'
        BY <1>2, <3>1, SMTT(30)
      <4> QED
        BY <4>1 DEF PushInv
    <3>2. CASE ~overtaken
      BY <1>1, <1>2, <1>3, <2>1, <2>2, <2>5, <3>2 DEF PushInv
    <3> QED
      BY <3>1, <3>2
  <2>7. AckInv(t, th[t])' /\ ViewInv(t, th[t])' /\ WriteInv(t, th[t])'
    BY <1>1, <1>2, <2>1, <2>2 DEF AckInv, ViewInv, WriteInv
  <2>8. ThreadInv(t, th[t])'
    BY <2>4, <2>6, <2>7 DEF ThreadInv
  <2> QED
    BY <1>1, <1>3, <1>4, <1>6, <2>1, <2>8, MoveKeeps
<1>7. \/ PageIntact(t) /\ sent' = sent \cup events /\ Goes(t, v)
      \/ Stops(t) /\ sent \subseteq sent'
  <2> HIDE DEF v
  <2> QED
    BY DEF PushSend, v
<1> QED
  BY <1>5, <1>6, <1>7

LEMMA AckReadKeeps ==
    ASSUME CdcInv, NEW t \in Threads, AckRead(t)
    PROVE  CdcInv'
<1> DEFINE v == [th[t] EXCEPT !.pc = "ack", !.snap = db.sub]
<1>1. /\ start.call[t] = "push" /\ th[t].pc = "acks" /\ OnlyReads
      /\ \/ Stops(t)
         \/ Goes(t, v) /\ db.sub # None /\ th[t].who \in {Root, db.sub.owner}
            /\ Advances(db.sub.last_ack, th[t].tok)
  BY DEF AckRead, Runs, Stops
<1>2. CASE /\ Goes(t, v) /\ db.sub # None /\ th[t].who \in {Root, db.sub.owner}
           /\ Advances(db.sub.last_ack, th[t].tok)
  <2>1. /\ DOMAIN th[t] = Fields /\ th[t].tok \in Tokens /\ th[t].through \in Int
        /\ TypedInv(t, th[t]) /\ PushInv(t, th[t]) /\ db.sub.since \in Tokens
    BY <1>2, ThreadFacts, RowFacts DEF CdcInv
  <2>2. /\ v.pc = "ack" /\ DOMAIN v = Fields /\ v.tok = th[t].tok /\ v.through = th[t].through
        /\ v.snap = db.sub /\ v.who = th[t].who
    BY <2>1, SMTT(30) DEF Fields
  <2> HIDE DEF v
  <2>3. TypedInv(t, v)
    BY <1>1, <2>1, <2>2 DEF TypedInv
  <2>4. PushInv(t, v)
    BY <1>1, <2>1, <2>2 DEF PushInv, SentUpTo
  <2>5. AckInv(t, v) /\ ViewInv(t, v) /\ WriteInv(t, v)
    BY <1>1, <1>2, <2>2 DEF AckInv, ViewInv, WriteInv
  <2> QED
    BY <1>1, <1>2, <2>3, <2>4, <2>5, ReadKeeps DEF ThreadInv
<1> QED
  BY <1>1, <1>2, StopKeeps

(* The cursors of a call, and the row it has read. *)
LEMMA CursorFacts ==
    ASSUME CdcInv, NEW t \in Threads, th[t].pc # "idle", start.call[t] # "feed"
    PROVE  /\ th[t].tok \in Tokens /\ Len(hist) \in Nat /\ th[t].tok.lsn \in Nat
           /\ th[t].tok.lsn < Len(hist) + 1 /\ Len(hist) + 1 \in 1..(Len(hist) + 1)
           /\ db.sub # None =>
                 /\ DOMAIN db.sub = {"owner", "filter", "last_ack", "since", "created_at"}
                 /\ db.sub.last_ack \in Tokens /\ db.sub.last_ack.lsn < Len(hist) + 1
                 /\ db.sub.since \in Tokens /\ db.sub.created_at \in 1..(Len(hist) + 1)
           /\ db.query # None =>
                 /\ DOMAIN db.query = {"last_ack", "created_at"}
                 /\ db.query.last_ack \in Tokens /\ db.query.created_at \in 1..(Len(hist) + 1)
<1>1. th[t].tok \in Tokens /\ Len(hist) \in Nat /\ th[t].tok.lsn \in Nat /\ th[t].tok.lsn <= Len(hist)
  BY ThreadFacts DEF TypedInv
<1>2. \A n \in 1..Len(hist) : n \in 1..(Len(hist) + 1)
  BY <1>1, SMTT(30)
<1>3. \A n \in Nat : n < Len(hist) => n < Len(hist) + 1
  BY <1>1, SMTT(30)
<1>4. th[t].tok.lsn < Len(hist) + 1 /\ Len(hist) + 1 \in 1..(Len(hist) + 1)
  BY <1>1, SMTT(30)
<1>5. db.sub # None =>
         /\ DOMAIN db.sub = {"owner", "filter", "last_ack", "since", "created_at"}
         /\ db.sub.last_ack \in Tokens /\ db.sub.last_ack.lsn \in Nat /\ db.sub.last_ack.lsn < Len(hist)
         /\ db.sub.since \in Tokens /\ db.sub.created_at \in 1..Len(hist)
  BY RowFacts DEF CdcInv, Tokens
<1>6. db.query # None =>
         /\ DOMAIN db.query = {"last_ack", "created_at"}
         /\ db.query.last_ack \in Tokens /\ db.query.created_at \in 1..Len(hist)
  BY RowFacts DEF CdcInv
<1> QED
  BY <1>1, <1>2, <1>3, <1>4, <1>5, <1>6

(* A commit that changes the row of the subscription, and not what it is for. *)
LEMMA KeepsSub ==
    ASSUME CdcInv, NEW w, Commit(w), Recorded(w, Len(hist) + 1), "sub" \in DOMAIN w,
           UNCHANGED <<start, floor>>, sent \subseteq sent', overtaken => overtaken',
           w.sub.created_at = db.sub.created_at, w.sub.filter = db.sub.filter,
           w.sub.since = db.sub.since
    PROVE  SameSub
<1>1. db'.sub = w.sub
  <2>1. \A c \in Tables \ {"rows"} : c \in DOMAIN w => db'[c] = w[c]
    BY CommitFacts
  <2> QED
    BY <2>1 DEF Tables
<1> QED
  BY <1>1 DEF SameSub

LEMMA AckWriteKeeps ==
    ASSUME CdcInv, NEW t \in Threads, AckWrite(t)
    PROVE  CdcInv'
<1> DEFINE s == [th[t].snap EXCEPT !.last_ack = th[t].tok]
           w == [sub |-> s]
<1>1. /\ start.call[t] = "push" /\ th[t].pc = "ack" /\ Stops(t)
      /\ UNCHANGED <<floor, start, recovery, feeds, owed>>
      /\ (db.sub = th[t].snap /\ Commit(w)) \/ NoCommit
  BY DEF AckWrite, Runs, SubUnchanged
<1>2. CASE db.sub = th[t].snap /\ Commit(w)
  <2>1. db.sub # None /\ AckInv(t, th[t]) /\ PushInv(t, th[t])
    BY <1>1, <1>2, ThreadFacts DEF AckInv
  <2>2. /\ th[t].tok \in Tokens /\ th[t].tok.lsn < Len(hist) + 1
        /\ DOMAIN db.sub = {"owner", "filter", "last_ack", "since", "created_at"}
        /\ db.sub.since \in Tokens /\ db.sub.created_at \in 1..(Len(hist) + 1)
    BY <1>1, <2>1, CursorFacts
  <2>3. /\ DOMAIN s = {"owner", "filter", "last_ack", "since", "created_at"} /\ s.last_ack = th[t].tok
        /\ s.since = db.sub.since /\ s.filter = db.sub.filter /\ s.created_at = db.sub.created_at
    BY <1>2, <2>2, SMTT(30)
  <2> HIDE DEF s
  <2>4. DOMAIN w = {"sub"} /\ w.sub = s
    BY SMTT(30)
  <2> HIDE DEF w
  <2>5. Recorded(w, Len(hist) + 1)
    BY <2>2, <2>3, <2>4, TableNames DEF Recorded, Tables
  <2>6. UNCHANGED <<floor, start, recovery, client, owed>> /\ sent \subseteq sent' /\ (overtaken => overtaken')
    BY <1>1, SMTT(30) DEF feeds
  <2>7. SameSub
    BY <1>2, <2>3, <2>4, <2>5, <2>6, KeepsSub
  <2>8. overtaken' \/ SentUpTo(hist, w.sub, w.sub.last_ack.lsn, sent')
    BY <1>1, <1>2, <2>1, <2>3, <2>4, <2>6 DEF PushInv, SentUpTo
  <2> QED
    BY <1>1, <1>2, <2>4, <2>5, <2>6, <2>7, <2>8, LastCommit
<1> QED
  BY <1>1, <1>2, StopKeeps DEF OnlyReads

LEMMA TokenFacts ==
    ASSUME NEW tl \in Timelines, NEW n \in Nat
    PROVE  Token(tl, n) \in Tokens /\ Token(tl, n).lsn = n
  BY SMTT(30) DEF Token, Tokens

(* A call that has read rows and not checked them. *)
LEMMA PlainInv ==
    ASSUME NEW t, NEW v, DOMAIN v = Fields, v.tok \in Tokens, v.tok.lsn <= Len(hist), v.through \in Int,
           v.pc \notin {"paged", "ack"}, start.call[t] \notin {"push", "create_view", "refresh", "write"},
           start.call[t] = "ack_query" /\ v.pc = "sub" => v.state # None,
           start.call[t] = "adopt" /\ v.pc = "write" => v.snap # None
    PROVE  ThreadInv(t, v)
  BY DEF ThreadInv, TypedInv, PushInv, AckInv, ViewInv, WriteInv

LEMMA CreateSubReadKeeps ==
    ASSUME CdcInv, NEW t \in Threads, CreateSubRead(t)
    PROVE  CdcInv'
<1>1. Len(hist) \in Nat /\ timeline \in Timelines
  BY ThreadFacts
<1>2. PICK who, lsn :
         /\ lsn \in {0, Len(hist)}
         /\ Goes(t, [Idle EXCEPT !.pc = "write", !.who = who, !.tok = Token(timeline, lsn),
                                 !.snap = db.sub])
  BY DEF CreateSubRead, current_lsn
<1>3. start.call[t] = "create_sub" /\ OnlyReads
  BY DEF CreateSubRead, Runs
<1> DEFINE v == [Idle EXCEPT !.pc = "write", !.who = who, !.tok = Token(timeline, lsn), !.snap = db.sub]
<1>4. v.pc = "write" /\ DOMAIN v = Fields /\ v.tok = Token(timeline, lsn) /\ v.through \in Int
  BY IdleFacts, SMTT(30) DEF Fields
<1>5. Goes(t, v)
  BY <1>2
<1> HIDE DEF v
<1>6. lsn \in Nat /\ lsn <= Len(hist)
  BY <1>1, <1>2, SMTT(30)
<1>7. v.tok \in Tokens /\ v.tok.lsn <= Len(hist)
  BY <1>1, <1>4, <1>6, TokenFacts
<1>8. ThreadInv(t, v)
  BY <1>3, <1>4, <1>7, PlainInv
<1> QED
  BY <1>3, <1>5, <1>8, ReadKeeps

(* A commit that says anew what the subscription is for: what is sent starts
   over at its cursor, and pushes under way are overtaken. *)
LEMMA NewSubKeeps ==
    ASSUME CdcInv, NEW t \in Threads, NEW w, Commit(w), "sub" \in DOMAIN w, Recorded(w, Len(hist) + 1),
           start.call[t] # "write", Stops(t), UNCHANGED <<floor, start, recovery, client, sent, owed>>,
           overtaken' = (overtaken \/ Pushing), w.sub.since = w.sub.last_ack,
           "deliveries" \notin DOMAIN w, "failures" \notin DOMAIN w
    PROVE  CdcInv'
<1>1. (overtaken => overtaken') /\ (Pushing => overtaken')
  BY DEF Pushing
<1>2. overtaken' \/ \A u \in Threads \ {t} : start.call[u] # "push" \/ th[u].pc = "idle"
  BY <1>1 DEF Pushing
<1>3. SentUpTo(hist, w.sub, w.sub.last_ack.lsn, sent')
  <2>1. w.sub.since.lsn \in Nat
    BY DEF Recorded, Tokens
  <2>2. (w.sub.since.lsn + 1)..w.sub.since.lsn = {}
    BY <2>1, SMTT(30)
  <2> QED
    BY <2>2 DEF SentUpTo
<1>4. sent \subseteq sent' /\ UNCHANGED <<floor, start, recovery, client, owed>>
  OBVIOUS
<1> QED
  BY <1>1, <1>2, <1>3, <1>4, LastCommit

LEMMA CreateSubWriteKeeps ==
    ASSUME CdcInv, NEW t \in Threads, CreateSubWrite(t)
    PROVE  CdcInv'
<1>1. /\ start.call[t] = "create_sub" /\ th[t].pc = "write" /\ Stops(t)
      /\ UNCHANGED <<floor, start, recovery, client, sent, owed>>
  BY DEF CreateSubWrite, Runs
<1>2. ASSUME NEW filter,
             Commit([sub |-> [owner |-> th[t].who, filter |-> filter, last_ack |-> th[t].tok,
                              since |-> th[t].tok, created_at |-> Len(hist) + 1]]),
             overtaken' = (overtaken \/ Pushing)
      PROVE  CdcInv'
  <2> DEFINE s == [owner |-> th[t].who, filter |-> filter, last_ack |-> th[t].tok,
                   since |-> th[t].tok, created_at |-> Len(hist) + 1]
             w == [sub |-> s]
  <2>1. /\ DOMAIN s = {"owner", "filter", "last_ack", "since", "created_at"} /\ s.last_ack = th[t].tok
        /\ s.since = th[t].tok /\ s.created_at = Len(hist) + 1
    BY SMTT(30)
  <2>2. Commit(w)
    BY <1>2
  <2> HIDE DEF s
  <2>3. DOMAIN w = {"sub"} /\ w.sub = s
    BY SMTT(30)
  <2> HIDE DEF w
  <2>4. /\ th[t].tok \in Tokens /\ th[t].tok.lsn < Len(hist) + 1 /\ Len(hist) + 1 \in 1..(Len(hist) + 1)
    BY <1>1, CursorFacts
  <2>5. Recorded(w, Len(hist) + 1)
    BY <2>1, <2>3, <2>4, TableNames DEF Recorded, Tables
  <2> QED
    BY <1>1, <1>2, <2>1, <2>2, <2>3, <2>5, NewSubKeeps
<1>3. CASE NoCommit /\ UNCHANGED overtaken
  BY <1>1, <1>3, StopKeeps DEF OnlyReads, feeds
<1> QED
  BY <1>2, <1>3 DEF CreateSubWrite, current_lsn

LEMMA AdoptReadKeeps ==
    ASSUME CdcInv, NEW t \in Threads, AdoptRead(t)
    PROVE  CdcInv'
<1>1. PICK owner : Goes(t, [Idle EXCEPT !.pc = "write", !.who = owner, !.snap = db.sub])
  BY DEF AdoptRead
<1> DEFINE v == [Idle EXCEPT !.pc = "write", !.who = owner, !.snap = db.sub]
<1>2. start.call[t] = "adopt" /\ OnlyReads /\ db.sub # None /\ Goes(t, v)
  BY <1>1 DEF AdoptRead, Runs
<1>3. v.pc = "write" /\ DOMAIN v = Fields /\ v.tok = Idle.tok /\ v.through = Idle.through /\ v.snap = db.sub
  BY IdleFacts, SMTT(30) DEF Fields
<1> HIDE DEF v
<1>4. 0 <= Len(hist)
  <2>1. Len(hist) \in Nat
    BY ThreadFacts
  <2> QED
    BY <2>1, SMTT(30)
<1>5. ThreadInv(t, v)
  BY <1>2, <1>3, <1>4, IdleFacts, PlainInv
<1> QED
  BY <1>2, <1>5, ReadKeeps

LEMMA AdoptWriteKeeps ==
    ASSUME CdcInv, NEW t \in Threads, AdoptWrite(t)
    PROVE  CdcInv'
<1> DEFINE s == [th[t].snap EXCEPT !.owner = th[t].who]
           w == [sub |-> s]
<1>1. /\ start.call[t] = "adopt" /\ th[t].pc = "write" /\ Stops(t)
      /\ UNCHANGED <<floor, start, recovery, feeds, owed>>
      /\ (db.sub = th[t].snap /\ Commit(w)) \/ NoCommit
  BY DEF AdoptWrite, Runs
<1>2. CASE db.sub = th[t].snap /\ Commit(w)
  <2>1. db.sub # None
    BY <1>1, <1>2, ThreadFacts DEF AckInv
  <2>2. /\ DOMAIN db.sub = {"owner", "filter", "last_ack", "since", "created_at"}
        /\ db.sub.last_ack \in Tokens /\ db.sub.last_ack.lsn < Len(hist) + 1
        /\ db.sub.since \in Tokens /\ db.sub.created_at \in 1..(Len(hist) + 1)
    BY <1>1, <2>1, CursorFacts
  <2>3. /\ DOMAIN s = {"owner", "filter", "last_ack", "since", "created_at"} /\ s.last_ack = db.sub.last_ack
        /\ s.since = db.sub.since /\ s.filter = db.sub.filter /\ s.created_at = db.sub.created_at
    BY <1>2, <2>2, SMTT(30)
  <2> HIDE DEF s
  <2>4. DOMAIN w = {"sub"} /\ w.sub = s
    BY SMTT(30)
  <2> HIDE DEF w
  <2>5. Recorded(w, Len(hist) + 1)
    BY <2>2, <2>3, <2>4, TableNames DEF Recorded, Tables
  <2>6. UNCHANGED <<floor, start, recovery, client, owed>> /\ sent' = sent /\ (overtaken => overtaken')
    BY <1>1, SMTT(30) DEF feeds
  <2>7. SameSub
    BY <1>2, <2>3, <2>4, <2>5, <2>6, KeepsSub
  <2>8. overtaken' \/ SentUpTo(hist, w.sub, w.sub.last_ack.lsn, sent')
    BY <2>1, <2>3, <2>4, <2>6, SubSent DEF SentUpTo
  <2> QED
    BY <1>1, <1>2, <2>4, <2>5, <2>6, <2>7, <2>8, LastCommit
<1> QED
  BY <1>1, <1>2, StopKeeps DEF OnlyReads

-----------------------------------------------------------------------------
(* Continuous queries.                                                     *)

LEMMA ApplyQueryReadKeeps ==
    ASSUME CdcInv, NEW t \in Threads, ApplyQueryRead(t)
    PROVE  CdcInv'
<1>1. PICK who : Goes(t, [Idle EXCEPT !.pc = "sub", !.who = who, !.state = db.query])
  BY DEF ApplyQueryRead
<1> DEFINE v == [Idle EXCEPT !.pc = "sub", !.who = who, !.state = db.query]
<1>2. start.call[t] = "apply_query" /\ OnlyReads /\ Goes(t, v)
  BY <1>1 DEF ApplyQueryRead, Runs
<1>3. v.pc = "sub" /\ DOMAIN v = Fields /\ v.tok = Idle.tok /\ v.through = Idle.through
  BY IdleFacts, SMTT(30) DEF Fields
<1> HIDE DEF v
<1>4. 0 <= Len(hist)
  <2>1. Len(hist) \in Nat
    BY ThreadFacts
  <2> QED
    BY <2>1, SMTT(30)
<1>5. ThreadInv(t, v)
  BY <1>2, <1>3, <1>4, IdleFacts, PlainInv
<1> QED
  BY <1>2, <1>5, ReadKeeps

LEMMA ApplyQuerySubKeeps ==
    ASSUME CdcInv, NEW t \in Threads, ApplyQuerySub(t)
    PROVE  CdcInv'
<1> DEFINE v == [th[t] EXCEPT !.pc = "write", !.snap = db.sub]
<1>1. start.call[t] = "apply_query" /\ th[t].pc = "sub" /\ OnlyReads /\ (Goes(t, v) \/ Stops(t))
  BY DEF ApplyQuerySub, Runs, Stops
<1>2. DOMAIN th[t] = Fields /\ th[t].tok \in Tokens /\ th[t].through \in Int /\ th[t].tok.lsn <= Len(hist)
  BY <1>1, ThreadFacts DEF TypedInv
<1>3. v.pc = "write" /\ DOMAIN v = Fields /\ v.tok = th[t].tok /\ v.through = th[t].through
  BY <1>2, SMTT(30) DEF Fields
<1> HIDE DEF v
<1>4. ThreadInv(t, v)
  BY <1>1, <1>2, <1>3, PlainInv
<1> QED
  BY <1>1, <1>4, ReadKeeps, StopKeeps

(* Both rows of a query that is applied again are well formed. *)
LEMMA ReappliedFacts ==
    ASSUME CdcInv, NEW t \in Threads, start.call[t] = "apply_query", th[t].pc = "write",
           BothUnchanged(t), NEW filter
    PROVE  /\ DOMAIN Reapplied(t, filter) = {"query", "sub"}
           /\ Reapplied(t, filter).sub.since = Reapplied(t, filter).sub.last_ack
           /\ Recorded(Reapplied(t, filter), Len(hist) + 1)
<1> DEFINE q == Reapplied(t, filter).query
           s == Reapplied(t, filter).sub
<1>1. /\ th[t].tok.lsn < Len(hist) + 1 /\ Len(hist) + 1 \in 1..(Len(hist) + 1) /\ Len(hist) \in Nat
      /\ th[t].snap # None =>
            /\ DOMAIN th[t].snap = {"owner", "filter", "last_ack", "since", "created_at"}
            /\ th[t].snap.last_ack \in Tokens /\ th[t].snap.last_ack.lsn < Len(hist) + 1
            /\ th[t].snap.created_at \in 1..(Len(hist) + 1)
      /\ th[t].state # None =>
            /\ DOMAIN th[t].state = {"last_ack", "created_at"}
            /\ th[t].state.last_ack \in Tokens /\ th[t].state.created_at \in 1..(Len(hist) + 1)
  BY CursorFacts DEF BothUnchanged
<1>2. DefaultToken \in Tokens /\ DefaultToken.lsn < Len(hist) + 1
  BY <1>1, SMTT(30) DEF DefaultToken, Token, Tokens, Timelines
<1>3. DOMAIN Reapplied(t, filter) = {"query", "sub"}
  BY SMTT(30) DEF Reapplied
<1>4. /\ DOMAIN q = {"last_ack", "created_at"} /\ q.last_ack \in Tokens /\ q.created_at \in 1..(Len(hist) + 1)
  <2>1. CASE th[t].state = None
    <3>1. q = [last_ack |-> DefaultToken, created_at |-> Len(hist) + 1]
      BY <2>1, SMTT(30) DEF Reapplied, current_lsn
    <3> HIDE DEF q
    <3>2. DOMAIN q = {"last_ack", "created_at"} /\ q.last_ack = DefaultToken /\ q.created_at = Len(hist) + 1
      BY <3>1, SMTT(30)
    <3> QED
      BY <1>1, <1>2, <3>2
  <2>2. CASE th[t].state # None
    <3>1. q = th[t].state
      BY <2>2, SMTT(30) DEF Reapplied
    <3> HIDE DEF q
    <3> QED
      BY <1>1, <2>2, <3>1
  <2> QED
    BY <2>1, <2>2
<1>5. /\ DOMAIN s = {"owner", "filter", "last_ack", "since", "created_at"} /\ s.since = s.last_ack
      /\ s.last_ack \in Tokens /\ s.last_ack.lsn < Len(hist) + 1 /\ s.created_at \in 1..(Len(hist) + 1)
  <2>1. CASE th[t].snap = None
    <3>1. s = [owner |-> th[t].who, filter |-> filter, last_ack |-> DefaultToken,
               since |-> DefaultToken, created_at |-> Len(hist) + 1]
      BY <2>1, SMTT(30) DEF Reapplied, current_lsn
    <3> HIDE DEF s
    <3>2. /\ DOMAIN s = {"owner", "filter", "last_ack", "since", "created_at"}
          /\ s.last_ack = DefaultToken /\ s.since = DefaultToken /\ s.created_at = Len(hist) + 1
      BY <3>1, SMTT(30)
    <3> QED
      BY <1>1, <1>2, <3>2
  <2>2. CASE th[t].snap # None
    <3>1. s = [th[t].snap EXCEPT !.filter = filter, !.since = th[t].snap.last_ack]
      BY <2>2, SMTT(30) DEF Reapplied
    <3> HIDE DEF s
    <3>2. /\ DOMAIN s = {"owner", "filter", "last_ack", "since", "created_at"}
          /\ s.last_ack = th[t].snap.last_ack /\ s.since = th[t].snap.last_ack
          /\ s.created_at = th[t].snap.created_at
      BY <1>1, <2>2, <3>1, SMTT(30)
    <3> QED
      BY <1>1, <2>2, <3>2
  <2> QED
    BY <2>1, <2>2
<1> QED
  BY <1>3, <1>4, <1>5, TableNames DEF Recorded, Tables

LEMMA ApplyQueryWriteKeeps ==
    ASSUME CdcInv, NEW t \in Threads, ApplyQueryWrite(t)
    PROVE  CdcInv'
<1>1. /\ start.call[t] = "apply_query" /\ th[t].pc = "write" /\ Stops(t)
      /\ UNCHANGED <<floor, start, recovery, client, sent, owed>>
  BY DEF ApplyQueryWrite, Runs
<1>2. ASSUME BothUnchanged(t), NEW filter, Commit(Reapplied(t, filter)), overtaken' = (overtaken \/ Pushing)
      PROVE  CdcInv'
  <2> DEFINE w == Reapplied(t, filter)
  <2>1. /\ DOMAIN w = {"query", "sub"} /\ w.sub.since = w.sub.last_ack
        /\ Recorded(w, Len(hist) + 1) /\ Commit(w)
    BY <1>1, <1>2, ReappliedFacts
  <2> HIDE DEF w
  <2> QED
    BY <1>1, <1>2, <2>1, NewSubKeeps
<1>3. CASE NoCommit /\ UNCHANGED overtaken
  BY <1>1, <1>3, StopKeeps DEF OnlyReads, feeds
<1> QED
  BY <1>2, <1>3 DEF ApplyQueryWrite

(* A commit of a call of one step that writes no subscription, or of the last
   step of a call. *)
LEMMA OtherCommit ==
    ASSUME CdcInv, NEW t \in Threads, NEW w, Commit(w), Recorded(w, Len(hist) + 1),
           start.call[t] # "write", Stops(t) \/ (th' = th /\ th[t].pc = "idle"),
           UNCHANGED <<floor, start, recovery, feeds, owed>>, DOMAIN w \cap {"sub", "deliveries", "failures"} = {}
    PROVE  CdcInv'
<1>1. UNCHANGED <<floor, start, recovery, client, owed>> /\ sent \subseteq sent' /\ (overtaken => overtaken')
  BY SMTT(30) DEF feeds
<1>2. "sub" \notin DOMAIN w /\ "deliveries" \notin DOMAIN w /\ "failures" \notin DOMAIN w
  OBVIOUS
<1> QED
  BY <1>1, <1>2, LastCommit

LEMMA CreateQueryKeeps ==
    ASSUME CdcInv, NEW t \in Threads, CreateQuery(t)
    PROVE  CdcInv'
<1> DEFINE q == [last_ack |-> DefaultToken, created_at |-> Len(hist) + 1]
           w == [query |-> q]
<1>1. /\ start.call[t] = "apply_query" /\ th[t].pc = "idle" /\ th' = th /\ Commit(w)
      /\ UNCHANGED <<floor, start, recovery, feeds, owed>>
  BY DEF CreateQuery, Runs, current_lsn
<1>2. DOMAIN q = {"last_ack", "created_at"} /\ q.last_ack = DefaultToken /\ q.created_at = Len(hist) + 1
  BY SMTT(30)
<1> HIDE DEF q
<1>3. DOMAIN w = {"query"} /\ w.query = q
  BY SMTT(30)
<1> HIDE DEF w
<1>4. DefaultToken \in Tokens /\ Len(hist) + 1 \in 1..(Len(hist) + 1)
  <2>1. Len(hist) \in Nat
    BY ThreadFacts
  <2> QED
    BY <2>1, SMTT(30) DEF DefaultToken, Token, Tokens, Timelines
<1>5. Recorded(w, Len(hist) + 1)
  BY <1>2, <1>3, <1>4, TableNames DEF Recorded, Tables
<1> QED
  BY <1>1, <1>3, <1>5, OtherCommit

LEMMA AckQueryReadKeeps ==
    ASSUME CdcInv, NEW t \in Threads, AckQueryRead(t)
    PROVE  CdcInv'
<1>1. Len(hist) \in Nat /\ timeline \in Timelines
  BY ThreadFacts
<1>2. PICK who, lsn :
         /\ lsn \in 0..Len(hist)
         /\ Goes(t, [Idle EXCEPT !.pc = "sub", !.who = who, !.tok = Token(timeline, lsn),
                                 !.state = db.query])
  BY DEF AckQueryRead, current_lsn
<1> DEFINE v == [Idle EXCEPT !.pc = "sub", !.who = who, !.tok = Token(timeline, lsn), !.state = db.query]
<1>3. start.call[t] = "ack_query" /\ db.query # None /\ OnlyReads /\ Goes(t, v)
  BY <1>2 DEF AckQueryRead, Runs
<1>4. /\ v.pc = "sub" /\ DOMAIN v = Fields /\ v.tok = Token(timeline, lsn) /\ v.through \in Int
      /\ v.state = db.query
  BY IdleFacts, SMTT(30) DEF Fields
<1> HIDE DEF v
<1>5. lsn \in Nat /\ lsn <= Len(hist)
  BY <1>1, <1>2, SMTT(30)
<1>6. v.tok \in Tokens /\ v.tok.lsn <= Len(hist)
  BY <1>1, <1>4, <1>5, TokenFacts
<1>7. ThreadInv(t, v)
  BY <1>3, <1>4, <1>6, PlainInv
<1> QED
  BY <1>3, <1>7, ReadKeeps

LEMMA AckQuerySubKeeps ==
    ASSUME CdcInv, NEW t \in Threads, AckQuerySub(t)
    PROVE  CdcInv'
<1> DEFINE v == [th[t] EXCEPT !.pc = "ack", !.snap = db.sub]
<1>1. /\ start.call[t] = "ack_query" /\ th[t].pc = "sub" /\ OnlyReads
      /\ \/ Stops(t)
         \/ /\ Goes(t, v) /\ db.sub # None /\ th[t].who \in {Root, db.sub.owner}
            /\ Advances(th[t].state.last_ack, th[t].tok) /\ Advances(db.sub.last_ack, th[t].tok)
  BY DEF AckQuerySub, Runs, Stops
<1>2. CASE /\ Goes(t, v) /\ db.sub # None /\ th[t].who \in {Root, db.sub.owner}
           /\ Advances(th[t].state.last_ack, th[t].tok) /\ Advances(db.sub.last_ack, th[t].tok)
  <2>1. /\ DOMAIN th[t] = Fields /\ th[t].tok \in Tokens /\ th[t].through \in Int
        /\ TypedInv(t, th[t]) /\ th[t].state # None
    BY <1>1, ThreadFacts DEF AckInv
  <2>2. /\ v.pc = "ack" /\ DOMAIN v = Fields /\ v.tok = th[t].tok /\ v.through = th[t].through
        /\ v.snap = db.sub /\ v.who = th[t].who /\ v.state = th[t].state
    BY <2>1, SMTT(30) DEF Fields
  <2> HIDE DEF v
  <2>3. TypedInv(t, v)
    BY <1>1, <2>1, <2>2 DEF TypedInv
  <2>4. PushInv(t, v) /\ AckInv(t, v) /\ ViewInv(t, v) /\ WriteInv(t, v)
    BY <1>1, <1>2, <2>1, <2>2 DEF PushInv, AckInv, ViewInv, WriteInv
  <2> QED
    BY <1>1, <1>2, <2>3, <2>4, ReadKeeps DEF ThreadInv
<1> QED
  BY <1>1, <1>2, StopKeeps

LEMMA AckQueryWriteKeeps ==
    ASSUME CdcInv, NEW t \in Threads, AckQueryWrite(t)
    PROVE  CdcInv'
<1> DEFINE q == [th[t].state EXCEPT !.last_ack = th[t].tok]
           s == [th[t].snap EXCEPT !.last_ack = th[t].tok]
           w == [query |-> q, sub |-> s]
           handled == {<<th[t].snap.created_at, l>> : l \in 1..th[t].tok.lsn}
<1>1. /\ start.call[t] = "ack_query" /\ th[t].pc = "ack" /\ Stops(t)
      /\ UNCHANGED <<floor, start, recovery, client, overtaken, owed>>
      /\ \/ BothUnchanged(t) /\ Commit(w) /\ sent' = sent \cup handled
         \/ NoCommit /\ UNCHANGED sent
  BY DEF AckQueryWrite, Runs
<1>2. CASE BothUnchanged(t) /\ Commit(w) /\ sent' = sent \cup handled
  <2>1. db.sub = th[t].snap /\ db.query = th[t].state /\ db.sub # None /\ db.query # None
    BY <1>1, <1>2, ThreadFacts DEF AckInv, BothUnchanged
  <2>2. /\ th[t].tok \in Tokens /\ th[t].tok.lsn \in Nat /\ th[t].tok.lsn < Len(hist) + 1
        /\ DOMAIN th[t].snap = {"owner", "filter", "last_ack", "since", "created_at"}
        /\ db.sub.since \in Tokens /\ db.sub.created_at \in 1..(Len(hist) + 1)
        /\ DOMAIN th[t].state = {"last_ack", "created_at"} /\ db.query.created_at \in 1..(Len(hist) + 1)
    BY <1>1, <2>1, CursorFacts
  <2>3. /\ DOMAIN s = {"owner", "filter", "last_ack", "since", "created_at"} /\ s.last_ack = th[t].tok
        /\ s.since = db.sub.since /\ s.filter = db.sub.filter /\ s.created_at = db.sub.created_at
    BY <2>1, <2>2, SMTT(30)
  <2>4. DOMAIN q = {"last_ack", "created_at"} /\ q.last_ack = th[t].tok /\ q.created_at = db.query.created_at
    BY <2>1, <2>2, SMTT(30)
  <2> HIDE DEF s, q
  <2>5. DOMAIN w = {"query", "sub"} /\ w.sub = s /\ w.query = q
    BY SMTT(30)
  <2> HIDE DEF w
  <2>6. Recorded(w, Len(hist) + 1)
    BY <2>2, <2>3, <2>4, <2>5, TableNames DEF Recorded, Tables
  <2>7. UNCHANGED <<floor, start, recovery, client, owed>> /\ sent \subseteq sent' /\ (overtaken => overtaken')
    <3>1. overtaken => overtaken'
      BY <1>1, SMTT(30)
    <3> QED
      BY <1>1, <1>2, <3>1
  <2>8. SameSub
    BY <1>2, <2>3, <2>5, <2>6, <2>7, KeepsSub
  <2>9. SentUpTo(hist, w.sub, w.sub.last_ack.lsn, sent')
    <3> SUFFICES ASSUME NEW l \in (s.since.lsn + 1)..s.last_ack.lsn PROVE <<s.created_at, l>> \in sent'
      BY <2>5 DEF SentUpTo
    <3>1. s.since.lsn \in Nat /\ s.last_ack.lsn \in Nat
      BY <2>2, <2>3 DEF Tokens
    <3>2. l \in 1..s.last_ack.lsn
      BY <3>1, SMTT(30)
    <3> QED
      BY <1>2, <2>1, <2>3, <3>2
  <2> QED
    BY <1>1, <1>2, <2>5, <2>6, <2>7, <2>8, <2>9, LastCommit
<1> QED
  BY <1>1, <1>2, StopKeeps DEF OnlyReads, feeds

LEMMA AckQueryOnlyKeeps ==
    ASSUME CdcInv, NEW t \in Threads, AckQueryOnly(t)
    PROVE  CdcInv'
<1>1. Len(hist) \in Nat /\ timeline \in Timelines
  BY ThreadFacts
<1>2. PICK lsn \in 0..Len(hist) : Commit([query |-> [db.query EXCEPT !.last_ack = Token(timeline, lsn)]])
  BY DEF AckQueryOnly, current_lsn
<1> DEFINE q == [db.query EXCEPT !.last_ack = Token(timeline, lsn)]
           w == [query |-> q]
<1>3. /\ start.call[t] = "ack_query" /\ th[t].pc = "idle" /\ th' = th /\ Commit(w) /\ db.query # None
      /\ UNCHANGED <<floor, start, recovery, feeds, owed>>
  BY <1>2 DEF AckQueryOnly, Runs
<1>4. DOMAIN db.query = {"last_ack", "created_at"} /\ db.query.created_at \in 1..Len(hist)
  BY <1>3, RowFacts DEF CdcInv
<1>5. /\ DOMAIN q = {"last_ack", "created_at"} /\ q.last_ack = Token(timeline, lsn)
      /\ q.created_at = db.query.created_at
  BY <1>4, SMTT(30)
<1> HIDE DEF q
<1>6. DOMAIN w = {"query"} /\ w.query = q
  BY SMTT(30)
<1> HIDE DEF w
<1>7. lsn \in Nat /\ db.query.created_at \in 1..(Len(hist) + 1)
  BY <1>1, <1>4, SMTT(30)
<1>8. Recorded(w, Len(hist) + 1)
  <2>1. Token(timeline, lsn) \in Tokens
    BY <1>1, <1>7, TokenFacts
  <2> QED
    BY <1>5, <1>6, <1>7, <2>1, TableNames DEF Recorded, Tables
<1> QED
  BY <1>3, <1>6, <1>8, OtherCommit

-----------------------------------------------------------------------------
(* Materialized views.                                                     *)

(* A call that reads a view, at v. *)
LEMMA ViewCall ==
    ASSUME CdcInv, NEW t \in Threads, NEW v, OnlyReads, Goes(t, v), TypedInv(t, v), ViewInv(t, v),
           v.pc # "ack", start.call[t] # "push", start.call[t] # "write", start.call[t] # "ack_query",
           start.call[t] # "adopt"
    PROVE  CdcInv'
<1>1. PushInv(t, v) /\ AckInv(t, v) /\ WriteInv(t, v)
  BY DEF PushInv, AckInv, WriteInv
<1> QED
  BY <1>1, ReadKeeps DEF ThreadInv

(* The spec of the view, with which both calls begin. *)
LEMMA ReadsSpec ==
    ASSUME CdcInv, NEW t \in Threads, start.call[t] = "create_view" \/ start.call[t] = "refresh", OnlyReads,
           NEW spec \in Specs, start.call[t] = "refresh" => spec = db.view.spec,
           Goes(t, [Idle EXCEPT !.pc = "state", !.who = spec, !.snap = <<db.view.spec>>])
    PROVE  CdcInv'
<1> DEFINE v == [Idle EXCEPT !.pc = "state", !.who = spec, !.snap = <<db.view.spec>>]
<1>1. /\ v.pc = "state" /\ DOMAIN v = Fields /\ v.tok = Idle.tok /\ v.through = Idle.through
      /\ v.who = spec /\ v.snap = <<db.view.spec>> /\ v.snap[1] = db.view.spec
  BY IdleFacts, SMTT(30) DEF Fields
<1>2. Goes(t, v)
  OBVIOUS
<1> HIDE DEF v
<1>3. 0 <= Len(hist)
  <2>1. Len(hist) \in Nat
    BY ThreadFacts
  <2> QED
    BY <2>1, SMTT(30)
<1>4. TypedInv(t, v)
  BY <1>1, <1>3, IdleFacts DEF TypedInv
<1>5. ViewInv(t, v)
  BY <1>1 DEF ViewInv, HasView
<1> QED
  BY <1>1, <1>2, <1>4, <1>5, ViewCall

LEMMA CreateViewSpecKeeps ==
    ASSUME CdcInv, NEW t \in Threads, CreateViewSpec(t)
    PROVE  CdcInv'
<1>1. PICK spec \in Specs : Goes(t, [Idle EXCEPT !.pc = "state", !.who = spec, !.snap = <<db.view.spec>>])
  BY DEF CreateViewSpec
<1>2. start.call[t] = "create_view" /\ OnlyReads
  BY DEF CreateViewSpec, Runs
<1> QED
  BY <1>1, <1>2, ReadsSpec

LEMMA RefreshSpecKeeps ==
    ASSUME CdcInv, NEW t \in Threads, RefreshSpec(t)
    PROVE  CdcInv'
<1>1. /\ start.call[t] = "refresh" /\ HasView /\ OnlyReads
      /\ Goes(t, [Idle EXCEPT !.pc = "state", !.who = db.view.spec, !.snap = <<db.view.spec>>])
  BY DEF RefreshSpec, Runs
<1>2. db.view.spec \in Specs
  BY <1>1, RowFacts DEF CdcInv
<1> QED
  BY <1>1, <1>2, ReadsSpec

(* The state of the view, which may be newer than the spec that was read. *)
LEMMA StateFacts ==
    ASSUME CdcInv, NEW t \in Threads, start.call[t] \in {"create_view", "refresh"}, th[t].pc = "state"
    PROVE  /\ th[t].who \in Specs /\ (start.call[t] = "refresh" => th[t].who = th[t].snap[1])
           /\ Append(th[t].snap, db.view.state)[1] = th[t].snap[1]
           /\ Append(th[t].snap, db.view.state)[2] = db.view.state
           /\ th[t].snap[1] # None =>
                 db.view.state.fresh_to_lsn \in Nat /\ db.view.state.fresh_to_lsn <= Len(hist)
<1>1. ViewInv(t, th[t]) /\ Len(hist) \in Nat
  BY ThreadFacts
<1>2. /\ th[t].who \in Specs /\ (start.call[t] = "refresh" => th[t].who = th[t].snap[1])
      /\ th[t].snap = <<th[t].snap[1]>> /\ (th[t].snap[1] # None => HasView)
  BY <1>1 DEF ViewInv
<1>3. /\ Append(<<th[t].snap[1]>>, db.view.state)[1] = th[t].snap[1]
      /\ Append(<<th[t].snap[1]>>, db.view.state)[2] = db.view.state
  BY SMTT(30)
<1>4. th[t].snap[1] # None =>
         db.view.state.fresh_to_lsn \in Nat /\ db.view.state.fresh_to_lsn < Len(hist)
  BY <1>2, RowFacts DEF CdcInv
<1>5. th[t].snap[1] # None =>
         db.view.state.fresh_to_lsn \in Nat /\ db.view.state.fresh_to_lsn <= Len(hist)
  BY <1>1, <1>4, SMTT(30)
<1> QED
  BY <1>2, <1>3, <1>5

LEMMA CreateViewStartKeeps ==
    ASSUME CdcInv, NEW t \in Threads, CreateViewStart(t)
    PROVE  CdcInv'
<1> DEFINE lsn == IF floor > 1 THEN Len(hist) ELSE 0
           v == [th[t] EXCEPT !.pc = IF floor > 1 THEN "seed" ELSE "apply",
                              !.snap = Append(@, db.view.state), !.tok = Token(timeline, lsn),
                              !.state = EmptyState]
<1>1. start.call[t] = "create_view" /\ th[t].pc = "state" /\ OnlyReads /\ Goes(t, v)
  BY DEF CreateViewStart, Runs, current_lsn
<1>2. DOMAIN th[t] = Fields /\ th[t].through \in Int /\ timeline \in Timelines /\ Len(hist) \in Nat
  BY ThreadFacts
<1>3. lsn \in Nat /\ lsn <= Len(hist)
  BY <1>2, SMTT(30)
<1> HIDE DEF lsn
<1>4. /\ v.pc \in {"seed", "apply"} /\ DOMAIN v = Fields /\ v.tok = Token(timeline, lsn)
      /\ v.through = th[t].through /\ v.who = th[t].who /\ v.snap = Append(th[t].snap, db.view.state)
  BY <1>2, SMTT(30) DEF Fields
<1> HIDE DEF v
<1>5. v.tok \in Tokens /\ v.tok.lsn <= Len(hist)
  BY <1>2, <1>3, <1>4, TokenFacts
<1>6. TypedInv(t, v)
  BY <1>2, <1>4, <1>5 DEF TypedInv
<1>7. /\ v.who \in Specs
      /\ v.snap[1] # None => v.snap[2].fresh_to_lsn \in Nat /\ v.snap[2].fresh_to_lsn <= Len(hist)
  BY <1>1, <1>4, StateFacts
<1>8. ViewInv(t, v)
  BY <1>1, <1>4, <1>7 DEF ViewInv
<1>9. v.pc # "ack"
  BY <1>4
<1> QED
  BY <1>1, <1>6, <1>8, <1>9, ViewCall

LEMMA CreateViewSeedKeeps ==
    ASSUME CdcInv, NEW t \in Threads, CreateViewSeed(t)
    PROVE  CdcInv'
<1> DEFINE v == [th[t] EXCEPT !.pc = "apply", !.state = seed_view_from_source_rows(th[t].who, db.rows)]
<1>1. start.call[t] = "create_view" /\ th[t].pc = "seed" /\ OnlyReads /\ Goes(t, v)
  BY DEF CreateViewSeed, Runs
<1>2. /\ DOMAIN th[t] = Fields /\ TypedInv(t, th[t]) /\ ViewInv(t, th[t])
  BY ThreadFacts
<1>3. /\ v.pc = "apply" /\ DOMAIN v = Fields /\ v.tok = th[t].tok
      /\ v.through = th[t].through /\ v.who = th[t].who /\ v.snap = th[t].snap
  BY <1>2, SMTT(30) DEF Fields
<1> HIDE DEF v
<1>4. TypedInv(t, v)
  BY <1>1, <1>2, <1>3 DEF TypedInv
<1>5. ViewInv(t, v)
  BY <1>1, <1>2, <1>3 DEF ViewInv
<1> QED
  BY <1>1, <1>3, <1>4, <1>5, ViewCall

LEMMA RefreshStateKeeps ==
    ASSUME CdcInv, NEW t \in Threads, RefreshState(t)
    PROVE  CdcInv'
<1> DEFINE lsn == db.view.state.fresh_to_lsn
           state == upgrade_legacy_view_counts(th[t].who,
                       [source_rows |-> db.view.state.source_rows, groups |-> db.view.state.groups])
           v == [th[t] EXCEPT !.pc = "apply", !.snap = Append(@, db.view.state),
                              !.tok = Token(timeline, lsn), !.state = state]
<1>1. start.call[t] = "refresh" /\ th[t].pc = "state" /\ OnlyReads /\ Goes(t, v)
  BY DEF RefreshState, Runs
<1>2. DOMAIN th[t] = Fields /\ th[t].through \in Int /\ timeline \in Timelines
  BY ThreadFacts
<1> HIDE DEF state
<1>3. /\ v.pc = "apply" /\ DOMAIN v = Fields /\ v.tok = Token(timeline, lsn)
      /\ v.through = th[t].through /\ v.who = th[t].who /\ v.snap = Append(th[t].snap, db.view.state)
  BY <1>2, SMTT(30) DEF Fields
<1> HIDE DEF v
<1>4. /\ th[t].who \in Specs /\ th[t].who = th[t].snap[1] /\ v.snap[1] = th[t].snap[1]
      /\ v.snap[2] = db.view.state
      /\ th[t].snap[1] # None => lsn \in Nat /\ lsn <= Len(hist)
  BY <1>1, <1>3, StateFacts
<1>5. lsn \in Nat /\ lsn <= Len(hist)
  BY <1>4, NoneAssumption
<1>6. TypedInv(t, v)
  BY <1>2, <1>3, <1>5, TokenFacts DEF TypedInv
<1>7. ViewInv(t, v)
  BY <1>1, <1>3, <1>4, <1>5 DEF ViewInv
<1> QED
  BY <1>1, <1>3, <1>6, <1>7, ViewCall

LEMMA ApplyThroughKeeps ==
    ASSUME CdcInv, NEW t \in Threads, ApplyThrough(t)
    PROVE  CdcInv'
<1> DEFINE v == [th[t] EXCEPT !.pc = "poll", !.through = Len(hist)]
<1>1. th[t].pc = "apply" /\ OnlyReads /\ Goes(t, v)
  BY DEF ApplyThrough, current_lsn
<1>2. /\ DOMAIN th[t] = Fields /\ th[t].tok \in Tokens /\ Len(hist) \in Nat
      /\ TypedInv(t, th[t]) /\ PushInv(t, th[t]) /\ ViewInv(t, th[t]) /\ WriteInv(t, th[t])
  BY ThreadFacts
<1>3. start.call[t] # "write"
  BY <1>1, <1>2 DEF WriteInv
<1>4. /\ v.pc = "poll" /\ DOMAIN v = Fields /\ v.tok = th[t].tok /\ v.snap = th[t].snap
      /\ v.who = th[t].who /\ v.through = Len(hist)
  BY <1>2, SMTT(30) DEF Fields
<1> HIDE DEF v
<1>5. Len(hist) \in Int /\ Len(hist) <= Len(hist)
  BY <1>2, SMTT(30)
<1>6. TypedInv(t, v)
  BY <1>1, <1>2, <1>4, <1>5 DEF TypedInv
<1>7. PushInv(t, v) /\ AckInv(t, v) /\ WriteInv(t, v)
  BY <1>1, <1>2, <1>3, <1>4 DEF PushInv, AckInv, WriteInv
<1>8. ViewInv(t, v)
  BY <1>1, <1>2, <1>4, <1>5 DEF ViewInv
<1> QED
  BY <1>1, <1>3, <1>6, <1>7, <1>8, ReadKeeps DEF ThreadInv

LEMMA ViewTakeKeeps ==
    ASSUME CdcInv, NEW t \in Threads, ViewTake(t)
    PROVE  CdcInv'
<1> DEFINE state == IF Empty(th[t].page) THEN th[t].state ELSE ApplyPage(t)
           v == [th[t] EXCEPT !.pc = IF th[t].more THEN "poll" ELSE "write", !.state = state,
                              !.tok = NextToken(t), !.page = <<1, 0>>, !.more = FALSE]
<1>1. /\ start.call[t] \in {"create_view", "refresh"} /\ th[t].pc = "paged" /\ OnlyReads
      /\ (PageIntact(t) /\ Goes(t, v)) \/ Stops(t)
  BY DEF ViewTake, Stops
<1>2. start.call[t] # "push" /\ start.call[t] # "write" /\ start.call[t] # "ack_query" /\ start.call[t] # "adopt"
  BY <1>1
<1>3. CASE PageIntact(t) /\ Goes(t, v)
  <2>1. /\ DOMAIN th[t] = Fields /\ th[t].through \in Int /\ TypedInv(t, th[t]) /\ ViewInv(t, th[t])
    BY ThreadFacts
  <2> HIDE DEF state
  <2>2. /\ v.pc = (IF th[t].more THEN "poll" ELSE "write") /\ DOMAIN v = Fields /\ v.tok = NextToken(t)
        /\ v.snap = th[t].snap /\ v.who = th[t].who /\ v.through = th[t].through
    BY <2>1, SMTT(30) DEF Fields
  <2> HIDE DEF v
  <2>3. /\ NextToken(t) \in Tokens /\ (NextToken(t).lsn <= Len(hist) \/ NextToken(t) = th[t].tok)
        /\ ~th[t].more => th[t].through <= NextToken(t).lsn
    BY <1>1, <1>3, PageFacts
  <2>4. v.pc = "poll" \/ (v.pc = "write" /\ ~th[t].more)
    BY <2>2
  <2>5. v.pc # "ack" /\ v.pc # "paged" /\ v.pc # "state" /\ v.pc \notin {"seed", "apply"}
    BY <2>4
  <2>6. TypedInv(t, v)
    <3>1. th[t].tok.lsn <= Len(hist)
      BY <1>1, <2>1 DEF TypedInv
    <3> QED
      BY <2>1, <2>2, <2>3, <2>5, <3>1 DEF TypedInv
  <2>7. ViewInv(t, v)
    <3>1. /\ th[t].who \in Specs /\ (start.call[t] = "refresh" => th[t].who = th[t].snap[1])
          /\ th[t].through <= Len(hist)
          /\ th[t].snap[1] # None =>
                /\ th[t].snap[2].fresh_to_lsn \in Nat
                /\ th[t].snap[2].fresh_to_lsn <= th[t].through
      BY <1>1, <2>1 DEF ViewInv
    <3>2. v.pc = "write" => v.through <= v.tok.lsn
      BY <2>2, <2>3, <2>4
    <3> QED
      BY <2>2, <2>5, <3>1, <3>2 DEF ViewInv
  <2> QED
    BY <1>1, <1>2, <1>3, <2>5, <2>6, <2>7, ViewCall
<1> QED
  BY <1>1, <1>2, <1>3, StopKeeps

LEMMA WriteViewKeeps ==
    ASSUME CdcInv, NEW t \in Threads, WriteView(t)
    PROVE  CdcInv'
<1> DEFINE st == [fresh_to_lsn |-> th[t].tok.lsn, source_rows |-> th[t].state.source_rows,
                  groups |-> th[t].state.groups]
           r == [spec |-> th[t].who, state |-> st]
           w == [view |-> r]
<1>1. /\ start.call[t] \in {"create_view", "refresh"} /\ th[t].pc = "write" /\ Stops(t)
      /\ UNCHANGED <<floor, start, recovery, feeds, owed>>
      /\ Commit(w) \/ NoCommit
  BY DEF WriteView
<1>2. start.call[t] # "write" /\ start.call[t] # "feed"
  BY <1>1
<1>3. CASE Commit(w)
  <2>1. st.fresh_to_lsn = th[t].tok.lsn /\ r.spec = th[t].who /\ r.state = st
    BY SMTT(30)
  <2> HIDE DEF st, r
  <2>2. DOMAIN w = {"view"} /\ w.view = r
    BY SMTT(30)
  <2> HIDE DEF w
  <2>3. th[t].who \in Specs
    BY <1>1, ThreadFacts DEF ViewInv
  <2>4. th[t].tok.lsn \in 0..((Len(hist) + 1) - 1)
    <3>1. th[t].tok.lsn \in Nat /\ Len(hist) \in Nat /\ th[t].tok.lsn < Len(hist) + 1
      BY <1>1, <1>2, CursorFacts
    <3> QED
      BY <3>1, SMTT(30)
  <2>5. Recorded(w, Len(hist) + 1)
    BY <2>1, <2>2, <2>3, <2>4, TableNames DEF Recorded, Tables
  <2> QED
    BY <1>1, <1>2, <1>3, <2>2, <2>5, OtherCommit
<1> QED
  BY <1>1, <1>2, <1>3, StopKeeps DEF OnlyReads

-----------------------------------------------------------------------------
(* Writes and hooks.                                                       *)

LEMMA SetHookKeeps ==
    ASSUME CdcInv, NEW t \in Threads, SetHook(t)
    PROVE  CdcInv'
<1>1. PICK target : Commit([hook |-> target])
  BY DEF SetHook
<1> DEFINE w == [hook |-> target]
<1>2. /\ start.call[t] = "hook" /\ th[t].pc = "idle" /\ th' = th /\ Commit(w)
      /\ UNCHANGED <<floor, start, recovery, feeds, owed>>
  BY <1>1 DEF SetHook, Runs
<1>3. DOMAIN w = {"hook"}
  BY SMTT(30)
<1> HIDE DEF w
<1>4. Recorded(w, Len(hist) + 1)
  BY <1>3, TableNames DEF Recorded, Tables
<1> QED
  BY <1>2, <1>3, <1>4, OtherCommit

LEMMA PutKeeps ==
    ASSUME CdcInv, NEW t \in Threads, Put(t)
    PROVE  CdcInv'
<1>1. PICK rows : Commit([rows |-> rows])
  BY DEF Put
<1> DEFINE w == [rows |-> rows]
<1>2. /\ start.call[t] = "put" /\ th[t].pc = "idle" /\ th' = th /\ Commit(w)
      /\ UNCHANGED <<floor, start, recovery, feeds, owed>>
  BY <1>1 DEF Put, Runs
<1>3. DOMAIN w = {"rows"}
  BY SMTT(30)
<1> HIDE DEF w
<1>4. Recorded(w, Len(hist) + 1)
  BY <1>3, TableNames DEF Recorded, Tables
<1> QED
  BY <1>2, <1>3, <1>4, OtherCommit

LEMMA WriteBeginKeeps ==
    ASSUME CdcInv, NEW t \in Threads, WriteBegin(t)
    PROVE  CdcInv'
<1> DEFINE v == [Idle EXCEPT !.pc = "commit", !.tok.lsn = Len(hist)]
<1>1. start.call[t] = "write" /\ th[t].pc = "idle" /\ OnlyReads /\ Goes(t, v)
  BY DEF WriteBegin, Runs, current_lsn
<1>2. Len(hist) \in Nat
  BY ThreadFacts
<1>3. v.pc = "commit" /\ DOMAIN v = Fields /\ v.tok \in Tokens /\ v.tok.lsn = Len(hist) /\ v.through \in Int
  BY <1>2, IdleFacts, SMTT(30) DEF Fields, Tokens
<1> HIDE DEF v
<1>4. Len(hist) <= Len(hist)
  BY <1>2, SMTT(30)
<1>5. ThreadInv(t, v)
  BY <1>1, <1>3, <1>4 DEF ThreadInv, TypedInv, PushInv, AckInv, ViewInv, WriteInv
<1>6. SameCommit(t)
  <2>1. th'[t] = v
    BY <1>1, GoesAlone
  <2> QED
    BY <1>1, <1>3, <2>1 DEF SameCommit, Committed
<1> QED
  BY <1>1, <1>5, <1>6, ReadKeeps

(* The commit of a writer is in the log, and its own. *)
LEMMA CommittedFacts ==
    ASSUME CdcInv, NEW t \in Threads, Committed(t)
    PROVE  /\ th[t].snap \in 1..Len(hist) /\ th[t].tok.lsn < th[t].snap
           /\ \A u \in Threads : Committed(u) /\ th[u].snap = th[t].snap => u = t
<1>1. WriteInv(t, th[t]) /\ HookInv
  BY ThreadFacts DEF CdcInv
<1> QED
  BY <1>1 DEF Committed, WriteInv, HookInv

(* What a hook matches. *)
LEMMA MatchingFacts ==
    ASSUME NEW keys, NEW lsns, NEW l
    PROVE  l \in Matching(keys, lsns) <=> l \in lsns /\ IsEvent(hist, keys, l)
<1>1. DOMAIN <<>> = {}
  BY SMTT(30)
<1>2. DOMAIN <<>> \cap keys = {}
  BY <1>1
<1>3. DOMAIN RowsOf(l) \cap keys # {} <=> IsEvent(hist, keys, l)
  BY <1>2 DEF RowsOf, IsEvent
<1> QED
  BY <1>3 DEF Matching

LEMMA WriteCommitKeeps ==
    ASSUME CdcInv, NEW t \in Threads, WriteCommit(t)
    PROVE  CdcInv'
<1>1. PICK rows : Commit([rows |-> rows])
  BY DEF WriteCommit
<1> DEFINE w == [rows |-> rows]
           v == [th[t] EXCEPT !.pc = "after", !.snap = Len(hist) + 1]
<1>2. /\ start.call[t] = "write" /\ th[t].pc = "commit" /\ Commit(w) /\ Goes(t, v)
      /\ UNCHANGED <<floor, start, recovery, feeds, owed>>
  BY <1>1 DEF WriteCommit, Runs, current_lsn
<1>3. DOMAIN w = {"rows"}
  BY SMTT(30)
<1>4. /\ DOMAIN th[t] = Fields /\ th[t].tok \in Tokens /\ th[t].tok.lsn \in Nat /\ th[t].through \in Int
      /\ Len(hist) \in Nat /\ th[t].tok.lsn <= Len(hist) /\ HookInv
  BY <1>2, ThreadFacts DEF TypedInv, CdcInv
<1>5. /\ v.pc = "after" /\ DOMAIN v = Fields /\ v.tok = th[t].tok /\ v.through = th[t].through
      /\ v.snap = Len(hist) + 1
  BY <1>4, SMTT(30) DEF Fields
<1> HIDE DEF v, w
<1>6. Recorded(w, Len(hist) + 1) /\ "sub" \notin DOMAIN w
  BY <1>3, TableNames DEF Recorded, Tables
<1>7. /\ UNCHANGED <<floor, start, recovery, client, owed>> /\ sent \subseteq sent' /\ (overtaken => overtaken')
  BY <1>2, SMTT(30) DEF feeds
<1>8. Alone(t) /\ th'[t] = v
  BY <1>2, GoesAlone
<1>9. Len(hist') = Len(hist) + 1 /\ db'.deliveries = db.deliveries /\ db'.failures = db.failures
  <2>1. Len(hist') = Len(hist) + 1 /\ \A c \in Tables : c \notin DOMAIN w => db'[c] = db[c]
    BY <1>2, <1>6, <1>7, CommitFacts
  <2> QED
    BY <1>3, <2>1 DEF Tables
<1>10. /\ th[t].tok.lsn <= Len(hist') /\ th[t].tok.lsn < Len(hist) + 1 /\ Len(hist) + 1 \in 1..Len(hist')
       /\ \A l \in 1..Len(hist) : l \in 1..Len(hist') /\ l # Len(hist) + 1
  BY <1>4, <1>9, SMTT(30)
<1>11. Len(hist) + 1 \notin owed
  BY <1>4, <1>10 DEF HookInv
<1>12. ThreadInv(t, th[t])'
  <2>1. TypedInv(t, th[t])' /\ PushInv(t, th[t])' /\ AckInv(t, th[t])' /\ ViewInv(t, th[t])'
    BY <1>2, <1>4, <1>5, <1>8, <1>10 DEF TypedInv, PushInv, AckInv, ViewInv
  <2>2. WriteInv(t, th[t])'
    BY <1>5, <1>7, <1>8, <1>10, <1>11 DEF WriteInv
  <2> QED
    BY <2>1, <2>2 DEF ThreadInv
<1>13. HookInv'
  <2>1. ASSUME NEW u \in Threads, u # t PROVE SameCommit(u)
    BY <1>7, <1>8, <2>1 DEF SameCommit, Committed, Alone
  <2>2. ~Committed(t)
    BY <1>2 DEF Committed
  <2>3. ASSUME NEW l \in owed'
        PROVE  /\ l \in 1..Len(hist')
               /\ \/ l \in db'.deliveries
                  \/ \E f \in db'.failures : f[1] < l /\ (l <= f[2] \/ f[1] = f[2])
                  \/ \E u \in Threads : Committed(u)' /\ th'[u].snap = l
    <3>1. /\ l \in 1..Len(hist)
          /\ \/ l \in db.deliveries
             \/ \E f \in db.failures : f[1] < l /\ (l <= f[2] \/ f[1] = f[2])
             \/ \E u \in Threads : Committed(u) /\ th[u].snap = l
      BY <1>4, <1>7 DEF HookInv
    <3>2. (\E u \in Threads : Committed(u) /\ th[u].snap = l) => \E u \in Threads : Committed(u)' /\ th'[u].snap = l
      BY <2>1, <2>2 DEF SameCommit
    <3> QED
      BY <1>9, <1>10, <3>1, <3>2
  <2>4. ASSUME NEW u \in Threads, u # t, Committed(u)' PROVE Committed(u) /\ th'[u].snap = th[u].snap /\ th'[u].snap # th'[t].snap
    <3>1. Committed(u) /\ th'[u].snap = th[u].snap
      BY <2>1, <2>4 DEF SameCommit
    <3>2. th[u].snap \in 1..Len(hist)
      BY <3>1, CommittedFacts
    <3> QED
      BY <1>5, <1>8, <1>10, <3>1, <3>2
  <2>5. ASSUME NEW u \in Threads, NEW x \in Threads, Committed(u)', Committed(x)', th'[u].snap = th'[x].snap
        PROVE  u = x
    BY <1>4, <2>4, <2>5 DEF HookInv
  <2> QED
    BY <2>3, <2>5 DEF HookInv
<1> QED
  BY <1>2, <1>6, <1>7, <1>8, <1>12, <1>13, CommitKeeps

(* A writer ends when its commit is accounted for, or is not owed. *)
LEMMA LeavesHook ==
    ASSUME CdcInv, NEW t \in Threads, Forward, Alone(t), th'[t].pc = "idle", owed' \subseteq owed,
           db.deliveries \subseteq db'.deliveries, db.failures \subseteq db'.failures,
           Committed(t), th[t].snap \in owed' => Accounted(db', th[t].snap)
    PROVE  HookInv'
<1>1. HookInv /\ Len(hist) \in Nat /\ Len(hist') \in Nat /\ Len(hist) <= Len(hist') /\ start' = start
  BY ThreadFacts, LogFacts DEF CdcInv, Forward
<1>2. \A l \in 1..Len(hist) : l \in 1..Len(hist')
  BY <1>1, SMTT(30)
<1>3. ~Committed(t)'
  BY DEF Committed
<1>4. ASSUME NEW u \in Threads, u # t PROVE SameCommit(u)
  BY <1>1, <1>4 DEF SameCommit, Committed, Alone
<1>5. ASSUME NEW l \in owed'
      PROVE  /\ l \in 1..Len(hist')
             /\ Accounted(db', l) \/ \E u \in Threads : Committed(u)' /\ th'[u].snap = l
  <2>1. l \in 1..Len(hist) /\ (Accounted(db, l) \/ \E u \in Threads : Committed(u) /\ th[u].snap = l)
    BY <1>1, <1>5 DEF HookInv, Accounted
  <2>2. CASE Accounted(db, l)
    BY <1>2, <2>1, <2>2 DEF Accounted
  <2>3. ASSUME NEW u \in Threads, Committed(u), th[u].snap = l
        PROVE  Accounted(db', l) \/ \E x \in Threads : Committed(x)' /\ th'[x].snap = l
    <3>1. CASE u = t
      BY <1>5, <2>3, <3>1 DEF Accounted
    <3>2. CASE u # t
      BY <1>4, <2>3, <3>2 DEF SameCommit
    <3> QED
      BY <3>1, <3>2
  <2> QED
    BY <1>2, <2>1, <2>2, <2>3
<1>6. ASSUME NEW u \in Threads, NEW x \in Threads, Committed(u)', Committed(x)', th'[u].snap = th'[x].snap
      PROVE  u = x
  BY <1>1, <1>3, <1>4, <1>6 DEF HookInv, SameCommit
<1> QED
  BY <1>5, <1>6 DEF HookInv, Accounted

(* ... without a commit. *)
LEMMA LeavesQuietly ==
    ASSUME CdcInv, NEW t \in Threads, Committed(t), Stops(t), NoCommit,
           UNCHANGED <<floor, start, recovery, feeds>>, owed' \subseteq owed, th[t].snap \notin owed'
    PROVE  CdcInv'
<1>1. Alone(t) /\ th'[t] = Idle
  BY GoesAlone DEF Stops
<1>2. /\ UNCHANGED <<start, recovery, overtaken, hist, db>> /\ sent \subseteq sent'
      /\ floor \in Nat /\ client'.tok \in Tokens /\ DOMAIN th' = Threads
  BY <1>1, ThreadFacts DEF NoCommit, feeds, CdcInv, StateInv, Alone
<1>3. floor' \in Nat /\ floor <= floor'
  BY <1>2, SMTT(30)
<1>4. Forward
  BY <1>2, <1>3, QuietState
<1>5. HookInv'
  BY <1>1, <1>2, <1>4, IdleFacts, LeavesHook
<1>6. ThreadInv(t, th[t])'
  BY <1>1, IdleFacts, EndedInv
<1> QED
  BY <1>1, <1>2, <1>3, <1>5, <1>6, QuietKeeps

(* ... with a commit of a hook row. *)
LEMMA LeavesCommit ==
    ASSUME CdcInv, NEW t \in Threads, Committed(t), Stops(t), NEW w, Commit(w),
           DOMAIN w \subseteq {"deliveries", "failures"},
           UNCHANGED <<floor, start, recovery, feeds, owed>>,
           db.deliveries \subseteq db'.deliveries, db.failures \subseteq db'.failures,
           th[t].snap \in owed => Accounted(db', th[t].snap)
    PROVE  CdcInv'
<1>1. Alone(t) /\ th'[t] = Idle
  BY GoesAlone DEF Stops
<1>2. Recorded(w, Len(hist) + 1) /\ "sub" \notin DOMAIN w
  BY TableNames DEF Recorded, Tables
<1>3. UNCHANGED <<floor, start, recovery, client, owed>> /\ sent \subseteq sent' /\ (overtaken => overtaken')
  BY SMTT(30) DEF feeds
<1>4. Forward
  BY <1>2, <1>3, CommitFacts
<1>5. HookInv'
  BY <1>1, <1>3, <1>4, IdleFacts, LeavesHook
<1>6. ThreadInv(t, th[t])'
  BY <1>1, IdleFacts, EndedInv
<1> QED
  BY <1>1, <1>2, <1>3, <1>5, <1>6, CommitKeeps

(* A writer learns what it owes. *)
LEMMA OwesKeeps ==
    ASSUME CdcInv, NEW t \in Threads, start.call[t] = "write", th[t].pc = "after", db.hook # None,
           owed' = owed \cup Matching(db.hook, {th[t].snap}), NEW v, Goes(t, v), NoCommit,
           UNCHANGED <<floor, start, recovery, feeds>>,
           DOMAIN v = Fields, v.tok = th[t].tok, v.snap = th[t].snap, v.through \in Int,
           \/ v.pc = "log" /\ v.through = Len(hist) /\ v.state = db.hook
           \/ v.pc = "fail" /\ (v.through = Len(hist) \/ v.through = th[t].tok.lsn)
    PROVE  CdcInv'
<1>1. Alone(t) /\ th'[t] = v
  BY GoesAlone
<1>2. Committed(t) /\ Committed(t)'
  <2>1. v.pc \in {"after", "log", "deliver", "fail"}
    OBVIOUS
  <2> QED
    BY <1>1, <2>1 DEF Committed
<1>3. /\ th[t].tok \in Tokens /\ th[t].tok.lsn <= Len(hist) /\ Len(hist) \in Nat /\ floor \in Nat
      /\ th[t].snap \in 1..Len(hist) /\ th[t].tok.lsn < th[t].snap /\ th[t].snap \notin owed
      /\ HookInv /\ client.tok \in Tokens
      /\ \A u \in Threads : Committed(u) /\ th[u].snap = th[t].snap => u = t
  BY <1>2, ThreadFacts, CommittedFacts DEF TypedInv, WriteInv, CdcInv, StateInv
<1>4. /\ UNCHANGED <<start, recovery, overtaken, hist, db, client>> /\ sent \subseteq sent'
      /\ client'.tok \in Tokens /\ DOMAIN th' = Threads
  BY <1>1, <1>3 DEF NoCommit, feeds, Alone
<1>5. floor' \in Nat /\ floor <= floor' /\ th[t].snap <= Len(hist)
  BY <1>3, SMTT(30)
<1>6. \A l : l \in owed' <=> l \in owed \/ (l = th[t].snap /\ IsEvent(hist, db.hook, l))
  <2>1. \A l : l \in Matching(db.hook, {th[t].snap}) <=> l \in {th[t].snap} /\ IsEvent(hist, db.hook, l)
    BY MatchingFacts
  <2> QED
    BY <2>1
<1>7. ThreadInv(t, th[t])'
  <2>1. TypedInv(t, th[t])' /\ PushInv(t, th[t])' /\ AckInv(t, th[t])' /\ ViewInv(t, th[t])'
    BY <1>1, <1>3, <1>4 DEF TypedInv, PushInv, AckInv, ViewInv
  <2>2. WriteInv(t, th[t])'
    BY <1>1, <1>3, <1>4, <1>5, <1>6 DEF WriteInv
  <2> QED
    BY <2>1, <2>2 DEF ThreadInv
<1>8. HookInv'
  <2>1. ASSUME NEW u \in Threads PROVE SameCommit(u)
    BY <1>1, <1>2, <1>4 DEF SameCommit, Committed, Alone
  <2>2. ASSUME NEW l \in owed'
        PROVE  /\ l \in 1..Len(hist')
               /\ Accounted(db', l) \/ \E u \in Threads : Committed(u)' /\ th'[u].snap = l
    <3>1. CASE l = th[t].snap
      BY <1>1, <1>2, <1>3, <1>4, <3>1
    <3>2. CASE l \in owed
      <4>1. l \in 1..Len(hist) /\ (Accounted(db, l) \/ \E u \in Threads : Committed(u) /\ th[u].snap = l)
        BY <1>3, <3>2 DEF HookInv, Accounted
      <4> QED
        BY <1>4, <2>1, <4>1 DEF Accounted, SameCommit
    <3> QED
      BY <1>6, <2>2, <3>1, <3>2
  <2>3. ASSUME NEW u \in Threads, NEW x \in Threads, Committed(u)', Committed(x)', th'[u].snap = th'[x].snap
        PROVE  u = x
    BY ZenonT(40), <1>3, <2>1, <2>3 DEF HookInv, SameCommit
  <2> QED
    BY <2>2, <2>3 DEF HookInv, Accounted
<1>9. \A u \in Threads \ {t} : Committed(u) => (th[u].snap \in owed' => th[u].snap \in owed)
  BY <1>3, <1>6
<1> QED
  BY <1>1, <1>4, <1>5, <1>7, <1>8, <1>9, QuietKeeps

LEMMA WriteAfterKeeps ==
    ASSUME CdcInv, NEW t \in Threads, WriteAfter(t)
    PROVE  CdcInv'
<1> DEFINE v1 == [th[t] EXCEPT !.pc = IF th[t].tok.lsn + 1 < floor THEN "fail" ELSE "log",
                               !.through = Len(hist), !.state = db.hook]
           v2 == [th[t] EXCEPT !.pc = "fail", !.through = th[t].tok.lsn]
<1>1. /\ start.call[t] = "write" /\ th[t].pc = "after" /\ NoCommit
      /\ UNCHANGED <<floor, start, recovery, feeds>>
      /\ \/ db.hook = None /\ Stops(t) /\ owed' = owed
         \/ /\ db.hook # None /\ owed' = owed \cup Matching(db.hook, {th[t].snap})
            /\ Goes(t, v1) \/ Goes(t, v2)
  BY DEF WriteAfter, Runs, current_lsn
<1>2. /\ DOMAIN th[t] = Fields /\ Len(hist) \in Nat /\ th[t].tok.lsn \in Nat /\ WriteInv(t, th[t])
  BY ThreadFacts
<1>3. CASE db.hook = None /\ Stops(t) /\ owed' = owed
  <2>1. Committed(t) /\ th[t].snap \notin owed'
    BY <1>1, <1>2, <1>3 DEF WriteInv, Committed
  <2> QED
    BY <1>1, <1>3, <2>1, LeavesQuietly
<1>4. CASE db.hook # None /\ owed' = owed \cup Matching(db.hook, {th[t].snap}) /\ Goes(t, v1)
  <2>1. /\ DOMAIN v1 = Fields /\ v1.tok = th[t].tok /\ v1.snap = th[t].snap /\ v1.through = Len(hist)
        /\ v1.through \in Int /\ (v1.pc = "log" \/ v1.pc = "fail") /\ v1.state = db.hook
    BY <1>2, SMTT(30) DEF Fields
  <2> HIDE DEF v1
  <2> QED
    BY <1>1, <1>4, <2>1, OwesKeeps
<1>5. CASE db.hook # None /\ owed' = owed \cup Matching(db.hook, {th[t].snap}) /\ Goes(t, v2)
  <2>1. /\ DOMAIN v2 = Fields /\ v2.tok = th[t].tok /\ v2.snap = th[t].snap /\ v2.through = th[t].tok.lsn
        /\ v2.through \in Int /\ v2.pc = "fail"
    BY <1>2, SMTT(30) DEF Fields
  <2> HIDE DEF v2
  <2> QED
    BY <1>1, <1>5, <2>1, OwesKeeps
<1> QED
  BY <1>1, <1>3, <1>4, <1>5

(* A writer that goes on to deliver its records, or to record a failure. *)
LEMMA HookGoes ==
    ASSUME CdcInv, NEW t \in Threads, start.call[t] = "write", th[t].pc = "log" \/ th[t].pc = "deliver",
           NEW pc, pc = "deliver" \/ pc = "fail", Goes(t, [th[t] EXCEPT !.pc = pc]), OnlyReads
    PROVE  CdcInv'
<1> DEFINE v == [th[t] EXCEPT !.pc = pc]
<1>1. /\ DOMAIN th[t] = Fields /\ TypedInv(t, th[t]) /\ WriteInv(t, th[t]) /\ Goes(t, v)
  BY ThreadFacts
<1>2. /\ v.pc = pc /\ DOMAIN v = Fields /\ v.tok = th[t].tok /\ v.through = th[t].through
      /\ v.snap = th[t].snap /\ v.state = th[t].state
  BY <1>1, SMTT(30) DEF Fields
<1> HIDE DEF v
<1>3. TypedInv(t, v) /\ PushInv(t, v) /\ AckInv(t, v) /\ ViewInv(t, v)
  BY <1>1, <1>2 DEF TypedInv, PushInv, AckInv, ViewInv
<1>4. WriteInv(t, v)
  BY <1>1, <1>2 DEF WriteInv
<1>5. SameCommit(t)
  <2>1. th'[t] = v /\ start' = start
    BY <1>1, GoesAlone DEF OnlyReads
  <2> QED
    BY <1>2, <2>1 DEF SameCommit, Committed
<1> QED
  BY <1>1, <1>3, <1>4, <1>5, ReadKeeps DEF ThreadInv

LEMMA HookRecordsKeeps ==
    ASSUME CdcInv, NEW t \in Threads, HookRecords(t)
    PROVE  CdcInv'
<1>1. /\ start.call[t] = "write" /\ th[t].pc = "log" /\ OnlyReads
      /\ \/ Goes(t, [th[t] EXCEPT !.pc = "fail"])
         \/ Goes(t, [th[t] EXCEPT !.pc = "deliver"])
  BY DEF HookRecords, Runs
<1> QED
  BY <1>1, HookGoes

LEMMA HookDeliverKeeps ==
    ASSUME CdcInv, NEW t \in Threads, HookDeliver(t)
    PROVE  CdcInv'
<1> DEFINE lsns == Matching(th[t].state, (th[t].tok.lsn + 1)..th[t].through)
           w == [deliveries |-> db.deliveries \cup lsns]
<1>1. /\ start.call[t] = "write" /\ th[t].pc = "deliver"
      /\ UNCHANGED <<floor, start, recovery, feeds, owed>>
      /\ \/ lsns = {} /\ NoCommit /\ Stops(t)
         \/ Commit(w) /\ Stops(t)
         \/ NoCommit /\ Goes(t, [th[t] EXCEPT !.pc = "fail"])
  BY DEF HookDeliver, Runs
<1>2. Committed(t) /\ th[t].through \in Int /\ th[t].tok.lsn \in Nat /\ WriteInv(t, th[t]) /\ Len(hist) \in Nat
  BY <1>1, ThreadFacts DEF Committed
<1>3. th[t].snap \in owed => th[t].snap \in lsns
  <2>1. /\ th[t].snap \in 1..Len(hist) /\ th[t].tok.lsn < th[t].snap /\ th[t].snap <= th[t].through
        /\ th[t].snap \in owed => IsEvent(hist, th[t].state, th[t].snap)
    BY <1>1, <1>2 DEF WriteInv
  <2>2. th[t].snap \in (th[t].tok.lsn + 1)..th[t].through
    BY <1>2, <2>1, SMTT(30)
  <2> QED
    BY <2>1, <2>2, MatchingFacts
<1> HIDE DEF lsns
<1>4. CASE lsns = {} /\ NoCommit /\ Stops(t)
  BY <1>1, <1>2, <1>3, <1>4, LeavesQuietly
<1>5. CASE Commit(w) /\ Stops(t)
  <2>1. DOMAIN w = {"deliveries"} /\ w.deliveries = db.deliveries \cup lsns
    BY SMTT(30)
  <2> HIDE DEF w
  <2>2. db'.deliveries = db.deliveries \cup lsns /\ db'.failures = db.failures
    <3>1. DOMAIN db = Tables /\ db' = ApplyCommit(db, w)
      BY <1>5 DEF CdcInv, DbInv, Commit
    <3> QED
      BY <2>1, <3>1 DEF ApplyCommit, Tables
  <2>3. th[t].snap \in owed => Accounted(db', th[t].snap)
    BY <1>3, <2>2 DEF Accounted
  <2>4. DOMAIN w \subseteq {"deliveries", "failures"}
    BY <2>1
  <2> QED
    BY <1>1, <1>2, <1>5, <2>2, <2>3, <2>4, LeavesCommit
<1>6. CASE NoCommit /\ Goes(t, [th[t] EXCEPT !.pc = "fail"])
  BY <1>1, <1>6, HookGoes DEF OnlyReads
<1> QED
  BY <1>1, <1>4, <1>5, <1>6

LEMMA HookFailKeeps ==
    ASSUME CdcInv, NEW t \in Threads, HookFail(t)
    PROVE  CdcInv'
<1> DEFINE f == <<th[t].tok.lsn, th[t].through>>
           w == [failures |-> db.failures \cup {f}]
<1>1. /\ start.call[t] = "write" /\ th[t].pc = "fail" /\ Stops(t)
      /\ UNCHANGED <<floor, start, recovery, feeds>>
      /\ (Commit(w) /\ owed' = owed) \/ (NoCommit /\ owed' = owed \ {th[t].snap})
  BY DEF HookFail, Runs
<1>2. Committed(t) /\ WriteInv(t, th[t])
  BY <1>1, ThreadFacts DEF Committed
<1>3. CASE Commit(w) /\ owed' = owed
  <2>1. f[1] = th[t].tok.lsn /\ f[2] = th[t].through
    BY SMTT(30)
  <2> HIDE DEF f
  <2>2. DOMAIN w = {"failures"} /\ w.failures = db.failures \cup {f}
    BY SMTT(30)
  <2> HIDE DEF w
  <2>3. db'.failures = db.failures \cup {f} /\ db'.deliveries = db.deliveries
    <3>1. DOMAIN db = Tables /\ db' = ApplyCommit(db, w)
      BY <1>3 DEF CdcInv, DbInv, Commit
    <3> QED
      BY <2>2, <3>1 DEF ApplyCommit, Tables
  <2>4. f[1] < th[t].snap /\ (th[t].snap <= f[2] \/ f[1] = f[2])
    BY <1>1, <1>2, <2>1 DEF WriteInv
  <2>5. Accounted(db', th[t].snap)
    BY <2>3, <2>4 DEF Accounted
  <2>6. DOMAIN w \subseteq {"deliveries", "failures"}
    BY <2>2
  <2> QED
    BY <1>1, <1>2, <1>3, <2>3, <2>5, <2>6, LeavesCommit
<1>4. CASE NoCommit /\ owed' = owed \ {th[t].snap}
  BY <1>1, <1>2, <1>4, LeavesQuietly
<1> QED
  BY <1>1, <1>3, <1>4

-----------------------------------------------------------------------------
(* GC and crashes.                                                         *)

LEMMA GcTruncateKeeps ==
    ASSUME CdcInv, NEW t \in Threads, GcTruncate(t)
    PROVE  CdcInv'
<1>1. /\ start.call[t] = "gc" /\ NoCommit /\ UNCHANGED <<start, recovery, feeds, owed>>
      /\ \/ (\E end \in (floor + 1)..th[t].through : floor' = end) /\ th' = th
         \/ floor' = floor /\ Stops(t)
  BY DEF GcTruncate, Runs
<1>2. CASE (\E end \in (floor + 1)..th[t].through : floor' = end) /\ th' = th
  <2>1. PICK end \in (floor + 1)..th[t].through : floor' = end
    BY <1>2
  <2>2. floor \in Nat /\ th[t].through \in Int
    BY ThreadFacts
  <2>3. floor' \in Nat /\ floor <= floor'
    BY <2>1, <2>2, SMTT(30)
  <2>4. /\ UNCHANGED <<start, recovery, overtaken, owed>> /\ client'.tok \in Tokens /\ sent \subseteq sent'
        /\ DOMAIN th' = Threads
    BY <1>1, <1>2 DEF feeds, CdcInv, StateInv
  <2>5. Forward
    BY <1>1, <2>3, <2>4, QuietState
  <2>6. ThreadInv(t, th[t])'
    BY <1>1, <1>2, <2>5, ThreadKeeps
  <2>7. Alone(t)
    BY <1>2, <2>4 DEF Alone
  <2> QED
    BY <1>1, <2>3, <2>4, <2>6, <2>7, MoveKeeps
<1>3. CASE floor' = floor /\ Stops(t)
  BY <1>1, <1>3, StopKeeps DEF OnlyReads
<1> QED
  BY <1>1, <1>2, <1>3

LEMMA CrashKeeps ==
    ASSUME CdcInv, Crash
    PROVE  CdcInv'
<1>1. /\ NoCommit /\ UNCHANGED <<start, recovery, overtaken>> /\ sent \subseteq sent' /\ floor' = floor
      /\ client' = client /\ th' = [t \in Threads |-> Idle]
      /\ owed' = owed \ {th[t].snap : t \in {u \in Threads : start.call[u] = "write"}}
      /\ floor \in Nat /\ client.tok \in Tokens /\ HookInv
  BY DEF Crash, feeds, CdcInv, StateInv
<1>2. floor' \in Nat /\ floor <= floor'
  BY <1>1, SMTT(30)
<1>3. DOMAIN th' = Threads /\ \A t \in Threads : th'[t] = Idle
  BY <1>1
<1>4. Forward /\ StateInv' /\ IsLog(hist)' /\ DbInv' /\ BackupInv' /\ SentInv'
  BY <1>1, <1>2, <1>3, QuietState
<1>5. ASSUME NEW t \in Threads PROVE ThreadInv(t, th[t])'
  BY <1>3, IdleFacts, EndedInv
<1>6. HookInv'
  <2>1. ASSUME NEW t \in Threads PROVE ~Committed(t)'
    BY <1>3, IdleFacts DEF Committed
  <2>2. ASSUME NEW l \in owed' PROVE l \in 1..Len(hist) /\ Accounted(db, l)
    <3>1. l \in owed /\ \A t \in Threads : start.call[t] = "write" => th[t].snap # l
      BY <1>1, <2>2
    <3>2. ~\E t \in Threads : Committed(t) /\ th[t].snap = l
      BY <3>1 DEF Committed
    <3> QED
      BY <1>1, <3>1, <3>2 DEF HookInv, Accounted
  <2> QED
    BY <1>1, <2>1, <2>2 DEF HookInv, Accounted, NoCommit
<1> QED
  BY <1>4, <1>5, <1>6 DEF CdcInv

-----------------------------------------------------------------------------
(* Backups and restores.                                                   *)

LEMMA RecordForkKeeps ==
    ASSUME CdcInv, NEW t \in Threads, RecordFork(t)
    PROVE  CdcInv'
<1> DEFINE w == [fork |-> [timeline_id |-> timeline, parent |-> start.timeline, fork_lsn |-> current_lsn]]
<1>1. /\ start.call[t] = "backup" /\ th[t].pc = "idle" /\ Commit(w)
      /\ UNCHANGED <<floor, start, th, recovery, feeds, owed>>
  BY DEF RecordFork, Runs
<1>2. DOMAIN w = {"fork"}
  BY SMT
<1> HIDE DEF w
<1>3. Recorded(w, Len(hist) + 1)
  <2>1. "fork" \in DOMAIN NoTables
    BY TableNames DEF Tables
  <2> QED
    BY <1>2, <2>1 DEF Recorded
<1>4. DOMAIN w \cap {"sub", "deliveries", "failures"} = {}
  BY <1>2
<1>5. start.call[t] # "write"
  BY <1>1
<1>6. UNCHANGED <<floor, start, recovery, feeds, owed>> /\ th' = th
  BY <1>1
<1> QED
  BY <1>1, <1>3, <1>4, <1>5, <1>6, OtherCommit

(* Extending the records of a chain by those that follow them. *)
LEMMA ChainFacts ==
    ASSUME NEW g, \E T : g \in Seq(T), NEW h, \E T : h \in Seq(T), Len(g) <= Len(h),
           \A l \in 1..Len(g) : g[l] = h[l]
    PROVE  g \o SubSeq(h, Len(g) + 1, Len(h)) = h
<1> DEFINE more == SubSeq(h, Len(g) + 1, Len(h))
<1>1. PICK T : g \in Seq(T)
  BY SMT
<1>2. PICK U : h \in Seq(U)
  BY SMT
<1>3. g \in Seq(T \cup U) /\ h \in Seq(T \cup U)
  <2>1. /\ Len(g) \in Nat /\ g = [l \in 1..Len(g) |-> g[l]] /\ \A l \in 1..Len(g) : g[l] \in T
        /\ Len(h) \in Nat /\ h = [l \in 1..Len(h) |-> h[l]] /\ \A l \in 1..Len(h) : h[l] \in U
    BY <1>1, <1>2, SMT
  <2> QED
    BY <2>1, SMT
<1>4. /\ Len(g) \in Nat /\ Len(h) \in Nat /\ more \in Seq(T \cup U) /\ Len(more) = Len(h) - Len(g)
      /\ \A l \in 1..Len(more) : more[l] = h[Len(g) + l]
  BY <1>3, SMTT(30)
<1> HIDE DEF more
<1>5. g \o more \in Seq(T \cup U) /\ Len(g \o more) = Len(h)
  BY <1>3, <1>4, SMTT(30)
<1>6. ASSUME NEW l \in 1..Len(h) PROVE (g \o more)[l] = h[l]
  <2>1. CASE l <= Len(g)
    BY <2>1, <1>3, <1>4, SMTT(30)
  <2>2. CASE l > Len(g)
    <3>1. l - Len(g) \in 1..Len(more) /\ Len(g) + (l - Len(g)) = l
      BY <2>2, <1>4, SMTT(30)
    <3>2. (g \o more)[l] = more[l - Len(g)]
      BY <2>2, <1>3, <1>4, SMTT(30)
    <3>3. more[l - Len(g)] = h[Len(g) + (l - Len(g))]
      BY <3>1, <1>4
    <3> QED
      BY <3>1, <3>2, <3>3
  <2> QED
    BY <2>1, <2>2, <1>4, SMTT(30)
<1>7. \E S : g \o more \in Seq(S)
  BY <1>5
<1>8. g \o more = h
  BY <1>5, <1>6, <1>7, SameLog
<1> QED
  BY <1>8 DEF more

(* A backup of the whole history. *)
LEMMA BackupKeeps ==
    ASSUME CdcInv, NEW b, backups' = backups \cup {b}, timeline' \in Timelines,
           DOMAIN b = {"timeline_id", "full_end", "image", "floor", "source"},
           b.image = hist, b.source = hist, b.timeline_id \in Timelines, b.floor \in Nat, b.full_end \in Nat,
           NoCommit, UNCHANGED <<floor, start, th, restores, feeds, owed>>
    PROVE  CdcInv'
<1>1. /\ UNCHANGED <<hist, db, floor, start, th, restores, client, sent, overtaken, owed>>
      /\ (overtaken => overtaken') /\ SameSub
  BY SMTT(30) DEF NoCommit, feeds, SameSub
<1>2. StateInv /\ IsLog(hist) /\ DbInv /\ BackupInv /\ SentInv /\ HookInv
  BY DEF CdcInv
<1>3. Len(hist) \in Nat /\ DOMAIN hist = 1..Len(hist) /\ floor \in Nat
  BY <1>2, LogFacts DEF IsLog, StateInv
<1>4. Len(hist) <= Len(hist) /\ floor <= floor
  BY <1>3, SMTT(30)
<1>5. Forward
  BY <1>1, <1>2, <1>3, <1>4 DEF Forward, IsLog, HasView
<1>6. ASSUME NEW t \in Threads PROVE ThreadInv(t, th[t])' /\ SameCommit(t)
  BY <1>1, <1>5, ThreadKeeps DEF SameCommit, Committed
<1>7. HookInv'
  BY <1>1, <1>5, <1>6, HookKeeps
<1>8. StateInv' /\ IsLog(hist)' /\ DbInv'
  BY <1>1, <1>2 DEF StateInv, DbInv, HasView
<1>9. BackupInv'
  <2>1. Agree(hist, hist) /\ \A c \in backups : Agree(c.image, hist) /\ Agree(hist, c.image)
    BY <1>2 DEF Agree, BackupInv
  <2>2. \A c, d \in backups' : Agree(c.image, d.image)
    BY <1>2, <2>1 DEF BackupInv
  <2>3. \A l \in DOMAIN hist : l <= Len(hist)
    BY <1>3, SMTT(30)
  <2>4. ASSUME NEW c \in backups'
        PROVE  /\ DOMAIN c = {"timeline_id", "full_end", "image", "floor", "source"}
               /\ IsLog(c.image) /\ c.image = c.source
               /\ c.timeline_id \in Timelines /\ c.floor \in Nat /\ c.full_end \in Nat
               /\ Agree(c.image, hist)
               /\ \A l \in DOMAIN c.image :
                     c.image[l].branch \in 0..restores /\ (c.image[l].branch = restores => l <= Len(hist))
    <3>1. CASE c = b
      BY <3>1, <1>2, <2>1, <2>3 DEF BackupInv
    <3>2. CASE c \in backups
      BY <3>2, <1>2 DEF BackupInv
    <3> QED
      BY <3>1, <3>2
  <2> QED
    BY <1>1, <1>2, <2>2, <2>4 DEF BackupInv
<1>10. SentInv'
  <2>1. CASE overtaken
    BY <1>1, <2>1 DEF SentInv
  <2>2. CASE ~overtaken
    BY <1>1, <1>2, <2>2 DEF SentInv
  <2> QED
    BY <2>1, <2>2
<1> QED
  BY <1>6, <1>7, <1>8, <1>9, <1>10 DEF CdcInv

LEMMA FullBackupKeeps ==
    ASSUME CdcInv, NEW t \in Threads, FullBackup(t)
    PROVE  CdcInv'
<1> DEFINE b == [timeline_id |-> timeline', full_end |-> current_lsn, image |-> hist,
                 floor |-> floor, source |-> hist]
<1>1. /\ timeline' = (IF timeline = "default" THEN "persisted" ELSE timeline)
      /\ backups' = backups \cup {b} /\ NoCommit /\ UNCHANGED <<floor, start, th, restores, feeds, owed>>
  BY DEF FullBackup
<1>2. timeline \in Timelines /\ Len(hist) \in Nat /\ floor \in Nat
  BY ThreadFacts
<1>3. timeline' \in Timelines
  BY <1>1, <1>2 DEF Timelines
<1>4. /\ DOMAIN b = {"timeline_id", "full_end", "image", "floor", "source"}
      /\ b.image = hist /\ b.source = hist /\ b.timeline_id = timeline' /\ b.floor = floor /\ b.full_end = Len(hist)
  BY SMTT(30) DEF current_lsn
<1> HIDE DEF b
<1>5. b.timeline_id \in Timelines /\ b.floor \in Nat /\ b.full_end \in Nat
  BY <1>2, <1>3, <1>4
<1> QED
  BY <1>1, <1>3, <1>4, <1>5, BackupKeeps

LEMMA IncrementalBackupKeeps ==
    ASSUME CdcInv, NEW t \in Threads, IncrementalBackup(t)
    PROVE  CdcInv'
<1>1. PICK parent \in backups :
         /\ Follows(parent)
         /\ backups' = backups \cup
               {[parent EXCEPT !.image = @ \o SubSeq(hist, Len(@) + 1, current_lsn), !.source = hist]}
  BY DEF IncrementalBackup
<1> DEFINE b == [parent EXCEPT !.image = @ \o SubSeq(hist, Len(@) + 1, current_lsn), !.source = hist]
<1>2. /\ timeline \in Timelines /\ Len(hist) \in Nat /\ IsLog(hist) /\ BackupInv
  BY ThreadFacts DEF CdcInv
<1>3. /\ DOMAIN parent = {"timeline_id", "full_end", "image", "floor", "source"}
      /\ IsLog(parent.image) /\ Agree(parent.image, hist)
      /\ parent.timeline_id \in Timelines /\ parent.floor \in Nat /\ parent.full_end \in Nat
  BY <1>2 DEF BackupInv
<1>4. Len(parent.image) \in Nat /\ DOMAIN parent.image = 1..Len(parent.image) /\ DOMAIN hist = 1..Len(hist)
  BY <1>2, <1>3, LogFacts DEF IsLog
<1>5. Len(parent.image) <= Len(hist) /\ (Len(parent.image) > 0 => hist[Len(parent.image)] = parent.image[Len(parent.image)])
  BY <1>1, <1>2, <1>4, SMTT(30) DEF Follows, current_lsn
<1>6. ASSUME NEW l \in 1..Len(parent.image) PROVE parent.image[l] = hist[l]
  <2>1. Len(parent.image) > 0 /\ Len(parent.image) \in 1..Len(parent.image) /\ Len(parent.image) \in 1..Len(hist)
    BY <1>2, <1>4, <1>5, SMTT(30)
  <2> QED
    BY <1>3, <1>4, <1>5, <2>1 DEF Agree
<1>7. parent.image \o SubSeq(hist, Len(parent.image) + 1, Len(hist)) = hist
  BY <1>2, <1>3, <1>5, <1>6, ChainFacts DEF IsLog
<1>8. /\ DOMAIN b = {"timeline_id", "full_end", "image", "floor", "source"}
      /\ b.image = parent.image \o SubSeq(hist, Len(parent.image) + 1, Len(hist))
      /\ b.source = hist /\ b.timeline_id = parent.timeline_id /\ b.floor = parent.floor
      /\ b.full_end = parent.full_end
  BY <1>3, SMTT(30) DEF current_lsn
<1>9. backups' = backups \cup {b}
  BY <1>1
<1> HIDE DEF b
<1>10. b.image = hist /\ b.timeline_id \in Timelines /\ b.floor \in Nat /\ b.full_end \in Nat
  BY <1>3, <1>7, <1>8
<1>11. NoCommit /\ UNCHANGED <<floor, start, th, restores, feeds, owed>> /\ timeline' \in Timelines
  BY <1>2 DEF IncrementalBackup
<1> QED
  BY <1>8, <1>9, <1>10, <1>11, BackupKeeps

(* A restore, provided that what it restores are rows of the history. *)
LEMMA RestoreKeeps ==
    ASSUME CdcInv, NEW t \in Threads, Restore(t), DbInv'
    PROVE  CdcInv'
<1>0. PICK b \in backups : \E target \in b.full_end..Len(b.image) :
         hist' = SubSeq(b.image, 1, target) /\ db' = TablesOf(hist') /\ floor' = b.floor /\ timeline' = b.timeline_id
  BY DEF Restore
<1>1. PICK target \in b.full_end..Len(b.image) :
         hist' = SubSeq(b.image, 1, target) /\ db' = TablesOf(hist') /\ floor' = b.floor /\ timeline' = b.timeline_id
  BY <1>0
<1>2. /\ restores' = restores + 1 /\ th' = [u \in Threads |-> Idle] /\ owed' = {}
      /\ UNCHANGED <<start, backups, client, sent, overtaken>>
  BY DEF Restore, feeds
<1>3. StateInv /\ BackupInv /\ SentInv
  BY DEF CdcInv
<1>4. /\ IsLog(b.image) /\ b.timeline_id \in Timelines /\ b.floor \in Nat /\ b.full_end \in Nat
      /\ \A c \in backups : Agree(c.image, b.image)
      /\ \A l \in DOMAIN b.image : b.image[l].branch \in 0..restores
  BY <1>3 DEF BackupInv
<1>5. Len(b.image) \in Nat /\ DOMAIN b.image = 1..Len(b.image)
  BY <1>4, LogFacts DEF IsLog
<1>6. target \in 0..Len(b.image) /\ target \in Nat /\ target <= Len(b.image)
  BY <1>4, <1>5, SMTT(30)
<1>7. (\E T : hist' \in Seq(T)) /\ Len(hist') = target /\ \A l \in 1..target : hist'[l] = b.image[l]
  BY <1>1, <1>4, <1>6, PrefixFacts DEF IsLog
<1>8. DOMAIN hist' = 1..target
  BY <1>7, LogFacts
<1>9. \A l \in 1..target : l \in 1..Len(b.image)
  BY <1>5, <1>6, SMTT(30)
<1>10. \A l \in DOMAIN hist' : l \in DOMAIN b.image /\ hist'[l] = b.image[l]
  BY <1>5, <1>7, <1>8, <1>9
<1>11. DOMAIN th' = Threads /\ \A u \in Threads : th'[u] = Idle
  BY <1>2
<1>12. StateInv'
  <2>1. restores' \in Nat
    BY <1>2, <1>3, SMTT(30) DEF StateInv
  <2> QED
    BY <1>1, <1>2, <1>3, <1>4, <1>11, <2>1 DEF StateInv
<1>13. IsLog(hist)'
  BY <1>4, <1>7, <1>10 DEF IsLog
<1>14. BackupInv'
  <2>1. \A n \in 0..restores : n \in 0..restores' /\ n # restores'
    BY <1>2, <1>3, SMTT(30) DEF StateInv
  <2>2. \A l \in DOMAIN hist' : hist'[l].branch \in 0..restores'
    BY <1>4, <1>10, <2>1
  <2>3. ASSUME NEW c \in backups PROVE Agree(c.image, hist')
    <3>1. Agree(c.image, b.image)
      BY <1>4
    <3>2. ASSUME NEW l \in DOMAIN c.image \cap DOMAIN hist', c.image[l].branch = hist'[l].branch, NEW i \in 1..l
          PROVE  c.image[i] = hist'[i]
      <4>1. l \in DOMAIN b.image /\ c.image[l].branch = b.image[l].branch
        BY <1>10, <3>2
      <4>2. c.image[i] = b.image[i]
        BY ZenonT(40), <3>1, <3>2, <4>1 DEF Agree
      <4>3. i \in 1..target
        BY <1>6, <1>8, <3>2, SMTT(30)
      <4> QED
        BY <1>7, <4>2, <4>3
    <3> QED
      BY <3>2 DEF Agree
  <2>4. ASSUME NEW c \in backups, NEW l \in DOMAIN c.image
        PROVE  c.image[l].branch \in 0..restores' /\ (c.image[l].branch = restores' => l <= Len(hist'))
    BY <1>3, <2>1 DEF BackupInv
  <2> QED
    BY <1>2, <1>3, <2>2, <2>3, <2>4 DEF BackupInv
<1>15. SentInv'
  <2>1. CASE overtaken
    BY <1>2, <2>1 DEF SentInv
  <2>2. CASE ~overtaken
    <3>1. SentLog(b.image, sent) /\ \A c \in backups : SentLog(c.image, sent)
      BY <1>3, <2>2 DEF SentInv
    <3>2. ASSUME NEW l \in DOMAIN hist', "sub" \in DOMAIN hist'[l].writes
          PROVE  SentUpTo(hist', hist'[l].writes.sub, hist'[l].writes.sub.last_ack.lsn, sent)
      <4> DEFINE s == b.image[l].writes.sub
      <4>1. hist'[l].writes.sub = s /\ l \in DOMAIN b.image /\ "sub" \in DOMAIN b.image[l].writes
        BY <1>10, <3>2
      <4>2. s.since \in Tokens /\ s.last_ack \in Tokens /\ s.last_ack.lsn < l
        BY <1>4, <4>1 DEF IsLog, Recorded
      <4>3. SentUpTo(b.image, s, s.last_ack.lsn, sent)
        BY <3>1, <4>1 DEF SentLog
      <4> HIDE DEF s
      <4>4. s.since.lsn \in Nat /\ s.last_ack.lsn \in Nat
        BY <4>2 DEF Tokens
      <4>5. \A i \in (s.since.lsn + 1)..s.last_ack.lsn : i \in 1..target
        BY <1>6, <1>8, <4>2, <4>4, SMTT(30)
      <4>6. SentUpTo(hist', s, s.last_ack.lsn, sent)
        BY <1>7, <4>3, <4>5 DEF SentUpTo, IsEvent
      <4> QED
        BY <4>1, <4>6
    <3> QED
      BY <1>2, <3>1, <3>2 DEF SentInv, SentLog
  <2> QED
    BY <2>1, <2>2
<1>16. \A u \in Threads : ThreadInv(u, th[u])'
  BY <1>11, IdleFacts, EndedInv
<1>17. HookInv'
  <2>1. \A u \in Threads : ~Committed(u)'
    BY <1>11, IdleFacts DEF Committed
  <2> QED
    BY <1>2, <2>1 DEF HookInv
<1> QED
  BY <1>12, <1>13, <1>14, <1>15, <1>16, <1>17 DEF CdcInv

-----------------------------------------------------------------------------
(* Initial states and stuttering.                                          *)

LEMMA InitHolds ==
    ASSUME Init, DbInv
    PROVE  CdcInv
<1>1. /\ start \in Starts /\ hist = start.hist /\ floor = 1 /\ timeline = start.timeline /\ db = TablesOf(hist)
      /\ th = [t \in Threads |-> Idle] /\ client = [tok |-> Token(timeline, 0), seen |-> <<>>]
      /\ backups = {} /\ restores = 0 /\ sent = {} /\ overtaken = FALSE /\ owed = {}
  BY DEF Init
<1>2. /\ start.timeline \in Timelines
      /\ start.hist \in Seq({start.hist[l] : l \in DOMAIN start.hist})
      /\ \A l \in DOMAIN start.hist :
            /\ start.hist[l].branch = 0 /\ Recorded(start.hist[l].writes, l)
            /\ "sub" \in DOMAIN start.hist[l].writes =>
                  start.hist[l].writes.sub.since = start.hist[l].writes.sub.last_ack
  BY <1>1, StartsAssumption
<1>3. IsLog(hist)
  <2>1. \E T : hist \in Seq(T)
    BY <1>1, <1>2
  <2> QED
    BY <1>1, <1>2, <2>1 DEF IsLog
<1>4. StateInv
  <2>1. 0 \in Nat /\ 1 \in Nat /\ client.tok = Token(timeline, 0)
    BY <1>1, SMTT(30)
  <2> QED
    BY <1>1, <1>2, <2>1, TokenFacts DEF StateInv
<1>5. BackupInv
  <2>1. 0 \in 0..0
    BY SMTT(30)
  <2> QED
    BY <1>1, <1>2, <2>1 DEF BackupInv
<1>6. SentInv
  <2>1. ASSUME NEW l \in DOMAIN hist, "sub" \in DOMAIN hist[l].writes
        PROVE  SentUpTo(hist, hist[l].writes.sub, hist[l].writes.sub.last_ack.lsn, sent)
    <3> DEFINE n == hist[l].writes.sub.last_ack.lsn
    <3>1. hist[l].writes.sub.since.lsn = n /\ n \in Nat
      BY ZenonT(40), <1>1, <1>2, <2>1 DEF Recorded, Tokens
    <3> HIDE DEF n
    <3>2. (n + 1)..n = {}
      BY <3>1, SMTT(30)
    <3>3. SentUpTo(hist, hist[l].writes.sub, n, sent)
      BY <3>1, <3>2 DEF SentUpTo
    <3> QED
      BY <3>3 DEF n
  <2> QED
    BY <1>1, <2>1 DEF SentInv, SentLog
<1>7. \A t \in Threads : th[t] = Idle
  BY <1>1
<1>8. HookInv
  <2>1. \A t \in Threads : ~Committed(t)
    BY <1>7, IdleFacts DEF Committed
  <2> QED
    BY <1>1, <2>1 DEF HookInv
<1>9. \A t \in Threads : ThreadInv(t, th[t])
  BY <1>7, IdleInv
<1> QED
  BY <1>3, <1>4, <1>5, <1>6, <1>8, <1>9 DEF CdcInv

LEMMA StutterKeeps ==
    ASSUME CdcInv, UNCHANGED vars
    PROVE  CdcInv'
<1>1. NoCommit /\ UNCHANGED <<floor, start, th, recovery, feeds, owed, overtaken, client, sent>>
  BY DEF vars, NoCommit, recovery, feeds
<1>2. StateInv /\ HookInv
  BY DEF CdcInv
<1>3. floor' \in Nat /\ floor <= floor' /\ client'.tok \in Tokens /\ sent \subseteq sent' /\ DOMAIN th' = Threads
  BY <1>1, <1>2, SMTT(30) DEF StateInv
<1>4. Forward /\ StateInv' /\ IsLog(hist)' /\ DbInv' /\ BackupInv' /\ SentInv'
  BY <1>1, <1>3, QuietState
<1>5. SameSub /\ owed' = owed /\ th' = th /\ start' = start
  BY <1>1 DEF SameSub, NoCommit
<1>6. ASSUME NEW t \in Threads PROVE ThreadInv(t, th[t])'
  BY <1>4, <1>5, ThreadKeeps
<1>7. HookInv'
  BY <1>1, <1>2 DEF HookInv, Committed, NoCommit
<1> QED
  BY <1>4, <1>6, <1>7 DEF CdcInv

-----------------------------------------------------------------------------
(* What a step writes.                                                     *)

Untouched == db'.sub = db.sub /\ db'.query = db.query /\ db'.view = db.view

LEMMA Written ==
    ASSUME CdcInv, NEW w, Commit(w)
    PROVE  \A c \in Tables : /\ c \notin DOMAIN w => db'[c] = db[c]
                             /\ c # "rows" /\ c \in DOMAIN w => db'[c] = w[c]
<1>1. DOMAIN db = Tables
  BY DEF CdcInv, DbInv
<1>2. db' = ApplyCommit(db, w)
  BY DEF Commit
<1> QED
  BY <1>1, <1>2 DEF ApplyCommit

LEMMA ConsumerTables ==
    /\ "sub" \in Tables /\ "query" \in Tables /\ "view" \in Tables
    /\ "sub" # "rows" /\ "query" # "rows" /\ "view" # "rows"
  BY SMT DEF Tables

LEMMA SubKept ==
    ASSUME CdcInv, NEW w, Commit(w), "sub" \notin DOMAIN w
    PROVE  db'.sub = db.sub
<1>1. "sub" \in Tables
  BY ConsumerTables
<1> QED
  BY <1>1, Written

(* A commit to another table. *)
LEMMA OtherTable ==
    ASSUME CdcInv, NEW w, Commit(w), NEW c, DOMAIN w = {c}, c # "sub", c # "query", c # "view"
    PROVE  Untouched
  BY Written, ConsumerTables DEF Untouched

(* The steps that may write the row of a consumer. *)
LEMMA Writers ==
    ASSUME CdcInv, NEW t \in Threads, Step(t), restores' = restores
    PROVE  \/ Untouched
           \/ AckWrite(t) \/ CreateSubWrite(t) \/ AdoptWrite(t) \/ ApplyQueryWrite(t)
           \/ CreateQuery(t) \/ AckQueryWrite(t) \/ AckQueryOnly(t) \/ WriteView(t)
<1>0. NoCommit => Untouched
  BY DEF NoCommit, Untouched
<1>1. CASE PollStart(t) \/ PollPage(t) \/ FeedPoll(t) \/ FeedTake(t) \/ PushRead(t) \/ PushSend(t) \/ AckRead(t)
  BY <1>0, <1>1 DEF PollStart, PollPage, FeedPoll, FeedTake, PushRead, PushSend, AckRead, OnlyReads
<1>2. CASE CreateSubRead(t) \/ AdoptRead(t) \/ ApplyQueryRead(t) \/ ApplyQuerySub(t) \/ AckQueryRead(t)
           \/ AckQuerySub(t)
  BY <1>0, <1>2 DEF CreateSubRead, AdoptRead, ApplyQueryRead, ApplyQuerySub, AckQueryRead, AckQuerySub,
     OnlyReads
<1>3. CASE CreateViewSpec(t) \/ CreateViewStart(t) \/ CreateViewSeed(t) \/ RefreshSpec(t) \/ RefreshState(t)
           \/ ApplyThrough(t) \/ ViewTake(t)
  BY <1>0, <1>3 DEF CreateViewSpec, CreateViewStart, CreateViewSeed, RefreshSpec, RefreshState,
     ApplyThrough, ViewTake, OnlyReads
<1>4. CASE WriteBegin(t) \/ WriteAfter(t) \/ HookRecords(t) \/ GcPlan(t) \/ GcTruncate(t)
           \/ FullBackup(t) \/ IncrementalBackup(t)
  BY <1>0, <1>4 DEF WriteBegin, WriteAfter, HookRecords, GcPlan, GcTruncate, FullBackup, IncrementalBackup,
     OnlyReads
<1>5. CASE SetHook(t)
  <2>1. PICK target : Commit([hook |-> target])
    BY <1>5 DEF SetHook
  <2>2. DOMAIN [hook |-> target] = {"hook"}
    BY SMTT(30)
  <2> QED
    BY <2>1, <2>2, OtherTable
<1>6. CASE Put(t) \/ WriteCommit(t)
  <2>1. PICK rows : Commit([rows |-> rows])
    BY <1>6 DEF Put, WriteCommit
  <2>2. DOMAIN [rows |-> rows] = {"rows"}
    BY SMTT(30)
  <2> QED
    BY <2>1, <2>2, OtherTable
<1>7. CASE HookDeliver(t)
  <2>1. NoCommit \/ \E lsns : Commit([deliveries |-> lsns])
    BY <1>7 DEF HookDeliver
  <2>2. \A lsns : DOMAIN [deliveries |-> lsns] = {"deliveries"}
    BY SMTT(30)
  <2> QED
    BY <1>0, <2>1, <2>2, OtherTable
<1>8. CASE HookFail(t)
  <2>1. NoCommit \/ \E ranges : Commit([failures |-> ranges])
    BY <1>8 DEF HookFail
  <2>2. \A ranges : DOMAIN [failures |-> ranges] = {"failures"}
    BY SMTT(30)
  <2> QED
    BY <1>0, <2>1, <2>2, OtherTable
<1>9. CASE RecordFork(t)
  <2>1. PICK fork : Commit([fork |-> fork])
    BY <1>9 DEF RecordFork
  <2>2. DOMAIN [fork |-> fork] = {"fork"}
    BY SMTT(30)
  <2> QED
    BY <2>1, <2>2, OtherTable
<1>10. ~Restore(t)
  <2>1. restores \in Nat
    BY DEF CdcInv, StateInv
  <2>2. restores + 1 # restores
    BY <2>1, SMTT(30)
  <2> QED
    BY <2>2 DEF Restore
<1> QED
  BY <1>1, <1>2, <1>3, <1>4, <1>5, <1>6, <1>7, <1>8, <1>9, <1>10 DEF Step

(* What each of these steps leaves in the rows of the consumers. *)
LEMMA SubWrites ==
    ASSUME CdcInv, NEW t \in Threads,
           AckWrite(t) \/ CreateSubWrite(t) \/ AdoptWrite(t)
    PROVE  /\ Stops(t) /\ db'.query = db.query /\ db'.view = db.view
           /\ \/ db'.sub = db.sub
              \/ /\ AckWrite(t) /\ db.sub = th[t].snap
                 /\ db'.sub = [th[t].snap EXCEPT !.last_ack = th[t].tok]
              \/ CreateSubWrite(t) /\ db'.sub.created_at = Len(hist) + 1
              \/ /\ AdoptWrite(t) /\ db.sub = th[t].snap
                 /\ db'.sub = [th[t].snap EXCEPT !.owner = th[t].who]
<1>1. \A s : DOMAIN [sub |-> s] = {"sub"} /\ [sub |-> s].sub = s
  BY SMTT(30)
<1>2. ASSUME NEW s, Commit([sub |-> s])
      PROVE  db'.sub = s /\ db'.query = db.query /\ db'.view = db.view
  BY ZenonT(40), <1>1, <1>2, Written, ConsumerTables
<1>3. NoCommit => Untouched
  BY DEF NoCommit, Untouched
<1>4. CASE AckWrite(t)
  BY <1>2, <1>3, <1>4 DEF AckWrite, SubUnchanged, Untouched
<1>5. CASE CreateSubWrite(t)
  <2>1. Stops(t) /\ (NoCommit \/ \E filter \in Filters :
           Commit([sub |-> [owner |-> th[t].who, filter |-> filter, last_ack |-> th[t].tok,
                            since |-> th[t].tok, created_at |-> Len(hist) + 1]]))
    BY <1>5 DEF CreateSubWrite, current_lsn
  <2>2. \A filter : [owner |-> th[t].who, filter |-> filter, last_ack |-> th[t].tok,
                     since |-> th[t].tok, created_at |-> Len(hist) + 1].created_at = Len(hist) + 1
    BY SMTT(30)
  <2>3. CASE NoCommit
    BY <1>3, <2>1, <2>3 DEF Untouched
  <2>4. ASSUME NEW filter \in Filters,
               Commit([sub |-> [owner |-> th[t].who, filter |-> filter, last_ack |-> th[t].tok,
                                since |-> th[t].tok, created_at |-> Len(hist) + 1]])
        PROVE  db'.query = db.query /\ db'.view = db.view /\ db'.sub.created_at = Len(hist) + 1
    BY <1>2, <2>2, <2>4
  <2> QED
    BY <1>5, <2>1, <2>3, <2>4
<1>6. CASE AdoptWrite(t)
  BY <1>2, <1>3, <1>6 DEF AdoptWrite, Untouched
<1> QED
  BY <1>4, <1>5, <1>6

LEMMA QueryWrites ==
    ASSUME CdcInv, NEW t \in Threads,
           ApplyQueryWrite(t) \/ CreateQuery(t) \/ AckQueryWrite(t) \/ AckQueryOnly(t)
    PROVE  /\ db'.view = db.view
           /\ \/ Untouched
              \/ /\ ApplyQueryWrite(t) /\ BothUnchanged(t)
                 /\ \E filter : db'.sub = Reapplied(t, filter).sub /\ db'.query = Reapplied(t, filter).query
              \/ CreateQuery(t) /\ db'.sub = db.sub /\ db'.query.created_at = Len(hist) + 1
              \/ /\ AckQueryWrite(t) /\ BothUnchanged(t)
                 /\ db'.sub = [th[t].snap EXCEPT !.last_ack = th[t].tok]
                 /\ db'.query = [th[t].state EXCEPT !.last_ack = th[t].tok]
              \/ /\ AckQueryOnly(t) /\ db'.sub = db.sub /\ db.query # None
                 /\ \E token : Advances(db.query.last_ack, token) /\ db'.query = [db.query EXCEPT !.last_ack = token]
<1>1. \A q : DOMAIN [query |-> q] = {"query"} /\ [query |-> q].query = q
  BY SMTT(30)
<1>2. \A q, s : /\ DOMAIN [query |-> q, sub |-> s] = {"query", "sub"}
                /\ [query |-> q, sub |-> s].query = q /\ [query |-> q, sub |-> s].sub = s
  BY SMTT(30)
<1>3. ASSUME NEW q, Commit([query |-> q])
      PROVE  db'.query = q /\ db'.sub = db.sub /\ db'.view = db.view
  BY ZenonT(40), <1>1, <1>3, Written, ConsumerTables
<1>4. ASSUME NEW w, DOMAIN w = {"query", "sub"}, Commit(w)
      PROVE  db'.query = w.query /\ db'.sub = w.sub /\ db'.view = db.view
  <2>1. "query" \in DOMAIN w /\ "sub" \in DOMAIN w /\ "view" \notin DOMAIN w
    BY <1>4, SMTT(30)
  <2>2. \A c \in Tables : /\ c \notin DOMAIN w => db'[c] = db[c]
                          /\ c # "rows" /\ c \in DOMAIN w => db'[c] = w[c]
    BY <1>4, Written
  <2> QED
    BY <2>1, <2>2, ConsumerTables
<1>5. NoCommit => Untouched
  BY DEF NoCommit, Untouched
<1>6. CASE ApplyQueryWrite(t)
  <2>1. NoCommit \/ (BothUnchanged(t) /\ \E filter \in Filters : Commit(Reapplied(t, filter)))
    BY <1>6 DEF ApplyQueryWrite
  <2>2. \A filter : DOMAIN Reapplied(t, filter) = {"query", "sub"}
    BY <1>2 DEF Reapplied
  <2>3. CASE NoCommit
    BY <1>5, <2>3 DEF Untouched
  <2>4. CASE BothUnchanged(t) /\ \E filter \in Filters : Commit(Reapplied(t, filter))
    <3>1. PICK filter \in Filters : Commit(Reapplied(t, filter))
      BY <2>4
    <3>2. /\ db'.query = Reapplied(t, filter).query /\ db'.sub = Reapplied(t, filter).sub
          /\ db'.view = db.view
      BY <1>4, <2>2, <3>1
    <3> QED
      BY <1>6, <2>4, <3>2
  <2> QED
    BY <2>1, <2>3, <2>4
<1>7. CASE CreateQuery(t)
  <2>1. [last_ack |-> DefaultToken, created_at |-> Len(hist) + 1].created_at = Len(hist) + 1
    BY SMTT(30)
  <2>2. Commit([query |-> [last_ack |-> DefaultToken, created_at |-> Len(hist) + 1]])
    BY <1>7 DEF CreateQuery, current_lsn
  <2>3. /\ db'.query = [last_ack |-> DefaultToken, created_at |-> Len(hist) + 1]
        /\ db'.sub = db.sub /\ db'.view = db.view
    BY <1>3, <2>2
  <2> QED
    BY <1>7, <2>1, <2>3
<1>8. CASE AckQueryWrite(t)
  <2> DEFINE q == [th[t].state EXCEPT !.last_ack = th[t].tok]
             s == [th[t].snap EXCEPT !.last_ack = th[t].tok]
  <2>1. NoCommit \/ (BothUnchanged(t) /\ Commit([query |-> q, sub |-> s]))
    BY <1>8 DEF AckQueryWrite
  <2>2. CASE NoCommit
    BY <1>5, <2>2 DEF Untouched
  <2>3. CASE BothUnchanged(t) /\ Commit([query |-> q, sub |-> s])
    <3> HIDE DEF q, s
    <3>1. /\ db'.query = [query |-> q, sub |-> s].query /\ db'.sub = [query |-> q, sub |-> s].sub
          /\ db'.view = db.view
      BY <1>2, <1>4, <2>3
    <3>2. db'.query = q /\ db'.sub = s
      BY <1>2, <3>1
    <3> QED
      BY <1>8, <2>3, <3>1, <3>2 DEF q, s
  <2> QED
    BY <2>1, <2>2, <2>3
<1>9. CASE AckQueryOnly(t)
  <2>1. PICK lsn : /\ Advances(db.query.last_ack, Token(timeline, lsn))
                   /\ Commit([query |-> [db.query EXCEPT !.last_ack = Token(timeline, lsn)]])
    BY <1>9 DEF AckQueryOnly
  <2>2. /\ db'.query = [db.query EXCEPT !.last_ack = Token(timeline, lsn)]
        /\ db'.sub = db.sub /\ db'.view = db.view
    BY <1>3, <2>1
  <2>3. db.query # None
    BY <1>9 DEF AckQueryOnly
  <2> QED
    BY <1>9, <2>1, <2>2, <2>3
<1> QED
  BY <1>6, <1>7, <1>8, <1>9

(* A step of one thread moves no cursor back. *)
LEMMA CursorStep ==
    ASSUME CdcInv, NEW t \in Threads, Step(t), restores' = restores,
           NEW c \in {"sub", "query"}, db[c] # None, db'[c] # None, db'[c].created_at = db[c].created_at
    PROVE  Advances(db[c].last_ack, db'[c].last_ack)
<1>1. /\ DOMAIN db.sub = {"owner", "filter", "last_ack", "since", "created_at"} \/ db.sub = None
      /\ DOMAIN db.query = {"last_ack", "created_at"} \/ db.query = None
      /\ db[c].last_ack \in Tokens /\ db[c].created_at \in 1..Len(hist) /\ Len(hist) \in Nat
  <2>1. Len(hist) \in Nat
    BY ThreadFacts
  <2> QED
    BY <2>1, RowFacts DEF CdcInv
<1>2. db[c].created_at # Len(hist) + 1
  BY <1>1, SMTT(30)
<1>3. Advances(db[c].last_ack, db[c].last_ack)
  <2>1. db[c].last_ack.lsn \in Nat
    BY <1>1 DEF Tokens
  <2>2. ~(db[c].last_ack.lsn < db[c].last_ack.lsn)
    BY <2>1, SMTT(30)
  <2> QED
    BY <2>2 DEF Advances
<1>4. CASE db'[c] = db[c]
  BY <1>3, <1>4
<1>5. CASE AckWrite(t) \/ CreateSubWrite(t) \/ AdoptWrite(t)
  <2>1. CASE c = "query"
    BY ZenonT(40), <1>3, <1>5, <2>1, SubWrites
  <2>2. CASE c = "sub"
    <3>1. CASE AckWrite(t) /\ db.sub = th[t].snap /\ db'.sub = [th[t].snap EXCEPT !.last_ack = th[t].tok]
      <4>1. th[t].pc = "ack"
        BY <3>1 DEF AckWrite, Runs
      <4>2. Advances(db.sub.last_ack, th[t].tok)
        BY <3>1, <4>1, ThreadFacts DEF AckInv
      <4>3. db'.sub.last_ack = th[t].tok
        BY <1>1, <2>2, <3>1, SMTT(30)
      <4> QED
        BY <2>2, <4>2, <4>3
    <3>2. CASE db.sub = th[t].snap /\ db'.sub = [th[t].snap EXCEPT !.owner = th[t].who]
      <4>1. db'.sub.last_ack = db.sub.last_ack
        BY <1>1, <2>2, <3>2, SMTT(30)
      <4> QED
        BY <1>3, <2>2, <4>1
    <3> QED
      BY <1>2, <1>4, <1>5, <2>2, <3>1, <3>2, SubWrites
  <2> QED
    BY <2>1, <2>2
<1>6. CASE ApplyQueryWrite(t) \/ CreateQuery(t) \/ AckQueryWrite(t) \/ AckQueryOnly(t)
  <2>1. CASE \E filter : /\ BothUnchanged(t) /\ db'.sub = Reapplied(t, filter).sub
                         /\ db'.query = Reapplied(t, filter).query
    <3>1. PICK filter : /\ BothUnchanged(t) /\ db'.sub = Reapplied(t, filter).sub
                        /\ db'.query = Reapplied(t, filter).query
      BY <2>1
    <3>2. CASE c = "sub"
      <4>1. db'.sub = [db.sub EXCEPT !.filter = filter, !.since = db.sub.last_ack]
        BY <3>1, <3>2, SMTT(30) DEF Reapplied, BothUnchanged
      <4>2. db'.sub.last_ack = db.sub.last_ack
        BY <1>1, <3>2, <4>1, SMTT(30)
      <4> QED
        BY <1>3, <3>2, <4>2
    <3>3. CASE c = "query"
      <4>1. db'.query = db.query
        BY <3>1, <3>3, SMTT(30) DEF Reapplied, BothUnchanged
      <4> QED
        BY <1>4, <3>3, <4>1
    <3> QED
      BY <3>2, <3>3
  <2>2. CASE CreateQuery(t) /\ db'.sub = db.sub /\ db'.query.created_at = Len(hist) + 1
    BY <1>2, <1>4, <2>2
  <2>3. CASE /\ AckQueryWrite(t) /\ BothUnchanged(t)
             /\ db'.sub = [th[t].snap EXCEPT !.last_ack = th[t].tok]
             /\ db'.query = [th[t].state EXCEPT !.last_ack = th[t].tok]
    <3>1. th[t].pc = "ack" /\ start.call[t] = "ack_query" /\ db.query = th[t].state /\ db.sub = th[t].snap
      BY <2>3 DEF AckQueryWrite, Runs, BothUnchanged
    <3>2. Advances(db.sub.last_ack, th[t].tok) /\ Advances(db.query.last_ack, th[t].tok)
      BY <3>1, ThreadFacts DEF AckInv
    <3>3. db'[c].last_ack = th[t].tok
      BY <1>1, <2>3, <3>1, SMTT(30)
    <3> QED
      BY <3>2, <3>3
  <2>4. CASE /\ AckQueryOnly(t) /\ db'.sub = db.sub /\ db.query # None
             /\ \E token : Advances(db.query.last_ack, token) /\ db'.query = [db.query EXCEPT !.last_ack = token]
    <3>1. PICK token : Advances(db.query.last_ack, token) /\ db'.query = [db.query EXCEPT !.last_ack = token]
      BY <2>4
    <3>2. db'.query.last_ack = token
      BY <1>1, <2>4, <3>1, SMTT(30)
    <3> QED
      BY <1>4, <2>4, <3>1, <3>2
  <2> QED
    BY <1>4, <1>6, <2>1, <2>2, <2>3, <2>4, QueryWrites DEF Untouched
<1>7. CASE WriteView(t)
  <2>1. NoCommit \/ \E r : Commit([view |-> r])
    BY ZenonT(40), <1>7 DEF WriteView
  <2>2. \A r : DOMAIN [view |-> r] = {"view"}
    BY SMTT(30)
  <2>3. db'.sub = db.sub /\ db'.query = db.query
    BY <2>1, <2>2, Written, ConsumerTables DEF NoCommit
  <2> QED
    BY <1>4, <2>3
<1> QED
  BY ZenonT(40), <1>4, <1>5, <1>6, <1>7, Writers DEF Untouched

(* No step moves a cursor back. *)
LEMMA CursorNext ==
    ASSUME CdcInv, Next, restores' = restores, NEW c \in {"sub", "query"},
           db[c] # None, db'[c] # None, db'[c].created_at = db[c].created_at
    PROVE  Advances(db[c].last_ack, db'[c].last_ack)
<1>1. CASE Crash
  <2>1. db'[c].last_ack = db[c].last_ack
    BY <1>1 DEF Crash, NoCommit
  <2>2. db[c].last_ack \in Tokens
    BY RowFacts DEF CdcInv
  <2>3. ~(db[c].last_ack.lsn < db[c].last_ack.lsn)
    BY <2>2, SMTT(30) DEF Tokens
  <2> QED
    BY <2>1, <2>3 DEF Advances
<1>2. CASE \E t \in Threads : Step(t)
  BY ZenonT(40), <1>2, CursorStep
<1> QED
  BY <1>1, <1>2 DEF Next

(* An acknowledgement finds its owner. *)
LEMMA OwnerNext ==
    ASSUME CdcInv, Next, restores' = restores, NEW t \in Threads,
           th[t].pc = "ack", th[t].who # Root, db'.sub # db.sub, th'[t] # th[t]
    PROVE  db.sub.owner = th[t].who
<1>1. ~Crash
  BY DEF Crash, NoCommit
<1>2. PICK u \in Threads : Step(u)
  BY <1>1 DEF Next
<1>3. AckWrite(u) \/ CreateSubWrite(u) \/ AdoptWrite(u) \/ ApplyQueryWrite(u) \/ AckQueryWrite(u)
  <2>1. WriteView(u) => db'.sub = db.sub
    <3>1. \A r : "sub" \notin DOMAIN [view |-> r]
      BY SMTT(30)
    <3>2. WriteView(u) => NoCommit \/ \E r : Commit([view |-> r])
      BY DEF WriteView
    <3>3. ASSUME NEW r, Commit([view |-> r]) PROVE db'.sub = db.sub
      BY <3>1, <3>3, SubKept
    <3> QED
      BY <3>2, <3>3 DEF NoCommit
  <2>2. CreateQuery(u) \/ AckQueryOnly(u) => \E q : Commit([query |-> q])
    BY DEF CreateQuery, AckQueryOnly
  <2>3. \A q : "sub" \notin DOMAIN [query |-> q]
    BY SMTT(30)
  <2>4. ASSUME NEW q, Commit([query |-> q]) PROVE db'.sub = db.sub
    BY <2>3, <2>4, SubKept
  <2> QED
    BY <1>2, <2>1, <2>2, <2>4, Writers DEF Untouched
<1>4. Stops(u)
  <2>1. AckWrite(u) \/ CreateSubWrite(u) \/ AdoptWrite(u) => Stops(u)
    BY SubWrites
  <2>2. ApplyQueryWrite(u) => Stops(u)
    BY DEF ApplyQueryWrite
  <2>3. AckQueryWrite(u) => Stops(u)
    BY DEF AckQueryWrite
  <2> QED
    BY <1>3, <2>1, <2>2, <2>3
<1>5. u = t
  BY <1>4, GoesAlone DEF Stops, Alone
<1>6. AckWrite(t) \/ AckQueryWrite(t)
  BY <1>3, <1>5 DEF CreateSubWrite, AdoptWrite, ApplyQueryWrite, Runs
<1>7. db.sub = th[t].snap
  <2>1. AckWrite(t) => db.sub = th[t].snap
    BY DEF AckWrite, SubUnchanged, NoCommit
  <2>2. AckQueryWrite(t) => db.sub = th[t].snap
    BY DEF AckQueryWrite, BothUnchanged, NoCommit
  <2> QED
    BY <1>6, <2>1, <2>2
<1>8. th[t].who \in {Root, th[t].snap.owner}
  BY ThreadFacts DEF AckInv
<1> QED
  BY <1>7, <1>8

(* No step makes the view older. *)
LEMMA ViewNext ==
    ASSUME CdcInv, Next, restores' = restores, HasView
    PROVE  /\ db'.view.state.fresh_to_lsn >= db.view.state.fresh_to_lsn
           /\ (\A t \in Threads : start.call[t] = "create_view" => th'[t] = th[t])
                 => db'.view.spec = db.view.spec
<1>1. db.view.state.fresh_to_lsn \in Nat
  BY RowFacts DEF CdcInv
<1>2. db.view.state.fresh_to_lsn >= db.view.state.fresh_to_lsn
  BY <1>1, SMTT(30)
<1>3. CASE db'.view = db.view
  BY <1>2, <1>3
<1>4. ASSUME NEW t \in Threads, WriteView(t), db'.view # db.view
      PROVE  /\ db'.view.state.fresh_to_lsn >= db.view.state.fresh_to_lsn
             /\ (\A u \in Threads : start.call[u] = "create_view" => th'[u] = th[u])
                   => db'.view.spec = db.view.spec
  <2> DEFINE st == [fresh_to_lsn |-> th[t].tok.lsn, source_rows |-> th[t].state.source_rows,
                    groups |-> th[t].state.groups]
             r == [spec |-> th[t].who, state |-> st]
             w == [view |-> r]
  <2>1. /\ start.call[t] \in {"create_view", "refresh"} /\ th[t].pc = "write" /\ Stops(t)
        /\ ViewUnchanged(th[t].snap) /\ Commit(w)
    BY <1>4 DEF WriteView, NoCommit
  <2>2. DOMAIN w = {"view"} /\ w.view = r /\ r.spec = th[t].who /\ r.state.fresh_to_lsn = th[t].tok.lsn
    BY SMTT(30)
  <2> HIDE DEF st, r, w
  <2>3. db'.view = r
    <3>1. "view" \in DOMAIN w
      BY <2>2
    <3> QED
      BY <2>1, <2>2, <3>1, Written, ConsumerTables
  <2>4. th[t].snap[1] = db.view.spec /\ th[t].snap[2] = db.view.state
    BY <2>1, SMTT(30) DEF ViewUnchanged
  <2>5. db.view.spec # None
    BY DEF HasView
  <2>6. ViewInv(t, th[t]) /\ th[t].tok.lsn \in Nat /\ th[t].through \in Int
    BY ThreadFacts
  <2>7. /\ th[t].snap[2].fresh_to_lsn <= th[t].through /\ th[t].through <= th[t].tok.lsn
        /\ start.call[t] = "refresh" => th[t].who = th[t].snap[1]
    BY <2>1, <2>4, <2>5, <2>6, SMTT(30) DEF ViewInv
  <2>8. db'.view.state.fresh_to_lsn >= db.view.state.fresh_to_lsn
    BY <1>1, <2>2, <2>3, <2>4, <2>6, <2>7, SMTT(30)
  <2>9. ASSUME \A u \in Threads : start.call[u] = "create_view" => th'[u] = th[u]
        PROVE  db'.view.spec = db.view.spec
    <3>1. th'[t].pc = "idle"
      BY <2>1, GoesAlone, IdleFacts DEF Stops
    <3>2. start.call[t] = "refresh"
      BY <2>1, <2>9, <3>1
    <3> QED
      BY <2>2, <2>3, <2>4, <2>7, <3>2
  <2> QED
    BY <2>8, <2>9
<1>5. db'.view = db.view \/ \E t \in Threads : WriteView(t)
  <2>1. Crash => db'.view = db.view
    BY DEF Crash, NoCommit
  <2>2. ASSUME NEW t \in Threads, Step(t) PROVE db'.view = db.view \/ WriteView(t)
    <3>1. CASE AckWrite(t) \/ CreateSubWrite(t) \/ AdoptWrite(t)
      BY <3>1, SubWrites
    <3>2. CASE ApplyQueryWrite(t) \/ CreateQuery(t) \/ AckQueryWrite(t) \/ AckQueryOnly(t)
      BY <3>2, QueryWrites
    <3> QED
      BY <2>2, <3>1, <3>2, Writers DEF Untouched
  <2> QED
    BY <2>1, <2>2 DEF Next
<1> QED
  BY <1>3, <1>4, <1>5

-----------------------------------------------------------------------------
(* The changefeed.                                                         *)

(* What every step but a restore leaves alone. *)
LEMMA StepShape ==
    ASSUME NEW u \in Threads, Step(u), ~Restore(u)
    PROVE  /\ start' = start /\ restores' = restores
           /\ NoCommit \/ \E w : Commit(w)
           /\ th' = th \/ \E v : Goes(u, v)
           /\ client' = client \/ FeedTake(u)
<1> DEFINE Shape == /\ start' = start /\ restores' = restores
                    /\ NoCommit \/ \E w : Commit(w)
                    /\ th' = th \/ \E v : Goes(u, v)
                    /\ client' = client \/ FeedTake(u)
<1>0. OnlyReads => NoCommit /\ start' = start /\ restores' = restores /\ client' = client
  BY DEF OnlyReads, recovery, feeds
<1>1. UNCHANGED recovery => restores' = restores
  BY DEF recovery
<1>2. UNCHANGED feeds => client' = client
  BY DEF feeds
<1>3. CASE PollStart(u) \/ PollPage(u) \/ FeedPoll(u) \/ PushRead(u) \/ AckRead(u)
  BY <1>0, <1>3 DEF PollStart, PollPage, FeedPoll, PushRead, AckRead
<1>4. CASE FeedTake(u)
  BY <1>1, <1>4 DEF FeedTake, Stops
<1>5. CASE PushSend(u)
  <2>1. NoCommit /\ start' = start /\ UNCHANGED recovery /\ client' = client
    BY <1>5 DEF PushSend
  <2>2. \E v : Goes(u, v)
    BY <1>5 DEF PushSend, Stops
  <2> QED
    BY <1>1, <2>1, <2>2
<1>6. CASE CreateSubRead(u) \/ AdoptRead(u) \/ ApplyQueryRead(u) \/ ApplyQuerySub(u)
           \/ AckQueryRead(u) \/ AckQuerySub(u)
  BY <1>0, <1>6 DEF CreateSubRead, AdoptRead, ApplyQueryRead, ApplyQuerySub, AckQueryRead, AckQuerySub
<1>7. CASE CreateViewSpec(u) \/ CreateViewStart(u) \/ CreateViewSeed(u) \/ RefreshSpec(u) \/ RefreshState(u)
           \/ ApplyThrough(u) \/ ViewTake(u)
  BY <1>0, <1>7 DEF CreateViewSpec, CreateViewStart, CreateViewSeed, RefreshSpec, RefreshState,
     ApplyThrough, ViewTake
<1>8. CASE WriteBegin(u) \/ HookRecords(u) \/ GcPlan(u)
  BY <1>0, <1>8 DEF WriteBegin, HookRecords, GcPlan
<1>9. CASE AckWrite(u) \/ AdoptWrite(u)
  BY <1>1, <1>2, <1>9 DEF AckWrite, AdoptWrite, Stops
<1>10. CASE CreateSubWrite(u) \/ ApplyQueryWrite(u)
  BY <1>1, <1>10 DEF CreateSubWrite, ApplyQueryWrite, Stops
<1>11. CASE AckQueryWrite(u)
  BY <1>1, <1>11 DEF AckQueryWrite, Stops
<1>12. CASE CreateQuery(u) \/ AckQueryOnly(u) \/ SetHook(u) \/ Put(u) \/ RecordFork(u)
  BY <1>1, <1>2, <1>12 DEF CreateQuery, AckQueryOnly, SetHook, Put, RecordFork
<1>13. CASE WriteView(u) \/ WriteCommit(u)
  BY <1>1, <1>2, <1>13 DEF WriteView, WriteCommit, Stops
<1>14. CASE WriteAfter(u) \/ GcTruncate(u)
  BY <1>1, <1>2, <1>14 DEF WriteAfter, GcTruncate, Stops
<1>15. CASE HookDeliver(u)
  BY <1>1, <1>2, <1>15 DEF HookDeliver, Stops
<1>16. CASE HookFail(u)
  BY <1>1, <1>2, <1>16 DEF HookFail, Stops
<1>17. CASE FullBackup(u) \/ IncrementalBackup(u)
  BY <1>2, <1>17 DEF FullBackup, IncrementalBackup
<1> HIDE DEF Shape
<1>18. Shape
  BY <1>3, <1>4, <1>5, <1>6, <1>7, <1>8, <1>9, <1>10, <1>11, <1>12, <1>13, <1>14, <1>15, <1>16, <1>17 DEF
     Step, Shape
<1> QED
  BY <1>18 DEF Shape

(* The history that a caller has seen stays when the history grows. *)
LEMMA SeenStays ==
    ASSUME CdcInv, NoCommit \/ \E w : Commit(w), NEW n \in Nat, n <= Len(hist)
    PROVE  n <= Len(hist') /\ SubSeq(hist', 1, n) = SubSeq(hist, 1, n)
<1>1. (\E T : hist \in Seq(T)) /\ Len(hist) \in Nat
  BY LogFacts DEF CdcInv, IsLog
<1>2. CASE NoCommit
  BY <1>2 DEF NoCommit
<1>3. CASE \E w : Commit(w)
  <2>1. PICK e : hist' = Append(hist, e)
    BY <1>3 DEF Commit
  <2>2. /\ \E T : hist' \in Seq(T)
        /\ Len(hist') = Len(hist) + 1 /\ \A l \in 1..Len(hist) : hist'[l] = hist[l]
    <3>1. /\ \E T : Append(hist, e) \in Seq(T)
          /\ Len(Append(hist, e)) = Len(hist) + 1 /\ \A l \in 1..Len(hist) : Append(hist, e)[l] = hist[l]
      BY <1>1, AppendFacts, ZenonT(60)
    <3> QED
      BY <2>1, <3>1
  <2>3. n <= Len(hist') /\ n \in 0..Len(hist') /\ n \in 0..Len(hist) /\ \A l \in 1..n : l \in 1..Len(hist)
    BY <1>1, <2>2, SMTT(30)
  <2>4. /\ \E T : SubSeq(hist, 1, n) \in Seq(T)
        /\ Len(SubSeq(hist, 1, n)) = n /\ \A l \in 1..n : SubSeq(hist, 1, n)[l] = hist[l]
    BY <1>1, <2>3, PrefixFacts
  <2>5. /\ \E T : SubSeq(hist', 1, n) \in Seq(T)
        /\ Len(SubSeq(hist', 1, n)) = n /\ \A l \in 1..n : SubSeq(hist', 1, n)[l] = hist'[l]
    BY <2>2, <2>3, PrefixFacts
  <2>6. \A l \in 1..n : SubSeq(hist', 1, n)[l] = SubSeq(hist, 1, n)[l]
    BY <2>2, <2>3, <2>4, <2>5
  <2>7. SubSeq(hist', 1, n) = SubSeq(hist, 1, n)
    BY <2>4, <2>5, <2>6, SameLog
  <2> QED
    BY <2>3, <2>7
<1> QED
  BY <1>2, <1>3

(* The history up to an LSN, and what follows up to another one. *)
LEMMA SeenGrows ==
    ASSUME NEW h, \E T : h \in Seq(T), NEW n \in Nat, NEW q \in Nat, n <= q, q <= Len(h)
    PROVE  SubSeq(h, 1, n) \o SubSeq(h, n + 1, q) = SubSeq(h, 1, q)
<1> DEFINE g == SubSeq(h, 1, n)
           k == SubSeq(h, 1, q)
<1>1. Len(h) \in Nat /\ n \in 0..Len(h) /\ q \in 0..Len(h)
  <2>1. Len(h) \in Nat
    BY LogFacts
  <2> QED
    BY <2>1, SMTT(30)
<1>2. /\ (\E T : g \in Seq(T)) /\ Len(g) = n /\ \A l \in 1..n : g[l] = h[l]
      /\ (\E T : k \in Seq(T)) /\ Len(k) = q /\ \A l \in 1..q : k[l] = h[l]
  BY <1>1, PrefixFacts
<1>3. SubSeq(k, n + 1, q) = SubSeq(h, n + 1, q)
  <2>1. PICK T : h \in Seq(T)
    BY SMT
  <2>2. PICK U : k \in Seq(U)
    BY <1>2
  <2> HIDE DEF k, g
  <2>3. /\ SubSeq(k, n + 1, q) \in Seq(U) /\ Len(SubSeq(k, n + 1, q)) = q - n
        /\ \A l \in 1..(q - n) : SubSeq(k, n + 1, q)[l] = k[n + l]
    BY <1>2, <2>2, SMTT(30)
  <2>4. /\ SubSeq(h, n + 1, q) \in Seq(T) /\ Len(SubSeq(h, n + 1, q)) = q - n
        /\ \A l \in 1..(q - n) : SubSeq(h, n + 1, q)[l] = h[n + l]
    BY <1>1, <2>1, SMTT(30)
  <2>5. \A l \in 1..(q - n) : n + l \in 1..q
    BY SMTT(30)
  <2>6. \A l \in 1..(q - n) : SubSeq(k, n + 1, q)[l] = SubSeq(h, n + 1, q)[l]
    BY ZenonT(40), <1>2, <2>3, <2>4, <2>5
  <2> QED
    BY <2>3, <2>4, <2>6, SameLog
<1>4. \A l \in 1..n : l \in 1..q
  BY SMTT(30)
<1> HIDE DEF g, k
<1>5. g \o SubSeq(k, n + 1, q) = k
  <2>1. \A l \in 1..Len(g) : g[l] = k[l]
    BY <1>2, <1>4
  <2> QED
    BY <1>2, <2>1, ChainFacts
<1> QED
  BY <1>3, <1>5 DEF g, k

(* A step of the caller itself starts a poll, ends it, or keeps its position. *)
LEMMA FeedSteps ==
    ASSUME CdcInv, NEW t \in Threads, Step(t), start.call[t] = "feed"
    PROVE  \/ th'[t].pc = "idle"
           \/ FeedPoll(t) /\ th'[t].tok = client.tok
           \/ th[t].pc # "idle" /\ th'[t].tok.lsn = th[t].tok.lsn
<1>1. PollStart(t) \/ PollPage(t) \/ FeedPoll(t) \/ FeedTake(t) \/ ApplyThrough(t)
  <2>1. ~PushRead(t) /\ ~PushSend(t) /\ ~AckRead(t) /\ ~AckWrite(t)
    BY DEF PushRead, PushSend, AckRead, AckWrite, Runs
  <2>2. ~CreateSubRead(t) /\ ~CreateSubWrite(t) /\ ~AdoptRead(t) /\ ~AdoptWrite(t)
    BY DEF CreateSubRead, CreateSubWrite, AdoptRead, AdoptWrite, Runs
  <2>3. ~ApplyQueryRead(t) /\ ~ApplyQuerySub(t) /\ ~ApplyQueryWrite(t) /\ ~CreateQuery(t)
    BY DEF ApplyQueryRead, ApplyQuerySub, ApplyQueryWrite, CreateQuery, Runs
  <2>4. ~AckQueryRead(t) /\ ~AckQuerySub(t) /\ ~AckQueryWrite(t) /\ ~AckQueryOnly(t)
    BY DEF AckQueryRead, AckQuerySub, AckQueryWrite, AckQueryOnly, Runs
  <2>5. ~CreateViewSpec(t) /\ ~CreateViewStart(t) /\ ~CreateViewSeed(t) /\ ~RefreshSpec(t) /\ ~RefreshState(t)
    BY DEF CreateViewSpec, CreateViewStart, CreateViewSeed, RefreshSpec, RefreshState, Runs
  <2>6. ~ViewTake(t) /\ ~WriteView(t) /\ ~SetHook(t) /\ ~Put(t) /\ ~WriteBegin(t) /\ ~WriteCommit(t)
    BY DEF ViewTake, WriteView, SetHook, Put, WriteBegin, WriteCommit, Runs
  <2>7. ~WriteAfter(t) /\ ~HookRecords(t) /\ ~HookDeliver(t) /\ ~HookFail(t) /\ ~GcPlan(t) /\ ~GcTruncate(t)
    BY DEF WriteAfter, HookRecords, HookDeliver, HookFail, GcPlan, GcTruncate, Runs
  <2>8. ~FullBackup(t) /\ ~IncrementalBackup(t) /\ ~Restore(t) /\ ~RecordFork(t)
    BY DEF FullBackup, IncrementalBackup, Restore, RecordFork, Runs
  <2> QED
    BY <2>1, <2>2, <2>3, <2>4, <2>5, <2>6, <2>7, <2>8 DEF Step
<1>2. DOMAIN th = Threads /\ DOMAIN th[t] = Fields /\ DOMAIN Idle = Fields /\ Idle.pc = "idle"
  BY ThreadFacts, IdleFacts
<1>3. th[t].tok \in Tokens
  BY ThreadFacts
<1>4. CASE PollStart(t)
  <2>1. th[t].pc = "poll" /\
        \/ th'[t] = [th[t] EXCEPT !.pc = "page", !.tok.timeline_id = timeline]
        \/ th'[t] = Idle
    BY <1>2, <1>4 DEF PollStart, Goes
  <2>2. [th[t] EXCEPT !.pc = "page", !.tok.timeline_id = timeline].tok.lsn = th[t].tok.lsn
    BY <1>2, <1>3, SMTT(30) DEF Fields, Tokens
  <2> QED
    BY <1>2, <2>1, <2>2
<1>5. CASE PollPage(t)
  <2>1. PICK e, p, m : th'[t] = [th[t] EXCEPT !.pc = "paged", !.through = e, !.page = p, !.more = m]
    BY <1>2, <1>5 DEF PollPage, Goes
  <2>2. [th[t] EXCEPT !.pc = "paged", !.through = e, !.page = p, !.more = m].tok = th[t].tok
    BY <1>2, SMTT(30) DEF Fields
  <2>3. th[t].pc = "page"
    BY <1>5 DEF PollPage
  <2> QED
    BY <2>1, <2>2, <2>3
<1>6. CASE FeedPoll(t)
  <2>1. th'[t] = [Idle EXCEPT !.pc = "poll", !.tok = client.tok, !.through = start.max_lsn]
    BY <1>2, <1>6 DEF FeedPoll, Goes
  <2>2. [Idle EXCEPT !.pc = "poll", !.tok = client.tok, !.through = start.max_lsn].tok = client.tok
    BY <1>2, SMTT(30) DEF Fields
  <2> QED
    BY <1>6, <2>1, <2>2
<1>7. CASE FeedTake(t)
  BY <1>2, <1>7 DEF FeedTake, Stops, Goes
<1>8. CASE ApplyThrough(t)
  <2>1. th[t].pc = "apply" /\ th'[t] = [th[t] EXCEPT !.pc = "poll", !.through = Len(hist)]
    BY <1>2, <1>8 DEF ApplyThrough, Goes, current_lsn
  <2>2. [th[t] EXCEPT !.pc = "poll", !.through = Len(hist)].tok = th[t].tok
    BY <1>2, SMTT(30) DEF Fields
  <2> QED
    BY <2>1, <2>2
<1> QED
  BY <1>1, <1>4, <1>5, <1>6, <1>7, <1>8

(* The caller takes what follows its token and nothing else. *)
LEMMA FeedTakes ==
    ASSUME CdcInv, FeedInv, NEW t \in Threads, FeedTake(t)
    PROVE  client'.tok.lsn <= Len(hist) /\ client'.seen = SubSeq(hist, 1, client'.tok.lsn)
<1>1. start.call[t] = "feed" /\ th[t].pc = "paged" /\ th[t].pc # "idle"
  BY DEF FeedTake, Runs
<1>2. /\ client.tok.lsn <= Len(hist) /\ client.seen = SubSeq(hist, 1, client.tok.lsn)
      /\ th[t].tok.lsn = client.tok.lsn
  BY <1>1 DEF FeedInv
<1>3. CASE ~PageIntact(t)
  BY <1>2, <1>3 DEF FeedTake
<1>4. CASE PageIntact(t)
  <2> DEFINE n == client.tok.lsn
             q == NextToken(t).lsn
             p == th[t].page
  <2>1. client'.tok = NextToken(t) /\ client'.seen = client.seen \o SubSeq(hist, p[1], p[2])
    <3>1. client' = [tok |-> NextToken(t), seen |-> client.seen \o SubSeq(hist, p[1], p[2])]
      BY <1>4 DEF FeedTake
    <3>2. \A x, y : [tok |-> x, seen |-> y].tok = x /\ [tok |-> x, seen |-> y].seen = y
      BY SMTT(30)
    <3> QED
      BY <3>1, <3>2
  <2>2. /\ NextToken(t) \in Tokens /\ n <= q /\ (q <= Len(hist) \/ NextToken(t) = th[t].tok)
        /\ ~Empty(p) => p[1] = n + 1 /\ q = p[2]
    BY <1>1, <1>2, <1>4, PageFacts
  <2>3. /\ n \in Nat /\ q \in Nat /\ q <= Len(hist) /\ (\E T : hist \in Seq(T)) /\ Len(hist) \in Nat
        /\ PageInv(th[t])
    BY <1>1, <1>2, <2>2, ThreadFacts DEF CdcInv, IsLog, Tokens, TypedInv
  <2>4. p[1] \in Nat /\ p[2] \in Int
    BY <2>3 DEF PageInv
  <2>5. CASE Empty(p)
    <3>1. q = n
      BY <1>2, <2>5 DEF NextToken
    <3> HIDE DEF n, q, p
    <3>2. PICK T : hist \in Seq(T)
      BY <2>3
    <3>3. p[1] > p[2] /\ n \in 0..Len(hist) /\ n <= Len(hist)
      BY <2>2, <2>3, <2>5, <3>1, SMTT(30) DEF Empty
    <3>4. SubSeq(hist, p[1], p[2]) = <<>>
      BY <2>3, <2>4, <3>2, <3>3, SMTT(30)
    <3>5. SubSeq(hist, 1, n) \in Seq(T)
      BY <3>2, <3>3, SMTT(30)
    <3>6. SubSeq(hist, 1, n) \o <<>> = SubSeq(hist, 1, n)
      BY <3>5, SMTT(30)
    <3> QED
      BY <1>2, <2>1, <2>3, <3>1, <3>4, <3>6 DEF n, q, p
  <2>6. CASE ~Empty(p)
    <3>1. p[1] = n + 1 /\ p[2] = q
      BY <2>2, <2>6
    <3> HIDE DEF n, q, p
    <3>2. SubSeq(hist, 1, n) \o SubSeq(hist, n + 1, q) = SubSeq(hist, 1, q)
      BY <2>2, <2>3, SeenGrows
    <3> QED
      BY <1>2, <2>1, <2>3, <3>1, <3>2 DEF n, q, p
  <2> QED
    BY <2>5, <2>6
<1> QED
  BY <1>3, <1>4

(* No start mixes the caller of the changefeed with restores. *)
NoRestoredFeed == \A s \in Starts, t \in Threads : s.call[t] = "feed" => s.max_restores = 0

LEMMA FeedStepKeeps ==
    ASSUME NoRestoredFeed, CdcInv, FeedInv, NEW u \in Threads, Step(u)
    PROVE  FeedInv'
<1>0. start' = start
  <2>1. Restore(u) => start' = start
    BY DEF Restore
  <2> QED
    BY <2>1, StepShape
<1> SUFFICES ASSUME NEW t \in Threads, start.call[t] = "feed"
             PROVE  /\ restores' = 0
                    /\ client'.tok.lsn <= Len(hist')
                    /\ client'.seen = SubSeq(hist', 1, client'.tok.lsn)
                    /\ th'[t].pc # "idle" => th'[t].tok.lsn = client'.tok.lsn
  BY <1>0 DEF FeedInv
<1>1. /\ restores = 0 /\ client.tok.lsn <= Len(hist) /\ client.seen = SubSeq(hist, 1, client.tok.lsn)
      /\ th[t].pc # "idle" => th[t].tok.lsn = client.tok.lsn
  BY DEF FeedInv
<1>2. ~Restore(u)
  <2>1. start.max_restores = 0
    BY DEF NoRestoredFeed, CdcInv, StateInv
  <2>2. ~(restores < start.max_restores)
    BY <1>1, <2>1, SMTT(30)
  <2> QED
    BY <2>2 DEF Restore
<1>3. /\ restores' = restores /\ (NoCommit \/ \E w : Commit(w)) /\ (th' = th \/ \E v : Goes(u, v))
      /\ client' = client \/ FeedTake(u)
  BY <1>2, StepShape
<1>4. ASSUME FeedTake(u)
      PROVE  /\ u = t /\ hist' = hist /\ th'[t].pc = "idle"
             /\ client'.tok.lsn <= Len(hist) /\ client'.seen = SubSeq(hist, 1, client'.tok.lsn)
  <2>1. start.call[u] = "feed" /\ hist' = hist /\ Stops(u)
    BY <1>4 DEF FeedTake, Runs, NoCommit
  <2>2. u = t
    BY <2>1, StartsAssumption DEF CdcInv, StateInv
  <2>3. th'[t].pc = "idle"
    BY <2>1, <2>2, GoesAlone, IdleFacts DEF Stops
  <2> QED
    BY <1>4, <2>1, <2>2, <2>3, FeedTakes
<1>5. CASE FeedTake(u)
  BY <1>1, <1>3, <1>4, <1>5
<1>6. CASE client' = client
  <2>1. client.tok.lsn \in Nat
    BY DEF CdcInv, StateInv, Tokens
  <2>2. client.tok.lsn <= Len(hist') /\ SubSeq(hist', 1, client.tok.lsn) = SubSeq(hist, 1, client.tok.lsn)
    BY <1>1, <1>3, <2>1, SeenStays
  <2>3. th'[t].pc # "idle" => th'[t].tok.lsn = client.tok.lsn
    <3>1. CASE u = t
      BY <1>1, <3>1, FeedSteps
    <3>2. CASE u # t
      <4>1. th'[t] = th[t]
        BY <1>3, <3>2, GoesAlone DEF Alone
      <4> QED
        BY <1>1, <4>1
    <3> QED
      BY <3>1, <3>2
  <2> QED
    BY <1>1, <1>3, <1>6, <2>2, <2>3
<1> QED
  BY <1>3, <1>5, <1>6

LEMMA FeedInit ==
    ASSUME Init
    PROVE  FeedInv
<1>1. /\ restores = 0 /\ client.tok.lsn = 0 /\ client.seen = <<>>
      /\ \A t \in Threads : th[t].pc = "idle"
  BY IdleFacts, SMTT(30) DEF Init, Token
<1>2. \E T : hist \in Seq(T)
  BY StartsAssumption DEF Init
<1>3. SubSeq(hist, 1, 0) = <<>> /\ 0 <= Len(hist)
  BY <1>2, SMTT(30)
<1> QED
  BY <1>1, <1>3 DEF FeedInv

LEMMA FeedNext ==
    ASSUME NoRestoredFeed, CdcInv, FeedInv, [Next]_vars
    PROVE  FeedInv'
<1>1. CASE Crash
  <2>1. /\ hist' = hist /\ start' = start /\ restores' = restores /\ client' = client
        /\ \A t \in Threads : th'[t].pc = "idle"
    BY <1>1, IdleFacts DEF Crash, NoCommit, recovery, feeds
  <2> QED
    BY <2>1 DEF FeedInv
<1>2. CASE UNCHANGED vars
  BY <1>2 DEF FeedInv, vars
<1> QED
  BY <1>1, <1>2, FeedStepKeeps DEF Next

LEMMA FeedMoves ==
    ASSUME CdcInv, FeedInv, Next, client' # client
    PROVE  client'.tok.lsn <= Len(hist) /\ client'.seen = SubSeq(hist, 1, client'.tok.lsn)
<1>1. ~Crash
  BY DEF Crash, feeds
<1>2. PICK u \in Threads : Step(u)
  BY <1>1 DEF Next
<1>3. FeedTake(u)
  <2>1. ~Restore(u)
    BY DEF Restore, feeds
  <2> QED
    BY <1>2, <2>1, StepShape
<1> QED
  BY <1>3, FeedTakes

-----------------------------------------------------------------------------
(* The invariant holds.                                                    *)

Sets == INSTANCE Extrema

(* The newest commit that wrote a table, which TablesOf looks for. *)
LEMMA MaxOfBounded ==
    ASSUME NEW n \in Nat, NEW S, S \subseteq 0..n, S # {}
    PROVE  Max(S) \in S
  BY Sets!MaxOfBounded DEF Max, Sets!Max

(* The least of the bounds of a GC run is one of them. *)
LEMMA MinOfNaturals ==
    ASSUME NEW S, S \subseteq Nat, S # {}
    PROVE  Min(S) \in S
  BY Sets!LeastNatural DEF Min

(* What restoring a history puts into a table is there for a commit of it. *)
LEMMA TablesFromLog ==
    ASSUME NEW h, \E T : h \in Seq(T)
    PROVE  /\ DOMAIN TablesOf(h) = Tables
           /\ \A c \in Tables \ {"rows"} :
                 \/ TablesOf(h)[c] = NoTables[c]
                 \/ \E l \in DOMAIN h : c \in DOMAIN h[l].writes /\ TablesOf(h)[c] = h[l].writes[c]
<1>1. DOMAIN TablesOf(h) = Tables
  BY TableNames DEF TablesOf
<1>2. ASSUME NEW c \in Tables \ {"rows"}, Wrote(h, c) # {}
      PROVE  \E l \in DOMAIN h : c \in DOMAIN h[l].writes /\ TablesOf(h)[c] = h[l].writes[c]
  <2>1. Len(h) \in Nat /\ DOMAIN h = 1..Len(h)
    BY LogFacts
  <2>2. Wrote(h, c) \subseteq 0..Len(h)
    BY <2>1, SMTT(30) DEF Wrote
  <2>3. Max(Wrote(h, c)) \in Wrote(h, c)
    BY <1>2, <2>1, <2>2, MaxOfBounded
  <2>4. Max(Wrote(h, c)) \in DOMAIN h /\ c \in DOMAIN h[Max(Wrote(h, c))].writes
    BY <2>1, <2>3 DEF Wrote
  <2>5. TablesOf(h)[c] = h[Max(Wrote(h, c))].writes[c]
    BY <1>2, TableNames DEF TablesOf
  <2> QED
    BY <2>4, <2>5
<1>3. ASSUME NEW c \in Tables \ {"rows"}, Wrote(h, c) = {}
      PROVE  TablesOf(h)[c] = NoTables[c]
  BY <1>3, TableNames DEF TablesOf
<1> QED
  BY <1>1, <1>2, <1>3

(* The rows that a restored database keeps are rows of its history. *)
LEMMA RestoredRows ==
    ASSUME NEW h, \E T : h \in Seq(T)
    PROVE  /\ DOMAIN TablesOf(h) = Tables
           /\ \A c \in {"sub", "query"} : TablesOf(h)[c] # None =>
                 \E l \in DOMAIN h : c \in DOMAIN h[l].writes /\ TablesOf(h)[c] = h[l].writes[c]
           /\ TablesOf(h).view.spec # None =>
                 \E l \in DOMAIN h : "view" \in DOMAIN h[l].writes /\ TablesOf(h).view = h[l].writes.view
<1>1. /\ "sub" \in Tables \ {"rows"} /\ "query" \in Tables \ {"rows"} /\ "view" \in Tables \ {"rows"}
      /\ NoTables["sub"] = None /\ NoTables["query"] = None /\ NoTables["view"].spec = None
  BY SMT DEF Tables, NoTables
<1>2. /\ DOMAIN TablesOf(h) = Tables
      /\ \A c \in Tables \ {"rows"} :
            \/ TablesOf(h)[c] = NoTables[c]
            \/ \E l \in DOMAIN h : c \in DOMAIN h[l].writes /\ TablesOf(h)[c] = h[l].writes[c]
  BY TablesFromLog
<1>3. ASSUME NEW c \in {"sub", "query"}, TablesOf(h)[c] # None
      PROVE  \E l \in DOMAIN h : c \in DOMAIN h[l].writes /\ TablesOf(h)[c] = h[l].writes[c]
  <2>1. c \in Tables \ {"rows"} /\ NoTables[c] = None
    BY <1>1
  <2> QED
    BY <1>2, <1>3, <2>1
<1>4. TablesOf(h).view.spec # None =>
         \E l \in DOMAIN h : "view" \in DOMAIN h[l].writes /\ TablesOf(h).view = h[l].writes.view
  BY <1>1, <1>2
<1> QED
  BY <1>2, <1>3, <1>4

LEMMA GcPlanKeeps ==
    ASSUME CdcInv, NEW t \in Threads, GcPlan(t)
    PROVE  CdcInv'
<1> DEFINE bounds(retain) ==
              {Max({1, Len(hist) + 1 - retain}), Len(hist)}
                 \cup {r.last_ack.lsn + 1 : r \in {db.sub, db.query} \ {None}}
                 \cup IF HasView THEN {db.view.state.fresh_to_lsn + 1} ELSE {}
<1>1. PICK retain \in Retains : Goes(t, [Idle EXCEPT !.pc = "truncate", !.through = Min(bounds(retain))])
  BY DEF GcPlan, current_lsn
<1> DEFINE v == [Idle EXCEPT !.pc = "truncate", !.through = Min(bounds(retain))]
<1>2. start.call[t] = "gc" /\ OnlyReads /\ Goes(t, v) /\ Len(hist) \in Nat
  BY <1>1, ThreadFacts DEF GcPlan, Runs
<1>3. Min(bounds(retain)) \in Nat
  <2>1. Max({1, Len(hist) + 1 - retain}) \in Nat
    <3>1. retain \in Nat
      BY RetainsAssumption
    <3>2. 1 \in Int /\ Len(hist) + 1 - retain \in Int
      BY <1>2, <3>1, SMTT(30)
    <3>3. /\ Max({1, Len(hist) + 1 - retain}) \in {1, Len(hist) + 1 - retain}
          /\ 1 <= Max({1, Len(hist) + 1 - retain})
      BY <3>2, PairFacts
    <3> QED
      BY <3>2, <3>3, SMTT(30)
  <2>2. ASSUME NEW r \in {db.sub, db.query} \ {None} PROVE r.last_ack.lsn + 1 \in Nat
    <3>1. /\ db.sub # None => db.sub.last_ack \in Tokens
          /\ db.query # None => db.query.last_ack \in Tokens
      BY RowFacts DEF CdcInv
    <3>2. r.last_ack.lsn \in Nat
      BY <2>2, <3>1, SMTT(30) DEF Tokens
    <3> QED
      BY <3>2, SMTT(30)
  <2>3. ASSUME HasView PROVE db.view.state.fresh_to_lsn + 1 \in Nat
    <3>1. db.view.state.fresh_to_lsn \in Nat
      BY <2>3, RowFacts DEF CdcInv
    <3> QED
      BY <3>1, SMTT(30)
  <2>4. bounds(retain) \subseteq Nat
    BY <1>2, <2>1, <2>2, <2>3
  <2>5. bounds(retain) # {}
    OBVIOUS
  <2> HIDE DEF bounds, v
  <2>6. Min(bounds(retain)) \in bounds(retain)
    BY <2>4, <2>5, MinOfNaturals
  <2> QED
    BY <2>4, <2>6
<1> HIDE DEF bounds
<1>4. v.pc = "truncate" /\ DOMAIN v = Fields /\ v.tok = Idle.tok /\ v.through \in Int
  BY <1>3, IdleFacts, SMTT(30) DEF Fields
<1> HIDE DEF v
<1>5. 0 <= Len(hist)
  BY <1>2, SMTT(30)
<1>6. ThreadInv(t, v)
  BY <1>2, <1>4, <1>5, IdleFacts, PlainInv
<1> QED
  BY <1>2, <1>6, ReadKeeps

LEMMA StepKeeps ==
    ASSUME CdcInv, NEW t \in Threads, Step(t)
    PROVE  CdcInv'
<1>1. CASE PollStart(t) \/ PollPage(t) \/ FeedPoll(t) \/ FeedTake(t)
  BY <1>1, PollStartKeeps, PollPageKeeps, FeedPollKeeps, FeedTakeKeeps
<1>2. CASE PushRead(t) \/ PushSend(t) \/ AckRead(t) \/ AckWrite(t)
  BY <1>2, PushReadKeeps, PushSendKeeps, AckReadKeeps, AckWriteKeeps
<1>3. CASE CreateSubRead(t) \/ CreateSubWrite(t) \/ AdoptRead(t) \/ AdoptWrite(t)
  BY <1>3, CreateSubReadKeeps, CreateSubWriteKeeps, AdoptReadKeeps, AdoptWriteKeeps
<1>4. CASE ApplyQueryRead(t) \/ ApplyQuerySub(t) \/ ApplyQueryWrite(t) \/ CreateQuery(t)
  BY <1>4, ApplyQueryReadKeeps, ApplyQuerySubKeeps, ApplyQueryWriteKeeps, CreateQueryKeeps
<1>5. CASE AckQueryRead(t) \/ AckQuerySub(t) \/ AckQueryWrite(t) \/ AckQueryOnly(t)
  BY <1>5, AckQueryReadKeeps, AckQuerySubKeeps, AckQueryWriteKeeps, AckQueryOnlyKeeps
<1>6. CASE CreateViewSpec(t) \/ CreateViewStart(t) \/ CreateViewSeed(t) \/ RefreshSpec(t) \/ RefreshState(t)
  BY <1>6, CreateViewSpecKeeps, CreateViewStartKeeps, CreateViewSeedKeeps, RefreshSpecKeeps, RefreshStateKeeps
<1>7. CASE ApplyThrough(t) \/ ViewTake(t) \/ WriteView(t)
  BY <1>7, ApplyThroughKeeps, ViewTakeKeeps, WriteViewKeeps
<1>8. CASE SetHook(t) \/ Put(t) \/ WriteBegin(t) \/ WriteCommit(t) \/ WriteAfter(t)
  BY <1>8, SetHookKeeps, PutKeeps, WriteBeginKeeps, WriteCommitKeeps, WriteAfterKeeps
<1>9. CASE HookRecords(t) \/ HookDeliver(t) \/ HookFail(t) \/ GcPlan(t) \/ GcTruncate(t)
  BY <1>9, HookRecordsKeeps, HookDeliverKeeps, HookFailKeeps, GcPlanKeeps, GcTruncateKeeps
<1>10. CASE FullBackup(t) \/ IncrementalBackup(t) \/ Restore(t) \/ RecordFork(t)
  <2>1. CASE Restore(t)
    <3>1. PICK b \in backups : \E target \in b.full_end..Len(b.image) :
             hist' = SubSeq(b.image, 1, target) /\ db' = TablesOf(hist')
      BY <2>1 DEF Restore
    <3>2. PICK target \in b.full_end..Len(b.image) :
             hist' = SubSeq(b.image, 1, target) /\ db' = TablesOf(hist')
      BY <3>1
    <3>3. (\E T : b.image \in Seq(T)) /\ b.full_end \in Nat
      BY DEF CdcInv, BackupInv, IsLog
    <3>4. Len(b.image) \in Nat
      BY <3>3, LogFacts
    <3>5. target \in 0..Len(b.image)
      BY <3>3, <3>4, SMTT(30)
    <3>6. \E T : hist' \in Seq(T)
      BY <3>2, <3>3, <3>5, PrefixFacts
    <3>7. DbInv'
      BY <3>2, <3>6, RestoredRows DEF DbInv, HasView
    <3> QED
      BY <2>1, <3>7, RestoreKeeps
  <2> QED
    BY <1>10, <2>1, FullBackupKeeps, IncrementalBackupKeeps, RecordForkKeeps
<1> QED
  BY <1>1, <1>2, <1>3, <1>4, <1>5, <1>6, <1>7, <1>8, <1>9, <1>10 DEF Step

(* In every reachable state of the consumers of the log, the rows of the
   consumers are rows of the history, every image is a history, and every
   thread is as far in its call as its local state says. *)
THEOREM CdcInvariance == Spec => []CdcInv
<1>1. ASSUME Init PROVE CdcInv
  <2>1. db = TablesOf(hist) /\ \E T : hist \in Seq(T)
    BY <1>1, StartsAssumption DEF Init
  <2>2. DbInv
    BY <2>1, RestoredRows DEF DbInv, HasView
  <2> QED
    BY <1>1, <2>2, InitHolds
<1>2. CdcInv /\ [Next]_vars => CdcInv'
  BY StepKeeps, CrashKeeps, StutterKeeps DEF Next
<1> QED
  BY <1>1, <1>2, PTL DEF Spec

-----------------------------------------------------------------------------
(* Safety.                                                                 *)

(* In every reachable state in which no subscription was replaced under a
   running push, every matching commit behind the cursor of the subscription was
   sent for it: AckWrite, ApplyQueryWrite and AckQueryWrite keep SentBeforeAcked
   whatever fails or races. *)
THEOREM SentSafe == Spec => []SentBeforeAcked
<1>1. CdcInv => SentBeforeAcked
  <2> SUFFICES ASSUME CdcInv, db.sub # None, ~overtaken,
                      NEW l \in Matching(db.sub.filter, (db.sub.since.lsn + 1)..db.sub.last_ack.lsn)
               PROVE  <<db.sub.created_at, l>> \in sent
    BY DEF SentBeforeAcked
  <2>1. SentUpTo(hist, db.sub, db.sub.last_ack.lsn, sent)
    BY SubSent
  <2>2. l \in (db.sub.since.lsn + 1)..db.sub.last_ack.lsn /\ IsEvent(hist, db.sub.filter, l)
    BY MatchingFacts
  <2> QED
    BY <2>1, <2>2 DEF SentUpTo
<1> QED
  BY <1>1, CdcInvariance, PTL

(* In every reachable state, a commit whose writer saw an after-commit hook is
   delivered, or covered by a recorded failure, or its writer is still in its
   call (WriteAfter, HookRecords, HookDeliver, HookFail). *)
THEOREM HooksSafe == Spec => []HooksAccounted
<1>1. CdcInv => HooksAccounted
  BY DEF CdcInv, HookInv, HooksAccounted, Committed
<1> QED
  BY <1>1, CdcInvariance, PTL

(* In every reachable state, the chain of every backup restores to the history
   of the database that took it: the checks of incremental_backup refuse a
   parent of another branch, however often the timeline was restored. *)
THEOREM ChainsSafe == Spec => []ChainsAreHistories
<1>1. CdcInv => ChainsAreHistories
  BY DEF CdcInv, BackupInv, ChainsAreHistories
<1> QED
  BY <1>1, CdcInvariance, PTL

(* No step moves a cursor back while it is the same subscription and the same
   query: the conditional writes of ack_subscription_snapshot, adopt_subscription_as
   and the continuous queries keep CursorsAdvance in every interleaving. *)
THEOREM CursorsSafe == Spec => CursorsAdvance
<1> DEFINE Kept == restores' = restores =>
              \A c \in {"sub", "query"} :
                 /\ db[c] # None
                 /\ db'[c] # None
                 /\ db'[c].created_at = db[c].created_at
                 => Advances(db[c].last_ack, db'[c].last_ack)
<1>1. CdcInv /\ [Next]_vars => [Kept]_vars
  BY CursorNext
<1>2. Spec => [][Kept]_vars
  BY <1>1, CdcInvariance, PTL DEF Spec
<1> QED
  BY <1>2 DEF CursorsAdvance

(* An acknowledgement of a principal moves the cursor of a subscription only
   while the principal owns it: adopt_subscription_as between the check and the
   write makes the write of AckWrite and AckQueryWrite fail. *)
THEOREM OwnersSafe == Spec => OwnersAcknowledge
<1> DEFINE Kept == restores' = restores =>
              \A t \in Threads :
                 /\ th[t].pc = "ack"
                 /\ th[t].who # Root
                 /\ db'.sub # db.sub
                 /\ th'[t] # th[t]
                 => db.sub.owner = th[t].who
<1>1. CdcInv /\ [Next]_vars => [Kept]_vars
  BY OwnerNext
<1>2. Spec => [][Kept]_vars
  BY <1>1, CdcInvariance, PTL DEF Spec
<1> QED
  BY <1>2 DEF OwnersAcknowledge

(* No step makes the view older, and only a creation of the view replaces its
   spec: the condition of write_view on both rows keeps ViewAdvances. *)
THEOREM ViewSafe == Spec => ViewAdvances
<1> DEFINE Kept == restores' = restores /\ HasView =>
              /\ db'.view.state.fresh_to_lsn >= db.view.state.fresh_to_lsn
              /\ (\A t \in Threads : start.call[t] = "create_view" => th'[t] = th[t])
                    => db'.view.spec = db.view.spec
<1>1. CdcInv /\ [Next]_vars => [Kept]_vars
  BY ViewNext
<1>2. Spec => [][Kept]_vars
  BY <1>1, CdcInvariance, PTL DEF Spec
<1> QED
  BY <1>2 DEF ViewAdvances

(* Unless a database is restored under it, a caller that resumes from the
   tokens of poll_changefeed_page has seen exactly the history up to its token,
   whatever GC truncates during the poll: FeedIsExact. *)
THEOREM FeedSafe == ASSUME NoRestoredFeed PROVE Spec => FeedIsExact
<1> DEFINE Taken == client' # client =>
              /\ client'.tok.lsn <= Len(hist)
              /\ client'.seen = SubSeq(hist, 1, client'.tok.lsn)
<1>1. Init => FeedInv
  BY FeedInit
<1>2. CdcInv /\ FeedInv /\ [Next]_vars => FeedInv'
  BY FeedNext
<1>3. CdcInv /\ FeedInv /\ [Next]_vars => [Taken]_vars
  BY FeedMoves
<1>4. Spec => [][Taken]_vars
  BY <1>1, <1>2, <1>3, CdcInvariance, PTL DEF Spec
<1> QED
  BY <1>4 DEF FeedIsExact
=============================================================================
