------------------------- MODULE DerivedIndexProofs -------------------------
(***************************************************************************)
(* The full-text and the geo index, for every number of documents, values, *)
(* refreshers and pages.                                                   *)
(***************************************************************************)
EXTENDS DerivedIndex, Extrema, FiniteSetTheorems

-----------------------------------------------------------------------------
(* The inductive invariant.                                                *)

Fields == DOMAIN Idle
FullPcs == {"entries", "clear_entry", "keys", "clear_key", "sources", "rebuild", "state"}
IncPcs == {"poll", "read", "commit"}

(* The write of d that the frontier has to pass. *)
Stamp(d) == IF Text THEN raw[d] ELSE last[d]

(* The rebuild of t goes on from the stored frontier; a full-text rebuild that
   does not will give up. *)
Live(t) == th[t].call = "full" /\ th[t].base = frontier

(* The documents whose entries t has removed, and those it has put again. *)
Cleared(t) == {d \in Docs : /\ th[t].pc = "entries" => d <= th[t].cursor
                            /\ th[t].pc = "clear_entry" => d < th[t].cursor}
Done(t) == {d \in Docs : /\ th[t].pc \in {"sources", "rebuild", "state"}
                         /\ th[t].pc = "sources" => d <= th[t].cursor
                         /\ th[t].pc = "rebuild" => d < th[t].cursor}

(* t may have removed d from the index and has not put it again. *)
Owes(t, d) == dirty[t] > 0 /\ ~(Live(t) /\ d \in Done(t))

LogInv ==
    /\ \E T : hist \in Seq(T)
    /\ \A l \in DOMAIN hist : hist[l].doc \in Docs \cup {0}
    /\ frontier \in Nat /\ frontier <= Len(hist)
    /\ DOMAIN src = Docs /\ DOMAIN entry = Docs /\ DOMAIN raw = Docs /\ DOMAIN last = Docs
    /\ \A d \in Docs :
          /\ raw[d] \in Nat /\ last[d] \in Nat /\ raw[d] <= Len(hist) /\ last[d] <= Len(hist)
          /\ raw[d] > 0 => hist[raw[d]].doc = d
          /\ last[d] > 0 => hist[last[d]].doc = d /\ hist[last[d]].value = src[d]
          /\ \A l \in DOMAIN hist : hist[l].doc = d => l <= last[d]

(* A page: the documents of its records, and for the geo index the last value of
   those that were not written again. *)
PageInv(t) ==
    /\ th[t].next \in Nat /\ th[t].base < th[t].next /\ th[t].next <= Len(hist)
    /\ \A l \in (th[t].base + 1)..th[t].next : hist[l].doc \in DOMAIN th[t].changes \cup {0}
    /\ ~Text => \A d \in DOMAIN th[t].changes : d \in Docs /\ (last[d] <= th[t].next => th[t].changes[d] = src[d])
    /\ th[t].pc = "commit" => DOMAIN th[t].got = DOMAIN th[t].changes

(* The row of a batch of the rebuild. *)
RowInv(t) ==
    \E d \in Docs :
        /\ th[t].cursor = d /\ DOMAIN th[t].got = {d}
        /\ ~Text /\ last[d] <= th[t].target => th[t].got[d].source = src[d]

ThreadInv(t) ==
    /\ DOMAIN th[t] = Fields
    /\ th[t].call = "full" <=> th[t].pc \in FullPcs
    /\ th[t].call = "inc" <=> th[t].pc \in IncPcs
    /\ th[t].base \in Nat /\ th[t].base <= frontier
    /\ th[t].target \in Nat /\ th[t].target <= Len(hist)
    /\ th[t].call = "full" => th[t].base <= th[t].target
    /\ th[t].pc \in {"entries", "sources"} => th[t].cursor \in Nat
    /\ th[t].pc \in {"clear_entry", "rebuild"} => RowInv(t)
    /\ th[t].pc \in {"read", "commit"} => PageInv(t)

(* The geo index has one refresher, and nobody moves the frontier under it. *)
SoloInv(t) ==
    /\ todo[t] \in Seq({"inc", "full"})
    /\ start.calls[t] = <<>> => th[t].pc = "idle" /\ todo[t] = <<>>
    /\ ~Text /\ th[t].pc # "idle" => th[t].base = frontier

EntriesInv(t) ==
    Live(t) => \A d \in Cleared(t) : Stamp(d) <= th[t].target => entry[d] \in {NoDoc, src[d]}

DoneInv(t) ==
    Live(t) => \A d \in Done(t) :
        Stamp(d) <= th[t].target =>
            Exact(d) \/ \E u \in Threads \ {t} : dirty[u] > th[t].target /\ Owes(u, d)

DocInv(d) == Stamp(d) <= frontier => Exact(d) \/ \E u \in Threads : Owes(u, d)

IndexInv ==
    /\ start \in Starts
    /\ LogInv
    /\ DOMAIN th = Threads /\ DOMAIN todo = Threads /\ DOMAIN dirty = Threads
    /\ \A t \in Threads : /\ dirty[t] \in Nat /\ dirty[t] <= Len(hist)
                          /\ ThreadInv(t) /\ SoloInv(t) /\ EntriesInv(t) /\ DoneInv(t)
    /\ \A d \in Docs : DocInv(d)

-----------------------------------------------------------------------------
(* The log, the rows of an entry, and what keeps a document exact.         *)

LEMMA LogFacts ==
    ASSUME LogInv
    PROVE  /\ Len(hist) \in Nat /\ DOMAIN hist = 1..Len(hist)
           /\ \A d \in Docs : d \in Nat /\ d > 0 /\ Stamp(d) \in Nat /\ Stamp(d) <= Len(hist)
           /\ \A d \in Docs : Stamp(d) > 0 => hist[Stamp(d)].doc = d
<1>1. PICK T : hist \in Seq(T)
  BY Zenon DEF LogInv
<1>2. Len(hist) \in Nat /\ DOMAIN hist = 1..Len(hist)
  BY <1>1
<1> QED
  BY <1>2, DocsAssumption DEF LogInv, Stamp

LEMMA CommitFacts ==
    ASSUME LogInv, NEW r, Commit(r)
    PROVE  /\ \E T : hist' \in Seq(T)
           /\ Len(hist') = Len(hist) + 1 /\ DOMAIN hist' = 1..Len(hist) + 1 /\ DOMAIN hist = 1..Len(hist)
           /\ hist'[Len(hist) + 1] = r /\ \A l \in 1..Len(hist) : hist'[l] = hist[l]
<1>1. PICK T : hist \in Seq(T)
  BY Zenon DEF LogInv
<1>2. hist \in Seq(T \cup {r}) /\ hist' \in Seq(T \cup {r})
  BY <1>1 DEF Commit
<1>3. Len(hist') = Len(hist) + 1 /\ hist'[Len(hist) + 1] = r /\ \A l \in 1..Len(hist) : hist'[l] = hist[l]
  BY <1>2 DEF Commit
<1> QED
  BY <1>2, <1>3

(* Commits are only ever appended. *)
Extends ==
    /\ Len(hist') \in Nat /\ Len(hist) <= Len(hist')
    /\ \A l \in 1..Len(hist) : l \in DOMAIN hist' /\ hist'[l] = hist[l]

LEMMA ExtendsFacts ==
    ASSUME LogInv, hist' = hist \/ \E r : Commit(r)
    PROVE  Extends
<1>1. CASE hist' = hist
  BY <1>1, LogFacts DEF Extends
<1>2. CASE \E r : Commit(r)
  <2>1. PICK r : Commit(r)
    BY Zenon, <1>2
  <2> QED
    BY <2>1, CommitFacts, LogFacts DEF Extends
<1> QED
  BY Zenon, <1>1, <1>2

(* The rows of a document name it.                                         *)
LEMMA RowsFacts ==
    ASSUME NEW d, NEW value
    PROVE  /\ \A r \in Rows(d, value) : r[2] = d
           /\ Rows(d, NoDoc) = {}
           /\ start' = start => Rows(d, value)' = Rows(d, value)
<1>1. \A r \in Rows(d, value) : r[2] = d
  BY DEF Rows, TextRows, GeoRows
<1> QED
  BY <1>1, Zenon DEF Rows, Text

LEMMA GoneIsExact ==
    ASSUME NEW d, src[d] = NoDoc, entry[d] \in {NoDoc, src[d]}
    PROVE  Exact(d)
  BY RowsFacts, Zenon DEF Exact

(* A step that takes no row of d away.                                     *)
Apart(d) == entry'[d] = entry[d] /\ src'[d] = src[d] /\ \A r \in keys : r[2] = d => r \in keys'

LEMMA ApartIsExact ==
    ASSUME NEW d, start' = start, Apart(d), Exact(d)
    PROVE  Exact(d)'
<1>1. Rows(d, src[d])' = Rows(d, src[d])
  BY Zenon DEF Apart, Rows, Text
<1>2. Rows(d, src[d]) \subseteq keys'
  BY RowsFacts, Zenon DEF Exact, Apart
<1> QED
  BY <1>1, <1>2, Zenon DEF Exact, Apart

(* The log when only the index moves.                                      *)
LEMMA LogKeeps ==
    ASSUME LogInv, UNCHANGED source, hist' = hist \/ Commit(System), DOMAIN entry' = Docs,
           frontier' \in Nat, frontier' <= Len(hist)
    PROVE  LogInv'
<1>1. src' = src /\ raw' = raw /\ last' = last
  BY Zenon DEF source
<1>2. Len(hist) \in Nat /\ DOMAIN hist = 1..Len(hist) /\ 0 \notin Docs
  BY Zenon, LogFacts, DocsAssumption
<1>3. CASE hist' = hist
  BY <1>1, <1>3, Zenon DEF LogInv
<1>4. CASE Commit(System)
  <2>1. /\ \E T : hist' \in Seq(T)
        /\ Len(hist') = Len(hist) + 1 /\ DOMAIN hist' = 1..Len(hist) + 1
        /\ hist'[Len(hist) + 1] = System /\ \A l \in 1..Len(hist) : hist'[l] = hist[l]
    BY Zenon, <1>4, CommitFacts
  <2>2. System.doc = 0
    BY Zenon DEF System
  <2>3. ASSUME NEW d \in Docs
        PROVE  /\ raw[d] \in Nat /\ last[d] \in Nat /\ raw[d] <= Len(hist') /\ last[d] <= Len(hist')
               /\ raw[d] > 0 => hist'[raw[d]].doc = d
               /\ last[d] > 0 => hist'[last[d]].doc = d /\ hist'[last[d]].value = src[d]
    BY <1>2, <2>1 DEF LogInv
  <2>4. ASSUME NEW d \in Docs, NEW l \in DOMAIN hist', hist'[l].doc = d PROVE l <= last[d]
    <3>1. l \in 1..Len(hist)
      BY <1>2, <2>1, <2>2, <2>4
    <3> QED
      BY <1>2, <2>1, <2>4, <3>1, Zenon DEF LogInv
  <2>5. \A l \in DOMAIN hist' : hist'[l].doc \in Docs \cup {0}
    BY <1>2, <2>1, <2>2 DEF LogInv
  <2> QED
    BY <1>1, <1>2, <2>1, <2>3, <2>4, <2>5 DEF LogInv
<1> QED
  BY Zenon, <1>3, <1>4

-----------------------------------------------------------------------------
(* Threads that do not move.                                               *)

LEMMA ThreadFacts ==
    ASSUME IndexInv, NEW t \in Threads
    PROVE  /\ DOMAIN th = Threads /\ DOMAIN todo = Threads /\ DOMAIN dirty = Threads
           /\ dirty[t] \in Nat /\ dirty[t] <= Len(hist)
           /\ ThreadInv(t) /\ SoloInv(t) /\ EntriesInv(t) /\ DoneInv(t)
           /\ start \in Starts /\ LogInv
           /\ DOMAIN th[t] = Fields /\ th[t].base \in Nat /\ th[t].base <= frontier
           /\ th[t].target \in Nat /\ th[t].target <= Len(hist) /\ frontier \in Nat /\ frontier <= Len(hist)
           /\ th[t].call = "full" => th[t].base <= th[t].target
  BY SMTT(30) DEF IndexInv, ThreadInv, LogInv

LEMMA FieldsFacts ==
    /\ Fields = {"call", "pc", "target", "base", "next", "cursor", "changes", "got", "rows"}
    /\ Idle.pc = "idle" /\ Idle.call = "none" /\ Idle.base = 0 /\ Idle.target = 0 /\ Idle.cursor = 0
  BY Zenon DEF Idle, Fields

(* The geo index has one thread that does anything.                        *)
LEMMA SoloFacts ==
    ASSUME IndexInv, ~Text, NEW t \in Threads, NEW u \in Threads, u # t,
           th[t].pc # "idle" \/ todo[t] # <<>>
    PROVE  th[u].pc = "idle" /\ th[u].call # "full"
<1>1. start.calls[t] = <<>> \/ start.calls[u] = <<>>
  BY StartsAssumption, Zenon DEF IndexInv, Text
<1>2. th[u].pc = "idle"
  BY <1>1, Zenon DEF IndexInv, SoloInv
<1> QED
  BY <1>2, Zenon DEF IndexInv, ThreadInv, FullPcs

(* Another thread when the log grows and the frontier advances.            *)
LEMMA OthersKeep ==
    ASSUME IndexInv, NEW u \in Threads, th'[u] = th[u], todo'[u] = todo[u], start' = start, Extends,
           UNCHANGED source, frontier' \in Nat, frontier <= frontier',
           frontier' = frontier \/ Text \/ th[u].pc = "idle"
    PROVE  ThreadInv(u)' /\ SoloInv(u)'
<1>1. src' = src /\ last' = last /\ (Text <=> Text')
  BY Zenon DEF source, Text
<1>2. ThreadInv(u) /\ SoloInv(u) /\ LogInv /\ Len(hist) \in Nat /\ DOMAIN hist = 1..Len(hist)
  BY Zenon, ThreadFacts, LogFacts
<1>3. RowInv(u) => RowInv(u)'
  BY <1>1, Zenon DEF RowInv
<1>4. ASSUME th[u].pc \in {"read", "commit"} PROVE PageInv(u)'
  <2>1. PageInv(u) /\ th[u].base \in Nat
    BY <1>2, <1>4, Zenon DEF ThreadInv
  <2>2. \A l \in (th[u].base + 1)..th[u].next : l \in 1..Len(hist)
    BY <1>2, <2>1 DEF PageInv
  <2>3. th[u].next <= Len(hist')
    BY <1>2, <2>1 DEF PageInv, Extends
  <2> QED
    BY <1>1, <2>1, <2>2, <2>3, Zenon DEF PageInv, Extends
<1>5. th[u].base <= frontier' /\ th[u].target <= Len(hist')
  BY <1>2, ThreadFacts DEF Extends
<1>6. ThreadInv(u)'
  BY <1>2, <1>3, <1>4, <1>5, Zenon DEF ThreadInv
<1>7. SoloInv(u)'
  BY <1>1, <1>2, Zenon DEF SoloInv
<1> QED
  BY Zenon, <1>6, <1>7

(* A debt is not forgotten while its thread rests.                         *)
LEMMA OwesKeeps ==
    ASSUME IndexInv, NEW u \in Threads, NEW d, Owes(u, d), th'[u] = th[u], dirty'[u] = dirty[u],
           frontier' \in Nat, frontier <= frontier'
    PROVE  Owes(u, d)'
<1>1. Live(u)' => Live(u)
  BY ThreadFacts DEF Live
<1> QED
  BY <1>1, Zenon DEF Owes, Done

-----------------------------------------------------------------------------
(* Steps that only read.                                                   *)

(* The rebuild of t has come past d, which has no source. *)
Passed(t, d) == src[d] = NoDoc /\ Live(t) /\ d \in Cleared(t)

LEMMA LocalKeeps ==
    ASSUME IndexInv, NEW t \in Threads, NEW v, Goes(t, v), Reads,
           DOMAIN todo' = Threads, \A u \in Threads \ {t} : todo'[u] = todo[u],
           th'[t] = v => ThreadInv(t)' /\ SoloInv(t)' /\ EntriesInv(t)' /\ DoneInv(t)',
           th'[t] = v => \A d \in Docs : Owes(t, d) => Owes(t, d)' \/ Passed(t, d)
    PROVE  IndexInv'
<1>1. /\ start' = start /\ hist' = hist /\ frontier' = frontier /\ dirty' = dirty /\ entry' = entry /\ keys' = keys
      /\ src' = src /\ raw' = raw /\ last' = last /\ UNCHANGED source
  BY Zenon DEF Reads, source, index
<1>2. DOMAIN th' = Threads /\ th'[t] = v /\ \A u \in Threads \ {t} : th'[u] = th[u]
  BY SMTT(30) DEF IndexInv, Goes
<1>3. LogInv /\ LogInv' /\ Extends /\ frontier \in Nat
  BY <1>1, LogKeeps, ExtendsFacts, ThreadFacts, SMTT(30) DEF LogInv
<1>4. ASSUME NEW u \in Threads \ {t} PROVE ThreadInv(u)' /\ SoloInv(u)'
  BY <1>1, <1>2, <1>3, OthersKeep
<1>5. ASSUME NEW u \in Threads \ {t}, NEW d, Owes(u, d) PROVE Owes(u, d)'
  BY <1>1, <1>2, <1>3, <1>5, OwesKeeps
<1>6. \A d : Stamp(d)' = Stamp(d) /\ (Exact(d) => Exact(d)')
  BY <1>1, Zenon DEF Stamp, Exact, Rows, Text
<1>7. ASSUME NEW u \in Threads \ {t} PROVE EntriesInv(u)'
  <2>1. EntriesInv(u)
    BY Zenon, ThreadFacts
  <2> QED
    BY <1>1, <1>2, <1>6, <2>1, Zenon DEF EntriesInv, Live, Cleared
<1>8. ASSUME NEW d \in Docs, Passed(t, d)
      PROVE  /\ Stamp(d) <= frontier => Exact(d)
             /\ \A u \in Threads : Live(u) /\ d \in Done(u) /\ Stamp(d) <= th[u].target => Exact(d)
  <2>1. ASSUME NEW u \in Threads, Live(u), d \in Cleared(u), Stamp(d) <= th[u].target PROVE Exact(d)
    BY <1>8, <2>1, ThreadFacts, GoneIsExact, Zenon DEF EntriesInv, Passed
  <2>2. \A u \in Threads : d \in Done(u) => d \in Cleared(u)
    BY Zenon DEF Done, Cleared
  <2>3. Stamp(d) <= frontier => Stamp(d) <= th[t].target
    BY <1>3, <1>8, ThreadFacts, LogFacts DEF Passed, Live
  <2> QED
    BY <1>8, <2>1, <2>2, <2>3, Zenon DEF Passed
<1>9. ASSUME NEW u \in Threads \ {t} PROVE DoneInv(u)'
  <2> SUFFICES ASSUME Live(u)', NEW d \in Done(u)', Stamp(d)' <= th'[u].target, ~Exact(d)'
               PROVE  \E w \in Threads \ {u} : dirty'[w] > th'[u].target /\ Owes(w, d)'
    BY Zenon DEF DoneInv
  <2>1. Live(u) /\ d \in Done(u) /\ d \in Docs /\ Stamp(d) <= th[u].target /\ ~Exact(d)
    BY <1>1, <1>2, <1>6, Zenon DEF Live, Done
  <2>2. PICK w \in Threads \ {u} : dirty[w] > th[u].target /\ Owes(w, d)
    BY <2>1, ThreadFacts, Zenon DEF DoneInv
  <2>3. Owes(w, d)'
    BY Zenon, <1>2, <1>5, <1>8, <2>1, <2>2
  <2> QED
    BY Zenon, <1>1, <1>2, <2>2, <2>3
<1>10. ASSUME NEW d \in Docs PROVE DocInv(d)'
  <2> SUFFICES ASSUME Stamp(d)' <= frontier', ~Exact(d)' PROVE \E w \in Threads : Owes(w, d)'
    BY Zenon DEF DocInv
  <2>1. Stamp(d) <= frontier /\ ~Exact(d)
    BY Zenon, <1>1, <1>6
  <2>2. PICK w \in Threads : Owes(w, d)
    BY <2>1, Zenon DEF IndexInv, DocInv
  <2>3. Owes(w, d)'
    BY Zenon, <1>2, <1>5, <1>8, <2>1, <2>2
  <2> QED
    BY Zenon, <2>3
<1>11. \A u \in Threads : ThreadInv(u)' /\ SoloInv(u)' /\ EntriesInv(u)' /\ DoneInv(u)'
  BY Zenon, <1>2, <1>4, <1>7, <1>9
<1>12. start' \in Starts /\ DOMAIN dirty' = Threads /\ \A u \in Threads : dirty'[u] \in Nat /\ dirty'[u] <= Len(hist')
  BY <1>1, Zenon DEF IndexInv
<1> QED
  BY <1>2, <1>3, <1>10, <1>11, <1>12, Zenon DEF IndexInv

(* A step that does not go on with a rebuild.                              *)
LEMMA RestKeeps ==
    ASSUME IndexInv, NEW t \in Threads, NEW v, Goes(t, v), Reads, v.call # "full",
           DOMAIN todo' = Threads, \A u \in Threads \ {t} : todo'[u] = todo[u],
           th'[t] = v => ThreadInv(t)' /\ SoloInv(t)'
    PROVE  IndexInv'
<1>1. th'[t] = v => ~Live(t)'
  BY Zenon DEF Live
<1>2. th'[t] = v => EntriesInv(t)' /\ DoneInv(t)'
  BY <1>1, Zenon DEF EntriesInv, DoneInv
<1>3. th'[t] = v => \A d \in Docs : Owes(t, d) => Owes(t, d)' \/ Passed(t, d)
  BY <1>1, Zenon DEF Owes, Reads
<1> QED
  BY Zenon, <1>2, <1>3, LocalKeeps

LEMMA TodoKeeps ==
    ASSUME IndexInv, todo' = todo
    PROVE  DOMAIN todo' = Threads /\ \A u \in Threads : todo'[u] = todo[u]
  BY Zenon DEF IndexInv

LEMMA IdleThread ==
    ASSUME IndexInv, NEW t \in Threads, th'[t] = Idle, start' = start, todo' = todo,
           frontier' \in Nat, Len(hist') \in Nat
    PROVE  ThreadInv(t)' /\ SoloInv(t)'
<1>1. ThreadInv(t)'
  BY FieldsFacts DEF ThreadInv, FullPcs, IncPcs, Fields
<1>2. SoloInv(t)'
  BY FieldsFacts, ThreadFacts, Zenon DEF SoloInv
<1> QED
  BY Zenon, <1>1, <1>2

(* A call that ends between two steps, fails or gives up.                  *)
LEMMA StopKeeps ==
    ASSUME IndexInv, NEW t \in Threads, Stops(t), Reads, todo' = todo
    PROVE  IndexInv'
<1>1. Goes(t, Idle) /\ Idle.call # "full"
  BY FieldsFacts, Zenon DEF Stops
<1>2. start' = start /\ frontier' \in Nat /\ Len(hist') \in Nat
  BY LogFacts, ThreadFacts, Zenon DEF Reads, index
<1>3. th'[t] = Idle => ThreadInv(t)' /\ SoloInv(t)'
  BY Zenon, <1>2, IdleThread
<1> QED
  BY Zenon, <1>1, <1>3, TodoKeeps, RestKeeps

(* Beginning a call.                                                       *)
LEMMA BeginsFacts ==
    ASSUME IndexInv, NEW t \in Threads, NEW call, Begins(t, call)
    PROVE  /\ DOMAIN todo' = Threads /\ \A u \in Threads \ {t} : todo'[u] = todo[u]
           /\ todo'[t] \in Seq({"inc", "full"})
           /\ start.calls[t] # <<>> /\ th[t].pc = "idle" /\ th[t].call # "full"
<1>1. todo[t] \in Seq({"inc", "full"}) /\ todo[t] # <<>> /\ DOMAIN todo = Threads /\ start.calls[t] # <<>>
  BY ThreadFacts, Zenon DEF SoloInv, Begins
<1>2. todo' = [todo EXCEPT ![t] = Tail(todo[t])]
  BY <1>1, Zenon DEF Begins
<1>3. Tail(todo[t]) \in Seq({"inc", "full"})
  BY <1>1
<1>4. th[t].pc = "idle" /\ th[t].call # "full"
  BY ThreadFacts, Zenon DEF Begins, ThreadInv, FullPcs
<1> QED
  BY <1>1, <1>2, <1>3, <1>4, Zenon

LEMMA IncStartKeeps ==
    ASSUME IndexInv, NEW t \in Threads, IncStart(t)
    PROVE  IndexInv'
<1> DEFINE v == [Idle EXCEPT !.call = "inc", !.pc = "poll", !.base = frontier, !.target = current_lsn]
<1>1. DOMAIN v = Fields /\ v.call = "inc" /\ v.pc = "poll" /\ v.base = frontier /\ v.target = Len(hist)
  BY FieldsFacts, Zenon DEF Idle, current_lsn
<1>2. Begins(t, "inc") /\ Goes(t, v) /\ Reads
  BY Zenon DEF IncStart
<1> HIDE DEF v
<1>3. frontier' = frontier /\ hist' = hist /\ start' = start
  BY <1>2, Zenon DEF Reads, index
<1>4. frontier \in Nat /\ Len(hist) \in Nat
  BY Zenon, LogFacts, ThreadFacts
<1>5. th'[t] = v => ThreadInv(t)'
  BY <1>1, <1>3, <1>4 DEF ThreadInv, FullPcs, IncPcs
<1>6. th'[t] = v => SoloInv(t)'
  BY <1>1, <1>2, <1>3, BeginsFacts, Zenon DEF SoloInv
<1> QED
  BY Zenon, <1>1, <1>2, <1>5, <1>6, BeginsFacts, RestKeeps

(* Every step of a call goes on from the stored frontier, or is about to   *)
(* find out that it does not.                                              *)
LEMMA BaseFacts ==
    ASSUME IndexInv, NEW t \in Threads, th[t].pc # "idle"
    PROVE  Base(t) = frontier /\ (Unchanged(t) => th[t].base = frontier)
  BY ThreadFacts, Zenon DEF Base, SoloInv, Unchanged

(* coalesce_document_changes                                               *)
LEMMA CoalescedFacts ==
    ASSUME LogInv, NEW a \in Nat, NEW b \in Nat, b <= Len(hist)
    PROVE  /\ DOMAIN Coalesced((a + 1)..b) \subseteq Docs
           /\ \A l \in (a + 1)..b : hist[l].doc \in DOMAIN Coalesced((a + 1)..b) \cup {0}
           /\ \A d \in DOMAIN Coalesced((a + 1)..b) :
                  last[d] <= b => Coalesced((a + 1)..b)[d] = src[d]
<1> DEFINE page == (a + 1)..b
<1>1. Len(hist) \in Nat /\ DOMAIN hist = 1..Len(hist) /\ page \subseteq DOMAIN hist
  BY LogFacts
<1>2. DOMAIN Coalesced(page) = {hist[l].doc : l \in page} \ {0}
  BY Zenon DEF Coalesced
<1>3. DOMAIN Coalesced(page) \subseteq Docs
  <2> SUFFICES ASSUME NEW d \in DOMAIN Coalesced(page) PROVE d \in Docs
    BY Zenon
  <2>1. PICK l \in page : d = hist[l].doc /\ d # 0
    BY SMTT(30), <1>2
  <2> QED
    BY <1>1, <2>1, Zenon DEF LogInv
<1>4. ASSUME NEW d \in DOMAIN Coalesced(page), last[d] <= b
      PROVE  Coalesced(page)[d] = src[d]
  <2> DEFINE S == {l \in page : hist[l].doc = d}
  <2>1. PICK l \in page : hist[l].doc = d
    BY Zenon, <1>2
  <2>2. d \in Docs /\ last[d] \in Nat /\ l <= last[d] /\ last[d] > 0
    BY <1>1, <1>3, <2>1, SMTT(30) DEF LogInv
  <2>3. last[d] \in page /\ hist[last[d]].doc = d /\ hist[last[d]].value = src[d]
    BY <1>4, <2>1, <2>2 DEF LogInv
  <2>4. S \subseteq 0..b /\ S # {} /\ last[d] \in S
    BY <2>3
  <2>5. Max(S) \in S /\ \A x \in S : x <= Max(S)
    BY Zenon, <2>4, MaxOfBounded
  <2>6. Max(S) <= last[d]
    BY <1>1, <2>2, <2>5, Zenon DEF LogInv
  <2>7. Max(S) = last[d]
    BY <2>2, <2>4, <2>5, <2>6
  <2>8. Coalesced(page)[d] = hist[Max(S)].value
    BY <1>2, Zenon DEF Coalesced
  <2> QED
    BY Zenon, <2>3, <2>7, <2>8
<1> QED
  BY Zenon, <1>2, <1>3, <1>4

(* A page of the log ends after its frontier and within the log.           *)
LEMMA NextPage ==
    ASSUME NEW f \in Nat, NEW p \in Nat \ {0}, NEW len \in Nat, NEW target \in Nat, target <= len,
           ~(f >= target), NEW n \in {f + p, len}, \A x \in {f + p, len} : n <= x
    PROVE  n \in Nat /\ f < n /\ n <= len
  OBVIOUS

LEMMA IncPollKeeps ==
    ASSUME IndexInv, NEW t \in Threads, IncPoll(t)
    PROVE  IndexInv'
<1>1. /\ th[t].pc = "poll" /\ th[t].call = "inc" /\ ThreadInv(t) /\ SoloInv(t) /\ LogInv
      /\ Base(t) = frontier /\ Reads /\ todo' = todo
  BY ThreadFacts, BaseFacts, Zenon DEF IncPoll, At
<1>2. frontier \in Nat /\ Len(hist) \in Nat /\ DOMAIN hist = 1..Len(hist) /\ th[t].target \in Nat
      /\ th[t].target <= Len(hist)
  BY Zenon, LogFacts, ThreadFacts
<1>3. CASE frontier >= th[t].target
  BY <1>1, <1>3, StopKeeps, Zenon DEF IncPoll
<1>4. CASE ~(frontier >= th[t].target)
  <2>1. PICK next : next = Min({frontier + PageSize, Len(hist)})
    BY SMTT(30)
  <2>2. next \in Nat /\ frontier < next /\ next <= Len(hist)
    <3>1. {frontier + PageSize, Len(hist)} \subseteq Nat
      BY <1>2, PageSizeAssumption
    <3>2. next \in {frontier + PageSize, Len(hist)} /\ \A x \in {frontier + PageSize, Len(hist)} : next <= x
      BY Zenon, <2>1, <3>1, MinOfNaturals
    <3> QED
      BY Zenon, <1>2, <1>4, <3>2, PageSizeAssumption, NextPage
  <2>3. PICK changes : changes = Coalesced((frontier + 1)..next)
    BY Zenon
  <2> DEFINE v == [th[t] EXCEPT !.pc = "read", !.base = frontier, !.next = next, !.changes = changes]
  <2>4. Goes(t, v)
    BY <1>1, <1>4, <2>1, <2>3, Zenon DEF IncPoll, current_lsn
  <2>5. /\ DOMAIN v = Fields /\ v.pc = "read" /\ v.call = "inc" /\ v.base = frontier /\ v.next = next
        /\ v.changes = changes /\ v.target = th[t].target
    BY <1>1, FieldsFacts, Zenon DEF ThreadInv
  <2> HIDE DEF v
  <2>6. /\ frontier' = frontier /\ hist' = hist /\ start' = start /\ src' = src /\ last' = last
        /\ (Text <=> Text')
    BY <1>1, Zenon DEF Reads, index, source, Text
  <2>7. /\ DOMAIN changes \subseteq Docs
        /\ \A l \in (frontier + 1)..next : hist[l].doc \in DOMAIN changes \cup {0}
        /\ \A d \in DOMAIN changes : last[d] <= next => changes[d] = src[d]
    BY Zenon, <1>1, <1>2, <2>2, <2>3, CoalescedFacts
  <2>8. th'[t] = v => PageInv(t)'
    BY <2>2, <2>5, <2>6, <2>7, Zenon DEF PageInv
  <2>9. th'[t] = v => ThreadInv(t)'
    BY <1>1, <1>2, <2>5, <2>6, <2>8 DEF ThreadInv, FullPcs, IncPcs
  <2>10. th'[t] = v => SoloInv(t)'
    BY <1>1, <2>5, <2>6, Zenon DEF SoloInv
  <2> QED
    BY Zenon, <1>1, <2>4, <2>5, <2>9, <2>10, TodoKeeps, RestKeeps
<1> QED
  BY Zenon, <1>3, <1>4

LEMMA IncReadKeeps ==
    ASSUME IndexInv, NEW t \in Threads, IncRead(t)
    PROVE  IndexInv'
<1>1. th[t].pc = "read" /\ th[t].call = "inc" /\ ThreadInv(t) /\ SoloInv(t) /\ Reads /\ todo' = todo
  BY ThreadFacts, Zenon DEF IncRead, At
<1>2. PICK got : got = Snapshot(DOMAIN th[t].changes)
  BY Zenon
<1>3. DOMAIN got = DOMAIN th[t].changes
  BY <1>2, Zenon DEF Snapshot
<1> DEFINE v == [th[t] EXCEPT !.pc = "commit", !.got = got]
<1>4. Goes(t, v)
  BY <1>2, Zenon DEF IncRead
<1>5. /\ DOMAIN v = Fields /\ v.pc = "commit" /\ v.call = "inc" /\ v.base = th[t].base /\ v.next = th[t].next
      /\ v.changes = th[t].changes /\ v.target = th[t].target /\ v.got = got
  BY <1>1, FieldsFacts, Zenon DEF ThreadInv
<1> HIDE DEF v
<1>6. /\ frontier' = frontier /\ hist' = hist /\ start' = start /\ src' = src /\ last' = last
      /\ (Text <=> Text')
  BY <1>1, Zenon DEF Reads, index, source, Text
<1>7. th'[t] = v => PageInv(t)'
  BY <1>1, <1>3, <1>5, <1>6, SMTT(30) DEF ThreadInv, PageInv
<1>8. th'[t] = v => ThreadInv(t)'
  BY <1>1, <1>5, <1>6, <1>7, Zenon DEF ThreadInv, FullPcs, IncPcs
<1>9. th'[t] = v => SoloInv(t)'
  BY <1>1, <1>5, <1>6, Zenon DEF SoloInv
<1> QED
  BY Zenon, <1>1, <1>4, <1>5, <1>8, <1>9, TodoKeeps, RestKeeps

LEMMA FailKeeps ==
    ASSUME IndexInv, NEW t \in Threads, Fail(t)
    PROVE  IndexInv'
  BY StopKeeps, Zenon DEF Fail

LEMMA FullStartKeeps ==
    ASSUME IndexInv, NEW t \in Threads, FullStart(t)
    PROVE  IndexInv'
<1> DEFINE v == [Idle EXCEPT !.call = "full", !.pc = "entries", !.base = frontier, !.target = current_lsn]
<1>1. /\ DOMAIN v = Fields /\ v.call = "full" /\ v.pc = "entries" /\ v.base = frontier /\ v.target = Len(hist)
      /\ v.cursor = 0
  BY FieldsFacts, Zenon DEF Idle, current_lsn
<1>2. Begins(t, "full") /\ Goes(t, v) /\ Reads
  BY Zenon DEF FullStart
<1> HIDE DEF v
<1>3. frontier' = frontier /\ hist' = hist /\ start' = start /\ dirty' = dirty
  BY <1>2, Zenon DEF Reads, index
<1>4. frontier \in Nat /\ Len(hist) \in Nat /\ frontier <= Len(hist)
  BY Zenon, LogFacts, ThreadFacts
<1>5. th'[t] = v => ThreadInv(t)'
  BY <1>1, <1>3, <1>4 DEF ThreadInv, FullPcs, IncPcs
<1>6. th'[t] = v => SoloInv(t)'
  BY <1>1, <1>2, <1>3, BeginsFacts, Zenon DEF SoloInv
<1>7. ASSUME th'[t] = v, NEW d PROVE d \notin Cleared(t)' /\ d \notin Done(t)'
  <2>1. d \in Docs => ~(d <= 0)
    BY DocsAssumption
  <2> QED
    BY <1>1, <1>7, <2>1, Zenon DEF Cleared, Done
<1>8. th'[t] = v => EntriesInv(t)' /\ DoneInv(t)'
  BY <1>7, Zenon DEF EntriesInv, DoneInv
<1>9. th'[t] = v => \A d \in Docs : Owes(t, d) => Owes(t, d)' \/ Passed(t, d)
  BY <1>3, <1>7, Zenon DEF Owes
<1> QED
  BY Zenon, <1>2, <1>5, <1>6, <1>8, <1>9, BeginsFacts, LocalKeeps

-----------------------------------------------------------------------------
(* The scans of a rebuild.                                                 *)

(* A scan that goes on to the next row, or to the next table.              *)
LEMMA ScanKeeps ==
    ASSUME IndexInv, NEW t \in Threads, th[t].call = "full", NEW v, Goes(t, v), Reads, todo' = todo,
           DOMAIN v = Fields, v.call = "full", v.pc \in FullPcs, v.base = th[t].base, v.target = th[t].target,
           v.pc \in {"entries", "sources"} => v.cursor \in Nat,
           v.pc \in {"clear_entry", "rebuild"} => \E d \in Docs : v.cursor = d /\ v.got = Snapshot({d}),
           th'[t] = v => \A d \in Cleared(t)' : d \in Cleared(t) \/ entry[d] = NoDoc,
           th'[t] = v => \A d \in Done(t)' : d \in Done(t) \/ (src[d] = NoDoc /\ d \in Cleared(t))
    PROVE  IndexInv'
<1>1. /\ start' = start /\ hist' = hist /\ frontier' = frontier /\ dirty' = dirty /\ entry' = entry /\ keys' = keys
      /\ src' = src /\ raw' = raw /\ last' = last /\ (Text <=> Text')
  BY Zenon DEF Reads, source, index, Text
<1>2. th'[t] = v /\ \A u \in Threads \ {t} : th'[u] = th[u]
  BY Zenon DEF IndexInv, Goes
<1>3. ThreadInv(t) /\ SoloInv(t) /\ EntriesInv(t) /\ DoneInv(t) /\ frontier \in Nat
  BY Zenon, ThreadFacts
<1>4. v.pc \in {"clear_entry", "rebuild"} => RowInv(t)'
  <2> SUFFICES ASSUME v.pc \in {"clear_entry", "rebuild"} PROVE RowInv(t)'
    BY Zenon
  <2>1. PICK d \in Docs : v.cursor = d /\ v.got = Snapshot({d})
    BY Zenon
  <2>2. DOMAIN v.got = {d} /\ v.got[d].source = src[d]
    BY <2>1 DEF Snapshot
  <2> QED
    BY <1>1, <1>2, <2>1, <2>2, Zenon DEF RowInv
<1>5. ThreadInv(t)'
  BY <1>1, <1>2, <1>3, <1>4, Zenon DEF ThreadInv, FullPcs, IncPcs
<1>6. SoloInv(t)'
  <2>1. th[t].pc # "idle"
    BY <1>3, Zenon DEF ThreadInv, FullPcs
  <2> QED
    BY <1>1, <1>2, <1>3, <2>1, Zenon DEF SoloInv
<1>7. /\ Live(t)' <=> Live(t)
      /\ \A d : Stamp(d)' = Stamp(d) /\ (Exact(d) => Exact(d)')
  BY <1>1, <1>2, Zenon DEF Live, Stamp, Exact, Rows, Text
<1>8. EntriesInv(t)'
  BY <1>1, <1>2, <1>3, <1>7, Zenon DEF EntriesInv
<1>9. DoneInv(t)'
  <2> SUFFICES ASSUME Live(t)', NEW d \in Done(t)', Stamp(d)' <= th'[t].target, ~Exact(d)'
               PROVE  \E w \in Threads \ {t} : dirty'[w] > th'[t].target /\ Owes(w, d)'
    BY Zenon DEF DoneInv
  <2>1. Live(t) /\ Stamp(d) <= th[t].target /\ ~Exact(d)
    BY Zenon, <1>2, <1>7
  <2>2. d \in Done(t)
    <3> SUFFICES ASSUME src[d] = NoDoc, d \in Cleared(t) PROVE FALSE
      BY Zenon, <1>2
    <3>1. entry[d] \in {NoDoc, src[d]}
      BY <1>3, <2>1, Zenon DEF EntriesInv
    <3> QED
      BY Zenon, <2>1, <3>1, GoneIsExact
  <2>3. PICK w \in Threads \ {t} : dirty[w] > th[t].target /\ Owes(w, d)
    BY <1>3, <2>1, <2>2, ZenonT(40) DEF DoneInv
  <2>4. Owes(w, d)'
    BY <1>1, <1>2, <1>3, <2>3, OwesKeeps
  <2> QED
    BY Zenon, <1>1, <1>2, <2>3, <2>4
<1>10. ASSUME NEW d \in Docs, Owes(t, d) PROVE Owes(t, d)' \/ Passed(t, d)
  BY <1>1, <1>2, <1>7, <1>10, SMTT(30) DEF Owes, Passed
<1> QED
  BY Zenon, <1>5, <1>6, <1>8, <1>9, <1>10, TodoKeeps, LocalKeeps

(* scan_page of the entries or of the documents: those up to the cursor are *)
(* behind it, the next one is the first that is left.                       *)
LEMMA NextRowFacts ==
    ASSUME NEW t \in Threads, th[t].cursor \in Nat, NEW X \in SUBSET Docs, NEW batch, NEW then,
           NextRow(t, {0} \X X, batch, then)
    PROVE  \/ /\ \A x \in X : x <= th[t].cursor
              /\ Goes(t, [th[t] EXCEPT !.pc = then, !.cursor = 0])
           \/ \E d \in X : \E rows :
                 /\ d > th[t].cursor /\ \A x \in X : x <= th[t].cursor \/ d <= x
                 /\ Goes(t, [th[t] EXCEPT !.pc = batch, !.cursor = d, !.got = Snapshot({d}), !.rows = rows])
<1> DEFINE Rank(row) == row[1] * (Cardinality(Docs) + 1) + row[2]
           rest == {row \in {0} \X X : Rank(row) > th[t].cursor}
           next == CHOOSE row \in rest : \A other \in rest : Rank(row) <= Rank(other)
<1>1. Cardinality(Docs) \in Nat /\ X \subseteq Nat
  BY Zenon, DocsAssumption, FS_CardinalityType
<1>2. \A x \in X : Rank(<<0, x>>) = x
  BY <1>1
<1>3. \A row \in {0} \X X : row = <<0, row[2]>> /\ row[2] \in X
  BY SMTT(30)
<1>4. CASE rest = {}
  <2>1. Goes(t, [th[t] EXCEPT !.pc = then, !.cursor = 0])
    BY <1>4, Zenon DEF NextRow
  <2>2. ASSUME NEW x \in X PROVE x <= th[t].cursor
    <3>1. <<0, x>> \notin rest
      BY SMTT(30), <1>4
    <3> QED
      BY <1>1, <1>2, <3>1
  <2> QED
    BY Zenon, <2>1, <2>2
<1>5. CASE rest # {}
  <2>1. Goes(t, [th[t] EXCEPT !.pc = batch, !.cursor = Rank(next),
                              !.got = Snapshot({next[2]}), !.rows = {next} \cap keys])
    BY <1>5, Zenon DEF NextRow
  <2>2. \E row \in rest : \A other \in rest : Rank(row) <= Rank(other)
    <3> DEFINE S == {x \in X : x > th[t].cursor}
    <3>1. PICK row \in rest : TRUE
      BY Zenon, <1>5
    <3>2. row[2] \in S
      BY Zenon, <1>2, <1>3, <3>1
    <3>3. PICK m \in S : \A x \in S : m <= x
      BY Zenon, <1>1, <3>2, LeastNatural
    <3>4. <<0, m>> \in rest /\ Rank(<<0, m>>) = m
      BY Zenon, <1>2
    <3>5. \A other \in rest : Rank(other) = other[2] /\ other[2] \in S
      BY Zenon, <1>2, <1>3
    <3> QED
      BY <3>3, <3>4, <3>5
  <2>3. next \in rest /\ \A other \in rest : Rank(next) <= Rank(other)
    BY Zenon, <2>2
  <2>4. PICK d \in X : next = <<0, d>> /\ Rank(next) = d /\ next[2] = d
    BY Zenon, <1>2, <1>3, <2>3
  <2>5. d > th[t].cursor
    BY Zenon, <2>3, <2>4
  <2>6. ASSUME NEW x \in X, ~(x <= th[t].cursor) PROVE d <= x
    <3>1. <<0, x>> \in rest /\ Rank(<<0, x>>) = x
      BY <1>1, <1>2, <2>6
    <3> QED
      BY Zenon, <2>3, <2>4, <3>1
  <2>7. PICK rows : rows = {next} \cap keys
    BY Zenon
  <2>8. Goes(t, [th[t] EXCEPT !.pc = batch, !.cursor = d, !.got = Snapshot({d}), !.rows = rows])
    BY Zenon, <2>1, <2>4, <2>7
  <2> QED
    BY Zenon, <2>5, <2>6, <2>8
<1> QED
  BY Zenon, <1>4, <1>5

LEMMA ScanEntriesKeeps ==
    ASSUME IndexInv, NEW t \in Threads, ScanEntries(t)
    PROVE  IndexInv'
<1>1. th[t].pc = "entries" /\ th[t].call = "full" /\ ThreadInv(t) /\ th[t].cursor \in Nat /\ Reads /\ todo' = todo
  BY ThreadFacts, Zenon DEF ScanEntries, At, ThreadInv
<1> DEFINE X == {d \in Docs : entry[d] # NoDoc}
<1>2. NextRow(t, {0} \X X, "clear_entry", "keys")
  BY Zenon DEF ScanEntries
<1>3. \A d \in Docs : d \in Nat /\ (d <= th[t].cursor => d \in Cleared(t)) /\ (d \notin X => entry[d] = NoDoc)
  BY <1>1, DocsAssumption, Zenon DEF Cleared
<1> HIDE DEF X
<1>4. CASE /\ \A x \in X : x <= th[t].cursor
           /\ Goes(t, [th[t] EXCEPT !.pc = "keys", !.cursor = 0])
  <2> DEFINE v == [th[t] EXCEPT !.pc = "keys", !.cursor = 0]
  <2>1. /\ DOMAIN v = Fields /\ v.pc = "keys" /\ v.call = "full" /\ v.base = th[t].base /\ v.target = th[t].target
    BY <1>1, FieldsFacts, Zenon DEF ThreadInv
  <2>2. Goes(t, v)
    BY Zenon, <1>4
  <2> HIDE DEF v
  <2>3. th'[t] = v => \A d \in Cleared(t)' : d \in Cleared(t) \/ entry[d] = NoDoc
    BY <1>3, <1>4, Zenon DEF Cleared
  <2>4. th'[t] = v => \A d \in Done(t)' : d \in Done(t) \/ (src[d] = NoDoc /\ d \in Cleared(t))
    BY <2>1, Zenon DEF Done
  <2> QED
    BY <1>1, <2>1, <2>2, <2>3, <2>4, ScanKeeps, Zenon DEF FullPcs
<1>5. CASE \E d \in X : \E rows :
              /\ d > th[t].cursor /\ \A x \in X : x <= th[t].cursor \/ d <= x
              /\ Goes(t, [th[t] EXCEPT !.pc = "clear_entry", !.cursor = d, !.got = Snapshot({d}), !.rows = rows])
  <2>1. PICK d, rows :
              /\ d \in X /\ d > th[t].cursor /\ \A x \in X : x <= th[t].cursor \/ d <= x
              /\ Goes(t, [th[t] EXCEPT !.pc = "clear_entry", !.cursor = d, !.got = Snapshot({d}), !.rows = rows])
    BY Zenon, <1>5
  <2> DEFINE v == [th[t] EXCEPT !.pc = "clear_entry", !.cursor = d, !.got = Snapshot({d}), !.rows = rows]
  <2>2. /\ DOMAIN v = Fields /\ v.pc = "clear_entry" /\ v.call = "full" /\ v.base = th[t].base
        /\ v.target = th[t].target /\ v.cursor = d /\ v.got = Snapshot({d})
    BY <1>1, FieldsFacts, Zenon DEF ThreadInv
  <2>3. Goes(t, v)
    BY Zenon, <2>1
  <2> HIDE DEF v
  <2>4. d \in Docs
    BY <2>1, Zenon DEF X
  <2>5. th'[t] = v => \A x \in Cleared(t)' : x \in Cleared(t) \/ entry[x] = NoDoc
    <3> SUFFICES ASSUME th'[t] = v, NEW x \in Cleared(t)' PROVE x \in Cleared(t) \/ entry[x] = NoDoc
      BY Zenon
    <3>1. x \in Docs /\ x < d
      BY <2>2, Zenon DEF Cleared
    <3> QED
      BY <1>3, <2>1, <2>4, <3>1
  <2>6. th'[t] = v => \A x \in Done(t)' : x \in Done(t) \/ (src[x] = NoDoc /\ x \in Cleared(t))
    BY <2>2, Zenon DEF Done
  <2> QED
    BY <1>1, <2>2, <2>3, <2>4, <2>5, <2>6, ScanKeeps, Zenon DEF FullPcs
<1>6. X \in SUBSET Docs
  BY Zenon DEF X
<1> QED
  BY ZenonT(30), <1>1, <1>2, <1>4, <1>5, <1>6, NextRowFacts

LEMMA ScanKeysKeeps ==
    ASSUME IndexInv, NEW t \in Threads, ScanKeys(t)
    PROVE  IndexInv'
<1>1. th[t].pc = "keys" /\ th[t].call = "full" /\ ThreadInv(t) /\ Reads /\ todo' = todo
  BY ThreadFacts, Zenon DEF ScanKeys, At
<1>2. Docs \subseteq Cleared(t)
  BY <1>1, Zenon DEF Cleared
<1>3. PICK pc, cursor, got, rows :
          /\ pc = "sources" \/ pc = "clear_key"
          /\ Goes(t, [th[t] EXCEPT !.pc = pc, !.cursor = cursor, !.got = got, !.rows = rows])
          /\ pc = "sources" => cursor = 0
  <2>1. \/ Goes(t, [th[t] EXCEPT !.pc = "sources", !.cursor = 0])
        \/ \E cursor, got, rows :
              Goes(t, [th[t] EXCEPT !.pc = "clear_key", !.cursor = cursor, !.got = got, !.rows = rows])
    BY Zenon DEF ScanKeys, NextRow
  <2>2. CASE Goes(t, [th[t] EXCEPT !.pc = "sources", !.cursor = 0])
    <3>1. [th[t] EXCEPT !.pc = "sources", !.cursor = 0]
          = [th[t] EXCEPT !.pc = "sources", !.cursor = 0, !.got = th[t].got, !.rows = th[t].rows]
      BY <1>1, FieldsFacts, ZenonT(40) DEF ThreadInv
    <3> WITNESS "sources", 0, th[t].got, th[t].rows
    <3> QED
      BY <2>2, <3>1, ZenonT(40)
  <2>3. CASE \E cursor, got, rows :
                Goes(t, [th[t] EXCEPT !.pc = "clear_key", !.cursor = cursor, !.got = got, !.rows = rows])
    <3>1. PICK c, g, r : Goes(t, [th[t] EXCEPT !.pc = "clear_key", !.cursor = c, !.got = g, !.rows = r])
      BY <2>3, ZenonT(40)
    <3> WITNESS "clear_key", c, g, r
    <3> QED
      BY <3>1, Zenon
  <2> QED
    BY <2>1, <2>2, <2>3, Zenon
<1> DEFINE v == [th[t] EXCEPT !.pc = pc, !.cursor = cursor, !.got = got, !.rows = rows]
<1>4. /\ DOMAIN v = Fields /\ v.pc = pc /\ v.call = "full" /\ v.base = th[t].base /\ v.target = th[t].target
      /\ v.cursor = cursor
  BY <1>1, FieldsFacts, Zenon DEF ThreadInv
<1>5. Goes(t, v)
  BY Zenon, <1>3
<1> HIDE DEF v
<1>6. th'[t] = v => \A d \in Cleared(t)' : d \in Cleared(t) \/ entry[d] = NoDoc
  BY <1>2, Zenon DEF Cleared
<1>7. ASSUME th'[t] = v, NEW d \in Done(t)' PROVE FALSE
  <2>1. d \in Docs /\ pc = "sources" /\ d <= 0
    BY <1>3, <1>4, <1>7, Zenon DEF Done
  <2> QED
    BY <2>1, DocsAssumption
<1> QED
  BY <1>1, <1>3, <1>4, <1>5, <1>6, <1>7, ScanKeeps DEF FullPcs

LEMMA ScanSourcesKeeps ==
    ASSUME IndexInv, NEW t \in Threads, ScanSources(t)
    PROVE  IndexInv'
<1>1. th[t].pc = "sources" /\ th[t].call = "full" /\ ThreadInv(t) /\ th[t].cursor \in Nat /\ Reads /\ todo' = todo
  BY ThreadFacts, Zenon DEF ScanSources, At, ThreadInv
<1> DEFINE X == {d \in Docs : src[d] # NoDoc}
<1>2. NextRow(t, {0} \X X, "rebuild", "state") /\ X \in SUBSET Docs
  BY Zenon DEF ScanSources
<1>3. \A d \in Docs : /\ d \in Nat /\ d \in Cleared(t) /\ (d <= th[t].cursor => d \in Done(t))
                      /\ d \notin X => src[d] = NoDoc
  BY <1>1, DocsAssumption, Zenon DEF Cleared, Done
<1> HIDE DEF X
<1>4. CASE /\ \A x \in X : x <= th[t].cursor
           /\ Goes(t, [th[t] EXCEPT !.pc = "state", !.cursor = 0])
  <2> DEFINE v == [th[t] EXCEPT !.pc = "state", !.cursor = 0]
  <2>1. /\ DOMAIN v = Fields /\ v.pc = "state" /\ v.call = "full" /\ v.base = th[t].base /\ v.target = th[t].target
    BY <1>1, FieldsFacts, Zenon DEF ThreadInv
  <2>2. Goes(t, v)
    BY Zenon, <1>4
  <2> HIDE DEF v
  <2>3. th'[t] = v => \A d \in Cleared(t)' : d \in Cleared(t) \/ entry[d] = NoDoc
    BY <1>3, Zenon DEF Cleared
  <2>4. th'[t] = v => \A d \in Done(t)' : d \in Done(t) \/ (src[d] = NoDoc /\ d \in Cleared(t))
    BY <1>3, <1>4, Zenon DEF Done
  <2> QED
    BY <1>1, <2>1, <2>2, <2>3, <2>4, ScanKeeps, Zenon DEF FullPcs
<1>5. CASE \E d \in X : \E rows :
              /\ d > th[t].cursor /\ \A x \in X : x <= th[t].cursor \/ d <= x
              /\ Goes(t, [th[t] EXCEPT !.pc = "rebuild", !.cursor = d, !.got = Snapshot({d}), !.rows = rows])
  <2>1. PICK d, rows :
              /\ d \in X /\ d > th[t].cursor /\ \A x \in X : x <= th[t].cursor \/ d <= x
              /\ Goes(t, [th[t] EXCEPT !.pc = "rebuild", !.cursor = d, !.got = Snapshot({d}), !.rows = rows])
    BY Zenon, <1>5
  <2> DEFINE v == [th[t] EXCEPT !.pc = "rebuild", !.cursor = d, !.got = Snapshot({d}), !.rows = rows]
  <2>2. /\ DOMAIN v = Fields /\ v.pc = "rebuild" /\ v.call = "full" /\ v.base = th[t].base
        /\ v.target = th[t].target /\ v.cursor = d /\ v.got = Snapshot({d})
    BY <1>1, FieldsFacts, Zenon DEF ThreadInv
  <2>3. Goes(t, v)
    BY Zenon, <2>1
  <2> HIDE DEF v
  <2>4. d \in Docs
    BY Zenon, <1>2, <2>1
  <2>5. th'[t] = v => \A x \in Cleared(t)' : x \in Cleared(t) \/ entry[x] = NoDoc
    BY <1>3, Zenon DEF Cleared
  <2>6. th'[t] = v => \A x \in Done(t)' : x \in Done(t) \/ (src[x] = NoDoc /\ x \in Cleared(t))
    <3> SUFFICES ASSUME th'[t] = v, NEW x \in Done(t)' PROVE x \in Done(t) \/ (src[x] = NoDoc /\ x \in Cleared(t))
      BY Zenon
    <3>1. x \in Docs /\ x < d
      BY <2>2, Zenon DEF Done
    <3> QED
      BY <1>3, <2>1, <2>4, <3>1
  <2> QED
    BY <1>1, <2>2, <2>3, <2>4, <2>5, <2>6, ScanKeeps, Zenon DEF FullPcs
<1> QED
  BY ZenonT(30), <1>1, <1>2, <1>4, <1>5, NextRowFacts

-----------------------------------------------------------------------------
(* The batches of a rebuild.                                               *)

(* A batch that removes or puts what its thread then owes, or leaves exact. *)
LEMMA BatchKeeps ==
    ASSUME IndexInv, NEW t \in Threads, th[t].call = "full", Live(t), NEW v, Goes(t, v),
           Commit(System), dirty' = [dirty EXCEPT ![t] = current_lsn + 1],
           UNCHANGED <<start, source, frontier, todo>>, DOMAIN entry' = Docs,
           DOMAIN v = Fields, v.call = "full", v.pc \in {"entries", "keys", "sources"},
           v.base = th[t].base, v.target = th[t].target,
           v.pc \in {"entries", "sources"} => v.cursor \in Nat,
           \A d \in Docs : Text => entry'[d] \in {entry[d], NoDoc, src[d]},
           th'[t] = v => EntriesInv(t)' /\ DoneInv(t)',
           th'[t] = v => \A d \in Docs :
               \/ dirty'[t] > 0 => Owes(t, d)'
               \/ Exact(d)' \/ (~Text /\ Stamp(d) > th[t].target)
               \/ ~Owes(t, d) /\ Apart(d)
    PROVE  IndexInv'
<1>1. /\ start' = start /\ frontier' = frontier /\ todo' = todo
      /\ src' = src /\ raw' = raw /\ last' = last /\ UNCHANGED source /\ (Text <=> Text')
  BY Zenon DEF source, Text
<1>2. DOMAIN th' = Threads /\ th'[t] = v /\ \A u \in Threads \ {t} : th'[u] = th[u]
  BY Zenon DEF IndexInv, Goes
<1>3. LogInv /\ Extends /\ frontier \in Nat /\ frontier <= Len(hist) /\ Len(hist) \in Nat
      /\ Len(hist') = Len(hist) + 1
  BY Zenon, ExtendsFacts, ThreadFacts, LogFacts, CommitFacts
<1>4. LogInv'
  BY Zenon, <1>1, <1>3, LogKeeps
<1>5. /\ DOMAIN dirty' = Threads /\ dirty'[t] = Len(hist) + 1 /\ \A u \in Threads \ {t} : dirty'[u] = dirty[u]
  BY Zenon DEF IndexInv, current_lsn
<1>6. \A u \in Threads : dirty'[u] \in Nat /\ dirty'[u] <= Len(hist')
  BY <1>3, <1>5, ThreadFacts
<1>7. ASSUME NEW u \in Threads \ {t} PROVE ThreadInv(u)' /\ SoloInv(u)'
  BY <1>1, <1>2, <1>3, OthersKeep
<1>8. ThreadInv(t)' /\ SoloInv(t)'
  <2>1. ThreadInv(t) /\ SoloInv(t) /\ th[t].pc # "idle"
    BY ThreadFacts, Zenon DEF ThreadInv, FullPcs
  <2>2. th[t].target <= Len(hist') /\ th[t].target \in Nat
    BY <1>3, ThreadFacts
  <2>3. ThreadInv(t)'
    BY <1>1, <1>2, <2>1, <2>2, Zenon DEF ThreadInv, FullPcs, IncPcs
  <2>4. SoloInv(t)'
    BY <1>1, <1>2, <2>1, Zenon DEF SoloInv
  <2> QED
    BY Zenon, <2>3, <2>4
<1>9. ASSUME NEW u \in Threads \ {t}, NEW d, Owes(u, d) PROVE Owes(u, d)'
  BY <1>1, <1>2, <1>3, <1>5, <1>9, OwesKeeps
<1>10. \A d : Stamp(d)' = Stamp(d)
  BY <1>1, Zenon DEF Stamp, Text
<1>11. ASSUME NEW u \in Threads \ {t} PROVE Live(u)' => Live(u) /\ Text
  <2>1. th[t].pc # "idle"
    BY ThreadFacts, Zenon DEF ThreadInv, FullPcs
  <2> QED
    BY <1>1, <1>2, <2>1, SoloFacts, Zenon DEF Live
<1>12. ASSUME NEW u \in Threads \ {t} PROVE EntriesInv(u)'
  <2>1. EntriesInv(u)
    BY Zenon, ThreadFacts
  <2> SUFFICES ASSUME Live(u)', NEW d \in Cleared(u)', Stamp(d)' <= th'[u].target
               PROVE  entry'[d] \in {NoDoc, src[d]}
    BY <1>1, Zenon DEF EntriesInv
  <2>2. Live(u) /\ Text /\ d \in Cleared(u) /\ d \in Docs /\ Stamp(d) <= th[u].target
    BY <1>2, <1>10, <1>11, ZenonT(40) DEF Cleared
  <2> QED
    BY <2>1, <2>2, Zenon DEF EntriesInv
<1>13. ASSUME NEW u \in Threads \ {t} PROVE DoneInv(u)'
  <2> SUFFICES ASSUME Live(u)', NEW d \in Done(u)', Stamp(d)' <= th'[u].target, ~Exact(d)'
               PROVE  \E w \in Threads \ {u} : dirty'[w] > th'[u].target /\ Owes(w, d)'
    BY Zenon DEF DoneInv
  <2>1. Live(u) /\ Text /\ d \in Done(u) /\ d \in Docs /\ Stamp(d) <= th[u].target
    BY <1>2, <1>10, <1>11, Zenon DEF Done
  <2>2. CASE Owes(t, d)'
    <3>1. dirty'[t] > th'[u].target
      BY <1>2, <1>3, <1>5, ThreadFacts
    <3> QED
      BY ZenonT(40), <2>2, <3>1
  <2>3. CASE ~Owes(t, d) /\ Apart(d)
    <3>1. ~Exact(d)
      BY SMTT(30), <1>1, <2>3, ApartIsExact
    <3>2. PICK w \in Threads \ {u} : dirty[w] > th[u].target /\ Owes(w, d)
      BY <2>1, <3>1, ThreadFacts, Zenon DEF DoneInv
    <3>3. w # t
      BY ZenonT(40), <2>3, <3>2
    <3> QED
      BY ZenonT(40), <1>2, <1>5, <1>9, <3>2, <3>3
  <2> QED
    BY <1>2, <1>3, <1>5, <2>1, <2>2, <2>3
<1>14. ASSUME NEW d \in Docs PROVE DocInv(d)'
  <2> SUFFICES ASSUME Stamp(d)' <= frontier', ~Exact(d)' PROVE \E w \in Threads : Owes(w, d)'
    BY ZenonT(40) DEF DocInv
  <2>1. Stamp(d) <= frontier /\ ~(Stamp(d) > th[t].target)
    BY <1>1, <1>3, <1>10, ThreadFacts, LogFacts, SMTT(30) DEF Live
  <2>2. CASE ~Owes(t, d) /\ Apart(d)
    <3>1. ~Exact(d)
      BY Zenon, <1>1, <2>2, ApartIsExact
    <3>2. PICK w \in Threads : Owes(w, d)
      BY <2>1, <3>1, ZenonT(40) DEF IndexInv, DocInv
    <3> QED
      BY Zenon, <1>9, <2>2, <3>2
  <2> QED
    BY <1>2, <1>3, <1>5, <2>1, <2>2
<1>15. \A u \in Threads : ThreadInv(u)' /\ SoloInv(u)' /\ EntriesInv(u)' /\ DoneInv(u)'
  BY SMTT(30), <1>2, <1>7, <1>8, <1>12, <1>13
<1>16. start' \in Starts /\ DOMAIN todo' = Threads
  BY <1>1, Zenon DEF IndexInv
<1> QED
  BY <1>2, <1>4, <1>5, <1>6, <1>14, <1>15, <1>16, Zenon DEF IndexInv

LEMMA BatchFacts ==
    ASSUME IndexInv, NEW t \in Threads, th[t].call = "full", NEW then, Batch(t, then)
    PROVE  /\ UNCHANGED <<start, source, frontier, todo>>
           /\ Unchanged(t) =>
                 /\ Live(t) /\ Commit(System) /\ dirty' = [dirty EXCEPT ![t] = current_lsn + 1]
                 /\ Goes(t, [th[t] EXCEPT !.pc = then, !.got = <<>>, !.rows = {}])
           /\ ~Unchanged(t) => Stops(t) /\ UNCHANGED <<hist, dirty>>
<1>1. th[t].pc # "idle"
  BY ThreadFacts, Zenon DEF ThreadInv, FullPcs
<1>2. Unchanged(t) => Live(t)
  BY <1>1, BaseFacts, Zenon DEF Live
<1> QED
  BY <1>2, Zenon DEF Batch

(* A batch that finds a change is not committed.                           *)
LEMMA GiveUpKeeps ==
    ASSUME IndexInv, NEW t \in Threads, th[t].call = "full", NEW then, Batch(t, then), ~Unchanged(t),
           UNCHANGED <<entry, keys>>
    PROVE  IndexInv'
<1>1. Stops(t) /\ Reads /\ todo' = todo
  BY BatchFacts, Zenon DEF Reads, index
<1> QED
  BY SMTT(30), <1>1, StopKeeps

LEMMA RowFacts ==
    ASSUME IndexInv, NEW t \in Threads, th[t].pc \in {"clear_entry", "rebuild"}
    PROVE  \E d \in Docs : /\ d = Doc(t) /\ th[t].cursor = d /\ d \in Nat
                           /\ Unchanged(t) /\ (Text \/ Stamp(d) <= th[t].target) => th[t].got[d].source = src[d]
                           /\ Unchanged(t) /\ Text => th[t].got[d].entry = entry[d]
<1>1. RowInv(t)
  BY ThreadFacts, Zenon DEF ThreadInv
<1>2. PICK d \in Docs : /\ th[t].cursor = d /\ DOMAIN th[t].got = {d}
                        /\ ~Text /\ last[d] <= th[t].target => th[t].got[d].source = src[d]
  BY <1>1, Zenon DEF RowInv
<1>3. Doc(t) = d
  BY <1>2, Zenon DEF Doc
<1>4. ASSUME Unchanged(t), Text PROVE th[t].got[d].source = src[d] /\ th[t].got[d].entry = entry[d]
  <2>1. th[t].got = Snapshot({d})
    BY <1>2, <1>4, Zenon DEF Unchanged
  <2> QED
    BY <2>1 DEF Snapshot
<1> QED
  BY <1>2, <1>3, <1>4, DocsAssumption, Zenon DEF Stamp

LEMMA ClearEntryKeeps ==
    ASSUME IndexInv, NEW t \in Threads, ClearEntry(t)
    PROVE  IndexInv'
<1>1. th[t].pc = "clear_entry" /\ th[t].call = "full" /\ DOMAIN th[t] = Fields /\ Batch(t, "entries") /\ keys' = keys
  BY ThreadFacts, Zenon DEF ClearEntry, At
<1>2. PICK d \in Docs : d = Doc(t) /\ th[t].cursor = d /\ d \in Nat
  BY Zenon, <1>1, RowFacts
<1>3. CASE ~Unchanged(t)
  BY <1>1, <1>3, GiveUpKeeps, Zenon DEF ClearEntry
<1>4. CASE Unchanged(t)
  <2> DEFINE v == [th[t] EXCEPT !.pc = "entries", !.got = <<>>, !.rows = {}]
  <2>1. /\ Live(t) /\ Commit(System) /\ dirty' = [dirty EXCEPT ![t] = current_lsn + 1]
        /\ Goes(t, v) /\ UNCHANGED <<start, source, frontier, todo>>
    BY Zenon, <1>1, <1>4, BatchFacts
  <2>2. /\ DOMAIN v = Fields /\ v.pc = "entries" /\ v.call = "full" /\ v.base = th[t].base
        /\ v.target = th[t].target /\ v.cursor = d
    BY Zenon, <1>1, <1>2, FieldsFacts
  <2> HIDE DEF v
  <2>3. DOMAIN entry' = Docs /\ entry'[d] = NoDoc /\ \A x \in Docs \ {d} : entry'[x] = entry[x]
    <3>1. entry' = [entry EXCEPT ![d] = NoDoc]
      BY <1>2, <1>4, Zenon DEF ClearEntry
    <3> QED
      BY <3>1, Zenon DEF IndexInv, LogInv
  <2>4. \A x \in Docs : x \in Nat /\ Stamp(x)' = Stamp(x)
    BY <2>1, DocsAssumption, Zenon DEF Stamp, source, Text
  <2>5. th'[t] = v => EntriesInv(t)'
    <3> SUFFICES ASSUME th'[t] = v, NEW x \in Cleared(t)', Stamp(x)' <= th'[t].target
                 PROVE  entry'[x] \in {NoDoc, src'[x]}
      BY Zenon DEF EntriesInv
    <3>1. x \in Docs /\ x <= d
      BY <2>2, Zenon DEF Cleared
    <3>2. CASE x = d
      BY Zenon, <2>3, <3>2
    <3>3. CASE x # d
      <4>1. x \in Cleared(t)
        BY <1>1, <1>2, <2>4, <3>1, <3>3 DEF Cleared
      <4>2. entry[x] \in {NoDoc, src[x]}
        BY <2>1, <2>2, <2>4, <3>1, <4>1, ThreadFacts, Zenon DEF EntriesInv
      <4> QED
        BY <2>1, <2>3, <3>1, <3>3, <4>2, Zenon DEF source
    <3> QED
      BY Zenon, <3>2, <3>3
  <2>6. th'[t] = v => \A x : x \notin Done(t)'
    BY <2>2, Zenon DEF Done
  <2>7. th'[t] = v => DoneInv(t)' /\ \A x \in Docs : dirty'[t] > 0 => Owes(t, x)'
    BY <2>6, Zenon DEF DoneInv, Owes
  <2>8. \A x \in Docs : Text => entry'[x] \in {entry[x], NoDoc, src[x]}
    BY Zenon, <2>3
  <2> QED
    BY Zenon, <1>1, <1>2, <2>1, <2>2, <2>3, <2>5, <2>7, <2>8, BatchKeeps
<1> QED
  BY Zenon, <1>3, <1>4

LEMMA ClearKeyKeeps ==
    ASSUME IndexInv, NEW t \in Threads, ClearKey(t)
    PROVE  IndexInv'
<1>1. th[t].pc = "clear_key" /\ th[t].call = "full" /\ DOMAIN th[t] = Fields /\ Batch(t, "keys") /\ entry' = entry
  BY ThreadFacts, Zenon DEF ClearKey, At
<1>2. CASE ~Unchanged(t)
  BY <1>1, <1>2, GiveUpKeeps, Zenon DEF ClearKey
<1>3. CASE Unchanged(t)
  <2> DEFINE v == [th[t] EXCEPT !.pc = "keys", !.got = <<>>, !.rows = {}]
  <2>1. /\ Live(t) /\ Commit(System) /\ dirty' = [dirty EXCEPT ![t] = current_lsn + 1]
        /\ Goes(t, v) /\ UNCHANGED <<start, source, frontier, todo>>
    BY Zenon, <1>1, <1>3, BatchFacts
  <2>2. /\ DOMAIN v = Fields /\ v.pc = "keys" /\ v.call = "full" /\ v.base = th[t].base /\ v.target = th[t].target
    BY Zenon, <1>1, FieldsFacts
  <2> HIDE DEF v
  <2>3. DOMAIN entry' = Docs /\ \A x \in Docs : entry'[x] = entry[x]
    BY <1>1, Zenon DEF IndexInv, LogInv
  <2>4. \A x \in Docs : Stamp(x)' = Stamp(x)
    BY <2>1, Zenon DEF Stamp, source, Text
  <2>5. th'[t] = v => EntriesInv(t)'
    <3> SUFFICES ASSUME th'[t] = v, NEW x \in Cleared(t)', Stamp(x)' <= th'[t].target
                 PROVE  entry'[x] \in {NoDoc, src'[x]}
      BY Zenon DEF EntriesInv
    <3>1. x \in Docs /\ x \in Cleared(t)
      BY <1>1, Zenon DEF Cleared
    <3>2. entry[x] \in {NoDoc, src[x]}
      BY <2>1, <2>2, <2>4, <3>1, ThreadFacts, Zenon DEF EntriesInv
    <3> QED
      BY <2>1, <2>3, <3>1, <3>2, Zenon DEF source
  <2>6. th'[t] = v => \A x : x \notin Done(t)'
    BY <2>2, Zenon DEF Done
  <2>7. th'[t] = v => DoneInv(t)' /\ \A x \in Docs : dirty'[t] > 0 => Owes(t, x)'
    BY <2>6, Zenon DEF DoneInv, Owes
  <2> QED
    BY Zenon, <1>1, <2>1, <2>2, <2>3, <2>5, <2>7, BatchKeeps
<1> QED
  BY Zenon, <1>2, <1>3

LEMMA RebuildKeeps ==
    ASSUME IndexInv, NEW t \in Threads, Rebuild(t)
    PROVE  IndexInv'
<1>1. th[t].pc = "rebuild" /\ th[t].call = "full" /\ DOMAIN th[t] = Fields /\ Batch(t, "sources")
  BY ThreadFacts, Zenon DEF Rebuild, At
<1>2. PICK d \in Docs : /\ d = Doc(t) /\ th[t].cursor = d /\ d \in Nat
                        /\ Unchanged(t) /\ (Text \/ Stamp(d) <= th[t].target) => th[t].got[d].source = src[d]
  BY Zenon, <1>1, RowFacts
<1>3. CASE ~Unchanged(t)
  BY <1>1, <1>3, GiveUpKeeps, Zenon DEF Rebuild
<1>4. CASE Unchanged(t)
  <2> DEFINE v == [th[t] EXCEPT !.pc = "sources", !.got = <<>>, !.rows = {}]
  <2>1. /\ Live(t) /\ Commit(System) /\ dirty' = [dirty EXCEPT ![t] = current_lsn + 1]
        /\ Goes(t, v) /\ UNCHANGED <<start, source, frontier, todo>>
    BY Zenon, <1>1, <1>4, BatchFacts
  <2>2. /\ DOMAIN v = Fields /\ v.pc = "sources" /\ v.call = "full" /\ v.base = th[t].base
        /\ v.target = th[t].target /\ v.cursor = d
    BY Zenon, <1>1, <1>2, FieldsFacts
  <2> HIDE DEF v
  <2>3. PICK value, old : /\ value = th[t].got[d].source /\ old = Outdated(t, d)
    BY Zenon
  <2>4. entry' = [entry EXCEPT ![d] = value] /\ keys' = (keys \ old) \cup Rows(d, value)
    BY <1>2, <1>4, <2>3, Zenon DEF Rebuild
  <2>5. \A r \in old : r[2] = d
    BY <2>3, RowsFacts, Zenon DEF Outdated
  <2>6. DOMAIN entry' = Docs /\ entry'[d] = value /\ \A x \in Docs \ {d} : entry'[x] = entry[x]
    BY <2>4, Zenon DEF IndexInv, LogInv
  <2>7. src' = src /\ start' = start /\ \A x \in Docs : x \in Nat /\ Stamp(x)' = Stamp(x)
    BY <2>1, DocsAssumption, Zenon DEF Stamp, source, Text
  <2>8. Text \/ Stamp(d) <= th[t].target => value = src[d] /\ Exact(d)'
    <3> SUFFICES ASSUME Text \/ Stamp(d) <= th[t].target PROVE value = src[d] /\ Exact(d)'
      BY Zenon
    <3>1. value = src[d]
      BY Zenon, <1>2, <1>4, <2>3
    <3>2. Rows(d, src[d])' = Rows(d, src[d])
      BY <2>7, Zenon DEF Rows, Text
    <3> QED
      BY <2>4, <2>6, <2>7, <3>1, <3>2, Zenon DEF Exact
  <2>9. \A x \in Docs \ {d} : Apart(x)
    BY <2>4, <2>5, <2>6, <2>7, Zenon DEF Apart
  <2>10. th'[t] = v => EntriesInv(t)'
    <3> SUFFICES ASSUME th'[t] = v, NEW x \in Cleared(t)', Stamp(x)' <= th'[t].target
                 PROVE  entry'[x] \in {NoDoc, src'[x]}
      BY Zenon DEF EntriesInv
    <3>1. x \in Docs /\ x \in Cleared(t) /\ Stamp(x) <= th[t].target
      BY <1>1, <2>2, <2>7, Zenon DEF Cleared
    <3>2. CASE x = d
      BY Zenon, <2>6, <2>7, <2>8, <3>1, <3>2
    <3>3. CASE x # d
      BY <2>1, <2>6, <2>7, <3>1, <3>3, ThreadFacts, Zenon DEF EntriesInv
    <3> QED
      BY Zenon, <3>2, <3>3
  <2>11. ASSUME th'[t] = v, NEW x \in Docs
         PROVE  /\ x \in Done(t)' <=> x <= d
                /\ x \in Done(t) <=> x < d
    BY <1>1, <1>2, <2>2, <2>11, Zenon DEF Done
  <2>12. ASSUME th'[t] = v PROVE DoneInv(t)'
    <3> SUFFICES ASSUME NEW x \in Done(t)', Stamp(x)' <= th'[t].target, ~Exact(x)'
                 PROVE  \E w \in Threads \ {t} : dirty'[w] > th'[t].target /\ Owes(w, x)'
      BY Zenon DEF DoneInv
    <3>1. x \in Docs /\ Stamp(x) <= th[t].target
      BY <2>2, <2>7, <2>12, Zenon DEF Done
    <3>2. x # d
      BY Zenon, <2>8, <3>1
    <3>3. x \in Done(t) /\ ~Exact(x)
      <4>1. x \in Done(t) /\ Apart(x) /\ start' = start
        BY SMTT(30), <1>2, <2>7, <2>9, <2>11, <2>12, <3>1, <3>2
      <4> QED
        BY Zenon, <4>1, ApartIsExact
    <3>4. PICK w \in Threads \ {t} : dirty[w] > th[t].target /\ Owes(w, x)
      BY <2>1, <3>1, <3>3, ThreadFacts, Zenon DEF DoneInv
    <3>5. dirty'[w] = dirty[w] /\ th'[w] = th[w] /\ frontier' = frontier /\ frontier \in Nat
      BY <2>1, ThreadFacts, Zenon DEF IndexInv, Goes
    <3>6. Owes(w, x)'
      BY <3>4, <3>5, OwesKeeps
    <3> QED
      BY Zenon, <2>2, <2>12, <3>4, <3>5, <3>6
  <2>13. ASSUME th'[t] = v, NEW x \in Docs
         PROVE  \/ dirty'[t] > 0 => Owes(t, x)'
                \/ Exact(x)' \/ (~Text /\ Stamp(x) > th[t].target)
                \/ ~Owes(t, x) /\ Apart(x)
    <3>1. CASE x = d
      <4>1. Stamp(x) \in Nat /\ th[t].target \in Nat
        BY Zenon, LogFacts, ThreadFacts
      <4>2. Stamp(x) <= th[t].target \/ Stamp(x) > th[t].target
        BY <4>1, SMTT(30)
      <4> QED
        BY Zenon, <2>8, <3>1, <4>2
    <3>2. CASE x < d
      <4>1. x \in Nat /\ d \in Nat
        BY Zenon, <1>2, <2>7
      <4>2. x # d /\ x <= d
        BY <3>2, <4>1, SMTT(30)
      <4> QED
        BY <2>1, <2>9, <2>11, <2>13, <3>2, <4>2, Zenon DEF Owes
    <3>3. CASE ~(x <= d)
      BY <2>11, <2>13, <3>3, Zenon DEF Owes
    <3>4. x = d \/ x < d \/ ~(x <= d)
      <4>1. x \in Nat /\ d \in Nat
        BY Zenon, <1>2, <2>7
      <4> QED
        BY <4>1, SMTT(30)
    <3> QED
      BY <3>1, <3>2, <3>3, <3>4, Zenon
  <2>14. \A x \in Docs : Text => entry'[x] \in {entry[x], NoDoc, src[x]}
    BY Zenon, <2>6, <2>8
  <2> QED
    BY Zenon, <1>1, <1>2, <2>1, <2>2, <2>6, <2>10, <2>12, <2>13, <2>14, BatchKeeps
<1> QED
  BY ZenonT(40), <1>3, <1>4

-----------------------------------------------------------------------------
(* Steps that move the frontier.                                           *)

(* The end of refresh_full: what its rebuild has put is exact, but for what *)
(* a rebuild that went on later has removed.                                *)
LEMMA WriteStateKeeps ==
    ASSUME IndexInv, NEW t \in Threads, WriteState(t)
    PROVE  IndexInv'
<1>1. /\ th[t].pc = "state" /\ th[t].call = "full" /\ ThreadInv(t) /\ Stops(t) /\ todo' = todo
      /\ UNCHANGED <<start, source, entry, keys>>
  BY ThreadFacts, Zenon DEF WriteState, At
<1>2. CASE ~Unchanged(t)
  BY <1>1, <1>2, StopKeeps, Zenon DEF WriteState, Reads, index
<1>3. CASE Unchanged(t)
  <2>1. /\ frontier' = th[t].target /\ Commit(System) /\ th[t].base = frontier
        /\ dirty' = [u \in Threads |-> IF u = t \/ dirty[u] <= th[t].target THEN 0 ELSE dirty[u]]
    BY <1>1, <1>3, BaseFacts, Zenon DEF WriteState
  <2>2. /\ start' = start /\ src' = src /\ raw' = raw /\ last' = last /\ UNCHANGED source /\ entry' = entry
        /\ keys' = keys
    BY <1>1, Zenon DEF source
  <2>3. DOMAIN th' = Threads /\ th'[t] = Idle /\ \A u \in Threads \ {t} : th'[u] = th[u]
    BY <1>1, Zenon DEF IndexInv, Stops, Goes
  <2>4. /\ LogInv /\ Extends /\ frontier \in Nat /\ Len(hist) \in Nat /\ Len(hist') = Len(hist) + 1
        /\ frontier' \in Nat /\ frontier <= frontier' /\ frontier' <= Len(hist)
    BY Zenon, <1>1, <2>1, ExtendsFacts, ThreadFacts, LogFacts, CommitFacts
  <2>5. LogInv'
    BY <2>1, <2>2, <2>4, LogKeeps, Zenon DEF LogInv
  <2>6. /\ DOMAIN dirty' = Threads
        /\ \A u \in Threads : dirty'[u] \in Nat /\ dirty'[u] <= Len(hist')
    BY SMTT(30), <2>1, <2>4, ThreadFacts
  <2>7. ASSUME NEW u \in Threads \ {t} PROVE ThreadInv(u)' /\ SoloInv(u)'
    <3>1. frontier' = frontier \/ Text \/ th[u].pc = "idle"
      BY Zenon, <1>1, SoloFacts
    <3> QED
      BY Zenon, <1>1, <2>2, <2>3, <2>4, <3>1, OthersKeep
  <2>8. ThreadInv(t)' /\ SoloInv(t)'
    BY <1>1, <2>2, <2>3, <2>4, IdleThread
  <2>9. ~Live(t)'
    BY <2>3, FieldsFacts, Zenon DEF Live
  <2>10. ASSUME NEW u \in Threads \ {t}, Live(u)' PROVE Live(u) /\ frontier' = frontier
    BY <2>3, <2>4, <2>10, ThreadFacts DEF Live
  <2>11. \A d : Stamp(d)' = Stamp(d) /\ (Exact(d) => Exact(d)')
    BY <2>2, Zenon DEF Stamp, Exact, Rows, Text
  <2>12. ASSUME NEW u \in Threads PROVE EntriesInv(u)'
    <3>1. EntriesInv(u)
      BY Zenon, ThreadFacts
    <3> QED
      BY <2>2, <2>3, <2>9, <2>10, <2>11, <3>1, Zenon DEF EntriesInv, Cleared
  <2>13. \A d \in Docs : ~Owes(t, d)
    BY <1>1, <2>1, Zenon DEF Owes, Live, Done
  <2>14. ASSUME NEW w \in Threads \ {t}, NEW d, Owes(w, d), dirty[w] > th[t].target
         PROVE  dirty'[w] = dirty[w] /\ Owes(w, d)'
    <3>1. dirty'[w] = dirty[w]
      <4>1. dirty'[w] = IF w = t \/ dirty[w] <= th[t].target THEN 0 ELSE dirty[w]
        BY <2>1, Zenon
      <4>2. w \in Threads /\ w # t
        BY Zenon
      <4>3. dirty[w] \in Nat /\ th[t].target \in Nat
        BY <4>2, ThreadFacts, Zenon
      <4>4. dirty[w] > th[t].target
        BY <2>14, Zenon
      <4>5. ~(dirty[w] <= th[t].target)
        BY <4>3, <4>4, SMTT(30)
      <4> QED
        BY <4>1, <4>2, <4>5, Zenon
    <3> QED
      BY Zenon, <2>3, <2>4, <2>14, <3>1, OwesKeeps
  <2>15. ASSUME NEW u \in Threads PROVE DoneInv(u)'
    <3> SUFFICES ASSUME Live(u)', NEW d \in Done(u)', Stamp(d)' <= th'[u].target, ~Exact(d)'
                 PROVE  \E w \in Threads \ {u} : dirty'[w] > th'[u].target /\ Owes(w, d)'
      BY Zenon DEF DoneInv
    <3>1. u # t
      BY Zenon, <2>9
    <3>2. /\ Live(u) /\ frontier' = frontier /\ d \in Done(u) /\ d \in Docs
          /\ Stamp(d) <= th[u].target /\ ~Exact(d)
      BY <2>3, <2>10, <2>11, <3>1, Zenon DEF Done
    <3>3. PICK w \in Threads \ {u} : dirty[w] > th[u].target /\ Owes(w, d)
      BY <3>2, ThreadFacts, Zenon DEF DoneInv
    <3>4. w # t
      BY ZenonT(40), <2>13, <3>2, <3>3
    <3>5. dirty[w] > th[t].target
      BY <2>1, <3>2, <3>3, ThreadFacts DEF Live
    <3> QED
      BY Zenon, <2>3, <2>14, <3>1, <3>3, <3>4, <3>5
  <2>16. ASSUME NEW d \in Docs PROVE DocInv(d)'
    <3> SUFFICES ASSUME Stamp(d)' <= frontier', ~Exact(d)' PROVE \E w \in Threads : Owes(w, d)'
      BY Zenon DEF DocInv
    <3>1. Live(t) /\ d \in Done(t) /\ Stamp(d) <= th[t].target /\ ~Exact(d)
      BY <1>1, <2>1, <2>11, Zenon DEF Live, Done
    <3>2. PICK w \in Threads \ {t} : dirty[w] > th[t].target /\ Owes(w, d)
      BY <3>1, ThreadFacts, Zenon DEF DoneInv
    <3> QED
      BY Zenon, <2>14, <3>2
  <2>17. start' \in Starts /\ DOMAIN todo' = Threads
    BY <1>1, Zenon DEF IndexInv
  <2> QED
    BY <2>3, <2>5, <2>6, <2>7, <2>8, <2>12, <2>15, <2>16, <2>17, Zenon DEF IndexInv
<1> QED
  BY Zenon, <1>2, <1>3

(* A page of refresh_incremental: the documents of the page are exact, and  *)
(* no other document was written within it.                                *)
LEMMA IncCommitKeeps ==
    ASSUME IndexInv, NEW t \in Threads, IncCommit(t)
    PROVE  IndexInv'
<1>1. /\ th[t].pc = "commit" /\ th[t].call = "inc" /\ ThreadInv(t) /\ SoloInv(t) /\ DOMAIN th[t] = Fields
      /\ UNCHANGED <<start, source, todo, dirty>>
  BY ThreadFacts, Zenon DEF IncCommit, At
<1>2. CASE ~Unchanged(t)
  BY <1>1, <1>2, StopKeeps, Zenon DEF IncCommit, Reads
<1>3. CASE Unchanged(t)
  <2>1. PICK got, new : got = th[t].got /\ new = [d \in DOMAIN got |-> Reconciled(t, d)]
    BY Zenon
  <2> DEFINE v == [th[t] EXCEPT !.pc = "poll", !.base = th[t].next, !.changes = <<>>, !.got = <<>>]
  <2>2. Replace(got, new) /\ frontier' = th[t].next /\ Commit(System) /\ Goes(t, v) /\ th[t].base = frontier
    BY <1>1, <1>3, <2>1, BaseFacts, Zenon DEF IncCommit
  <2>3. DOMAIN v = Fields /\ v.pc = "poll" /\ v.call = "inc" /\ v.base = th[t].next /\ v.target = th[t].target
    BY Zenon, <1>1, FieldsFacts
  <2> HIDE DEF v
  <2>4. start' = start /\ src' = src /\ last' = last /\ UNCHANGED source /\ todo' = todo /\ dirty' = dirty
        /\ (Text <=> Text')
    BY <1>1, Zenon DEF source, Text
  <2>5. DOMAIN th' = Threads /\ th'[t] = v /\ \A u \in Threads \ {t} : th'[u] = th[u]
    BY <2>2, Zenon DEF IndexInv, Goes
  <2>6. PageInv(t)
    BY <1>1, Zenon DEF ThreadInv
  <2>7. /\ LogInv /\ Extends /\ frontier \in Nat /\ Len(hist) \in Nat /\ Len(hist') = Len(hist) + 1
        /\ frontier' \in Nat /\ frontier < frontier' /\ frontier' <= Len(hist)
    BY <2>2, <2>6, ExtendsFacts, ThreadFacts, LogFacts, CommitFacts, Zenon DEF PageInv
  <2>8. LogInv'
    BY <2>2, <2>4, <2>7, LogKeeps, Zenon DEF Replace
  <2>9. ASSUME NEW u \in Threads \ {t} PROVE ThreadInv(u)' /\ SoloInv(u)'
    <3>1. Text \/ th[u].pc = "idle"
      BY Zenon, <1>1, SoloFacts
    <3> QED
      BY <2>4, <2>5, <2>7, <3>1, OthersKeep
  <2>10. ThreadInv(t)' /\ SoloInv(t)'
    <3>1. th[t].target \in Nat /\ th[t].target <= Len(hist')
      BY <2>7, ThreadFacts
    <3>2. ThreadInv(t)'
      BY <2>2, <2>3, <2>5, <2>7, <3>1, SMTT(30) DEF ThreadInv, FullPcs, IncPcs
    <3>3. SoloInv(t)'
      BY <1>1, <2>2, <2>3, <2>4, <2>5, Zenon DEF SoloInv
    <3> QED
      BY Zenon, <3>2, <3>3
  <2>11. \A u \in Threads : ~Live(u)'
    BY <2>3, <2>5, <2>7, ThreadFacts, SMTT(30) DEF Live
  <2>12. \A u \in Threads : EntriesInv(u)' /\ DoneInv(u)'
    BY <2>11, Zenon DEF EntriesInv, DoneInv
  <2>13. ASSUME NEW d \in Docs PROVE DocInv(d)'
    <3> SUFFICES ASSUME Stamp(d)' <= frontier', ~Exact(d)' PROVE \E w \in Threads : Owes(w, d)'
      BY Zenon DEF DocInv
    <3>1. Stamp(d) <= th[t].next /\ Stamp(d) \in Nat
      BY <2>2, <2>4, <2>7, LogFacts, Zenon DEF Stamp, source
    <3>2. d \notin DOMAIN got
      <4> SUFFICES ASSUME d \in DOMAIN got PROVE FALSE
        BY Zenon
      <4>1. Reconciled(t, d) = src[d]
        <5>1. CASE Text
          <6>1. got = Snapshot(DOMAIN got)
            BY <1>3, <2>1, <5>1, Zenon DEF Unchanged
          <6> QED
            BY <2>1, <5>1, <6>1 DEF Snapshot, Reconciled
        <5>2. CASE ~Text
          BY <1>1, <2>1, <2>6, <3>1, <5>2, Zenon DEF PageInv, Reconciled, Stamp
        <5> QED
          BY Zenon, <5>1, <5>2
      <4>2. new[d] = src[d]
        BY Zenon, <2>1, <4>1
      <4>3. entry'[d] = src[d] /\ Rows(d, src[d]) \subseteq keys'
        BY <2>2, <4>2, Zenon DEF Replace
      <4>4. Rows(d, src[d])' = Rows(d, src[d])
        BY <2>4, Zenon DEF Rows, Text
      <4> QED
        BY <2>4, <4>3, <4>4, Zenon DEF Exact
    <3>3. Stamp(d) <= frontier
      <4> SUFFICES ASSUME ~(Stamp(d) <= frontier) PROVE FALSE
        BY Zenon
      <4>1. Stamp(d) \in (th[t].base + 1)..th[t].next /\ hist[Stamp(d)].doc = d
        BY <2>2, <2>6, <2>7, <3>1, LogFacts DEF PageInv
      <4>2. d \in DOMAIN th[t].changes \cup {0}
        BY <2>6, <4>1, Zenon DEF PageInv
      <4> QED
        BY <1>1, <2>1, <2>6, <3>2, <4>2, DocsAssumption, Zenon DEF PageInv
    <3>4. Apart(d)
      <4>1. entry'[d] = entry[d]
        BY <2>2, <3>2, Zenon DEF Replace
      <4>2. ASSUME NEW r \in keys, r[2] = d PROVE r \in keys'
        <5>1. ASSUME NEW e \in DOMAIN got, r \in Rows(e, got[e].entry) PROVE FALSE
          BY Zenon, <3>2, <4>2, <5>1, RowsFacts
        <5> QED
          BY <2>2, <5>1, Zenon DEF Replace
      <4> QED
        BY <2>4, <4>1, <4>2, Zenon DEF Apart
    <3>5. PICK w \in Threads : Owes(w, d)
      BY <2>4, <3>3, <3>4, ApartIsExact, Zenon DEF IndexInv, DocInv
    <3> QED
      BY <2>4, <2>11, <3>5, Zenon DEF Owes
  <2>14. /\ start' \in Starts /\ DOMAIN todo' = Threads /\ DOMAIN dirty' = Threads
         /\ \A u \in Threads : dirty'[u] \in Nat /\ dirty'[u] <= Len(hist')
    BY <2>4, <2>7, ThreadFacts DEF IndexInv
  <2> QED
    BY <2>5, <2>8, <2>9, <2>10, <2>12, <2>13, <2>14, Zenon DEF IndexInv
<1> QED
  BY Zenon, <1>2, <1>3

-----------------------------------------------------------------------------
(* Writers.                                                                *)

(* A write of d: of the full-text index, a write through a collection      *)
(* handle leaves d as exact as it was; every other write of d is one that  *)
(* the frontier has not passed.                                            *)
LEMMA WriteKeeps ==
    ASSUME IndexInv, NEW d \in Docs, NEW value, NEW is_raw \in BOOLEAN,
           Written(d, current_lsn + 1, is_raw), Commit([doc |-> d, value |-> value]),
           src' = [src EXCEPT ![d] = value], UNCHANGED <<start, frontier, th, todo, dirty>>,
           DOMAIN entry' = Docs, \A x \in Docs \ {d} : Apart(x), is_raw \/ Exact(d)' \/ Apart(d)
    PROVE  IndexInv'
<1>1. /\ LogInv /\ Len(hist) \in Nat /\ DOMAIN hist = 1..Len(hist) /\ Extends /\ d # 0
      /\ frontier \in Nat /\ frontier <= Len(hist)
  BY ExtendsFacts, LogFacts, DocsAssumption, Zenon DEF IndexInv, LogInv
<1>2. /\ \E T : hist' \in Seq(T)
      /\ Len(hist') = Len(hist) + 1 /\ DOMAIN hist' = 1..Len(hist) + 1
      /\ hist'[Len(hist) + 1].doc = d /\ hist'[Len(hist) + 1].value = value
      /\ \A l \in 1..Len(hist) : hist'[l] = hist[l]
  BY <1>1, CommitFacts
<1>3. /\ DOMAIN src' = Docs /\ DOMAIN last' = Docs /\ DOMAIN raw' = Docs
      /\ src'[d] = value /\ last'[d] = Len(hist) + 1 /\ raw'[d] = IF is_raw THEN Len(hist) + 1 ELSE raw[d]
      /\ \A x \in Docs \ {d} : src'[x] = src[x] /\ last'[x] = last[x] /\ raw'[x] = raw[x]
  BY <1>1, Zenon DEF LogInv, Written, current_lsn
<1>4. start' = start /\ frontier' = frontier /\ th' = th /\ todo' = todo /\ dirty' = dirty /\ (Text <=> Text')
  BY Zenon DEF Text
<1>5. LogInv'
  <2>1. ASSUME NEW x \in Docs
        PROVE  /\ raw'[x] \in Nat /\ last'[x] \in Nat /\ raw'[x] <= Len(hist') /\ last'[x] <= Len(hist')
               /\ raw'[x] > 0 => hist'[raw'[x]].doc = x
               /\ last'[x] > 0 => hist'[last'[x]].doc = x /\ hist'[last'[x]].value = src'[x]
    BY <1>1, <1>2, <1>3, SMTT(30) DEF LogInv
  <2>2. ASSUME NEW x \in Docs, NEW l \in DOMAIN hist', hist'[l].doc = x PROVE l <= last'[x]
    <3>1. CASE x = d
      BY SMTT(30), <1>1, <1>2, <1>3, <3>1
    <3>2. CASE x # d
      <4>1. l \in 1..Len(hist)
        BY SMTT(30), <1>1, <1>2, <2>2, <3>2
      <4> QED
        BY <1>1, <1>2, <1>3, <2>2, <3>2, <4>1, SMTT(30) DEF LogInv
    <3> QED
      BY Zenon, <3>1, <3>2
  <2>3. \A l \in DOMAIN hist' : hist'[l].doc \in Docs \cup {0}
    BY <1>1, <1>2 DEF LogInv
  <2> QED
    BY <1>1, <1>2, <1>3, <1>4, <2>1, <2>2, <2>3, SMTT(30) DEF LogInv
<1>6. ASSUME NEW u \in Threads PROVE ThreadInv(u)' /\ SoloInv(u)'
  <2>1. ThreadInv(u) /\ SoloInv(u) /\ th[u].target \in Nat /\ th[u].target <= Len(hist) /\ th[u].base \in Nat
    BY Zenon, ThreadFacts
  <2>2. ASSUME RowInv(u) PROVE RowInv(u)'
    <3>1. PICK x \in Docs : /\ th[u].cursor = x /\ DOMAIN th[u].got = {x}
                            /\ ~Text /\ last[x] <= th[u].target => th[u].got[x].source = src[x]
      BY <2>2, Zenon DEF RowInv
    <3>2. last'[x] <= th[u].target => last'[x] = last[x] /\ src'[x] = src[x]
      BY <1>1, <1>3, <2>1
    <3> QED
      BY <1>4, <3>1, <3>2, Zenon DEF RowInv
  <2>3. ASSUME th[u].pc \in {"read", "commit"} PROVE PageInv(u)'
    <3>1. PageInv(u)
      BY <2>1, <2>3, Zenon DEF ThreadInv
    <3>2. th[u].next \in Nat /\ th[u].next <= Len(hist) /\ th[u].next <= Len(hist')
      BY <1>1, <1>2, <3>1, SMTT(30) DEF PageInv
    <3>3. \A l \in (th[u].base + 1)..th[u].next : hist'[l] = hist[l]
      BY SMTT(30), <1>1, <1>2, <2>1, <3>2
    <3>4. \A x \in Docs : last'[x] <= th[u].next => last'[x] = last[x] /\ src'[x] = src[x]
      BY <1>1, <1>3, <3>2
    <3> QED
      BY <1>4, <3>1, <3>2, <3>3, <3>4, Zenon DEF PageInv
  <2>4. th[u].target <= Len(hist')
    BY <1>1, <1>2, <2>1
  <2>5. ThreadInv(u)'
    BY <1>4, <2>1, <2>2, <2>3, <2>4, Zenon DEF ThreadInv
  <2>6. SoloInv(u)'
    BY <1>4, <2>1, Zenon DEF SoloInv
  <2> QED
    BY Zenon, <2>5, <2>6
<1>7. ASSUME NEW x \in Docs, NEW n \in Nat, n <= Len(hist), Stamp(x)' <= n
      PROVE  Stamp(x) <= n /\ (Exact(x)' \/ Apart(x))
  <2>1. CASE x # d
    BY <1>3, <1>4, <1>7, <2>1, Zenon DEF Stamp
  <2>2. CASE x = d
    <3>1. Stamp(d)' # Len(hist) + 1
      BY <1>1, <1>7, <2>2
    <3>2. Text /\ ~is_raw
      BY <1>3, <1>4, <3>1, Zenon DEF Stamp
    <3> QED
      BY <1>3, <1>4, <1>7, <2>2, <3>2, Zenon DEF Stamp
  <2> QED
    BY Zenon, <2>1, <2>2
<1>8. \A u \in Threads : \A x : Owes(u, x)' <=> Owes(u, x)
  BY <1>4, Zenon DEF Owes, Live, Done
<1>9. ASSUME NEW u \in Threads PROVE EntriesInv(u)'
  <2> SUFFICES ASSUME Live(u)', NEW x \in Cleared(u)', Stamp(x)' <= th'[u].target
               PROVE  entry'[x] \in {NoDoc, src'[x]}
    BY Zenon DEF EntriesInv
  <2>1. Live(u) /\ x \in Cleared(u) /\ x \in Docs
    BY <1>4, Zenon DEF Live, Cleared
  <2>2. Stamp(x) <= th[u].target /\ (Exact(x)' \/ Apart(x))
    BY Zenon, <1>4, <1>7, <2>1, ThreadFacts
  <2>3. entry[x] \in {NoDoc, src[x]}
    BY <2>1, <2>2, ThreadFacts, Zenon DEF EntriesInv
  <2> QED
    BY <2>2, <2>3, Zenon DEF Exact, Apart
<1>10. ASSUME NEW u \in Threads PROVE DoneInv(u)'
  <2> SUFFICES ASSUME Live(u)', NEW x \in Done(u)', Stamp(x)' <= th'[u].target, ~Exact(x)'
               PROVE  \E w \in Threads \ {u} : dirty'[w] > th'[u].target /\ Owes(w, x)'
    BY Zenon DEF DoneInv
  <2>1. Live(u) /\ x \in Done(u) /\ x \in Docs
    BY <1>4, Zenon DEF Live, Done
  <2>2. Stamp(x) <= th[u].target /\ Apart(x)
    BY Zenon, <1>4, <1>7, <2>1, ThreadFacts
  <2>3. ~Exact(x)
    <3>1. start' = start /\ Apart(x)
      BY Zenon, <1>4, <2>2
    <3> QED
      BY Zenon, <3>1, ApartIsExact
  <2>4. PICK w \in Threads \ {u} : dirty[w] > th[u].target /\ Owes(w, x)
    <3>1. DoneInv(u)
      BY Zenon, ThreadFacts
    <3> QED
      BY <2>1, <2>2, <2>3, <3>1, Zenon DEF DoneInv
  <2> QED
    BY Zenon, <1>4, <1>8, <2>4
<1>11. ASSUME NEW x \in Docs PROVE DocInv(x)'
  <2> SUFFICES ASSUME Stamp(x)' <= frontier', ~Exact(x)' PROVE \E w \in Threads : Owes(w, x)'
    BY Zenon DEF DocInv
  <2>1. Stamp(x) <= frontier /\ Apart(x)
    BY Zenon, <1>1, <1>4, <1>7
  <2>2. ~Exact(x)
    BY Zenon, <1>4, <2>1, ApartIsExact
  <2> QED
    BY <1>8, <2>1, <2>2, Zenon DEF IndexInv, DocInv
<1>12. /\ start' \in Starts /\ DOMAIN th' = Threads /\ DOMAIN todo' = Threads /\ DOMAIN dirty' = Threads
       /\ \A u \in Threads : dirty'[u] \in Nat /\ dirty'[u] <= Len(hist')
  <2>1. start' \in Starts /\ DOMAIN th' = Threads /\ DOMAIN todo' = Threads /\ DOMAIN dirty' = Threads
    BY <1>1, <1>2, <1>4, Zenon DEF IndexInv
  <2>2. ASSUME NEW u \in Threads PROVE dirty'[u] \in Nat /\ dirty'[u] <= Len(hist')
    <3>1. dirty'[u] = dirty[u] /\ dirty[u] \in Nat /\ dirty[u] <= Len(hist)
      BY Zenon, <1>4, ThreadFacts
    <3>2. Len(hist) \in Nat /\ Len(hist') = Len(hist) + 1
      BY Zenon, <1>1, <1>2
    <3> QED
      BY <3>1, <3>2, SMTT(30)
  <2> QED
    BY Zenon, <2>1, <2>2
<1> QED
  BY <1>5, <1>6, <1>9, <1>10, <1>11, <1>12, Zenon DEF IndexInv

LEMMA UpdateKeeps ==
    ASSUME IndexInv, NEW d \in Docs, NEW value, Update(d, value)
    PROVE  IndexInv'
<1>1. /\ Written(d, current_lsn + 1, FALSE) /\ Commit([doc |-> d, value |-> value])
      /\ src' = [src EXCEPT ![d] = value] /\ UNCHANGED <<start, frontier, th, todo, dirty>>
  BY Zenon DEF Update
<1>2. DOMAIN src = Docs /\ DOMAIN entry = Docs
  BY Zenon DEF IndexInv, LogInv
<1>3. src'[d] = value /\ \A x \in Docs \ {d} : src'[x] = src[x]
  BY Zenon, <1>1, <1>2
<1>4. CASE src[d] = value
  <2>1. entry' = entry /\ keys' = keys
    BY <1>4, Zenon DEF Update, append_document_change_ops
  <2>2. \A x \in Docs : Apart(x)
    BY <1>3, <1>4, <2>1, Zenon DEF Apart
  <2> QED
    BY Zenon, <1>1, <1>2, <2>1, <2>2, WriteKeeps
<1>5. CASE src[d] # value
  <2>1. entry' = [entry EXCEPT ![d] = value] /\ keys' = (keys \ Rows(d, src[d])) \cup Rows(d, value)
    BY <1>5, Zenon DEF Update, append_document_change_ops
  <2>2. DOMAIN entry' = Docs /\ entry'[d] = value /\ \A x \in Docs \ {d} : entry'[x] = entry[x]
    BY Zenon, <1>2, <2>1
  <2>3. \A x \in Docs \ {d} : Apart(x)
    BY <1>3, <2>1, <2>2, RowsFacts DEF Apart
  <2>4. Rows(d, value)' = Rows(d, value)
    BY <1>1, Zenon DEF Rows, Text
  <2>5. Exact(d)'
    BY <1>3, <2>1, <2>2, <2>4, Zenon DEF Exact
  <2> QED
    BY Zenon, <1>1, <2>2, <2>3, <2>5, WriteKeeps
<1> QED
  BY Zenon, <1>4, <1>5

LEMMA RawWriteKeeps ==
    ASSUME IndexInv, NEW d \in Docs, NEW value, RawWrite(d, value)
    PROVE  IndexInv'
<1>1. /\ Written(d, current_lsn + 1, TRUE) /\ Commit([doc |-> d, value |-> value])
      /\ src' = [src EXCEPT ![d] = value] /\ UNCHANGED <<start, frontier, th, todo, dirty>>
      /\ entry' = entry /\ keys' = keys
  BY Zenon DEF RawWrite, index
<1>2. DOMAIN src = Docs /\ DOMAIN entry = Docs
  BY Zenon DEF IndexInv, LogInv
<1>3. \A x \in Docs \ {d} : Apart(x)
  BY <1>1, <1>2, Zenon DEF Apart
<1> QED
  BY Zenon, <1>1, <1>2, <1>3, WriteKeeps

-----------------------------------------------------------------------------
(* The specification.                                                      *)

LEMMA IndexInit == Init => IndexInv
<1> SUFFICES ASSUME Init PROVE IndexInv
  BY Zenon
<1>1. hist = <<>> /\ frontier = 0 /\ start \in Starts
  BY Zenon DEF Init
<1>2. hist \in Seq({}) /\ Len(hist) = 0 /\ DOMAIN hist = {}
  BY <1>1
<1>3. LogInv
  BY <1>1, <1>2 DEF Init, LogInv
<1>4. DOMAIN th = Threads /\ DOMAIN todo = Threads /\ DOMAIN dirty = Threads
  BY StartsAssumption, Zenon DEF Init
<1>5. ASSUME NEW t \in Threads PROVE ThreadInv(t) /\ SoloInv(t) /\ EntriesInv(t) /\ DoneInv(t) /\ dirty[t] = 0
  <2>1. th[t] = Idle /\ todo[t] = start.calls[t] /\ dirty[t] = 0
    BY Zenon DEF Init
  <2>2. ThreadInv(t)
    BY <1>1, <1>2, <2>1, FieldsFacts DEF ThreadInv, FullPcs, IncPcs, Fields
  <2>3. SoloInv(t)
    BY <1>1, <2>1, FieldsFacts, StartsAssumption, Zenon DEF SoloInv
  <2>4. ~Live(t)
    BY <2>1, FieldsFacts, Zenon DEF Live
  <2> QED
    BY <2>1, <2>2, <2>3, <2>4, Zenon DEF EntriesInv, DoneInv
<1>6. ASSUME NEW d \in Docs PROVE DocInv(d)
  <2>1. src[d] = NoDoc /\ entry[d] = NoDoc
    BY Zenon DEF Init
  <2> QED
    BY <2>1, GoneIsExact, Zenon DEF DocInv
<1> QED
  BY <1>1, <1>2, <1>3, <1>4, <1>5, <1>6 DEF IndexInv

LEMMA IndexNext == IndexInv /\ [Next]_vars => IndexInv'
<1> SUFFICES ASSUME IndexInv, [Next]_vars PROVE IndexInv'
  BY Zenon
<1>1. ASSUME NEW d \in Docs, NEW value, Update(d, value) \/ RawWrite(d, value) PROVE IndexInv'
  BY Zenon, <1>1, UpdateKeeps, RawWriteKeeps
<1>2. ASSUME NEW t \in Threads, Step(t) PROVE IndexInv'
  BY <1>2, IncStartKeeps, IncPollKeeps, IncReadKeeps, IncCommitKeeps, FullStartKeeps, ScanEntriesKeeps,
     ScanKeysKeeps, ScanSourcesKeeps, ClearEntryKeeps, ClearKeyKeeps, RebuildKeeps, WriteStateKeeps,
     FailKeeps, Zenon DEF Step
<1>3. ASSUME UNCHANGED vars PROVE IndexInv'
  <2>1. /\ start' = start /\ hist' = hist /\ src' = src /\ entry' = entry /\ keys' = keys /\ frontier' = frontier
        /\ th' = th /\ todo' = todo /\ raw' = raw /\ last' = last /\ dirty' = dirty
    BY <1>3, SMTT(30) DEF vars
  <2>2. LogInv'
    BY <2>1, Zenon DEF IndexInv, LogInv
  <2>3. ASSUME NEW u \in Threads PROVE ThreadInv(u)' /\ SoloInv(u)'
    <3>1. UNCHANGED source /\ frontier \in Nat /\ LogInv
      BY <1>3, Zenon DEF vars, source, IndexInv, LogInv
    <3>2. Extends /\ frontier' \in Nat /\ frontier <= frontier'
      BY SMTT(30), <2>1, <3>1, ExtendsFacts
    <3> QED
      BY Zenon, <2>1, <3>1, <3>2, OthersKeep
  <2>4. \A u \in Threads : \A d : Owes(u, d)' <=> Owes(u, d)
    BY <2>1, Zenon DEF Owes, Live, Done
  <2>5. \A d : (Exact(d)' <=> Exact(d)) /\ Stamp(d)' = Stamp(d)
    BY <2>1, Zenon DEF Exact, Rows, Stamp, Text
  <2>6. ASSUME NEW u \in Threads PROVE EntriesInv(u)' /\ DoneInv(u)'
    <3>1. EntriesInv(u) /\ DoneInv(u)
      BY Zenon, ThreadFacts
    <3> QED
      BY <2>1, <2>4, <2>5, <3>1, Zenon DEF EntriesInv, DoneInv, Live, Cleared, Done
  <2>7. \A d \in Docs : DocInv(d)'
    BY <2>1, <2>4, <2>5, Zenon DEF IndexInv, DocInv
  <2> QED
    BY <2>1, <2>2, <2>3, <2>6, <2>7, Zenon DEF IndexInv
<1> QED
  BY <1>1, <1>2, <1>3, Zenon DEF Next

LEMMA IndexInvariant == Spec => []IndexInv
  BY IndexInit, IndexNext, PTL DEF Spec

(* Every document whose last write the frontier has to pass is at or before *)
(* it is exact, unless a rebuild is at work or was given up.                *)
LEMMA SettledIsExact ==
    ASSUME IndexInv, Settled, NEW d \in Docs, Stamp(d) <= frontier
    PROVE  Exact(d)
  BY DEF IndexInv, DocInv, Owes, Settled

(* The full-text index: whatever refresh_incremental, refresh_full, their   *)
(* failures and the writers of collection handles do at the same time, a    *)
(* document is found as it is once the frontier has passed its raw writes.  *)
THEOREM TextIsExactSafety == Spec => []TextIsExact
<1>1. IndexInv => TextIsExact
  BY SettledIsExact, Zenon DEF TextIsExact, Stamp
<1> QED
  BY <1>1, IndexInvariant, PTL

(* The geo index, with one refresher at a time, is exact about every        *)
(* document that was last written at or before its frontier, although its   *)
(* batches carry no conditions: what a refresh overwrites with an older     *)
(* point lies after the frontier, so the next refresh repairs it.           *)
THEOREM GeoFollowsSafety == Spec => []GeoFollows
<1>1. IndexInv => GeoFollows
  BY SettledIsExact, Zenon DEF GeoFollows, Stamp
<1> QED
  BY <1>1, IndexInvariant, PTL

(* No refresh moves a stored frontier back: neither a page of               *)
(* refresh_incremental that was read before another refresh had ended, nor  *)
(* the token that refresh_full took before it read anything.                *)
THEOREM FrontierNeverReturns == Spec => FrontierAdvances
<1>1. ASSUME IndexInv, [Next]_vars PROVE frontier' >= frontier
  <2>1. frontier \in Nat
    BY <1>1, Zenon DEF IndexInv, LogInv
  <2>2. CASE frontier' = frontier
    BY <2>1, <2>2
  <2>3. ASSUME NEW t \in Threads, IncCommit(t) PROVE frontier' >= frontier
    <3>1. CASE ~Unchanged(t)
      BY <2>2, <2>3, <3>1, Zenon DEF IncCommit, index
    <3>2. CASE Unchanged(t)
      <4>1. th[t].pc = "commit" /\ frontier' = th[t].next
        BY <2>3, <3>2, SMTT(30) DEF IncCommit, At
      <4>2. th[t].base = frontier /\ PageInv(t)
        BY <1>1, <3>2, <4>1, BaseFacts, ThreadFacts, Zenon DEF ThreadInv
      <4> QED
        BY <2>1, <4>1, <4>2 DEF PageInv
    <3> QED
      BY Zenon, <3>1, <3>2
  <2>4. ASSUME NEW t \in Threads, WriteState(t) PROVE frontier' >= frontier
    <3>1. CASE ~Unchanged(t)
      BY <2>2, <2>4, <3>1, Zenon DEF WriteState
    <3>2. CASE Unchanged(t)
      <4>1. th[t].pc = "state" /\ th[t].call = "full" /\ frontier' = th[t].target
        BY <2>4, <3>2, Zenon DEF WriteState, At
      <4>2. th[t].base = frontier /\ th[t].base <= th[t].target /\ th[t].target \in Nat
        BY Zenon, <1>1, <3>2, <4>1, BaseFacts, ThreadFacts
      <4> QED
        BY Zenon, <2>1, <4>1, <4>2
    <3> QED
      BY Zenon, <3>1, <3>2
  <2>5. ASSUME NEW t \in Threads, Step(t) PROVE frontier' = frontier \/ IncCommit(t) \/ WriteState(t)
    BY <2>5, Zenon DEF Step, IncStart, IncPoll, IncRead, FullStart, ScanEntries, ScanKeys, ScanSources,
                ClearEntry, ClearKey, Rebuild, Batch, Fail, Reads, index
  <2>6. ASSUME NEW d \in Docs, NEW value, Update(d, value) \/ RawWrite(d, value) PROVE frontier' = frontier
    BY <2>6, Zenon DEF Update, RawWrite, index
  <2>7. ASSUME UNCHANGED vars PROVE frontier' = frontier
    BY <2>7, Zenon DEF vars
  <2> QED
    BY <1>1, <2>2, <2>3, <2>4, <2>5, <2>6, <2>7, Zenon DEF Next
<1>2. IndexInv /\ [Next]_vars => [frontier' >= frontier]_vars
  BY Zenon, <1>1
<1> QED
  BY <1>2, IndexInvariant, PTL DEF Spec, FrontierAdvances
=============================================================================
