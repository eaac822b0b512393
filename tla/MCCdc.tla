------------------------------- MODULE MCCdc -------------------------------
(* Small instances of Cdc for TLC: a few calls at a time, each mix of them *)
(* from a history it can matter on.                                        *)
EXTENDS Cdc

CONSTANTS t1, t2, t3, t4, k1, k2, alice, bob

RowA == [g |-> "a", v |-> 1]
RowB == [g |-> "b", v |-> 2]
ViewSpecs == {{"a"}, {"a", "b"}}
RowFilters == {{k1}, {k1, k2}}

Calls(a, b, c, d) == [t \in Threads |-> CASE t = t1 -> a [] t = t2 -> b [] t = t3 -> c [] t = t4 -> d]
Past(writes) == [i \in 1..Len(writes) |-> [branch |-> 0, writes |-> writes[i]]]

\* A subscription of alice from the start, and rows of both keys.
Subscribed ==
    Past(<<[sub |-> [owner |-> alice, filter |-> {k1}, last_ack |-> DefaultToken,
                     since |-> DefaultToken, created_at |-> 1]],
           [rows |-> k1 :> RowA]>>)
Queried ==
    Past(<<[query |-> [last_ack |-> DefaultToken, created_at |-> 1],
            sub |-> [owner |-> alice, filter |-> {k1}, last_ack |-> DefaultToken,
                     since |-> DefaultToken, created_at |-> 1]],
           [rows |-> k1 :> RowA]>>)

\* A view without row counts; the group of its deleted row is still there.
LegacyView ==
    Past(<<[rows |-> k1 :> RowA], [rows |-> k1 :> RowB],
           [view |-> [spec |-> {"a", "b"}, state |->
              [fresh_to_lsn |-> 2,
               source_rows |-> (k1 :> RowB @@ k2 :> NoRow),
               groups |-> ("a" :> [row_count |-> NoCount, count |-> 0, sum |-> 0] @@
                           "b" :> [row_count |-> NoCount, count |-> 1, sum |-> 2])]]]>>)
Hooked == Past(<<[hook |-> {k1}]>>)

\* A start with one write set and no backups, and one with the backups.
Start(h, calls, writes, lsn) ==
    [hist |-> h, timeline |-> "default", call |-> calls, writes |-> writes, max_lsn |-> lsn,
     max_backups |-> 0, max_restores |-> 0]
BackedUp(start_, backups_, restores_) ==
    [start_ EXCEPT !.max_backups = backups_, !.max_restores = restores_]

FeedStart == BackedUp(Start(<<>>, Calls("feed", "put", "gc", "backup"), {k1 :> RowA}, 4), 1, 0)
PushStart == Start(Subscribed, Calls("push", "push", "gc", "put"), {k1 :> RowB, k2 :> RowB}, 5)
OwnerStart == Start(Subscribed, Calls("push", "create_sub", "adopt", "none"), {}, 4)
QueryStart == Start(Queried, Calls("ack_query", "apply_query", "none", "none"), {}, 5)
ReapplyStart == Start(Queried, Calls("push", "apply_query", "none", "none"), {}, 5)
AdoptStart == Start(Queried, Calls("ack_query", "push", "adopt", "none"), {}, 4)
ViewStart == Start(LegacyView, Calls("refresh", "create_view", "none", "put"), {k1 :> NoRow}, 5)
CreateStart == Start(LegacyView, Calls("none", "create_view", "gc", "put"), {k1 :> NoRow}, 5)
RefreshStart == Start(LegacyView, Calls("refresh", "refresh", "gc", "put"),
                      {k1 :> RowA}, 6)
HookStart == Start(Hooked, Calls("write", "write", "hook", "gc"), {k1 :> RowA, k2 :> RowB}, 4)
BackupStart == BackedUp(Start(<<>>, Calls("backup", "restore", "put", "gc"), {k1 :> RowA}, 4), 3, 1)

AllStarts == {FeedStart, PushStart, OwnerStart, QueryStart, ReapplyStart, AdoptStart, ViewStart,
              CreateStart, RefreshStart, HookStart, BackupStart}

\* A database that was backed up before, and a caller with a token of it.
RestoredFeed ==
    {[BackedUp(Start(<<>>, Calls("feed", "backup", "restore", "put"), {k1 :> RowA}, 4), 1, 1)
        EXCEPT !.timeline = "persisted"]}
=============================================================================
