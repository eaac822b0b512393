------------------------------ MODULE DistTxn ------------------------------
(***************************************************************************)
(* Two-phase commit of ShardedReplication (repl/shard.rs) over shards that *)
(* keep prepared records, key locks and terminal records in their store    *)
(* (repl/dist_txn/locks.rs), with recovery.                                *)
(*                                                                         *)
(* A call to a shard takes effect and answers in one step, or it fails for *)
(* the router.  A failed call may still be in a shard's Raft log, and take *)
(* effect at any later time or never: the late_* sets.  Crash forgets what *)
(* a router holds in memory; everything else is durable.                   *)
(*                                                                         *)
(* Placement is fixed.  A row value is the id of the distributed           *)
(* transaction that wrote it, or 0 for a single-shard write.               *)
(*                                                                         *)
(* Definitions marked "faulty variant" are plausible bugs in the           *)
(* definition below them; no specification uses them.                      *)
(***************************************************************************)
EXTENDS Integers, FiniteSets, FiniteSetsExt

CONSTANTS
    Shards,      \* shard ids
    Global,      \* the shard with the coordinator tables
    Keys,
    Owner,       \* the shard of every key
    Batches,     \* key sets of the cross-shard batches callers propose
    Routers,     \* threads inside a ShardedReplication, of any process
    LegacyTxns,  \* ids of prepared records written before key locks existed
    MaxTries,    \* attempts of allocate_dist_txn_id (64)
    MaxTxn,      \* bound on the ids allocated
    MaxLate      \* bound on the failed calls that may still take effect

ASSUME ShardAssumption == Shards \subseteq Nat /\ Global \in Shards
ASSUME OwnerAssumption == Owner \in [Keys -> Shards]
ASSUME BatchAssumption == Batches \subseteq (SUBSET Keys) \ {{}}
ASSUME BoundAssumption == MaxTries \in Nat /\ MaxTxn \in Nat /\ MaxLate \in Nat
ASSUME LegacyAssumption == LegacyTxns \subseteq 1..MaxTxn

Txns == 1..MaxTxn
Decisions == {"Commit", "Abort"}
None == 0
ShardsOf(b) == {Owner[k] : k \in b}

VARIABLES
    sequence,      \* __dist_txn_sequence on Global; None before the first use
    decision,      \* __dist_txn_coordinator on Global; "none" without a row
    prepared,      \* __dist_txn_participants: keys of the record, {} without one
    finished,      \* __dist_txn_finished; "none" without a record
    locks,         \* __dist_txn_key_locks: the owning transaction, or None
    format,        \* whether the shard has the key-lock format marker
    value,         \* the user rows
    batch,         \* keys of every transaction
    late_ids,      \* failed calls that may still take effect
    late_prepares,
    late_decisions,
    late_finishes,
    router,        \* what each router thread holds in memory
    answer         \* auxiliary: what the proposer of the batch was told

store == <<prepared, finished, locks, format, value>>
late == <<late_ids, late_prepares, late_decisions, late_finishes>>
vars == <<sequence, decision, store, batch, late, router, answer>>

RouterState ==
    [pc : {"idle", "read", "allocate", "prepare", "decide", "finish", "recover", "local"},
     ops : SUBSET Keys,               \* the proposed batch, until it has an id
     tries : Nat,
     seen : 0..MaxTxn,                \* the sequence it read
     txn : 0..MaxTxn,                 \* its id, or the one it tries to allocate
     todo : SUBSET Shards,            \* shards left to prepare or to finish
     verdict : Decisions,
     error : {"none", "Conflict", "Err"},
     work : SUBSET (Txns \X Shards \X Decisions),  \* recovery: left to finish
     local : SUBSET Txns]             \* recovery: records of Global left to look at

Idle == [pc |-> "idle", ops |-> {}, tries |-> 0, seen |-> None, txn |-> None, todo |-> {},
         verdict |-> "Abort", error |-> "none", work |-> {}, local |-> {}]

\* The operations of transaction t on shard s.
Group(t, s) == {k \in batch[t] : Owner[k] = s}

\* reject_legacy_prepares: records without locks close the shard.
Legacy(s) == ~format[s] /\ \E t \in Txns : prepared[s][t] # {}
-----------------------------------------------------------------------------
(* The shard: prepare_write_set, finish_write_set and plain writes.        *)

\* Faulty variant: locks of others are overwritten.
VoteOverLocks(s, t) ==
    IF finished[s][t] # "none" \/ Legacy(s) THEN "No" ELSE "Yes"

PrepareVote(s, t) ==
    IF finished[s][t] # "none" \/ Legacy(s) THEN "No"
    ELSE IF prepared[s][t] # {} THEN
        IF prepared[s][t] # Group(t, s) THEN "No"
        ELSE IF \A k \in Group(t, s) : locks[k] = t THEN "Yes"
        ELSE "Err"
    ELSE IF \E k \in Group(t, s) : locks[k] # None THEN "No"
    ELSE "Yes"

ExecPrepare(s, t) ==
    IF PrepareVote(s, t) = "Yes" /\ prepared[s][t] = {}
    THEN /\ prepared' = [prepared EXCEPT ![s][t] = Group(t, s)]
         /\ locks' = [k \in Keys |-> IF k \in Group(t, s) THEN t ELSE locks[k]]
         /\ format' = [format EXCEPT ![s] = TRUE]
         /\ UNCHANGED <<finished, value>>
    ELSE UNCHANGED store

FinishResult(s, t, d) ==
    IF finished[s][t] # "none" THEN IF finished[s][t] = d THEN "Ok" ELSE "Conflict"
    ELSE IF \A k \in prepared[s][t] :
               locks[k] = t \/ (locks[k] = None /\ d = "Abort") THEN "Ok"
    ELSE "Err"

\* Faulty variant: the rows are written whatever was decided.
ExecFinishWritingAborts(s, t, d) ==
    IF FinishResult(s, t, d) = "Ok" /\ finished[s][t] = "none"
    THEN /\ locks' = [k \in Keys |->
                        IF k \in prepared[s][t] /\ locks[k] = t THEN None ELSE locks[k]]
         /\ value' = [k \in Keys |-> IF k \in prepared[s][t] THEN t ELSE value[k]]
         /\ finished' = [finished EXCEPT ![s][t] = d]
         /\ prepared' = [prepared EXCEPT ![s][t] = {}]
         /\ UNCHANGED format
    ELSE UNCHANGED store

\* One storage commit: locks released, rows written, record replaced.
ExecFinish(s, t, d) ==
    IF FinishResult(s, t, d) = "Ok" /\ finished[s][t] = "none"
    THEN /\ locks' = [k \in Keys |->
                        IF k \in prepared[s][t] /\ locks[k] = t THEN None ELSE locks[k]]
         /\ value' = [k \in Keys |->
                        IF k \in prepared[s][t] /\ d = "Commit" THEN t ELSE value[k]]
         /\ finished' = [finished EXCEPT ![s][t] = d]
         /\ prepared' = [prepared EXCEPT ![s][t] = {}]
         /\ UNCHANGED format
    ELSE UNCHANGED store

\* Faulty variant: a single-shard write that never looks at the locks.
WriteOverLock(k) ==
    /\ value' = [value EXCEPT ![k] = 0]
    /\ UNCHANGED <<sequence, decision, prepared, finished, locks, format, batch, late, router, answer>>

\* Reads, scans and writes of the key get a conflict.
Refused(k) == locks[k] # None \/ Legacy(Owner[k])

\* A batch that touches one shard.
PlainWrite(k) ==
    /\ ~Refused(k)
    /\ value' = [value EXCEPT ![k] = 0]
    /\ UNCHANGED <<sequence, decision, prepared, finished, locks, format, batch, late, router, answer>>
-----------------------------------------------------------------------------
(* The router: propose_distributed_batch.                                  *)

\* The failed call c joins its set; past the bound it is lost for good.
Leave(set, c) ==
    IF Cardinality(late_ids) + Cardinality(late_prepares) + Cardinality(late_decisions)
         + Cardinality(late_finishes) < MaxLate
    THEN set \cup {c} ELSE set

Become(r, state) == router' = [router EXCEPT ![r] = state]
Answer(t, how) == answer' = [answer EXCEPT ![t] = how]

\* propose_batch of a batch that touches several shards.
ProposeBatch(r, b) ==
    /\ router[r].pc = "idle"
    /\ Cardinality(ShardsOf(b)) > 1
    /\ Become(r, [Idle EXCEPT !.pc = "read", !.ops = b, !.tries = MaxTries])
    /\ UNCHANGED <<sequence, decision, store, batch, late, answer>>

KnownIds == {t \in Txns : \/ decision[t] # "none"
                          \/ \E s \in Shards : prepared[s][t] # {} \/ finished[s][t] # "none"}

\* Faulty variant: the bootstrap looks at the coordinator table only.
LastIdOfDecisions ==
    IF sequence # None THEN sequence ELSE Max({0} \cup {t \in Txns : decision[t] # "none"})

\* A cluster without a sequence row starts after the largest id on record.
LastId == IF sequence # None THEN sequence ELSE Max({0} \cup KnownIds)

\* The last id is an error, here MaxTxn for the largest u64.
ReadSequence(r) ==
    /\ router[r].pc = "read"
    /\ Become(r, IF LastId = MaxTxn THEN Idle
                 ELSE [router[r] EXCEPT !.pc = "allocate", !.seen = sequence,
                                        !.txn = LastId + 1])
    /\ UNCHANGED <<sequence, decision, store, batch, late, answer>>

\* The conditional write of the sequence row.
Allocate(r) ==
    /\ router[r].pc = "allocate" /\ sequence = router[r].seen
    /\ sequence' = router[r].txn
    /\ batch' = [batch EXCEPT ![router[r].txn] = router[r].ops]
    /\ Become(r, [Idle EXCEPT !.pc = "prepare", !.txn = router[r].txn,
                              !.todo = ShardsOf(router[r].ops), !.verdict = "Commit"])
    /\ UNCHANGED <<decision, store, late, answer>>

AllocateConflict(r) ==
    /\ router[r].pc = "allocate" /\ sequence # router[r].seen
    /\ Become(r, IF router[r].tries <= 1 THEN Idle
                 ELSE [router[r] EXCEPT !.pc = "read", !.tries = @ - 1,
                                        !.seen = None, !.txn = None])
    /\ UNCHANGED <<sequence, decision, store, batch, late, answer>>

AllocateFails(r) ==
    /\ router[r].pc = "allocate"
    /\ late_ids' = Leave(late_ids, <<router[r].seen, router[r].txn>>)
    /\ Become(r, Idle)
    /\ UNCHANGED <<sequence, decision, store, batch, late_prepares, late_decisions,
                   late_finishes, answer>>

\* Shards are visited in the order of their ids.
IsFirst(s, todo) == s \in todo /\ \A u \in todo : s <= u

\* The last Yes, the first No and the first error end the prepare phase.
Prepare(r) ==
    \E s \in Shards :
        LET t == router[r].txn
            vote == PrepareVote(s, t)
            left == router[r].todo \ {s}
        IN  /\ router[r].pc = "prepare" /\ IsFirst(s, router[r].todo)
            /\ ExecPrepare(s, t)
            /\ Become(r, IF vote = "Yes"
                         THEN [router[r] EXCEPT !.todo = left,
                                                !.pc = IF left = {} THEN "decide" ELSE "prepare"]
                         ELSE [router[r] EXCEPT !.todo = {}, !.pc = "decide",
                                                !.verdict = "Abort",
                                                !.error = IF vote = "No" THEN "Conflict" ELSE "Err"])
            /\ UNCHANGED <<sequence, decision, batch, late, answer>>

PrepareFails(r) ==
    \E s \in Shards :
        /\ router[r].pc = "prepare" /\ IsFirst(s, router[r].todo)
        /\ late_prepares' = Leave(late_prepares, <<router[r].txn, s>>)
        /\ Become(r, [router[r] EXCEPT !.todo = {}, !.pc = "decide",
                                       !.verdict = "Abort", !.error = "Err"])
        /\ UNCHANGED <<sequence, decision, store, batch, late_ids, late_decisions,
                       late_finishes, answer>>

\* record_dist_txn_decision: the row is written once and never replaced.
Record(t, d) == decision' = [decision EXCEPT ![t] = IF @ = "none" THEN d ELSE @]

\* A different row on record ends the call before any participant is told.
Decide(r) ==
    LET t == router[r].txn
        d == router[r].verdict
    IN  /\ router[r].pc = "decide"
        /\ Record(t, d)
        /\ IF decision[t] \in {"none", d}
           THEN /\ Become(r, [router[r] EXCEPT !.pc = "finish", !.todo = ShardsOf(batch[t])])
                /\ UNCHANGED answer
           ELSE Become(r, Idle) /\ Answer(t, "Conflict")
        /\ UNCHANGED <<sequence, store, batch, late>>

DecideFails(r) ==
    /\ router[r].pc = "decide"
    /\ late_decisions' = Leave(late_decisions, <<router[r].txn, router[r].verdict>>)
    /\ Become(r, Idle)
    /\ Answer(router[r].txn, "Err")
    /\ UNCHANGED <<sequence, decision, store, batch, late_ids, late_prepares, late_finishes>>

\* The first error is kept, and every participant is told all the same.
Told(r, s, result) ==
    LET left == router[r].todo \ {s}
        error == IF router[r].error = "none" /\ result # "Ok" THEN result ELSE router[r].error
    IN  IF left # {}
        THEN /\ Become(r, [router[r] EXCEPT !.todo = left, !.error = error])
             /\ UNCHANGED answer
        ELSE /\ Become(r, Idle)
             /\ Answer(router[r].txn, IF error = "none" THEN "Ok" ELSE error)

Finish(r) ==
    \E s \in Shards :
        /\ router[r].pc = "finish" /\ IsFirst(s, router[r].todo)
        /\ ExecFinish(s, router[r].txn, router[r].verdict)
        /\ Told(r, s, FinishResult(s, router[r].txn, router[r].verdict))
        /\ UNCHANGED <<sequence, decision, batch, late>>

\* Faulty variant: the loop takes a failed call for a finished participant.
FinishFailsSilently(r) ==
    \E s \in Shards :
        /\ router[r].pc = "finish" /\ IsFirst(s, router[r].todo)
        /\ late_finishes' = Leave(late_finishes, <<router[r].txn, s, router[r].verdict>>)
        /\ Told(r, s, "Ok")
        /\ UNCHANGED <<sequence, decision, store, batch, late_ids, late_prepares, late_decisions>>

FinishFails(r) ==
    \E s \in Shards :
        /\ router[r].pc = "finish" /\ IsFirst(s, router[r].todo)
        /\ late_finishes' = Leave(late_finishes, <<router[r].txn, s, router[r].verdict>>)
        /\ Told(r, s, "Err")
        /\ UNCHANGED <<sequence, decision, store, batch, late_ids, late_prepares, late_decisions>>
-----------------------------------------------------------------------------
(* recover_dist_txns: every decision is sent to every shard, then Global   *)
(* looks at the records it still holds.  Other shards have no coordinator  *)
(* rows, so their own pass finds nothing.  The first error ends the call.  *)

\* Faulty variant: only committed transactions are finished.
RecoverCommits(r) ==
    /\ router[r].pc = "idle"
    /\ Become(r, [Idle EXCEPT !.pc = "recover",
                  !.work = {w \in Txns \X Shards \X {"Commit"} : decision[w[1]] = w[3]}])
    /\ UNCHANGED <<sequence, decision, store, batch, late, answer>>

Recover(r) ==
    /\ router[r].pc = "idle"
    /\ Become(r, [Idle EXCEPT !.pc = "recover",
                  !.work = {w \in Txns \X Shards \X Decisions : decision[w[1]] = w[3]}])
    /\ UNCHANGED <<sequence, decision, store, batch, late, answer>>

\* Decisions in the order of their ids, shards in the order of theirs.
IsNext(w, work) ==
    w \in work /\ \A x \in work : w[1] < x[1] \/ (w[1] = x[1] /\ w[2] <= x[2])

RecoverFinish(r) ==
    \E w \in router[r].work :
        /\ router[r].pc = "recover" /\ IsNext(w, router[r].work)
        /\ ExecFinish(w[2], w[1], w[3])
        /\ Become(r, IF FinishResult(w[2], w[1], w[3]) = "Ok"
                     THEN [router[r] EXCEPT !.work = @ \ {w}] ELSE Idle)
        /\ UNCHANGED <<sequence, decision, batch, late, answer>>

RecoverFinishFails(r) ==
    \E w \in router[r].work :
        /\ router[r].pc = "recover" /\ IsNext(w, router[r].work)
        /\ late_finishes' = Leave(late_finishes, w)
        /\ Become(r, Idle)
        /\ UNCHANGED <<sequence, decision, store, batch, late_ids, late_prepares,
                       late_decisions, answer>>

RecoverLocal(r) ==
    /\ router[r].pc = "recover" /\ router[r].work = {}
    /\ Become(r, [Idle EXCEPT !.pc = "local",
                              !.local = {t \in Txns : prepared[Global][t] # {}}])
    /\ UNCHANGED <<sequence, decision, store, batch, late, answer>>

\* Faulty variant: a record without a decision is presumed aborted.
RecoverLocalPresumingAbort(r) ==
    \E t \in router[r].local :
        LET d == IF decision[t] = "none" THEN "Abort" ELSE decision[t]
        IN  /\ router[r].pc = "local" /\ IsFirst(t, router[r].local)
            /\ ExecFinish(Global, t, d)
            /\ Become(r, IF FinishResult(Global, t, d) = "Ok"
                         THEN [router[r] EXCEPT !.local = @ \ {t}] ELSE Idle)
            /\ UNCHANGED <<sequence, decision, batch, late, answer>>

\* A record without a decision stays in doubt.
RecoverLocalFinish(r) ==
    \E t \in router[r].local :
        LET d == decision[t]
        IN  /\ router[r].pc = "local" /\ IsFirst(t, router[r].local)
            /\ IF d = "none" THEN UNCHANGED store ELSE ExecFinish(Global, t, d)
            /\ Become(r, IF d = "none" \/ FinishResult(Global, t, d) = "Ok"
                         THEN [router[r] EXCEPT !.local = @ \ {t}] ELSE Idle)
            /\ UNCHANGED <<sequence, decision, batch, late, answer>>

Recovered(r) ==
    /\ router[r].pc = "local" /\ router[r].local = {}
    /\ Become(r, Idle)
    /\ UNCHANGED <<sequence, decision, store, batch, late, answer>>

\* The process of the router dies, or a read of its call fails.
Crash(r) ==
    /\ router[r].pc # "idle"
    /\ Become(r, Idle)
    /\ UNCHANGED <<sequence, decision, store, batch, late, answer>>
-----------------------------------------------------------------------------
(* Failed calls that take effect after all.                                *)

LateId ==
    \E c \in late_ids :
        /\ sequence' = IF sequence = c[1] THEN c[2] ELSE sequence
        /\ late_ids' = late_ids \ {c}
        /\ UNCHANGED <<decision, store, batch, late_prepares, late_decisions, late_finishes,
                       router, answer>>

LatePrepare ==
    \E c \in late_prepares :
        /\ ExecPrepare(c[2], c[1])
        /\ late_prepares' = late_prepares \ {c}
        /\ UNCHANGED <<sequence, decision, batch, late_ids, late_decisions, late_finishes,
                       router, answer>>

LateDecision ==
    \E c \in late_decisions :
        /\ Record(c[1], c[2])
        /\ late_decisions' = late_decisions \ {c}
        /\ UNCHANGED <<sequence, store, batch, late_ids, late_prepares, late_finishes,
                       router, answer>>

LateFinish ==
    \E c \in late_finishes :
        /\ ExecFinish(c[2], c[1], c[3])
        /\ late_finishes' = late_finishes \ {c}
        /\ UNCHANGED <<sequence, decision, batch, late_ids, late_prepares, late_decisions,
                       router, answer>>
-----------------------------------------------------------------------------
\* Legacy records were left in doubt by an earlier version: prepared on some
\* shards, without locks, with or without a decision.
Init ==
    /\ sequence = None
    /\ \E b \in [LegacyTxns -> Batches], on \in SUBSET Shards,
          d \in [LegacyTxns -> Decisions \cup {"none"}] :
          /\ \A t \in LegacyTxns : on \cap ShardsOf(b[t]) # {}
          /\ batch = [t \in Txns |-> IF t \in LegacyTxns THEN b[t] ELSE {}]
          /\ decision = [t \in Txns |-> IF t \in LegacyTxns THEN d[t] ELSE "none"]
          /\ prepared = [s \in Shards |-> [t \in Txns |->
                            IF t \in LegacyTxns /\ s \in on
                            THEN {k \in b[t] : Owner[k] = s} ELSE {}]]
    /\ finished = [s \in Shards |-> [t \in Txns |-> "none"]]
    /\ locks = [k \in Keys |-> None]
    /\ format = [s \in Shards |-> FALSE]
    /\ value = [k \in Keys |-> 0]
    /\ late_ids = {} /\ late_prepares = {} /\ late_decisions = {} /\ late_finishes = {}
    /\ router = [r \in Routers |-> Idle]
    /\ answer = [t \in Txns |-> "none"]

Propose(r) == \E b \in Batches : ProposeBatch(r, b)

Coordinate(r) ==
    \/ ReadSequence(r) \/ Allocate(r) \/ AllocateConflict(r)
    \/ Prepare(r) \/ Decide(r) \/ Finish(r)

RecoverStep(r) ==
    \/ RecoverFinish(r) \/ RecoverLocal(r) \/ RecoverLocalFinish(r) \/ Recovered(r)

Failure(r) ==
    \/ AllocateFails(r) \/ PrepareFails(r) \/ DecideFails(r) \/ FinishFails(r)
    \/ RecoverFinishFails(r) \/ Crash(r)

LateEffect == LateId \/ LatePrepare \/ LateDecision \/ LateFinish

Next ==
    \/ \E r \in Routers :
          Propose(r) \/ Coordinate(r) \/ Recover(r) \/ RecoverStep(r) \/ Failure(r)
    \/ \E k \in Keys : PlainWrite(k)
    \/ LateEffect

Spec == Init /\ [][Next]_vars
-----------------------------------------------------------------------------
(* Properties.                                                             *)

TypeOK ==
    /\ sequence \in 0..MaxTxn
    /\ decision \in [Txns -> Decisions \cup {"none"}]
    /\ prepared \in [Shards -> [Txns -> SUBSET Keys]]
    /\ finished \in [Shards -> [Txns -> Decisions \cup {"none"}]]
    /\ locks \in [Keys -> 0..MaxTxn]
    /\ format \in [Shards -> BOOLEAN]
    /\ value \in [Keys -> 0..MaxTxn]
    /\ batch \in [Txns -> Batches \cup {{}}]
    /\ late_ids \subseteq (0..MaxTxn) \X Txns
    /\ late_prepares \subseteq Txns \X Shards
    /\ late_decisions \subseteq Txns \X Decisions
    /\ late_finishes \subseteq Txns \X Shards \X Decisions
    /\ router \in [Routers -> RouterState]
    /\ answer \in [Txns -> {"none", "Ok", "Conflict", "Err"}]

Coordinating(r) == router[r].pc \in {"prepare", "decide", "finish"}

\* Two batches in flight never share an id, whichever process coordinates
\* them, and no batch takes over the id of a legacy record: the conditional
\* write and the bootstrap of allocate_dist_txn_id.
FreshIds ==
    \A r \in Routers : Coordinating(r) =>
        /\ router[r].txn \notin LegacyTxns
        /\ \A q \in Routers : Coordinating(q) /\ router[q].txn = router[r].txn => q = r

\* A shard finishes a transaction only as the coordinator durably decided,
\* so that no two shards finish it differently, however late the calls of
\* routers and recoveries arrive (finish_write_set, recover_dist_txns).
Agreement ==
    \A s \in Shards, t \in Txns : finished[s][t] \in {"none", decision[t]}

\* Once one shard shows the rows of a batch, every other row of the batch is
\* shown or locked: a reader that saw part of it sees the rest or gets a
\* conflict (validate_read_key, finish_dist_txn).
AllOrLocked ==
    \A t \in Txns \ LegacyTxns :
        (\E s \in ShardsOf(batch[t]) : finished[s][t] = "Commit")
        => \A k \in batch[t] : locks[k] = t \/ finished[Owner[k]][t] = "Commit"

\* propose_batch answers Ok only for a batch that every participant has
\* applied, and Conflict only for one that can no longer commit.
AnswersAreTrue ==
    \A t \in Txns :
        /\ answer[t] = "Ok" => \A s \in ShardsOf(batch[t]) : finished[s][t] = "Commit"
        /\ answer[t] = "Conflict" => decision[t] = "Abort"

\* A batch is written at the instant its decision is recorded: reads that
\* are not refused see all of it from then on, none of it before, and no
\* write gets lost in between.
Shown(k) == LET t == locks[k]
            IN  IF t # None /\ decision[t] = "Commit" THEN t ELSE value[k]
Atomic == INSTANCE AtomicBatches WITH
    rows <- [k \in Keys |-> Shown(k)],
    asked <- batch,
    done <- {t \in Txns \ LegacyTxns : decision[t] = "Commit"}
BatchesAreAtomic == Atomic!Spec

\* While a transaction holds the lock of a key nobody changes the row, so a
\* commit never overwrites a write that was acknowledged in between
\* (validate_write_locks, prepare_write_set).
LockedRowsStay ==
    [][\A k \in Keys : locks[k] # None /\ locks'[k] = locks[k] => value'[k] = value[k]]_vars

\* The inductive invariant: ids grow along the sequence.
Asked(t) == batch[t] # {}
SequenceInv ==
    /\ \A t \in Txns : Asked(t) => IF sequence = None THEN t \in KnownIds ELSE t <= sequence
    /\ \A t \in KnownIds \cup LegacyTxns : Asked(t)
    /\ \A t \in Txns : answer[t] # "none" => Asked(t)
    /\ \A r \in Routers : router[r].pc \in {"read", "allocate"} => router[r].ops \in Batches
    /\ \A r \in Routers : router[r].pc = "allocate" =>
          /\ router[r].seen <= sequence /\ router[r].seen < router[r].txn
          /\ router[r].seen = sequence => \A t \in Txns : Asked(t) => t < router[r].txn
    /\ \A c \in late_ids :
          /\ c[1] <= sequence /\ c[1] < c[2]
          /\ c[1] = sequence => \A t \in Txns : Asked(t) => t < c[2]

\* What the shards hold: records and locks explain each other.
ShardInv ==
    /\ \A s \in Shards, t \in Txns :
          /\ prepared[s][t] \in {{}, Group(t, s)}
          /\ finished[s][t] # "none" => prepared[s][t] = {} /\ finished[s][t] = decision[t]
          /\ t \notin LegacyTxns => \A k \in prepared[s][t] : locks[k] = t
    /\ \A k \in Keys : locks[k] # None =>
          locks[k] \notin LegacyTxns /\ k \in prepared[Owner[k]][locks[k]]

\* Every participant of t keeps its promise to commit.
Promised(t) == \A s \in ShardsOf(batch[t]) : prepared[s][t] # {}
Undecided(t) == decision[t] = "none" /\ \A d \in Decisions : <<t, d>> \notin late_decisions

\* What a router knows of the transaction it coordinates.
RouterInv(r) ==
    LET t == router[r].txn
        d == router[r].verdict
        told == ShardsOf(batch[t]) \ router[r].todo
    IN  /\ t \in Txns \ LegacyTxns /\ Asked(t) /\ answer[t] = "none"
        /\ router[r].todo \subseteq ShardsOf(batch[t])
        /\ d = "Abort" => router[r].error # "none"
        /\ router[r].pc # "finish" => Undecided(t)
        /\ router[r].pc = "prepare" => d = "Commit" /\ \A s \in told : prepared[s][t] # {}
        /\ router[r].pc # "finish" /\ d = "Commit" => router[r].error = "none"
        /\ router[r].pc = "decide" /\ d = "Commit" => Promised(t)
        /\ router[r].pc = "finish" =>
              /\ decision[t] = d
              /\ router[r].error = "none" => \A s \in told : finished[s][t] = d
              /\ router[r].error = "Conflict" => d = "Abort"

\* A decision that is still to be written is the only one, and may be written.
LateDecisionInv ==
    \A t \in Txns, d \in Decisions : <<t, d>> \in late_decisions =>
        /\ t \notin LegacyTxns /\ Asked(t) /\ decision[t] = "none" /\ answer[t] = "Err"
        /\ d = "Commit" => Promised(t)
        /\ \A e \in Decisions : <<t, e>> \in late_decisions => e = d

CommitInv ==
    \A t \in Txns \ LegacyTxns : decision[t] = "Commit" =>
        \A s \in ShardsOf(batch[t]) : prepared[s][t] # {} \/ finished[s][t] = "Commit"

\* Calls on their way name a participant, and the decision on record.
CallInv ==
    /\ \A c \in late_prepares :
          c[1] \notin LegacyTxns /\ Asked(c[1]) /\ c[2] \in ShardsOf(batch[c[1]])
    /\ \A w \in late_finishes : decision[w[1]] = w[3]
    /\ \A r \in Routers : \A w \in router[r].work : decision[w[1]] = w[3]

CoordinatorInv ==
    /\ \A r \in Routers : Coordinating(r) => RouterInv(r)
    /\ LateDecisionInv /\ CommitInv /\ CallInv

\* The invariant behind the properties above: ids are never reused, records
\* and locks explain each other, and a Commit can only be on its way when
\* every participant holds its record.
DistInv == TypeOK /\ SequenceInv /\ FreshIds /\ ShardInv /\ CoordinatorInv /\ AnswersAreTrue
=============================================================================
