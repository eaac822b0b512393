------------------------------ MODULE ApDynamo ------------------------------
(***************************************************************************)
(* Leaderless (AP) replication, repl/ap.rs: versions under vector clocks,  *)
(* quorum writes with hinted handoff, quorum reads with read repair,       *)
(* strong ranges, hint delivery and anti-entropy, over a transport that    *)
(* loses, delays and reorders batches, with nodes that crash.              *)
(*                                                                         *)
(* A version is its clock: values only travel with it.  Batches are sets   *)
(* of <<key, version>> pairs.  Targets are visited in any order, since the *)
(* order of node ids and of rendezvous scores is arbitrary.                *)
(*                                                                         *)
(* Definitions marked "faulty variant" are plausible bugs in the           *)
(* definition below them; no specification uses them.                      *)
(***************************************************************************)
EXTENDS Integers, FiniteSets, FiniteSetsExt

CONSTANTS
    Nodes,         \* node ids
    Keys,          \* natural numbers, for the order of the Merkle leaves
    Batches,       \* the key sets that callers write at once
    Region,        \* region of every node; all equal without a RegionConfig
    Score,         \* [Keys -> [Nodes -> Nat]]: rendezvous_score
    RF,            \* replication_factor
    DefaultWrite,  \* default_write: "One", "Quorum" or "All"
    DefaultRead,   \* default_read
    Threads,       \* callers
    Home,          \* [Threads -> Nodes]: the coordinator a caller talks to
    Tasks,         \* [Threads -> sets of calls]: what it calls
    MaxClock,      \* u64::MAX, the largest counter of a node
    MaxHints,      \* max_hint_backlog_bytes, in hints
    Peers,         \* nodes that anti-entropy is run with
    AeBatch,       \* anti_entropy_batch_records
    MaxWrites,     \* bound on the writes of all callers
    MaxLate,       \* bound on the batches that arrive late
    NoReply

Levels == {"One", "Quorum", "All"}
Reads == {"eventual", "strong", "range", "siblings"}
Calls == Reads \cup {"write", "deliver", "anti_entropy"}

ASSUME NodesAssumption == /\ Nodes \subseteq Nat /\ IsFiniteSet(Nodes)
                          /\ RF \in 1..Cardinality(Nodes)
ASSUME KeysAssumption == /\ Keys \subseteq Nat /\ IsFiniteSet(Keys)
                         /\ Batches \subseteq (SUBSET Keys) \ {{}}

\* preference_list of coordinator n: its own region first, then the higher
\* score, then the smaller id.
Ahead(n, k, a, b) ==
    LET rank(c) == IF Region[c] = Region[n] THEN 0 ELSE 1
    IN  \/ rank(a) < rank(b)
        \/ rank(a) = rank(b) /\ Score[k][a] > Score[k][b]
        \/ rank(a) = rank(b) /\ Score[k][a] = Score[k][b] /\ a < b
Preference ==
    [n \in Nodes |-> [k \in Keys |->
        {a \in Nodes : Cardinality({b \in Nodes : Ahead(n, k, b, a)}) < RF}]]

ASSUME PreferenceAssumption ==
    \A n \in Nodes, k \in Keys : Cardinality(Preference[n][k]) = RF
ASSUME LevelAssumption == DefaultWrite \in Levels /\ DefaultRead \in Levels
ASSUME ThreadAssumption == /\ Home \in [Threads -> Nodes]
                           /\ Tasks \in [Threads -> SUBSET Calls]
                           /\ Peers \subseteq Nodes
ASSUME BoundAssumption == /\ MaxClock \in Nat /\ MaxHints \in Nat /\ AeBatch \in Nat \ {0}
                          /\ MaxWrites \in Nat /\ MaxLate \in Nat

Clock == [Nodes -> 0..MaxClock]
Write == Keys \X Clock
NoVersions == [k \in Keys |-> {}]
ASSUME ReplyAssumption == NoReply \notin [Keys -> SUBSET Clock]

VARIABLES
    versions,    \* __ap_versions of every node: the siblings of every key
    node_clock,  \* __ap_node_clock
    hints,       \* __ap_hints of every node: <<target, batch>>
    net,         \* batches whose sender gave up and that may still arrive
    pc,          \* what the call of every thread is doing
    batch,       \* the writes it sends
    targets,     \* nodes it still has to visit
    acks,        \* nodes that took its writes
    rkeys,       \* keys it reads
    replies,     \* versions it got from every node
    merged,      \* the replies merged so far
    repairs,     \* <<node, key>> pairs it still has to repair
    queue,       \* hints it still has to deliver
    call,        \* which read it is
    issued,      \* auxiliary: all writes ever built
    acked,       \* auxiliary: all writes ever acknowledged
    must,        \* auxiliary: writes acknowledged when the read began
    owed         \* auxiliary: <<coordinator, target, batch>> hinted, not expired

stored == <<versions, node_clock, hints, net>>
sending == <<batch, acks>>
reading == <<rkeys, replies, merged, repairs, call, must>>
local == <<pc, targets, queue, sending, reading>>
aux == <<issued, acked, owed>>
vars == <<stored, local, aux>>

-----------------------------------------------------------------------------
(* Vector clocks.                                                          *)

\* VectorClock::compare: Before or Equal.
Leq(v, w) == \A n \in Nodes : v[n] <= w[n]
Before(v, w) == Leq(v, w) /\ v # w
Covers(vs, v) == \E w \in vs : Leq(v, w)

\* VectorClock::merged
Join(vs) == [n \in Nodes |-> Max({0} \cup {v[n] : v \in vs})]

\* merge_one_version
MergeOne(existing, incoming) ==
    {v \in existing : ~Before(v, incoming)}
        \cup (IF Covers(existing, incoming) THEN {} ELSE {incoming})

\* merge_one_version for each of several concurrent versions.
Merge(existing, incoming) ==
    {v \in existing : \A w \in incoming : ~Before(v, w)}
        \cup {w \in incoming : ~Covers(existing, w)}

-----------------------------------------------------------------------------
(* Quorums.                                                                *)

\* ConsistencyLevel::required
Required(level) == CASE level = "One" -> 1
                     [] level = "Quorum" -> RF \div 2 + 1
                     [] level = "All" -> RF

\* Faulty variant.
StrongLevelOfHalf ==
    IF Required("One") + Required(DefaultWrite) >= RF THEN "One"
    ELSE IF Required("Quorum") + Required(DefaultWrite) >= RF THEN "Quorum"
    ELSE "All"

\* read_level_for(Strong): the first level that overlaps every write.
StrongLevel ==
    IF Required("One") + Required(DefaultWrite) > RF THEN "One"
    ELSE IF Required("Quorum") + Required(DefaultWrite) > RF THEN "Quorum"
    ELSE "All"

\* Replies read_versions_from_replicas and range_records_from_replicas need.
RequiredReplies(kind) ==
    CASE kind = "eventual" -> Required("One")
      [] kind = "siblings" -> Required(DefaultRead)
      [] kind = "strong" -> Required(StrongLevel)
      [] kind = "range" -> Cardinality(Nodes) - RF + Required(StrongLevel)

-----------------------------------------------------------------------------
(* Writes.                                                                 *)

\* records_to_writes, and back
Writes(ks, vs) == UNION {{<<k, v>> : v \in vs[k]} : k \in ks}
Of(writes, k) == {w[2] : w \in {x \in writes : x[1] = k}}

\* Faulty variant.
ApplyOverwriting(n, writes) ==
    versions' = [versions EXCEPT ![n] =
        [k \in Keys |-> IF Of(writes, k) = {} THEN versions[n][k] ELSE Of(writes, k)]]

\* apply_versioned_writes at node n, in one storage transaction.
Apply(n, writes) ==
    versions' = [versions EXCEPT ![n] =
        [k \in Keys |-> Merge(versions[n][k], Of(writes, k))]]

\* A send to n fails or times out; unless it was a local call the batch may
\* still arrive.
Lose(t, n, writes) ==
    \/ net' = net
    \/ /\ n # Home[t]
       /\ Cardinality(net) < MaxLate
       /\ net' = net \cup {<<n, writes>>}

\* The call of t is over.
Reset(ts) ==
    /\ pc' = [t \in Threads |-> IF t \in ts THEN "idle" ELSE pc[t]]
    /\ batch' = [t \in Threads |-> IF t \in ts THEN {} ELSE batch[t]]
    /\ targets' = [t \in Threads |-> IF t \in ts THEN {} ELSE targets[t]]
    /\ acks' = [t \in Threads |-> IF t \in ts THEN {} ELSE acks[t]]
    /\ rkeys' = [t \in Threads |-> IF t \in ts THEN {} ELSE rkeys[t]]
    /\ replies' = [t \in Threads |-> IF t \in ts THEN [n \in Nodes |-> NoReply] ELSE replies[t]]
    /\ merged' = [t \in Threads |-> IF t \in ts THEN NoVersions ELSE merged[t]]
    /\ repairs' = [t \in Threads |-> IF t \in ts THEN {} ELSE repairs[t]]
    /\ queue' = [t \in Threads |-> IF t \in ts THEN {} ELSE queue[t]]
    /\ call' = [t \in Threads |-> IF t \in ts THEN "eventual" ELSE call[t]]
    /\ must' = [t \in Threads |-> IF t \in ts THEN {} ELSE must[t]]

\* Faulty variant.
NextClockOfVersions(n, clocks) == Max({0} \cup {v[n] : v \in clocks}) + 1

\* reserve_write_clocks: the counter of n for a batch on top of clocks.
NextClock(n, clocks) == Max({node_clock[n]} \cup {v[n] : v \in clocks}) + 1

\* checked_add: "AP vector clock exhausted" otherwise.
Fits(next) == next <= MaxClock

\* build_writes and reserve_write_clocks in one transaction under commit_lock:
\* n writes every key of ks on top of the clock parents[k].
Build(t, ks, parents) ==
    LET n == Home[t]
        next == NextClock(n, {parents[k] : k \in ks})
        writes == {<<k, [parents[k] EXCEPT ![n] = next]>> : k \in ks}
    IN  /\ Fits(next)
        /\ Cardinality(issued) < MaxWrites
        /\ node_clock' = [node_clock EXCEPT ![n] = next]
        /\ batch' = [batch EXCEPT ![t] = writes]
        /\ issued' = issued \cup writes
        /\ targets' = [targets EXCEPT ![t] = UNION {Preference[n][k] : k \in ks}]
        /\ acks' = [acks EXCEPT ![t] = {}]
        /\ pc' = [pc EXCEPT ![t] = "sending"]
        /\ UNCHANGED <<versions, hints, net, acked, owed>>

\* propose_batch
ProposeBatch(t) ==
    /\ pc[t] = "idle"
    /\ "write" \in Tasks[t]
    /\ \E ks \in Batches :
          Build(t, ks, [k \in ks |-> Join(versions[Home[t]][k])])
    /\ UNCHANGED <<queue, reading>>

\* resolve_conflict on top of the siblings that read_conflict_versions found.
ResolveConflict(t) ==
    /\ pc[t] = "resolving"
    /\ Build(t, rkeys[t], [k \in rkeys[t] |-> Join(merged[t][k])])
    /\ rkeys' = [rkeys EXCEPT ![t] = {}]
    /\ merged' = [merged EXCEPT ![t] = NoVersions]
    /\ UNCHANGED <<queue, replies, repairs, call, must>>

\* write_versioned_batch: a target applies the batch, whole, and answers.
SendOk(t) ==
    /\ pc[t] = "sending"
    /\ \E n \in targets[t] :
          /\ Apply(n, batch[t])
          /\ acks' = [acks EXCEPT ![t] = @ \cup {n}]
          /\ targets' = [targets EXCEPT ![t] = @ \ {n}]
    /\ UNCHANGED <<node_clock, hints, net, pc, queue, batch, reading, aux>>

\* Faulty variant.
SendHintedCounts(t) ==
    /\ pc[t] = "sending"
    /\ Cardinality(hints[Home[t]]) < MaxHints
    /\ \E n \in targets[t] :
          /\ hints' = [hints EXCEPT ![Home[t]] = @ \cup {<<n, batch[t]>>}]
          /\ owed' = owed \cup {<<Home[t], n, batch[t]>>}
          /\ targets' = [targets EXCEPT ![t] = @ \ {n}]
          /\ acks' = [acks EXCEPT ![t] = @ \cup {n}]
          /\ Lose(t, n, batch[t])
    /\ UNCHANGED <<versions, node_clock, pc, queue, batch, reading, issued, acked>>

\* The send fails and store_hint keeps the batch for the target.
SendHinted(t) ==
    /\ pc[t] = "sending"
    /\ Cardinality(hints[Home[t]]) < MaxHints
    /\ \E n \in targets[t] :
          /\ hints' = [hints EXCEPT ![Home[t]] = @ \cup {<<n, batch[t]>>}]
          /\ owed' = owed \cup {<<Home[t], n, batch[t]>>}
          /\ targets' = [targets EXCEPT ![t] = @ \ {n}]
          /\ Lose(t, n, batch[t])
    /\ UNCHANGED <<versions, node_clock, pc, queue, sending, reading, issued, acked>>

\* The send fails and the backlog is full: the call fails at once, whatever
\* the other targets have taken.
SendRefused(t) ==
    /\ pc[t] = "sending"
    /\ Cardinality(hints[Home[t]]) >= MaxHints
    /\ \E n \in targets[t] : Lose(t, n, batch[t])
    /\ Reset({t})
    /\ UNCHANGED <<versions, node_clock, hints, aux>>

\* All targets are visited: Ok with enough acknowledgements, else NoQuorum.
WriteReturns(t) ==
    /\ pc[t] = "sending"
    /\ targets[t] = {}
    /\ acked' = IF Cardinality(acks[t]) >= Required(DefaultWrite)
                THEN acked \cup batch[t] ELSE acked
    /\ Reset({t})
    /\ UNCHANGED <<stored, issued, owed>>

\* A batch arrives after its sender has given up.
LateArrival ==
    /\ \E m \in net : Apply(m[1], m[2]) /\ net' = net \ {m}
    /\ UNCHANGED <<node_clock, hints, local, aux>>

-----------------------------------------------------------------------------
(* Reads.                                                                  *)

\* read of one key at a consistency, read_conflict_versions, or a strong range
\* over all keys.
StartRead(t) ==
    /\ pc[t] = "idle"
    /\ \E kind \in Tasks[t] \cap Reads, k \in Keys :
          LET ks == IF kind = "range" THEN Keys ELSE {k}
          IN  /\ call' = [call EXCEPT ![t] = kind]
              /\ rkeys' = [rkeys EXCEPT ![t] = ks]
              /\ targets' = [targets EXCEPT ![t] =
                    IF kind = "range" THEN Nodes ELSE Preference[Home[t]][k]]
              /\ must' = [must EXCEPT ![t] =
                    {w \in acked : kind \in {"strong", "range"} /\ w[1] \in ks}]
    /\ pc' = [pc EXCEPT ![t] = "reading"]
    /\ UNCHANGED <<stored, queue, sending, replies, merged, repairs, aux>>

\* A node answers with its siblings; merge_reply_versions takes those of the
\* keys it is a replica of.
Reply(t) ==
    /\ pc[t] = "reading"
    /\ \E n \in targets[t] :
          LET mine == [k \in Keys |-> IF k \in rkeys[t] /\ n \in Preference[Home[t]][k]
                                      THEN versions[n][k] ELSE {}]
          IN  /\ targets' = [targets EXCEPT ![t] = @ \ {n}]
              /\ replies' = [replies EXCEPT ![t] = [@ EXCEPT ![n] = mine]]
              /\ merged' = [merged EXCEPT ![t] = [k \in Keys |-> Merge(@[k], mine[k])]]
    /\ UNCHANGED <<stored, pc, queue, sending, rkeys, repairs, call, must, aux>>

\* A node does not answer.
NoAnswer(t) ==
    /\ pc[t] = "reading"
    /\ \E n \in targets[t] : targets' = [targets EXCEPT ![t] = @ \ {n}]
    /\ UNCHANGED <<stored, pc, queue, sending, reading, aux>>

Answered(t) == {n \in Nodes : replies[t][n] # NoReply}

\* Too few nodes answered: NoQuorum.
ReadFails(t) ==
    /\ pc[t] = "reading"
    /\ targets[t] = {}
    /\ Cardinality(Answered(t)) < RequiredReplies(call[t])
    /\ Reset({t})
    /\ UNCHANGED <<stored, aux>>

\* read_repair: every replica that answered with anything else gets the merge.
\* read_conflict_versions only hands the siblings to its caller.
ReadMerged(t) ==
    /\ pc[t] = "reading"
    /\ targets[t] = {}
    /\ Cardinality(Answered(t)) >= RequiredReplies(call[t])
    /\ pc' = [pc EXCEPT ![t] = IF call[t] = "siblings" THEN "resolving" ELSE "repairing"]
    /\ repairs' = [repairs EXCEPT ![t] =
          {r \in Answered(t) \X rkeys[t] : /\ call[t] # "siblings"
                                           /\ r[1] \in Preference[Home[t]][r[2]]
                                           /\ replies[t][r[1]][r[2]] # merged[t][r[2]]}]
    /\ replies' = [replies EXCEPT ![t] = [n \in Nodes |-> NoReply]]
    /\ call' = [call EXCEPT ![t] = "eventual"]
    /\ UNCHANGED <<stored, targets, queue, sending, rkeys, merged, must, aux>>

\* One repair succeeds, or fails silently.
Repair(t) ==
    /\ pc[t] = "repairing"
    /\ \E r \in repairs[t] :
          LET writes == Writes({r[2]}, merged[t])
          IN  /\ repairs' = [repairs EXCEPT ![t] = @ \ {r}]
              /\ \/ Apply(r[1], writes) /\ UNCHANGED net
                 \/ Lose(t, r[1], writes) /\ UNCHANGED versions
    /\ UNCHANGED <<node_clock, hints, pc, targets, queue, sending, rkeys, replies, merged,
                   call, must, aux>>

\* The read returns no version, one, or a conflict; the caller that asked for
\* the siblings may also leave them alone.
ReadReturns(t) ==
    /\ pc[t] \in {"repairing", "resolving"}
    /\ repairs[t] = {}
    /\ Reset({t})
    /\ UNCHANGED <<stored, aux>>

-----------------------------------------------------------------------------
(* Hint delivery and anti-entropy, by hand or by the healing controller    *)
(* when a node recovers.                                                   *)

\* deliver_hints starts from the hints stored now.
StartDelivery(t) ==
    /\ pc[t] = "idle"
    /\ "deliver" \in Tasks[t]
    /\ hints[Home[t]] # {}
    /\ queue' = [queue EXCEPT ![t] = hints[Home[t]]]
    /\ pc' = [pc EXCEPT ![t] = "delivering"]
    /\ UNCHANGED <<stored, targets, sending, reading, aux>>

\* Faulty variant.
DeliverAndForget(t) ==
    /\ pc[t] = "delivering"
    /\ \E h \in queue[t] :
          /\ queue' = [queue EXCEPT ![t] = @ \ {h}]
          /\ hints' = [hints EXCEPT ![Home[t]] = @ \ {h}]
          /\ \/ Apply(h[1], h[2]) /\ UNCHANGED net
             \/ Lose(t, h[1], h[2]) /\ UNCHANGED versions
    /\ UNCHANGED <<node_clock, pc, targets, sending, reading, aux>>

\* One hint: it has expired, or its target is known to be down, or takes it and
\* it is deleted, or the send fails and it is stored again with one more attempt.
DeliverHint(t) ==
    /\ pc[t] = "delivering"
    /\ \E h \in queue[t] :
          /\ queue' = [queue EXCEPT ![t] = @ \ {h}]
          /\ \/ /\ hints' = [hints EXCEPT ![Home[t]] = @ \ {h}]
                /\ owed' = owed \ {<<Home[t], h[1], h[2]>>}
                /\ UNCHANGED <<versions, net>>
             \/ UNCHANGED <<versions, net, hints, owed>>
             \/ /\ Apply(h[1], h[2])
                /\ hints' = [hints EXCEPT ![Home[t]] = @ \ {h}]
                /\ owed' = owed \ {<<Home[t], h[1], h[2]>>}
                /\ UNCHANGED net
             \/ /\ Lose(t, h[1], h[2])
                /\ hints' = [hints EXCEPT ![Home[t]] = @ \cup {h}]
                /\ UNCHANGED <<versions, owed>>
    /\ UNCHANGED <<node_clock, pc, targets, sending, reading, issued, acked>>

DeliveryReturns(t) ==
    /\ pc[t] = "delivering"
    /\ queue[t] = {}
    /\ Reset({t})
    /\ UNCHANGED <<stored, aux>>

\* The m smallest keys of ks.
FirstKeys(ks, m) == {k \in ks : Cardinality({j \in ks : j < k}) < m}

\* anti_entropy_with: local_merkle; a leaf is equal exactly when the versions
\* it hashes are.
AntiEntropyWith(t) ==
    /\ pc[t] = "idle"
    /\ "anti_entropy" \in Tasks[t]
    /\ merged' = [merged EXCEPT ![t] = versions[Home[t]]]
    /\ \E peer \in Peers \ {Home[t]} : targets' = [targets EXCEPT ![t] = {peer}]
    /\ pc' = [pc EXCEPT ![t] = "leaves"]
    /\ UNCHANGED <<stored, queue, sending, rkeys, replies, repairs, call, must, aux>>

\* read_merkle_range gives the first leaves of the peer only; what differs from
\* them is divergent.
CompareLeaves(t) ==
    /\ pc[t] = "leaves"
    /\ \E peer \in targets[t] :
          LET page == FirstKeys({k \in Keys : versions[peer][k] # {}}, AeBatch)
              remote == [k \in Keys |-> IF k \in page THEN versions[peer][k] ELSE {}]
              divergent == {k \in Keys : merged[t][k] # remote[k]}
          IN  rkeys' = [rkeys EXCEPT ![t] = FirstKeys(divergent, AeBatch)]
    /\ merged' = [merged EXCEPT ![t] = NoVersions]
    /\ pc' = [pc EXCEPT ![t] = "fetch"]
    /\ UNCHANGED <<stored, targets, queue, sending, replies, repairs, call, must, aux>>

\* local_records_by_version_keys
FetchLocal(t) ==
    /\ pc[t] = "fetch"
    /\ rkeys[t] # {}
    /\ merged' = [merged EXCEPT ![t] =
          [k \in Keys |-> IF k \in rkeys[t] THEN versions[Home[t]][k] ELSE {}]]
    /\ pc' = [pc EXCEPT ![t] = "fetched"]
    /\ UNCHANGED <<stored, targets, queue, sending, rkeys, replies, repairs, call, must, aux>>

\* read_records_by_version_keys, merge_record_sets
FetchRemote(t) ==
    /\ pc[t] = "fetched"
    /\ \E peer \in targets[t] :
          batch' = [batch EXCEPT ![t] = Writes(rkeys[t],
              [k \in Keys |-> Merge(merged[t][k], versions[peer][k])])]
    /\ merged' = [merged EXCEPT ![t] = NoVersions]
    /\ rkeys' = [rkeys EXCEPT ![t] = {}]
    /\ pc' = [pc EXCEPT ![t] = "exchange"]
    /\ UNCHANGED <<stored, targets, queue, acks, replies, repairs, call, must, aux>>

\* apply_records
ApplyLocally(t) ==
    /\ pc[t] = "exchange"
    /\ Apply(Home[t], batch[t])
    /\ pc' = [pc EXCEPT ![t] = "push"]
    /\ UNCHANGED <<node_clock, hints, net, targets, queue, sending, reading, aux>>

\* The merge is sent to the peer.
PushToPeer(t) ==
    /\ pc[t] = "push"
    /\ \E peer \in targets[t] : Apply(peer, batch[t])
    /\ Reset({t})
    /\ UNCHANGED <<node_clock, hints, net, aux>>

\* Nothing diverges, or a read, the storage or the send fails.
AntiEntropyReturns(t) ==
    /\ pc[t] \in {"leaves", "fetch", "fetched", "exchange", "push"}
    /\ \/ UNCHANGED net
       \/ pc[t] = "push" /\ \E peer \in targets[t] : Lose(t, peer, batch[t])
    /\ Reset({t})
    /\ UNCHANGED <<versions, node_clock, hints, aux>>

\* A node crashes: its calls are lost, its storage stays.
Crash(n) ==
    /\ \E t \in Threads : Home[t] = n /\ pc[t] # "idle"
    /\ Reset({t \in Threads : Home[t] = n})
    /\ UNCHANGED <<stored, aux>>

-----------------------------------------------------------------------------
Init ==
    /\ versions = [n \in Nodes |-> NoVersions]
    /\ node_clock = [n \in Nodes |-> 0]
    /\ hints = [n \in Nodes |-> {}]
    /\ net = {}
    /\ pc = [t \in Threads |-> "idle"]
    /\ batch = [t \in Threads |-> {}]
    /\ targets = [t \in Threads |-> {}]
    /\ acks = [t \in Threads |-> {}]
    /\ rkeys = [t \in Threads |-> {}]
    /\ replies = [t \in Threads |-> [n \in Nodes |-> NoReply]]
    /\ merged = [t \in Threads |-> NoVersions]
    /\ repairs = [t \in Threads |-> {}]
    /\ queue = [t \in Threads |-> {}]
    /\ call = [t \in Threads |-> "eventual"]
    /\ must = [t \in Threads |-> {}]
    /\ issued = {}
    /\ acked = {}
    /\ owed = {}

WriteStep(t) == \/ ProposeBatch(t) \/ ResolveConflict(t) \/ SendOk(t) \/ SendHinted(t)
                \/ SendRefused(t) \/ WriteReturns(t)
ReadStep(t) == \/ StartRead(t) \/ Reply(t) \/ NoAnswer(t) \/ ReadFails(t) \/ ReadMerged(t)
               \/ Repair(t) \/ ReadReturns(t)
HandoffStep(t) == StartDelivery(t) \/ DeliverHint(t) \/ DeliveryReturns(t)
AntiEntropyStep(t) == \/ AntiEntropyWith(t) \/ CompareLeaves(t) \/ FetchLocal(t)
                      \/ FetchRemote(t) \/ ApplyLocally(t) \/ PushToPeer(t)
                      \/ AntiEntropyReturns(t)

Next ==
    \/ \E t \in Threads : WriteStep(t) \/ ReadStep(t) \/ HandoffStep(t) \/ AntiEntropyStep(t)
    \/ LateArrival
    \/ \E n \in Nodes : Crash(n)

Spec == Init /\ [][Next]_vars

-----------------------------------------------------------------------------
(* Properties.                                                             *)

StoreType ==
    /\ versions \in [Nodes -> [Keys -> SUBSET Clock]]
    /\ node_clock \in [Nodes -> 0..MaxClock]
    /\ hints \in [Nodes -> SUBSET (Nodes \X SUBSET Write)]
    /\ net \subseteq Nodes \X SUBSET Write
    /\ issued \subseteq Write
    /\ acked \subseteq Write
    /\ owed \subseteq Nodes \X Nodes \X SUBSET Write

LocalType ==
    /\ pc \in [Threads -> {"idle", "sending", "reading", "repairing", "resolving",
                           "delivering", "leaves", "fetch", "fetched", "exchange", "push"}]
    /\ batch \in [Threads -> SUBSET Write]
    /\ targets \in [Threads -> SUBSET Nodes]
    /\ acks \in [Threads -> SUBSET Nodes]
    /\ rkeys \in [Threads -> SUBSET Keys]
    /\ replies \in [Threads -> [Nodes -> [Keys -> SUBSET Clock] \cup {NoReply}]]
    /\ merged \in [Threads -> [Keys -> SUBSET Clock]]
    /\ repairs \in [Threads -> SUBSET (Nodes \X Keys)]
    /\ queue \in [Threads -> SUBSET (Nodes \X SUBSET Write)]
    /\ call \in [Threads -> Reads]
    /\ must \in [Threads -> SUBSET Write]

\* What the tables and the calls hold; the counters stay within u64.
TypeOK == StoreType /\ LocalType

\* reserve_write_clocks: "later writes cannot reuse a clock, even after a
\* failed send, restart, or reordered replica delivery".  A reused clock would
\* make replicas drop one of two different values as a duplicate.
ClocksAreFresh ==
    [][\A t \in Threads : pc[t] # "sending" /\ pc'[t] = "sending" =>
          batch'[t] \cap issued = {}]_vars

\* apply_versioned_writes: whatever is applied, late, twice or reordered, a
\* replica never forgets a version that nothing newer replaces, and no version
\* that it has replaced comes back.
ReplicasOnlyAdvance ==
    [][\A n \in Nodes, k \in Keys :
          /\ \A v \in versions[n][k] : Covers(versions'[n][k], v)
          /\ \A v \in versions[n][k], w \in versions'[n][k] : ~Before(w, v)]_vars

Holders(k, v) == {n \in Nodes : Covers(versions[n][k], v)}

\* write_versioned_batch: an acknowledged write stays, itself or under a newer
\* version, on as many of its replicas as the write level asks for.
AckedOnQuorum ==
    \A w \in acked : \A n \in Nodes :
        Cardinality(Holders(w[1], w[2]) \cap Preference[n][w[1]]) >= Required(DefaultWrite)

\* read_level_for(Strong), range: a strong read or range that succeeds returns,
\* for every write acknowledged before it began, that version or a newer one.
StrongReadsAreFresh ==
    \A t \in Threads : pc[t] = "repairing" =>
        \A w \in must[t] : Covers(merged[t][w[1]], w[2])

\* store_hint, deliver_hints: a target that missed a batch and was hinted gets
\* it before the hint goes, unless the hint expires.
HintsReachTargets ==
    \A o \in owed : \/ <<o[2], o[3]>> \in hints[o[1]]
                    \/ \A w \in o[3] : Covers(versions[o[2]][w[1]], w[2])

\* merge_one_version, folded over several siblings in any order, keeps exactly
\* the versions of Merge.
MergeIsFold ==
    \A n, m \in Nodes, k \in Keys :
        \A v, w \in versions[m][k] :
            MergeOne(MergeOne(versions[n][k], v), w) = Merge(versions[n][k], {v, w})
=============================================================================
