--------------------------- MODULE DistTxnProofs ----------------------------
(***************************************************************************)
(* Proofs about DistTxn, for any number of shards, keys, routers and       *)
(* transactions.  The invariant DistInv says that ids are never reused,    *)
(* that records and locks explain each other, and that a Commit is only on *)
(* its way when every participant holds its record.  In three parts: what  *)
(* the calls do to a shard and the steps that neither allocate an id nor   *)
(* decide; allocating, preparing and deciding; the theorems.               *)
(***************************************************************************)
EXTENDS DistTxn, Extrema, TLAPS

-----------------------------------------------------------------------------
(* Shards.                                                                 *)

(* Ids are positive, so None is not one of them.                           *)
LEMMA Ids == Txns \subseteq 0..MaxTxn /\ Txns \subseteq Nat /\ None \notin Txns /\ None \in 0..MaxTxn
BY BoundAssumption DEF Txns, None

(* A batch has keys, so each of its shards has operations to prepare.      *)
LEMMA GroupFacts ==
    ASSUME TypeOK, NEW t \in Txns, NEW s \in Shards
    PROVE  /\ Group(t, s) \subseteq Keys
           /\ s \in ShardsOf(batch[t]) => Group(t, s) # {}
           /\ ShardsOf(batch[t]) \subseteq Shards
           /\ \A k \in batch[t] : k \in Keys /\ k \in Group(t, Owner[k]) /\ Owner[k] \in ShardsOf(batch[t])
BY OwnerAssumption, BatchAssumption, SMTT(30) DEF TypeOK, Group, ShardsOf

(* The participants of a batch are shards.                                 *)
LEMMA Participants == ASSUME TypeOK, NEW t \in Txns PROVE ShardsOf(batch[t]) \subseteq Shards
BY OwnerAssumption, BatchAssumption, SMTT(30) DEF TypeOK, ShardsOf

(* prepare_dist_txn: a Yes vote holds the record; nothing held is lost.    *)
LEMMA PrepareEffect ==
    ASSUME TypeOK, ShardInv, NEW s \in Shards, NEW t \in Txns \ LegacyTxns,
           s \in ShardsOf(batch[t]), ExecPrepare(s, t), UNCHANGED <<batch, decision>>
    PROVE  /\ prepared' \in [Shards -> [Txns -> SUBSET Keys]]
           /\ locks' \in [Keys -> 0..MaxTxn]
           /\ format' \in [Shards -> BOOLEAN]
           /\ UNCHANGED <<finished, value>>
           /\ ShardInv'
           /\ \A u \in Shards, x \in Txns : prepared[u][x] # {} => prepared'[u][x] # {}
           /\ \A u \in Shards, x \in Txns : x # t => prepared'[u][x] = prepared[u][x]
           /\ PrepareVote(s, t) = "Yes" => prepared'[s][t] # {}
           /\ \A k \in Keys : locks'[k] # locks[k] =>
                 locks[k] = None /\ locks'[k] = t /\ finished[s][t] = "none"
                 /\ prepared[s][t] = {} /\ k \in Group(t, s)
<1>1. /\ Group(t, s) \subseteq Keys /\ Group(t, s) # {}
      /\ \A u \in Shards, x \in Txns : Group(x, u)' = Group(x, u)
  BY GroupFacts, Zenon DEF Group
<1>2. CASE PrepareVote(s, t) = "Yes" /\ prepared[s][t] = {}
  <2>1. /\ prepared' = [prepared EXCEPT ![s][t] = Group(t, s)]
        /\ locks' = [k \in Keys |-> IF k \in Group(t, s) THEN t ELSE locks[k]]
        /\ format' = [format EXCEPT ![s] = TRUE]
        /\ UNCHANGED <<finished, value>>
    BY <1>2, Zenon DEF ExecPrepare
  <2>2. finished[s][t] = "none" /\ \A k \in Group(t, s) : locks[k] = None
    BY <1>2, Zenon DEF PrepareVote
  <2>3. /\ prepared' \in [Shards -> [Txns -> SUBSET Keys]]
        /\ format' \in [Shards -> BOOLEAN]
    BY <2>1, <1>1, Zenon DEF TypeOK
  <2>4. locks' \in [Keys -> 0..MaxTxn]
    BY <2>1, Ids, Zenon DEF TypeOK
  <2>5. \A u \in Shards, x \in Txns : prepared'[u][x] = IF u = s /\ x = t THEN Group(t, s) ELSE prepared[u][x]
    BY <2>1, Zenon DEF TypeOK
  <2>6. \A k \in Keys : locks'[k] = IF k \in Group(t, s) THEN t ELSE locks[k]
    BY Zenon, <2>1
  <2>7. ShardInv'
    <3>1. ASSUME NEW u \in Shards, NEW x \in Txns
          PROVE  /\ prepared'[u][x] \in {{}, Group(x, u)'}
                 /\ finished'[u][x] # "none" => prepared'[u][x] = {} /\ finished'[u][x] = decision'[x]
                 /\ x \notin LegacyTxns => \A k \in prepared'[u][x] : locks'[k] = x
      <4>1. prepared'[u][x] \in {{}, Group(x, u)'}
        BY <1>1, <2>5 DEF ShardInv
      <4>2. finished'[u][x] # "none" => prepared'[u][x] = {} /\ finished'[u][x] = decision'[x]
        BY <2>1, <2>2, <2>5 DEF ShardInv
      <4>3. ASSUME x \notin LegacyTxns, NEW k \in prepared'[u][x] PROVE locks'[k] = x
        <5>1. CASE u = s /\ x = t
          BY Zenon, <4>3, <5>1, <2>5, <2>6, <1>1
        <5>2. CASE ~(u = s /\ x = t)
          <6>1. k \in prepared[u][x] /\ k \in Keys
            BY <5>2, <4>3, <2>5 DEF TypeOK
          <6>2. locks[k] = x
            BY <6>1, <4>3 DEF ShardInv
          <6> QED
            BY Zenon, <6>1, <6>2, <2>2, <2>6, Ids
        <5> QED
          BY Zenon, <5>1, <5>2
      <4> QED
        BY Zenon, <4>1, <4>2, <4>3
    <3>2. ASSUME NEW k \in Keys, locks'[k] # None
          PROVE  locks'[k] \notin LegacyTxns /\ k \in prepared'[Owner[k]][locks'[k]]
      <4>1. CASE k \in Group(t, s)
        <5>1. Owner[k] = s /\ locks'[k] = t
          BY <4>1, <2>6, Zenon DEF Group
        <5> QED
          BY Zenon, <4>1, <5>1, <2>5
      <4>2. CASE k \notin Group(t, s)
        <5>1. locks'[k] = locks[k] /\ locks[k] \in Txns /\ Owner[k] \in Shards
          BY <4>2, <3>2, <2>6, OwnerAssumption, BoundAssumption DEF TypeOK, Txns, None
        <5>2. locks[k] \notin LegacyTxns /\ k \in prepared[Owner[k]][locks[k]]
          BY <5>1, <3>2, Zenon DEF ShardInv
        <5> QED
          BY <5>1, <5>2, <2>5, <1>2
      <4> QED
        BY Zenon, <4>1, <4>2
    <3> QED
      BY <3>1, <3>2, Zenon DEF ShardInv
  <2> QED
    BY ZenonT(40), <1>1, <1>2, <2>1, <2>2, <2>3, <2>4, <2>5, <2>6, <2>7
<1>3. CASE ~(PrepareVote(s, t) = "Yes" /\ prepared[s][t] = {})
  <2>1. UNCHANGED store
    BY <1>3, Zenon DEF ExecPrepare
  <2>2. ShardInv'
    BY <2>1 DEF ShardInv, store, Group
  <2> QED
    BY <1>3, <2>1, <2>2, Zenon DEF store, TypeOK
<1> QED
  BY Zenon, <1>2, <1>3

(* finish_dist_txn with the recorded decision: it can never meet the other *)
(* decision, replaces the record by a terminal one, and touches rows of    *)
(* the transaction's own locks only.                                       *)
LEMMA FinishEffect ==
    ASSUME TypeOK, ShardInv, NEW s \in Shards, NEW t \in Txns, NEW d \in Decisions,
           decision[t] = d, ExecFinish(s, t, d), UNCHANGED <<batch, decision>>
    PROVE  /\ prepared' \in [Shards -> [Txns -> SUBSET Keys]]
           /\ finished' \in [Shards -> [Txns -> Decisions \cup {"none"}]]
           /\ locks' \in [Keys -> 0..MaxTxn]
           /\ value' \in [Keys -> 0..MaxTxn]
           /\ UNCHANGED format
           /\ ShardInv'
           /\ \A u \in Shards, x \in Txns : x # t => prepared'[u][x] = prepared[u][x]
           /\ \A u \in Shards, x \in Txns : finished'[u][x] \in {finished[u][x], decision[x]}
           /\ \A u \in Shards, x \in Txns : finished[u][x] # "none" => finished'[u][x] = finished[u][x]
           /\ \A u \in Shards : prepared[u][t] # {} => prepared'[u][t] # {} \/ finished'[u][t] = d
           /\ FinishResult(s, t, d) \in {"Ok", "Err"}
           /\ FinishResult(s, t, d) = "Ok" => finished'[s][t] = d
           /\ \A k \in Keys : locks'[k] # locks[k] =>
                 locks[k] = t /\ locks'[k] = None /\ value'[k] = IF d = "Commit" THEN t ELSE value[k]
           /\ \A k \in Keys : value'[k] # value[k] =>
                 d = "Commit" /\ value'[k] = t /\ locks[k] = t /\ locks'[k] = None
<1>0. \A u \in Shards, x \in Txns : Group(x, u)' = Group(x, u)
  BY Zenon DEF Group
<1>1. FinishResult(s, t, d) \in {"Ok", "Err"}
  BY SMTT(30) DEF FinishResult, ShardInv
<1>2. CASE FinishResult(s, t, d) = "Ok" /\ finished[s][t] = "none"
  <2>1. /\ locks' = [k \in Keys |->
                        IF k \in prepared[s][t] /\ locks[k] = t THEN None ELSE locks[k]]
        /\ value' = [k \in Keys |->
                        IF k \in prepared[s][t] /\ d = "Commit" THEN t ELSE value[k]]
        /\ finished' = [finished EXCEPT ![s][t] = d]
        /\ prepared' = [prepared EXCEPT ![s][t] = {}]
        /\ UNCHANGED format
    BY <1>2, Zenon DEF ExecFinish
  <2>2. /\ prepared' \in [Shards -> [Txns -> SUBSET Keys]]
        /\ finished' \in [Shards -> [Txns -> Decisions \cup {"none"}]]
    BY <2>1, Zenon DEF TypeOK
  <2>3. locks' \in [Keys -> 0..MaxTxn] /\ value' \in [Keys -> 0..MaxTxn]
    BY <2>1, Ids, Zenon DEF TypeOK
  <2>4. \A u \in Shards, x \in Txns :
          /\ prepared'[u][x] = IF u = s /\ x = t THEN {} ELSE prepared[u][x]
          /\ finished'[u][x] = IF u = s /\ x = t THEN d ELSE finished[u][x]
    BY <2>1, Zenon DEF TypeOK
  <2>5. \A k \in Keys :
          /\ locks'[k] = IF k \in prepared[s][t] /\ locks[k] = t THEN None ELSE locks[k]
          /\ value'[k] = IF k \in prepared[s][t] /\ d = "Commit" THEN t ELSE value[k]
    BY Zenon, <2>1
  <2>6. d = "Commit" => \A k \in prepared[s][t] : locks[k] = t
    BY <1>2, Zenon DEF FinishResult
  <2>7. ShardInv'
    <3>1. ASSUME NEW u \in Shards, NEW x \in Txns
          PROVE  /\ prepared'[u][x] \in {{}, Group(x, u)'}
                 /\ finished'[u][x] # "none" => prepared'[u][x] = {} /\ finished'[u][x] = decision'[x]
                 /\ x \notin LegacyTxns => \A k \in prepared'[u][x] : locks'[k] = x
      <4>1. prepared'[u][x] \in {{}, Group(x, u)'}
        BY <1>0, <2>4 DEF ShardInv
      <4>2. finished'[u][x] # "none" => prepared'[u][x] = {} /\ finished'[u][x] = decision'[x]
        BY <2>4 DEF ShardInv
      <4>3. ASSUME x \notin LegacyTxns, NEW k \in prepared'[u][x] PROVE locks'[k] = x
        <5>1. ~(u = s /\ x = t) /\ k \in prepared[u][x] /\ k \in Keys
          BY <4>3, <2>4 DEF TypeOK
        <5>2. locks[k] = x /\ k \in Group(x, u)
          BY <5>1, <4>3 DEF ShardInv
        <5>3. k \in prepared[s][t] => k \in Group(t, s)
          BY Zenon DEF ShardInv
        <5> QED
          BY <5>1, <5>2, <5>3, <2>5, Zenon DEF Group
      <4> QED
        BY Zenon, <4>1, <4>2, <4>3
    <3>2. ASSUME NEW k \in Keys, locks'[k] # None
          PROVE  locks'[k] \notin LegacyTxns /\ k \in prepared'[Owner[k]][locks'[k]]
      <4>1. locks'[k] = locks[k] /\ locks[k] \in Txns /\ Owner[k] \in Shards
        BY <3>2, <2>5, OwnerAssumption, BoundAssumption DEF TypeOK, Txns, None
      <4>2. locks[k] \notin LegacyTxns /\ k \in prepared[Owner[k]][locks[k]]
        BY <4>1, <3>2, Zenon DEF ShardInv
      <4>3. ~(Owner[k] = s /\ locks[k] = t)
        BY Zenon, <4>1, <4>2, <3>2, <2>5
      <4> QED
        BY <4>1, <4>2, <4>3, <2>4
    <3> QED
      BY <3>1, <3>2, Zenon DEF ShardInv
  <2>8. \A k \in Keys : value'[k] # value[k] =>
           d = "Commit" /\ value'[k] = t /\ locks[k] = t /\ locks'[k] = None
    BY Zenon, <2>5, <2>6
  <2>9. \A k \in Keys : locks'[k] # locks[k] =>
           locks[k] = t /\ locks'[k] = None /\ value'[k] = IF d = "Commit" THEN t ELSE value[k]
    BY Zenon, <2>5
  <2> QED
    BY <1>1, <1>2, <2>1, <2>2, <2>3, <2>4, <2>7, <2>8, <2>9
<1>3. CASE ~(FinishResult(s, t, d) = "Ok" /\ finished[s][t] = "none")
  <2>1. UNCHANGED store
    BY <1>3, Zenon DEF ExecFinish
  <2>2. ShardInv'
    BY <2>1 DEF ShardInv, store, Group
  <2>3. FinishResult(s, t, d) = "Ok" => finished'[s][t] = d
    BY <1>3, <2>1, Zenon DEF store, FinishResult
  <2> QED
    BY <1>1, <2>1, <2>2, <2>3, Zenon DEF store, TypeOK
<1> QED
  BY Zenon, <1>2, <1>3

-----------------------------------------------------------------------------
(* Frames: what a step keeps when it leaves the rest of the state alone.   *)

(* What every step keeps of the records: promises of undecided             *)
(* transactions, and terminal records.                                     *)
Keeps ==
    \A u \in Shards, x \in Txns :
        /\ finished[u][x] # "none" => finished'[u][x] = finished[u][x]
        /\ finished'[u][x] \in {finished[u][x], decision[x]}
        /\ prepared[u][x] # {} =>
              prepared'[u][x] # {} \/ (finished'[u][x] = decision[x] /\ decision[x] # "none")
        /\ prepared'[u][x] # {} => Asked(x)

(* The three ways a step treats the records keep all that.                 *)
LEMMA StoreKept == ASSUME TypeOK, SequenceInv, UNCHANGED <<prepared, finished>> PROVE Keeps
BY Zenon DEF Keeps, SequenceInv, KnownIds, TypeOK

(* A prepare call erases no record and forgets no id.                      *)
LEMMA PrepareKept ==
    ASSUME TypeOK, SequenceInv, ShardInv, NEW s \in Shards, NEW t \in Txns \ LegacyTxns, Asked(t),
           s \in ShardsOf(batch[t]), ExecPrepare(s, t), UNCHANGED <<batch, decision>>
    PROVE  Keeps
<1>1. /\ UNCHANGED finished
      /\ \A u \in Shards, x \in Txns : prepared[u][x] # {} => prepared'[u][x] # {}
      /\ \A u \in Shards, x \in Txns : x # t => prepared'[u][x] = prepared[u][x]
  BY PrepareEffect
<1>2. \A u \in Shards, x \in Txns : prepared[u][x] # {} => Asked(x)
  BY Zenon DEF SequenceInv, KnownIds
<1> QED
  BY <1>1, <1>2, Zenon DEF Keeps

(* A finish call erases a record only by writing its outcome.              *)
LEMMA FinishKept ==
    ASSUME TypeOK, SequenceInv, ShardInv, NEW s \in Shards, NEW t \in Txns, NEW d \in Decisions,
           decision[t] = d, ExecFinish(s, t, d), UNCHANGED <<batch, decision>>
    PROVE  Keeps
<1>1. /\ \A u \in Shards, x \in Txns : x # t => prepared'[u][x] = prepared[u][x]
      /\ \A u \in Shards, x \in Txns : finished'[u][x] \in {finished[u][x], decision[x]}
      /\ \A u \in Shards, x \in Txns : finished[u][x] # "none" => finished'[u][x] = finished[u][x]
      /\ \A u \in Shards : prepared[u][t] # {} => prepared'[u][t] # {} \/ finished'[u][t] = d
  BY FinishEffect
<1>2. \A u \in Shards, x \in Txns : prepared[u][x] # {} => Asked(x)
  BY Zenon DEF SequenceInv, KnownIds
<1>3. d # "none" /\ Asked(t)
  BY Zenon DEF Decisions, SequenceInv, KnownIds
<1> QED
  BY <1>1, <1>2, <1>3, ZenonT(40) DEF Keeps

(* Ids on record stay on record.                                           *)
LEMMA KnownKept ==
    ASSUME TypeOK, SequenceInv, Keeps,
           \A t \in Txns : decision[t] # "none" => decision'[t] = decision[t]
    PROVE  KnownIds \subseteq KnownIds'
<1> SUFFICES ASSUME NEW t \in KnownIds PROVE t \in KnownIds'
  BY Zenon
<1>1. t \in Txns
  BY Zenon DEF KnownIds
<1>2. CASE decision[t] # "none"
  BY <1>1, <1>2, Zenon DEF KnownIds
<1>3. CASE decision[t] = "none"
  <2>1. PICK s \in Shards : prepared[s][t] # {} \/ finished[s][t] # "none"
    BY <1>3, Zenon DEF KnownIds
  <2>2. prepared'[s][t] # {} \/ finished'[s][t] # "none"
    BY <1>1, <1>3, <2>1, Zenon DEF Keeps
  <2> QED
    BY <1>1, <2>2, Zenon DEF KnownIds
<1> QED
  BY Zenon, <1>2, <1>3

(* What SequenceInv says of one router.                                    *)
RouterSeq(q) ==
    /\ router[q].pc \in {"read", "allocate"} => router[q].ops \in Batches
    /\ router[q].pc = "allocate" =>
          /\ router[q].seen <= sequence /\ router[q].seen < router[q].txn
          /\ router[q].seen = sequence => \A t \in Txns : Asked(t) => t < router[q].txn

(* Steps that allocate no id.                                              *)
LEMMA SequenceFrame ==
    ASSUME TypeOK, SequenceInv, Keeps, UNCHANGED <<sequence, batch>>,
           \A t \in Txns : decision'[t] # decision[t] => decision[t] = "none" /\ Asked(t),
           \A t \in Txns : answer'[t] # answer[t] => Asked(t),
           \A q \in Routers : router'[q] = router[q] \/ RouterSeq(q)',
           \A c \in late_ids' : c \in late_ids
               \/ \E q \in Routers : router[q].pc = "allocate" /\ c = <<router[q].seen, router[q].txn>>
    PROVE  SequenceInv'
<1>1. KnownIds \subseteq KnownIds'
  BY Zenon, KnownKept
<1>2. \A t \in KnownIds' : Asked(t)
  BY ZenonT(40) DEF Keeps, KnownIds, SequenceInv
<1>3. \A t \in Txns : Asked(t)' = Asked(t)
  BY Zenon DEF Asked
<1>4. LegacyTxns \subseteq Txns /\ KnownIds' \subseteq Txns
  BY LegacyAssumption, Zenon DEF Txns, KnownIds
<1>5. \A t \in Txns : Asked(t)' => IF sequence' = None THEN t \in KnownIds' ELSE t <= sequence'
  BY <1>1, <1>3, Zenon DEF SequenceInv
<1>6. /\ \A t \in KnownIds' \cup LegacyTxns : Asked(t)'
      /\ \A t \in Txns : answer'[t] # "none" => Asked(t)'
  BY <1>2, <1>3, <1>4, Zenon DEF SequenceInv
<1>7. ASSUME NEW q \in Routers PROVE RouterSeq(q)'
  <2>1. CASE router'[q] = router[q]
    BY <2>1, <1>3, Zenon DEF SequenceInv, RouterSeq
  <2> QED
    BY Zenon, <2>1
<1>8. ASSUME NEW c \in late_ids'
      PROVE  /\ c[1] <= sequence' /\ c[1] < c[2]
             /\ c[1] = sequence' => \A t \in Txns : Asked(t)' => t < c[2]
  BY <1>3 DEF SequenceInv
<1> QED
  BY <1>5, <1>6, <1>7, <1>8, Zenon DEF SequenceInv, RouterSeq

(* Steps that start no coordination.                                       *)
LEMMA FreshFrame ==
    ASSUME FreshIds,
           \A q \in Routers : Coordinating(q)' => Coordinating(q) /\ router'[q].txn = router[q].txn
    PROVE  FreshIds'
BY Zenon DEF FreshIds

(* A router that takes no part in the step.                                *)
LEMMA RouterFrame ==
    ASSUME TypeOK, Keeps, NEW q \in Routers, Coordinating(q), RouterInv(q), router'[q] = router[q],
           batch'[router[q].txn] = batch[router[q].txn],
           answer'[router[q].txn] = answer[router[q].txn],
           decision[router[q].txn] # "none" => decision'[router[q].txn] = decision[router[q].txn],
           Undecided(router[q].txn) => Undecided(router[q].txn)'
    PROVE  RouterInv(q)'
<1> DEFINE t == router[q].txn
<1>0. t \in Txns /\ ShardsOf(batch'[t]) = ShardsOf(batch[t])
  BY ZenonT(30) DEF RouterInv, ShardsOf
<1>1. t \in Txns /\ ShardsOf(batch[t]) \subseteq Shards /\ ShardsOf(batch'[t]) = ShardsOf(batch[t])
  BY Zenon, <1>0, Participants
<1>2. Undecided(t) => decision[t] = "none"
  BY Zenon DEF Undecided
<1>3. \A u \in Shards : decision[t] = "none" /\ prepared[u][t] # {} => prepared'[u][t] # {}
  BY <1>1, ZenonT(30) DEF Keeps
<1>4. \A u \in Shards : finished[u][t] # "none" => finished'[u][t] = finished[u][t]
  BY <1>1, Zenon DEF Keeps
<1>5. router[q].verdict \in Decisions /\ router[q].verdict # "none"
  BY Zenon DEF TypeOK, RouterState, Decisions
<1>6. router[q].pc # "finish" => Undecided(t) /\ Undecided(t)'
  BY Zenon DEF RouterInv
<1>7. router[q].pc = "prepare" =>
         \A s \in ShardsOf(batch'[t]) \ router'[q].todo : prepared'[s][t] # {}
  BY <1>1, <1>2, <1>3, <1>6, Zenon DEF RouterInv
<1>8. router[q].pc = "decide" /\ router[q].verdict = "Commit" =>
         \A s \in ShardsOf(batch'[t]) : prepared'[s][t] # {}
  BY <1>1, <1>2, <1>3, <1>6, Zenon DEF RouterInv, Promised
<1>9. router[q].pc = "finish" =>
         /\ decision'[t] = router[q].verdict
         /\ router[q].error = "none" =>
               \A s \in ShardsOf(batch'[t]) \ router'[q].todo : finished'[s][t] = router[q].verdict
  BY <1>1, <1>4, <1>5, Zenon DEF RouterInv
<1> QED
  BY <1>1, <1>6, <1>7, <1>8, <1>9, Zenon DEF RouterInv, Asked, Promised

(* Steps that decide nothing: each coordinating router is not part of the  *)
(* step, or its own part is shown apart.                                   *)
LEMMA CoordinatorFrame ==
    ASSUME TypeOK, SequenceInv, CoordinatorInv, Keeps, UNCHANGED <<decision, late_decisions>>,
           \A t \in Txns : Asked(t) => batch'[t] = batch[t],
           \A t \in Txns : answer'[t] # answer[t] => decision[t] # "none",
           \A q \in Routers : Coordinating(q)' =>
               \/ RouterInv(q)'
               \/ Coordinating(q) /\ router'[q] = router[q]
                  /\ answer'[router[q].txn] = answer[router[q].txn],
           CallInv'
    PROVE  CoordinatorInv'
<1>1. ASSUME NEW q \in Routers, Coordinating(q)' PROVE RouterInv(q)'
  <2>1. CASE Coordinating(q) /\ router'[q] = router[q]
             /\ answer'[router[q].txn] = answer[router[q].txn]
    <3>1. RouterInv(q) /\ router[q].txn \in Txns /\ Asked(router[q].txn)
      BY <2>1, Zenon DEF CoordinatorInv, RouterInv
    <3>2. Undecided(router[q].txn) => Undecided(router[q].txn)'
      BY <2>1, Zenon DEF Undecided
    <3> QED
      BY Zenon, <2>1, <3>1, <3>2, RouterFrame
  <2> QED
    BY Zenon, <1>1, <2>1
<1>2. \A t \in Txns : Asked(t) => Asked(t)' /\ ShardsOf(batch'[t]) = ShardsOf(batch[t])
  BY Zenon DEF Asked
<1>3. LateDecisionInv'
  <2> SUFFICES ASSUME NEW t \in Txns, NEW d \in Decisions, <<t, d>> \in late_decisions
               PROVE  /\ t \notin LegacyTxns /\ Asked(t)' /\ decision'[t] = "none" /\ answer'[t] = "Err"
                      /\ d = "Commit" => Promised(t)'
                      /\ \A e \in Decisions : <<t, e>> \in late_decisions' => e = d
    BY Zenon DEF LateDecisionInv
  <2>1. /\ t \notin LegacyTxns /\ Asked(t) /\ decision[t] = "none" /\ answer[t] = "Err"
        /\ d = "Commit" => Promised(t)
        /\ \A e \in Decisions : <<t, e>> \in late_decisions => e = d
    BY Zenon DEF CoordinatorInv, LateDecisionInv
  <2>2. d = "Commit" => Promised(t)'
    BY <2>1, <1>2, Participants, ZenonT(40) DEF Promised, Keeps
  <2> QED
    BY Zenon, <2>1, <2>2, <1>2
<1>4. CommitInv'
  <2> SUFFICES ASSUME NEW t \in Txns \ LegacyTxns, decision[t] = "Commit",
                      NEW s \in ShardsOf(batch'[t])
               PROVE  prepared'[s][t] # {} \/ finished'[s][t] = "Commit"
    BY Zenon DEF CommitInv
  <2>1. Asked(t) /\ s \in ShardsOf(batch[t])
    BY <1>2, Zenon DEF SequenceInv, KnownIds
  <2>2. s \in Shards
    BY Zenon, <2>1, Participants
  <2>3. prepared[s][t] # {} \/ finished[s][t] = "Commit"
    BY <2>1, Zenon DEF CoordinatorInv, CommitInv
  <2> QED
    BY <2>2, <2>3, ZenonT(40) DEF Keeps
<1> QED
  BY <1>1, <1>3, <1>4, Zenon DEF CoordinatorInv

(* Answers that the step does not give stay true.                          *)
AnswersKept ==
    \A t \in Txns : answer'[t] = answer[t] =>
        /\ answer'[t] = "Ok" => \A s \in ShardsOf(batch'[t]) : finished'[s][t] = "Commit"
        /\ answer'[t] = "Conflict" => decision'[t] = "Abort"

(* Batches, decisions and terminal records that stay keep answers true.    *)
LEMMA AnswerFrame ==
    ASSUME TypeOK, SequenceInv, AnswersAreTrue, Keeps,
           \A t \in Txns : Asked(t) => batch'[t] = batch[t],
           \A t \in Txns : decision[t] # "none" => decision'[t] = decision[t]
    PROVE  AnswersKept
<1> SUFFICES ASSUME NEW t \in Txns, answer'[t] = answer[t]
             PROVE  /\ answer'[t] = "Ok" => \A s \in ShardsOf(batch'[t]) : finished'[s][t] = "Commit"
                    /\ answer'[t] = "Conflict" => decision'[t] = "Abort"
  BY Zenon DEF AnswersKept
<1>1. answer[t] # "none" => batch'[t] = batch[t]
  BY Zenon DEF SequenceInv
<1>2. ShardsOf(batch[t]) \subseteq Shards
  BY Zenon, Participants
<1> QED
  BY <1>1, <1>2 DEF AnswersAreTrue, Keeps

(* What is left to show of the types: the router and the answer.           *)
TypeKept ==
    /\ router' \in [Routers -> RouterState]
    /\ answer' \in [Txns -> {"none", "Ok", "Conflict", "Err"}]
    => TypeOK'

-----------------------------------------------------------------------------
(* The steps.                                                              *)

(* A thread that holds nothing is in a legal state.                        *)
LEMMA IdleState == Idle \in RouterState
BY BoundAssumption DEF Idle, RouterState, Decisions, None

(* What a router's step does to the memory of all routers.                 *)
LEMMA Becomes ==
    ASSUME TypeOK, NEW r \in Routers, NEW st \in RouterState, Become(r, st)
    PROVE  /\ router' \in [Routers -> RouterState]
           /\ router'[r] = st
           /\ \A q \in Routers : q # r => router'[q] = router[q]
BY Zenon DEF TypeOK, Become

(* Steps that change the memory of one router, and leave it coordinating   *)
(* nothing.                                                                *)
LEMMA MemoryStep ==
    ASSUME DistInv, NEW r \in Routers, NEW st \in RouterState, Become(r, st),
           UNCHANGED <<sequence, decision, store, batch, late, answer>>,
           st.pc \notin {"prepare", "decide", "finish"},
           RouterSeq(r)',
           \A w \in st.work : decision[w[1]] = w[3]
    PROVE  DistInv'
<1> USE DEF DistInv
<1>1. /\ router' \in [Routers -> RouterState]
      /\ router'[r] = st
      /\ \A q \in Routers : q # r => router'[q] = router[q]
  BY Zenon, Becomes
<1>2. TypeOK'
  BY <1>1, Zenon DEF TypeOK, store, late
<1>3. Keeps
  BY StoreKept, Zenon DEF store
<1>4. SequenceInv'
  BY <1>1, <1>3, SequenceFrame, Zenon DEF late
<1>5. FreshIds'
  BY <1>1, FreshFrame, Zenon DEF Coordinating
<1>6. ShardInv'
  BY DEF ShardInv, store, Group
<1>7. CallInv'
  BY <1>1, Zenon DEF CoordinatorInv, CallInv, late, Asked
<1>8. CoordinatorInv'
  BY <1>1, <1>3, <1>7, CoordinatorFrame, Zenon DEF late, Coordinating
<1>9. AnswersAreTrue'
  BY Zenon DEF AnswersAreTrue, store
<1> QED
  BY Zenon, <1>2, <1>4, <1>5, <1>6, <1>8, <1>9

(* A router that gives up, by an error or a crash.                         *)
LEMMA GiveUpStep ==
    ASSUME DistInv, NEW r \in Routers, Become(r, Idle),
           UNCHANGED <<sequence, decision, store, batch, late, answer>>
    PROVE  DistInv'
<1>1. router'[r] = Idle
  BY IdleState, Becomes, Zenon DEF DistInv
<1>2. RouterSeq(r)'
  BY <1>1 DEF RouterSeq, Idle
<1>3. Idle.pc = "idle" /\ Idle.work = {}
  BY Zenon DEF Idle
<1> QED
  BY Zenon, <1>2, <1>3, IdleState, MemoryStep

(* propose_batch hands a router a new batch.                               *)
LEMMA ProposeStep ==
    ASSUME DistInv, NEW r \in Routers, NEW b \in Batches, ProposeBatch(r, b) PROVE DistInv'
<1> DEFINE st == [Idle EXCEPT !.pc = "read", !.ops = b, !.tries = MaxTries]
<1>0. b \in SUBSET Keys /\ MaxTries \in Nat /\ Idle.work = {}
  BY BoundAssumption, BatchAssumption, Zenon DEF Idle
<1>1. st \in RouterState /\ st.pc = "read" /\ st.ops = b /\ st.work = {}
  BY <1>0, IdleState, ZenonT(30) DEF RouterState
<1>2. Become(r, st) /\ UNCHANGED <<sequence, decision, store, batch, late, answer>>
  BY Zenon DEF ProposeBatch
<1> HIDE DEF st
<1>3. RouterSeq(r)'
  BY <1>1, <1>2, Becomes, Zenon DEF RouterSeq, DistInv
<1> QED
  BY Zenon, <1>1, <1>2, <1>3, MemoryStep

(* recover_dist_txns reads the decisions it will tell the shards.          *)
LEMMA RecoverBegins ==
    ASSUME DistInv, NEW r \in Routers, Recover(r) PROVE DistInv'
<1> DEFINE work == {w \in Txns \X Shards \X Decisions : decision[w[1]] = w[3]}
           st == [Idle EXCEPT !.pc = "recover", !.work = work]
<1>1. work \subseteq Txns \X Shards \X Decisions /\ \A w \in work : decision[w[1]] = w[3]
  BY Zenon
<1>2. Become(r, st) /\ UNCHANGED <<sequence, decision, store, batch, late, answer>>
  BY Zenon DEF Recover
<1> HIDE DEF work
<1>3. st \in RouterState /\ st.pc = "recover" /\ st.work = work
  BY <1>1, IdleState, ZenonT(30) DEF RouterState
<1> HIDE DEF st
<1>4. RouterSeq(r)'
  BY <1>2, <1>3, Becomes, Zenon DEF RouterSeq, DistInv
<1> QED
  BY Zenon, <1>1, <1>2, <1>3, <1>4, MemoryStep

(* The recovery of one shard collects its own decided records.             *)
LEMMA RecoverLocalStep ==
    ASSUME DistInv, NEW r \in Routers, RecoverLocal(r) PROVE DistInv'
<1> DEFINE local == {t \in Txns : prepared[Global][t] # {}}
           st == [Idle EXCEPT !.pc = "local", !.local = local]
<1>1. local \subseteq Txns
  BY Zenon
<1>2. Become(r, st) /\ UNCHANGED <<sequence, decision, store, batch, late, answer>>
  BY Zenon DEF RecoverLocal
<1> HIDE DEF local
<1>3. st \in RouterState /\ st.pc = "local" /\ st.work = Idle.work /\ Idle.work = {}
  <2>1. st \in RouterState /\ st.pc = "local" /\ st.work = Idle.work
    BY <1>1, IdleState, ZenonT(30) DEF RouterState
  <2> QED
    BY <2>1, Zenon DEF Idle
<1> HIDE DEF st
<1>4. RouterSeq(r)'
  BY <1>2, <1>3, Becomes, Zenon DEF RouterSeq, DistInv
<1> QED
  BY Zenon, <1>2, <1>3, <1>4, MemoryStep

(* allocate_dist_txn_id lost the race for the row: it reads again or gives *)
(* up.                                                                     *)
LEMMA AllocateConflictStep ==
    ASSUME DistInv, NEW r \in Routers, AllocateConflict(r) PROVE DistInv'
<1> DEFINE st == [router[r] EXCEPT !.pc = "read", !.tries = @ - 1, !.seen = None, !.txn = None]
<1>0. UNCHANGED <<sequence, decision, store, batch, late, answer>>
  BY Zenon DEF AllocateConflict
<1>1. CASE router[r].tries <= 1
  <2>1. Become(r, Idle)
    BY <1>1, Zenon DEF AllocateConflict
  <2> QED
    BY Zenon, <1>0, <2>1, GiveUpStep
<1>2. CASE ~(router[r].tries <= 1)
  <2>1. Become(r, st) /\ router[r].pc = "allocate"
    BY <1>2, Zenon DEF AllocateConflict
  <2>2. router[r].tries - 1 \in Nat /\ router[r] \in RouterState
    BY <1>2 DEF DistInv, TypeOK, RouterState
  <2>3. st \in RouterState
    BY <2>2, Ids, ZenonT(30) DEF RouterState
  <2>4. st.pc = "read" /\ st.ops = router[r].ops /\ st.work = router[r].work
    BY <2>2, Zenon DEF RouterState
  <2>5. router[r].ops \in Batches /\ \A w \in router[r].work : decision[w[1]] = w[3]
    BY <2>1, Zenon DEF DistInv, SequenceInv, CoordinatorInv, CallInv
  <2> HIDE DEF st
  <2>6. router'[r] = st
    BY <2>1, <2>3, Becomes, Zenon DEF DistInv
  <2>7. RouterSeq(r)'
    BY <2>4, <2>5, <2>6, Zenon DEF RouterSeq
  <2> QED
    BY Zenon, <1>0, <2>1, <2>3, <2>4, <2>5, <2>7, MemoryStep
<1> QED
  BY Zenon, <1>1, <1>2

(* The parts of the invariant, for steps that neither allocate nor decide. *)
LEMMA QuietStep ==
    ASSUME DistInv, TypeOK', ShardInv', Keeps, CallInv', AnswersAreTrue',
           UNCHANGED <<sequence, batch, decision, late_decisions>>,
           \A t \in Txns : answer'[t] # answer[t] => decision[t] # "none",
           \A c \in late_ids' : c \in late_ids
               \/ \E q \in Routers : router[q].pc = "allocate" /\ c = <<router[q].seen, router[q].txn>>,
           \A q \in Routers : router'[q] = router[q] \/ RouterSeq(q)',
           \A q \in Routers : Coordinating(q)' =>
               /\ Coordinating(q) /\ router'[q].txn = router[q].txn
               /\ \/ RouterInv(q)'
                  \/ router'[q] = router[q] /\ answer'[router[q].txn] = answer[router[q].txn]
    PROVE  DistInv'
<1> USE DEF DistInv
<1>1. \A t \in Txns : answer'[t] # answer[t] => Asked(t)
  BY Zenon DEF SequenceInv, KnownIds
<1>2. SequenceInv'
  <2>1. \A t \in Txns : decision'[t] # decision[t] => decision[t] = "none" /\ Asked(t)
    BY Zenon
  <2>2. TypeOK /\ SequenceInv
    BY Zenon
  <2> HIDE DEF DistInv
  <2> QED
    BY Zenon, <1>1, <2>1, <2>2, SequenceFrame
<1>3. FreshIds'
  BY Zenon, FreshFrame
<1>4. CoordinatorInv'
  BY Zenon, CoordinatorFrame
<1> QED
  BY Zenon, <1>2, <1>3, <1>4

(* A failed call joins its set, or is lost.                                *)
LEMMA Left == \A set, c : Leave(set, c) \subseteq set \cup {c}
BY Zenon DEF Leave

-----------------------------------------------------------------------------
(* Failed allocations, plain writes and recovery.                          *)

(* The write of the sequence row failed; it may still land later.          *)
LEMMA AllocateFailsStep ==
    ASSUME DistInv, NEW r \in Routers, AllocateFails(r) PROVE DistInv'
<1> USE DEF DistInv
<1>0. /\ router[r].pc = "allocate"
      /\ UNCHANGED <<sequence, decision, store, batch, late_prepares, late_decisions, late_finishes, answer>>
      /\ late_ids' \subseteq late_ids \cup {<<router[r].seen, router[r].txn>>}
  BY Left DEF AllocateFails
<1>1. /\ router' \in [Routers -> RouterState]
      /\ router'[r] = Idle
      /\ \A q \in Routers : q # r => router'[q] = router[q]
  BY IdleState, Becomes, Zenon DEF AllocateFails
<1>2. router[r].seen \in 0..MaxTxn /\ router[r].txn \in Txns
  <2>1. router[r].seen \in 0..MaxTxn /\ router[r].txn \in 0..MaxTxn /\ router[r].seen < router[r].txn
    BY <1>0, Zenon DEF TypeOK, RouterState, SequenceInv
  <2> QED
    BY <2>1, BoundAssumption DEF Txns
<1>3. TypeOK'
  BY <1>0, <1>1, <1>2, SMTT(30) DEF TypeOK, store
<1>4. ShardInv' /\ AnswersAreTrue'
  BY <1>0 DEF ShardInv, AnswersAreTrue, store, Group
<1>5. Keeps
  BY <1>0, StoreKept, Zenon DEF store
<1>6. Idle.pc = "idle" /\ Idle.work = {}
  BY Zenon DEF Idle
<1>7. CallInv'
  BY <1>0, <1>1, <1>6, ZenonT(40) DEF CoordinatorInv, CallInv, Asked
<1>8. RouterSeq(r)' /\ ~Coordinating(r)'
  BY <1>1, <1>6, Zenon DEF RouterSeq, Coordinating
<1>9. \A q \in Routers : q # r => Coordinating(q)' = Coordinating(q)
  BY <1>1, Zenon DEF Coordinating
<1> HIDE DEF DistInv
<1> QED
  BY Zenon, <1>0, <1>1, <1>3, <1>4, <1>5, <1>7, <1>8, <1>9, QuietStep

(* A write outside any batch touches an unlocked key only.                 *)
LEMMA PlainWriteStep ==
    ASSUME DistInv, NEW k \in Keys, PlainWrite(k) PROVE DistInv'
<1> USE DEF DistInv
<1>0. UNCHANGED <<sequence, decision, prepared, finished, locks, format, batch, late, router, answer>>
  BY Zenon DEF PlainWrite
<1>1. TypeOK'
  BY <1>0, BoundAssumption, SMTT(30) DEF TypeOK, late, PlainWrite
<1>2. ShardInv' /\ AnswersAreTrue'
  BY <1>0 DEF ShardInv, AnswersAreTrue, Group
<1>3. Keeps
  BY Zenon, <1>0, StoreKept
<1>4. CallInv'
  BY <1>0, ZenonT(30) DEF CoordinatorInv, CallInv, Asked, late
<1>5. \A q \in Routers : Coordinating(q)' = Coordinating(q)
  BY <1>0, Zenon DEF Coordinating
<1> HIDE DEF DistInv
<1> QED
  BY <1>0, <1>1, <1>2, <1>3, <1>4, <1>5, QuietStep, Zenon DEF late

(* A prepare that had been reported as failed lands after all.             *)
LEMMA LatePrepareStep ==
    ASSUME DistInv, LatePrepare PROVE DistInv'
<1> USE DEF DistInv
<1>0. PICK c \in late_prepares :
          /\ ExecPrepare(c[2], c[1])
          /\ late_prepares' = late_prepares \ {c}
          /\ UNCHANGED <<sequence, decision, batch, late_ids, late_decisions, late_finishes,
                         router, answer>>
  BY Zenon DEF LatePrepare
<1>1. /\ c[1] \in Txns \ LegacyTxns /\ c[2] \in Shards
      /\ Asked(c[1]) /\ c[2] \in ShardsOf(batch[c[1]])
  BY Zenon DEF TypeOK, CoordinatorInv, CallInv
<1>2. /\ prepared' \in [Shards -> [Txns -> SUBSET Keys]]
      /\ locks' \in [Keys -> 0..MaxTxn]
      /\ format' \in [Shards -> BOOLEAN]
      /\ UNCHANGED <<finished, value>>
      /\ ShardInv'
  BY Zenon, <1>0, <1>1, PrepareEffect
<1>3. TypeOK'
  BY <1>0, <1>2, Zenon DEF TypeOK
<1>4. Keeps
  BY Zenon, <1>0, <1>1, PrepareKept
<1>5. AnswersAreTrue'
  BY <1>0, <1>2, Zenon DEF AnswersAreTrue
<1>6. CallInv'
  BY <1>0, Zenon DEF CoordinatorInv, CallInv, Asked
<1>7. \A q \in Routers : Coordinating(q)' = Coordinating(q)
  BY <1>0, Zenon DEF Coordinating
<1> HIDE DEF DistInv
<1> QED
  BY Zenon, <1>0, <1>2, <1>3, <1>4, <1>5, <1>6, <1>7, QuietStep

(* Told of a decision on record, a shard keeps the invariant whoever calls:*)
(* a router, a recovery, or a call that comes late.                        *)
LEMMA ToldStep ==
    ASSUME DistInv, NEW s \in Shards, NEW t \in Txns, NEW d \in Decisions,
           decision[t] = d, ExecFinish(s, t, d), UNCHANGED <<sequence, batch, decision, late_ids,
           late_prepares, late_decisions>>,
           late_finishes' \subseteq late_finishes
    PROVE  /\ Keeps /\ ShardInv' /\ FinishResult(s, t, d) \in {"Ok", "Err"}
           /\ FinishResult(s, t, d) = "Ok" => finished'[s][t] = d
           /\ TypeKept /\ AnswersKept
<1> USE DEF DistInv
<1>1. /\ prepared' \in [Shards -> [Txns -> SUBSET Keys]]
      /\ finished' \in [Shards -> [Txns -> Decisions \cup {"none"}]]
      /\ locks' \in [Keys -> 0..MaxTxn]
      /\ value' \in [Keys -> 0..MaxTxn]
      /\ UNCHANGED format
      /\ ShardInv'
      /\ FinishResult(s, t, d) \in {"Ok", "Err"}
      /\ FinishResult(s, t, d) = "Ok" => finished'[s][t] = d
  <2>1. TypeOK /\ ShardInv /\ UNCHANGED <<batch, decision>>
    BY Zenon
  <2> HIDE DEF DistInv
  <2> QED
    BY ZenonT(40), <2>1, FinishEffect
<1>2. Keeps
  BY Zenon, FinishKept
<1>3. TypeKept
  BY <1>1, Zenon DEF TypeOK, TypeKept
<1> QED
  BY Zenon, <1>1, <1>2, <1>3, AnswerFrame

(* A finish that had been reported as failed lands after all.              *)
LEMMA LateFinishStep ==
    ASSUME DistInv, LateFinish PROVE DistInv'
<1>0. PICK c \in late_finishes :
          /\ ExecFinish(c[2], c[1], c[3])
          /\ late_finishes' = late_finishes \ {c}
          /\ UNCHANGED <<sequence, decision, batch, late_ids, late_prepares, late_decisions,
                         router, answer>>
  BY Zenon DEF LateFinish
<1>1. c[1] \in Txns /\ c[2] \in Shards /\ c[3] \in Decisions /\ decision[c[1]] = c[3]
  BY Zenon DEF DistInv, TypeOK, CoordinatorInv, CallInv
<1>2. Keeps /\ ShardInv' /\ TypeOK' /\ AnswersAreTrue'
  <2>1. /\ router' \in [Routers -> RouterState]
        /\ answer' \in [Txns -> {"none", "Ok", "Conflict", "Err"}]
        /\ late_finishes' \subseteq late_finishes
    BY <1>0, Zenon DEF DistInv, TypeOK
  <2>2. \A x \in Txns : answer'[x] = answer[x]
    BY Zenon, <1>0
  <2>3. Keeps /\ ShardInv' /\ TypeKept /\ AnswersKept
    BY Zenon, <1>0, <1>1, <2>1, ToldStep
  <2> QED
    BY <2>1, <2>2, <2>3, Zenon DEF AnswersAreTrue, AnswersKept, TypeKept
<1>3. CallInv'
  BY <1>0, Zenon DEF DistInv, CoordinatorInv, CallInv, Asked
<1>4. \A q \in Routers : Coordinating(q)' = Coordinating(q)
  BY <1>0, Zenon DEF Coordinating
<1> QED
  BY Zenon, <1>0, <1>2, <1>3, <1>4, QuietStep

(* A recovery that tells a shard a decision on record.                     *)
LEMMA RecoveryTells ==
    ASSUME DistInv, NEW r \in Routers, NEW st \in RouterState, Become(r, st),
           st.pc \in {"idle", "recover", "local"}, st.work \subseteq router[r].work,
           NEW s \in Shards, NEW t \in Txns, NEW d \in Decisions,
           decision[t] = d, ExecFinish(s, t, d),
           UNCHANGED <<sequence, decision, batch, late, answer>>
    PROVE  DistInv'
<1>1. /\ router' \in [Routers -> RouterState]
      /\ router'[r] = st
      /\ \A q \in Routers : q # r => router'[q] = router[q]
  BY Becomes, Zenon DEF DistInv
<1>2. Keeps /\ ShardInv' /\ TypeOK' /\ AnswersAreTrue'
  <2>1. /\ answer' \in [Txns -> {"none", "Ok", "Conflict", "Err"}]
        /\ UNCHANGED <<sequence, batch, decision, late_ids, late_prepares, late_decisions>>
        /\ late_finishes' \subseteq late_finishes
        /\ \A x \in Txns : answer'[x] = answer[x]
    BY Zenon DEF DistInv, TypeOK, late
  <2>2. Keeps /\ ShardInv' /\ TypeKept /\ AnswersKept
    BY Zenon, <2>1, ToldStep
  <2> QED
    BY <1>1, <2>1, <2>2, Zenon DEF AnswersAreTrue, AnswersKept, TypeKept
<1>3. CallInv'
  BY <1>1, Zenon DEF DistInv, CoordinatorInv, CallInv, Asked, late
<1>4. RouterSeq(r)' /\ ~Coordinating(r)'
  BY <1>1, Zenon DEF RouterSeq, Coordinating
<1>5. \A q \in Routers : q # r => Coordinating(q)' = Coordinating(q)
  BY <1>1, Zenon DEF Coordinating
<1> QED
  BY <1>1, <1>2, <1>3, <1>4, <1>5, QuietStep, Zenon DEF late

(* Recovery told one participant its outcome.                              *)
LEMMA RecoverFinishStep ==
    ASSUME DistInv, NEW r \in Routers, RecoverFinish(r) PROVE DistInv'
<1>0. PICK w \in router[r].work :
        /\ router[r].pc = "recover"
        /\ ExecFinish(w[2], w[1], w[3])
        /\ Become(r, IF FinishResult(w[2], w[1], w[3]) = "Ok"
                     THEN [router[r] EXCEPT !.work = @ \ {w}] ELSE Idle)
        /\ UNCHANGED <<sequence, decision, batch, late, answer>>
  BY ZenonT(30) DEF RecoverFinish
<1>1. router[r] \in RouterState
  BY Zenon DEF DistInv, TypeOK
<1>2. router[r].work \subseteq Txns \X Shards \X Decisions
  BY <1>1, ZenonT(30) DEF RouterState
<1>3. w[1] \in Txns /\ w[2] \in Shards /\ w[3] \in Decisions /\ decision[w[1]] = w[3]
  BY <1>2, Zenon DEF DistInv, CoordinatorInv, CallInv
<1>4. PICK st \in RouterState :
        Become(r, st) /\ st.pc \in {"idle", "recover", "local"} /\ st.work \subseteq router[r].work
  <2>1. Idle \in RouterState /\ Idle.pc = "idle" /\ Idle.work = {}
    BY IdleState, Zenon DEF Idle
  <2> DEFINE rest == router[r].work \ {w}
             st == [router[r] EXCEPT !.work = rest]
  <2>2. rest \subseteq Txns \X Shards \X Decisions /\ rest \subseteq router[r].work
    BY Zenon, <1>2
  <2>3. Become(r, st) \/ Become(r, Idle)
    BY Zenon, <1>0
  <2> HIDE DEF rest
  <2>4. st \in RouterState /\ st.pc = "recover" /\ st.work = rest
    BY <1>0, <1>1, <2>2, Zenon DEF RouterState
  <2> HIDE DEF st
  <2> QED
    BY Zenon, <2>1, <2>2, <2>3, <2>4
<1> QED
  BY Zenon, <1>0, <1>3, <1>4, RecoveryTells

(* Recovery stops at the first participant that fails.                     *)
LEMMA RecoverFinishFailsStep ==
    ASSUME DistInv, NEW r \in Routers, RecoverFinishFails(r) PROVE DistInv'
<1>0. PICK w \in router[r].work :
        /\ router[r].pc = "recover"
        /\ late_finishes' \subseteq late_finishes \cup {w}
        /\ Become(r, Idle)
        /\ UNCHANGED <<sequence, decision, store, batch, late_ids, late_prepares,
                       late_decisions, answer>>
  BY Left, ZenonT(30) DEF RecoverFinishFails
<1> USE DEF DistInv
<1>1. /\ router' \in [Routers -> RouterState]
      /\ router'[r] = Idle
      /\ \A q \in Routers : q # r => router'[q] = router[q]
  BY Zenon, <1>0, IdleState, Becomes
<1>2. w \in Txns \X Shards \X Decisions /\ decision[w[1]] = w[3]
  BY Zenon DEF CoordinatorInv, CallInv, TypeOK, RouterState
<1>3. TypeOK'
  BY <1>0, <1>1, <1>2, Zenon DEF TypeOK, store
<1>4. ShardInv' /\ AnswersAreTrue'
  BY <1>0 DEF ShardInv, AnswersAreTrue, store, Group
<1>5. Keeps
  BY <1>0, StoreKept, Zenon DEF store
<1>6. Idle.pc = "idle" /\ Idle.work = {}
  BY ZenonT(30) DEF Idle
<1>7. CallInv'
  BY <1>0, <1>1, <1>2, <1>6, Zenon DEF CoordinatorInv, CallInv, Asked
<1>8. RouterSeq(r)' /\ ~Coordinating(r)'
  BY <1>1, <1>6, Zenon DEF RouterSeq, Coordinating
<1>9. \A q \in Routers : q # r => Coordinating(q)' = Coordinating(q)
  BY <1>1, Zenon DEF Coordinating
<1> HIDE DEF DistInv
<1> QED
  BY ZenonT(30), <1>0, <1>1, <1>3, <1>4, <1>5, <1>7, <1>8, <1>9, QuietStep

(* The recovery of one shard finished one of its records.                  *)
LEMMA RecoverLocalFinishStep ==
    ASSUME DistInv, NEW r \in Routers, RecoverLocalFinish(r) PROVE DistInv'
<1>0. PICK t \in router[r].local :
        /\ router[r].pc = "local"
        /\ IF decision[t] = "none" THEN UNCHANGED store ELSE ExecFinish(Global, t, decision[t])
        /\ Become(r, IF decision[t] = "none" \/ FinishResult(Global, t, decision[t]) = "Ok"
                     THEN [router[r] EXCEPT !.local = @ \ {t}] ELSE Idle)
        /\ UNCHANGED <<sequence, decision, batch, late, answer>>
  BY ZenonT(30) DEF RecoverLocalFinish
<1>1. router[r] \in RouterState
  BY Zenon DEF DistInv, TypeOK
<1>2. router[r].local \subseteq Txns /\ t \in Txns
  BY <1>1, Zenon DEF RouterState
<1>3. PICK st \in RouterState :
        Become(r, st) /\ st.pc \in {"idle", "local"} /\ st.work \subseteq router[r].work
  <2>1. Idle \in RouterState /\ Idle.pc = "idle" /\ Idle.work = {}
    BY IdleState, Zenon DEF Idle
  <2> DEFINE rest == router[r].local \ {t}
             st == [router[r] EXCEPT !.local = rest]
  <2>2. rest \subseteq Txns
    BY Zenon, <1>2
  <2>3. Become(r, st) \/ Become(r, Idle)
    BY Zenon, <1>0
  <2> HIDE DEF rest
  <2>4. st \in RouterState /\ st.pc = "local" /\ st.work = router[r].work
    BY <1>0, <1>1, <2>2, Zenon DEF RouterState
  <2> HIDE DEF st
  <2> QED
    BY Zenon, <2>1, <2>3, <2>4
<1>4. CASE decision[t] = "none"
  <2>1. UNCHANGED <<sequence, decision, store, batch, late, answer>>
    BY Zenon, <1>0, <1>4
  <2>2. router'[r] = st
    BY <1>3, Becomes, Zenon DEF DistInv
  <2>3. RouterSeq(r)'
    BY <1>3, <2>2, Zenon DEF RouterSeq
  <2>4. \A w \in st.work : decision[w[1]] = w[3]
    BY <1>3, ZenonT(30) DEF DistInv, CoordinatorInv, CallInv
  <2> QED
    BY ZenonT(30), <1>3, <2>1, <2>3, <2>4, MemoryStep
<1>5. CASE decision[t] # "none"
  <2>1. decision[t] \in Decisions /\ Global \in Shards
    BY <1>2, <1>5, ShardAssumption, Zenon DEF DistInv, TypeOK
  <2> QED
    BY Zenon, <1>0, <1>2, <1>3, <1>5, <2>1, RecoveryTells
<1> QED
  BY Zenon, <1>4, <1>5
-----------------------------------------------------------------------------
(* Telling the participants.                                               *)

(* One participant was told, or failed to answer.                          *)
LEMMA TellStep ==
    ASSUME DistInv, NEW r \in Routers, router[r].pc = "finish", NEW s \in router[r].todo,
           NEW result \in {"Ok", "Err"}, Told(r, s, result),
           UNCHANGED <<sequence, batch, decision, late_ids, late_prepares, late_decisions>>,
           late_finishes' \subseteq late_finishes \cup {<<router[r].txn, s, router[r].verdict>>},
           Keeps, ShardInv',
           result = "Ok" => finished'[s][router[r].txn] = router[r].verdict, TypeKept, AnswersKept
    PROVE  DistInv'
<1>t. PICK t, d : t = router[r].txn /\ d = router[r].verdict
  BY Zenon
<1> DEFINE left == router[r].todo \ {s}
           error == IF router[r].error = "none" /\ result # "Ok" THEN result ELSE router[r].error
           st == [router[r] EXCEPT !.todo = left, !.error = error]
<1>1. router[r] \in RouterState /\ d \in Decisions /\ Coordinating(r)
  BY <1>t, Zenon DEF DistInv, TypeOK, RouterState, Coordinating
<1>2. /\ t \in Txns \ LegacyTxns /\ Asked(t) /\ answer[t] = "none" /\ decision[t] = d
      /\ router[r].todo \subseteq ShardsOf(batch[t])
      /\ d = "Abort" => router[r].error # "none"
      /\ router[r].error = "none" => \A u \in ShardsOf(batch[t]) \ router[r].todo : finished[u][t] = d
      /\ router[r].error = "Conflict" => d = "Abort"
  BY <1>1, <1>t, Zenon DEF DistInv, CoordinatorInv, RouterInv
<1>3. ShardsOf(batch[t]) \subseteq Shards
  BY <1>2, Participants, Zenon DEF DistInv
<1>4. /\ error \in {"none", "Conflict", "Err"} /\ left \subseteq Shards /\ left \subseteq ShardsOf(batch[t])
      /\ left = router[r].todo \ {s}
      /\ error = "none" => router[r].error = "none" /\ result = "Ok"
      /\ error = "Conflict" => router[r].error = "Conflict"
      /\ router[r].error # "none" => error # "none"
  BY <1>1, <1>2, <1>3, Zenon DEF RouterState
<1>5. error = "none" => \A u \in ShardsOf(batch[t]) \ left : finished'[u][t] = d
  <2> SUFFICES ASSUME error = "none", NEW u \in ShardsOf(batch[t]) \ left PROVE finished'[u][t] = d
    BY Zenon, <1>4
  <2>1. CASE u = s
    BY Zenon, <1>t, <1>4, <2>1
  <2>2. CASE u # s
    <3>1. u \in Shards /\ finished[u][t] = d
      BY Zenon, <1>2, <1>3, <1>4, <2>2
    <3>2. finished[u][t] # "none"
      BY <1>1, <3>1, Zenon DEF Decisions
    <3> QED
      BY <1>2, <3>1, <3>2, Zenon DEF Keeps
  <2> QED
    BY Zenon, <2>1, <2>2
<1>6. /\ left # {} => Become(r, st) /\ UNCHANGED answer
      /\ left = {} => /\ Become(r, Idle)
                      /\ answer' = [answer EXCEPT ![t] = IF error = "none" THEN "Ok" ELSE error]
  BY <1>t, Zenon DEF Told, Answer
<1> HIDE DEF left, error
<1>7. /\ st \in RouterState /\ st.todo = left /\ st.error = error /\ st.pc = "finish"
      /\ st.txn = t /\ st.verdict = d /\ st.work = router[r].work
  BY <1>1, <1>t, <1>4, ZenonT(30) DEF RouterState
<1> HIDE DEF st
<1>8. Idle \in RouterState /\ Idle.pc = "idle" /\ Idle.work = {}
  BY IdleState, Zenon DEF Idle
<1>9. /\ router' \in [Routers -> RouterState]
      /\ left # {} => router'[r] = st
      /\ left = {} => router'[r] = Idle
      /\ \A q \in Routers : q # r => router'[q] = router[q]
  BY <1>6, <1>7, <1>8, Becomes, Zenon DEF DistInv
<1>10. /\ answer' \in [Txns -> {"none", "Ok", "Conflict", "Err"}]
       /\ \A x \in Txns : x # t => answer'[x] = answer[x]
       /\ left # {} => answer'[t] = "none"
       /\ left = {} => answer'[t] = IF error = "none" THEN "Ok" ELSE error
  BY <1>2, <1>4, <1>6, Zenon DEF DistInv, TypeOK
<1>11. TypeOK'
  BY <1>9, <1>10, Zenon DEF TypeKept
<1>12. AnswersAreTrue'
  <2> SUFFICES ASSUME NEW x \in Txns
               PROVE  /\ answer'[x] = "Ok" => \A u \in ShardsOf(batch'[x]) : finished'[u][x] = "Commit"
                      /\ answer'[x] = "Conflict" => decision'[x] = "Abort"
    BY Zenon DEF AnswersAreTrue
  <2>1. CASE answer'[x] = answer[x]
    BY <2>1, Zenon DEF AnswersKept
  <2>2. CASE answer'[x] # answer[x]
    <3>1. x = t /\ left = {}
      BY Zenon, <1>2, <1>10, <2>2
    <3>2. answer'[t] = "Ok" => error = "none"
      BY Zenon, <1>4, <1>10, <3>1
    <3>3. error = "none" => d = "Commit"
      BY <1>1, <1>2, <1>4, Zenon DEF Decisions
    <3>4. answer'[t] = "Conflict" => error = "Conflict"
      BY Zenon, <1>4, <1>10, <3>1
    <3> QED
      BY Zenon, <1>2, <1>4, <1>5, <3>1, <3>2, <3>3, <3>4
  <2> QED
    BY Zenon, <2>1, <2>2
<1>13. CallInv'
  <2>1. \A w \in late_finishes' : decision'[w[1]] = w[3]
    BY <1>t, <1>2 DEF DistInv, CoordinatorInv, CallInv
  <2>2. \A q \in Routers : router'[q].work \subseteq router[q].work
    BY Zenon, <1>7, <1>8, <1>9
  <2> QED
    BY <2>1, <2>2, ZenonT(40) DEF DistInv, CoordinatorInv, CallInv, Asked
<1>14. left # {} => RouterInv(r)'
  <2>1. left # {} => batch'[t] = batch[t] /\ answer'[t] = "none" /\ batch[t] # {} /\ decision'[t] = d
    BY <1>2, <1>10, Zenon DEF Asked
  <2> QED
    BY <1>2, <1>4, <1>5, <1>7, <1>9, <2>1, ZenonT(40) DEF RouterInv, Asked
<1>15. /\ RouterSeq(r)' /\ (Coordinating(r)' => left # {})
       /\ \A q \in Routers : q # r => Coordinating(q)' = Coordinating(q)
  BY <1>7, <1>8, <1>9, Zenon DEF RouterSeq, Coordinating
<1>16. \A q \in Routers : q # r /\ Coordinating(q) => router[q].txn # t /\ router[q].txn \in Txns
  BY <1>t, <1>1, ZenonT(40) DEF DistInv, FreshIds, CoordinatorInv, RouterInv
<1>17. \A x \in Txns : answer'[x] # answer[x] => decision[x] # "none"
  BY <1>1, <1>2, <1>10, Zenon DEF Decisions
<1>18. \A q \in Routers : Coordinating(q)' =>
               /\ Coordinating(q) /\ router'[q].txn = router[q].txn
               /\ \/ RouterInv(q)'
                  \/ router'[q] = router[q] /\ answer'[router[q].txn] = answer[router[q].txn]
  BY Zenon, <1>t, <1>1, <1>7, <1>9, <1>10, <1>14, <1>15, <1>16
<1>19. \A q \in Routers : router'[q] = router[q] \/ RouterSeq(q)'
  BY <1>7, <1>8, <1>9, Zenon DEF RouterSeq
<1> QED
  BY Zenon, <1>11, <1>12, <1>13, <1>17, <1>18, <1>19, QuietStep

(* The router told one participant the decision.                           *)
LEMMA FinishStep ==
    ASSUME DistInv, NEW r \in Routers, Finish(r) PROVE DistInv'
<1>t. PICK t, d : t = router[r].txn /\ d = router[r].verdict
  BY Zenon
<1>0. PICK s \in Shards :
        /\ router[r].pc = "finish" /\ s \in router[r].todo
        /\ ExecFinish(s, t, d) /\ Told(r, s, FinishResult(s, t, d))
        /\ UNCHANGED <<sequence, decision, batch, late_ids, late_prepares, late_decisions>>
        /\ late_finishes' \subseteq late_finishes
  BY <1>t, Zenon DEF Finish, IsFirst, late
<1>1. t \in Txns /\ d \in Decisions /\ decision[t] = d
  BY <1>0, <1>t, Zenon DEF DistInv, TypeOK, RouterState, CoordinatorInv, Coordinating, RouterInv
<1>2. /\ Keeps /\ ShardInv' /\ FinishResult(s, t, d) \in {"Ok", "Err"}
      /\ FinishResult(s, t, d) = "Ok" => finished'[s][t] = d
      /\ TypeKept /\ AnswersKept
  BY Zenon, <1>0, <1>1, ToldStep
<1> QED
  BY Zenon, <1>0, <1>t, <1>2, TellStep

(* The router could not tell a participant, and goes on to the next.       *)
LEMMA FinishFailsStep ==
    ASSUME DistInv, NEW r \in Routers, FinishFails(r) PROVE DistInv'
<1>t. PICK t, d : t = router[r].txn /\ d = router[r].verdict
  BY Zenon
<1>0. PICK s \in Shards :
        /\ router[r].pc = "finish" /\ s \in router[r].todo
        /\ late_finishes' \subseteq late_finishes \cup {<<t, s, d>>}
        /\ Told(r, s, "Err")
        /\ UNCHANGED <<sequence, decision, store, batch, late_ids, late_prepares, late_decisions>>
  BY <1>t, Left, Zenon DEF FinishFails, IsFirst
<1>1. t \in Txns /\ d \in Decisions
  BY <1>0, <1>t, ZenonT(40) DEF DistInv, TypeOK, RouterState, CoordinatorInv, Coordinating, RouterInv
<1>2. Keeps
  BY <1>0, StoreKept, ZenonT(40) DEF store, DistInv
<1>3. ShardInv'
  BY <1>0 DEF DistInv, ShardInv, store, Group
<1>4. TypeKept
  <2>1. late_finishes' \subseteq Txns \X Shards \X Decisions
    BY <1>0, <1>1 DEF DistInv, TypeOK
  <2> QED
    BY <1>0, <2>1, Zenon DEF DistInv, TypeOK, TypeKept, store
<1>5. AnswersKept
  BY <1>0, <1>2, AnswerFrame, Zenon DEF DistInv
<1> QED
  BY Zenon, <1>0, <1>t, <1>2, <1>3, <1>4, <1>5, TellStep

-----------------------------------------------------------------------------
(* Writing the sequence row makes every value read before stale.           *)
LEMMA SequenceAdvances ==
    ASSUME TypeOK, SequenceInv, NEW n \in Txns, sequence < n, sequence' = n,
           \A t \in Txns : Asked(t) => t < n,
           \A t \in Txns : /\ Asked(t) => Asked(t)'
                           /\ Asked(t)' => Asked(t) \/ t = n,
           UNCHANGED <<decision, prepared, finished, answer>>, late_ids' \subseteq late_ids,
           \A q \in Routers : router'[q] = router[q] \/ router'[q].pc = "prepare"
    PROVE  SequenceInv'
<1>0. n \in Nat /\ sequence \in Nat /\ n # None
  BY BoundAssumption DEF TypeOK, Txns, None
<1>1. \A t \in Txns : Asked(t)' => IF sequence' = None THEN t \in KnownIds' ELSE t <= sequence'
  BY <1>0, Ids
<1>2. /\ \A t \in KnownIds' \cup LegacyTxns : Asked(t)'
      /\ \A t \in Txns : answer'[t] # "none" => Asked(t)'
  <2>1. KnownIds' = KnownIds /\ KnownIds \subseteq Txns /\ LegacyTxns \subseteq Txns
    BY LegacyAssumption, Zenon DEF KnownIds, Txns
  <2> QED
    BY <2>1, Zenon DEF SequenceInv
<1>3. ASSUME NEW q \in Routers PROVE RouterSeq(q)'
  <2>1. CASE router'[q] = router[q]
    <3>1. router[q].seen \in Nat
      BY BoundAssumption DEF TypeOK, RouterState
    <3> QED
      BY <1>0, <2>1, <3>1 DEF SequenceInv, RouterSeq
  <2>2. CASE router'[q].pc = "prepare"
    BY <2>2, ZenonT(40) DEF RouterSeq
  <2> QED
    BY Zenon, <2>1, <2>2
<1>4. ASSUME NEW c \in late_ids'
      PROVE  /\ c[1] <= sequence' /\ c[1] < c[2]
             /\ c[1] = sequence' => \A t \in Txns : Asked(t)' => t < c[2]
  <2>1. c \in late_ids /\ c[1] \in Nat /\ c[2] \in Nat
    BY <1>4, BoundAssumption DEF TypeOK, Txns
  <2> QED
    BY <1>0, <2>1 DEF SequenceInv
<1> QED
  BY <1>1, <1>2, <1>3, <1>4, Zenon DEF SequenceInv, RouterSeq

(* A write of the sequence row that had been reported as failed lands.     *)
LEMMA LateIdStep ==
    ASSUME DistInv, LateId PROVE DistInv'
<1> USE DEF DistInv
<1>0. PICK c \in late_ids :
        /\ sequence' = IF sequence = c[1] THEN c[2] ELSE sequence
        /\ late_ids' = late_ids \ {c}
        /\ UNCHANGED <<decision, store, batch, late_prepares, late_decisions, late_finishes,
                       router, answer>>
  BY Zenon DEF LateId
<1>1. c[2] \in Txns /\ c[1] < c[2]
  BY Zenon DEF TypeOK, SequenceInv
<1>2. TypeOK'
  <2>1. sequence' \in 0..MaxTxn
    BY <1>0, <1>1, Ids, Zenon DEF TypeOK
  <2> QED
    BY <1>0, <2>1, Zenon DEF TypeOK, store
<1>3. Keeps
  BY <1>0, StoreKept, Zenon DEF store
<1>4. SequenceInv'
  <2>1. CASE sequence = c[1]
    <3>1. \A t \in Txns : Asked(t) => t < c[2]
      BY <2>1, Zenon DEF SequenceInv
    <3>2. \A t \in Txns : Asked(t)' = Asked(t)
      BY <1>0, Zenon DEF Asked
    <3>3. sequence < c[2] /\ sequence' = c[2] /\ late_ids' \subseteq late_ids
          /\ UNCHANGED <<decision, prepared, finished, answer>>
          /\ \A q \in Routers : router'[q] = router[q]
      BY <1>0, <1>1, <2>1, Zenon DEF store
    <3> QED
      BY ZenonT(40), <1>1, <3>1, <3>2, <3>3, SequenceAdvances
  <2>2. CASE sequence # c[1]
    BY Zenon, <1>0, <1>3, <2>2, SequenceFrame
  <2> QED
    BY Zenon, <2>1, <2>2
<1>5. FreshIds'
  BY <1>0, FreshFrame, Zenon DEF Coordinating
<1>6. ShardInv' /\ AnswersAreTrue'
  BY <1>0 DEF ShardInv, AnswersAreTrue, store, Group
<1>7. CallInv'
  BY <1>0, Zenon DEF CoordinatorInv, CallInv, Asked
<1>8. CoordinatorInv'
  BY <1>0, <1>3, <1>7, CoordinatorFrame, Zenon DEF Coordinating
<1> QED
  BY Zenon, <1>2, <1>4, <1>5, <1>6, <1>8

(* The sequence row advances and the batch gets its id.                    *)
LEMMA AllocateStep ==
    ASSUME DistInv, NEW r \in Routers, Allocate(r) PROVE DistInv'
<1> USE DEF DistInv
<1> DEFINE n == router[r].txn
           b == router[r].ops
           st == [Idle EXCEPT !.pc = "prepare", !.txn = n, !.todo = ShardsOf(b), !.verdict = "Commit"]
<1>0. /\ router[r].pc = "allocate" /\ sequence = router[r].seen /\ sequence' = n
      /\ batch' = [batch EXCEPT ![n] = b]
      /\ Become(r, st)
      /\ UNCHANGED <<decision, store, late, answer>>
  BY Zenon DEF Allocate
<1>1. b \in Batches /\ sequence < n /\ \A t \in Txns : Asked(t) => t < n
  BY <1>0, ZenonT(40) DEF SequenceInv
<1>2. n \in Txns /\ n \in 0..MaxTxn
  BY <1>0, <1>1, BoundAssumption, SMTT(30) DEF TypeOK, RouterState, Txns
<1>3. ~Asked(n) /\ n \notin LegacyTxns
  BY <1>1, <1>2, Ids DEF SequenceInv
<1>4. ShardsOf(b) \subseteq Shards /\ b # {}
  BY <1>1, OwnerAssumption, BatchAssumption, Zenon DEF ShardsOf
<1>5. /\ st \in RouterState /\ st.pc = "prepare" /\ st.txn = n /\ st.todo = ShardsOf(b)
      /\ st.verdict = "Commit" /\ st.error = "none" /\ st.work = {}
  <2>1. Idle.error = "none" /\ Idle.work = {}
    BY Zenon DEF Idle
  <2>2. "Commit" \in Decisions
    BY Zenon DEF Decisions
  <2> HIDE DEF n, b
  <2> QED
    BY <1>2, <1>4, <2>1, <2>2, IdleState, ZenonT(30) DEF RouterState
<1> HIDE DEF st
<1>6. /\ router' \in [Routers -> RouterState]
      /\ router'[r] = st
      /\ \A q \in Routers : q # r => router'[q] = router[q]
  BY Zenon, <1>0, <1>5, Becomes
<1>7. \A t \in Txns : batch'[t] = IF t = n THEN b ELSE batch[t]
  BY <1>0, <1>2, Zenon DEF TypeOK
<1> HIDE DEF n, b
<1>8. TypeOK'
  <2>1. batch' \in [Txns -> Batches \cup {{}}]
    BY <1>0, <1>1, ZenonT(30) DEF TypeOK
  <2> QED
    BY <1>0, <1>2, <1>6, <2>1, ZenonT(40) DEF TypeOK, store, late
<1>9. Keeps
  BY <1>0, StoreKept, Zenon DEF store
<1>10. \A t \in Txns : /\ Asked(t) => Asked(t)' /\ batch'[t] = batch[t]
                       /\ Asked(t)' => Asked(t) \/ t = n
  BY <1>3, <1>7, Zenon DEF Asked
<1>11. SequenceInv'
  <2>1. \A q \in Routers : router'[q] = router[q] \/ router'[q].pc = "prepare"
    BY Zenon, <1>5, <1>6
  <2>2. UNCHANGED <<decision, prepared, finished, answer>> /\ late_ids' \subseteq late_ids
    BY <1>0, Zenon DEF store, late
  <2> QED
    BY Zenon, <1>0, <1>1, <1>2, <1>10, <2>1, <2>2, SequenceAdvances
<1>12. \A q \in Routers : Coordinating(q) => router[q].txn # n /\ RouterInv(q) /\ router[q].txn \in Txns
  BY <1>3, Zenon DEF CoordinatorInv, RouterInv
<1>13. /\ \A q \in Routers : q # r => Coordinating(q)' = Coordinating(q)
       /\ router'[r].txn = n
  BY <1>5, <1>6, Zenon DEF Coordinating
<1>14. FreshIds'
  BY <1>3, <1>6, <1>12, <1>13 DEF FreshIds
<1>15. \A u \in Shards : prepared[u][n] = {} /\ finished[u][n] = "none"
  BY <1>2, <1>3, Zenon DEF SequenceInv, KnownIds
<1>16. ShardInv'
  <2>1. ASSUME NEW u \in Shards, NEW x \in Txns PROVE prepared'[u][x] \in {{}, Group(x, u)'}
    <3>1. CASE x = n
      BY <1>0, <1>15, <3>1, Zenon DEF store
    <3>2. CASE x # n
      <4>1. Group(x, u)' = Group(x, u)
        BY <1>7, <3>2, Zenon DEF Group
      <4> QED
        BY <1>0, <4>1, ZenonT(40) DEF store, ShardInv
    <3> QED
      BY Zenon, <3>1, <3>2
  <2> QED
    BY <1>0, <2>1 DEF ShardInv, store
<1>17. CallInv'
  <2>1. \A c \in late_prepares : c[1] \in Txns /\ c[1] \notin LegacyTxns /\ Asked(c[1])
                                 /\ c[2] \in ShardsOf(batch[c[1]])
    BY Zenon DEF TypeOK, CoordinatorInv, CallInv
  <2>2. \A c \in late_prepares' :
          c[1] \notin LegacyTxns /\ Asked(c[1])' /\ c[2] \in ShardsOf(batch'[c[1]])
    BY <1>0, <1>10, <2>1, Zenon DEF late
  <2> QED
    BY <1>0, <1>5, <1>6, <2>2, Zenon DEF CoordinatorInv, CallInv, late
<1>18. RouterInv(r)'
  <2>1. batch'[n] = b /\ b # {}
    BY ZenonT(40), <1>2, <1>4, <1>7
  <2>2. answer'[n] = "none" /\ decision'[n] = "none"
    BY <1>0, <1>2, <1>3, ZenonT(40) DEF SequenceInv, KnownIds
  <2>3. \A d \in Decisions : <<n, d>> \notin late_decisions'
    BY <1>0, <1>2, <1>3, Zenon DEF CoordinatorInv, LateDecisionInv, late
  <2> QED
    BY <1>2, <1>3, <1>5, <1>6, <2>1, <2>2, <2>3, Zenon DEF RouterInv, Undecided, Asked
<1>19. CoordinatorInv'
  BY <1>0, <1>6, <1>9, <1>10, <1>13, <1>17, <1>18, CoordinatorFrame, Zenon DEF late
<1>20. AnswersAreTrue'
  BY <1>0, <1>9, <1>10, AnswerFrame, Zenon DEF AnswersAreTrue, AnswersKept
<1> QED
  BY Zenon, <1>8, <1>11, <1>14, <1>16, <1>19, <1>20

(* One participant prepared, or refused and made the router abort.         *)
LEMMA PrepareStep ==
    ASSUME DistInv, NEW r \in Routers, Prepare(r) PROVE DistInv'
<1>t. PICK t : t = router[r].txn
  BY Zenon
<1>0. PICK s \in Shards :
        /\ t = router[r].txn /\ router[r].pc = "prepare" /\ s \in router[r].todo
        /\ ExecPrepare(s, t)
        /\ Become(r, IF PrepareVote(s, t) = "Yes"
                     THEN [router[r] EXCEPT !.todo = router[r].todo \ {s},
                                            !.pc = IF router[r].todo \ {s} = {} THEN "decide" ELSE "prepare"]
                     ELSE [router[r] EXCEPT !.todo = {}, !.pc = "decide", !.verdict = "Abort",
                                            !.error = IF PrepareVote(s, t) = "No" THEN "Conflict" ELSE "Err"])
        /\ UNCHANGED <<sequence, decision, batch, late, answer>>
  BY <1>t, ZenonT(30) DEF Prepare, IsFirst
<1>1. router[r] \in RouterState
  BY Zenon DEF DistInv, TypeOK
<1>2. /\ t \in Txns \ LegacyTxns /\ Asked(t) /\ answer[t] = "none" /\ Undecided(t)
      /\ router[r].todo \subseteq ShardsOf(batch[t]) /\ router[r].verdict = "Commit"
      /\ router[r].error = "none"
      /\ \A u \in ShardsOf(batch[t]) \ router[r].todo : prepared[u][t] # {}
  BY <1>0, Zenon DEF DistInv, CoordinatorInv, Coordinating, RouterInv
<1>3. /\ prepared' \in [Shards -> [Txns -> SUBSET Keys]]
      /\ locks' \in [Keys -> 0..MaxTxn]
      /\ format' \in [Shards -> BOOLEAN]
      /\ UNCHANGED <<finished, value>>
      /\ ShardInv'
      /\ \A u \in Shards, x \in Txns : prepared[u][x] # {} => prepared'[u][x] # {}
      /\ PrepareVote(s, t) = "Yes" => prepared'[s][t] # {}
  BY <1>0, <1>2, PrepareEffect DEF DistInv
<1>4. Keeps
  BY <1>0, <1>2, PrepareKept, Zenon DEF DistInv
<1>5. PICK st \in RouterState :
        /\ Become(r, st) /\ st.txn = t /\ st.work = router[r].work
        /\ \/ /\ PrepareVote(s, t) = "Yes" /\ st.todo = router[r].todo \ {s}
              /\ st.pc \in {"prepare", "decide"} /\ (st.pc = "decide" => st.todo = {})
              /\ st.verdict = "Commit" /\ st.error = "none"
           \/ /\ st.todo = {} /\ st.pc = "decide" /\ st.verdict = "Abort" /\ st.error # "none"
  <2> DEFINE left == router[r].todo \ {s}
             pc == IF left = {} THEN "decide" ELSE "prepare"
             error == IF PrepareVote(s, t) = "No" THEN "Conflict" ELSE "Err"
             yes == [router[r] EXCEPT !.todo = left, !.pc = pc]
             no == [router[r] EXCEPT !.todo = {}, !.pc = "decide", !.verdict = "Abort", !.error = error]
  <2>1. Become(r, IF PrepareVote(s, t) = "Yes" THEN yes ELSE no)
    BY Zenon, <1>0
  <2>2. /\ left \subseteq Shards /\ pc \in {"prepare", "decide"} /\ (pc = "decide" => left = {})
        /\ error \in {"Conflict", "Err"} /\ left = router[r].todo \ {s}
    BY <1>1, Zenon DEF RouterState
  <2>3. "Abort" \in Decisions
    BY Zenon DEF Decisions
  <2> HIDE DEF left, pc, error
  <2>4. /\ yes \in RouterState /\ yes.txn = t /\ yes.work = router[r].work /\ yes.todo = left
        /\ yes.pc = pc /\ yes.verdict = router[r].verdict /\ yes.error = router[r].error
    BY <1>0, <1>1, <2>2, ZenonT(30) DEF RouterState
  <2>5. /\ no \in RouterState /\ no.txn = t /\ no.work = router[r].work /\ no.todo = {}
        /\ no.pc = "decide" /\ no.verdict = "Abort" /\ no.error = error
    BY <1>0, <1>1, <2>2, <2>3, ZenonT(30) DEF RouterState
  <2> HIDE DEF yes, no
  <2>6. CASE PrepareVote(s, t) = "Yes"
    BY Zenon, <1>2, <2>1, <2>2, <2>4, <2>6
  <2>7. CASE PrepareVote(s, t) # "Yes"
    BY Zenon, <2>1, <2>2, <2>5, <2>7
  <2> QED
    BY Zenon, <2>6, <2>7
<1>6. /\ router' \in [Routers -> RouterState]
      /\ router'[r] = st
      /\ \A q \in Routers : q # r => router'[q] = router[q]
  BY <1>5, Becomes, Zenon DEF DistInv
<1>7. TypeOK' /\ AnswersAreTrue'
  BY <1>0, <1>3, <1>6, SMTT(30) DEF DistInv, TypeOK, AnswersAreTrue, late
<1>8. CallInv'
  BY <1>0, <1>5, <1>6 DEF DistInv, CoordinatorInv, CallInv, Asked, late
<1>9. RouterInv(r)'
  <2>1. ShardsOf(batch[t]) \subseteq Shards /\ t \in Txns
    BY <1>2, Participants, Zenon DEF DistInv
  <2>2. \A u \in ShardsOf(batch[t]) \ router[r].todo : prepared'[u][t] # {}
    BY Zenon, <1>2, <1>3, <2>1
  <2>3. st.verdict = "Commit" => \A u \in ShardsOf(batch[t]) \ st.todo : prepared'[u][t] # {}
    BY Zenon, <1>3, <1>5, <2>2
  <2>4. /\ batch'[t] = batch[t] /\ answer'[t] = "none" /\ batch[t] # {}
        /\ decision'[t] = "none" /\ \A d \in Decisions : <<t, d>> \notin late_decisions'
    BY <1>0, <1>2, Zenon DEF late, Undecided, Asked
  <2>5. st.todo \subseteq ShardsOf(batch[t])
    BY Zenon, <1>2, <1>5
  <2> QED
    BY <1>2, <1>5, <1>6, <2>3, <2>4, <2>5, Zenon DEF RouterInv, Promised, Undecided, Asked
<1>10. /\ RouterSeq(r)' /\ Coordinating(r) /\ Coordinating(r)'
       /\ \A q \in Routers : q # r => Coordinating(q)' = Coordinating(q)
  BY <1>0, <1>5, <1>6, Zenon DEF RouterSeq, Coordinating
<1> QED
  BY <1>0, <1>3, <1>4, <1>5, <1>6, <1>7, <1>8, <1>9, <1>10, QuietStep, Zenon DEF late

(* A shard's finished row agrees with the coordinator's, and a record that *)
(* keeps it so keeps the shards' invariant.                                *)
LEMMA OutcomeOnRecord ==
    ASSUME ShardInv, NEW u \in Shards, NEW x \in Txns, finished[u][x] # "none"
    PROVE  finished[u][x] = decision[x]
BY SMTT(30) DEF ShardInv

LEMMA ShardFrame ==
    ASSUME ShardInv, UNCHANGED <<batch, prepared, finished, locks>>,
           \A u \in Shards, x \in Txns : finished[u][x] # "none" => finished[u][x] = decision'[x]
    PROVE  ShardInv'
<1>1. \A u \in Shards, x \in Txns : Group(x, u)' = Group(x, u)
  BY Zenon DEF Group
<1>2. ASSUME NEW u \in Shards, NEW x \in Txns
      PROVE  /\ prepared'[u][x] \in {{}, Group(x, u)'}
             /\ finished'[u][x] # "none" => prepared'[u][x] = {} /\ finished'[u][x] = decision'[x]
             /\ x \notin LegacyTxns => \A k \in prepared'[u][x] : locks'[k] = x
  BY <1>1, SMTT(30) DEF ShardInv
<1>3. \A k \in Keys : locks'[k] # None =>
          locks'[k] \notin LegacyTxns /\ k \in prepared'[Owner[k]][locks'[k]]
  BY Zenon DEF ShardInv
<1> QED
  BY <1>2, <1>3, Zenon DEF ShardInv

(* A prepare that fails makes the router abort.                            *)
LEMMA PrepareFailsStep ==
    ASSUME DistInv, NEW r \in Routers, PrepareFails(r) PROVE DistInv'
<1> DEFINE st == [router[r] EXCEPT !.todo = {}, !.pc = "decide", !.verdict = "Abort", !.error = "Err"]
<1>t. PICK t : t = router[r].txn
  BY Zenon
<1>0. PICK s \in Shards :
        /\ t = router[r].txn /\ router[r].pc = "prepare" /\ s \in router[r].todo
        /\ late_prepares' \subseteq late_prepares \cup {<<t, s>>}
        /\ Become(r, st)
        /\ UNCHANGED <<sequence, decision, store, batch, late_ids, late_decisions,
                       late_finishes, answer>>
  BY <1>t, Left, Zenon DEF PrepareFails, IsFirst
<1>1. router[r] \in RouterState
  BY Zenon DEF DistInv, TypeOK
<1>2. /\ t \in Txns \ LegacyTxns /\ Asked(t) /\ answer[t] = "none" /\ Undecided(t)
      /\ router[r].todo \subseteq ShardsOf(batch[t])
  BY <1>0, Zenon DEF DistInv, CoordinatorInv, Coordinating, RouterInv
<1>3. /\ st \in RouterState /\ st.txn = t /\ st.work = router[r].work /\ st.todo = {}
      /\ st.pc = "decide" /\ st.verdict = "Abort" /\ st.error = "Err"
  <2>1. "Abort" \in Decisions
    BY Zenon DEF Decisions
  <2> QED
    BY <1>0, <1>1, <2>1, ZenonT(30) DEF RouterState
<1> HIDE DEF st
<1>4. Keeps
  BY <1>0, StoreKept, Zenon DEF store, DistInv
<1>5. /\ router' \in [Routers -> RouterState]
      /\ router'[r] = st
      /\ \A q \in Routers : q # r => router'[q] = router[q]
  BY <1>0, <1>3, Becomes, Zenon DEF DistInv
<1>6. TypeOK' /\ AnswersAreTrue' /\ ShardInv'
  <2>1. late_prepares' \subseteq Txns \X Shards
    BY <1>0, <1>2 DEF DistInv, TypeOK
  <2>2. TypeOK'
    BY <1>0, <1>5, <2>1, Zenon DEF DistInv, TypeOK, store
  <2>3. AnswersAreTrue' /\ ShardInv'
    <3>1. ShardInv /\ UNCHANGED <<batch, prepared, finished, locks, decision>>
      BY <1>0, Zenon DEF DistInv, store
    <3>2. AnswersAreTrue'
      BY <1>0, Zenon DEF DistInv, AnswersAreTrue, store
    <3> QED
      BY Zenon, <3>1, <3>2, OutcomeOnRecord, ShardFrame
  <2> QED
    BY ZenonT(40), <2>2, <2>3
<1>7. CallInv'
  <2>1. \A c \in late_prepares' :
          c[1] \notin LegacyTxns /\ Asked(c[1])' /\ c[2] \in ShardsOf(batch'[c[1]])
    BY <1>0, <1>2 DEF DistInv, CoordinatorInv, CallInv, Asked
  <2> QED
    BY <1>0, <1>3, <1>5, <2>1, SMTT(30) DEF DistInv, CoordinatorInv, CallInv
<1>8. RouterInv(r)'
  <2>1. /\ batch'[t] = batch[t] /\ answer'[t] = "none" /\ batch[t] # {}
        /\ decision'[t] = "none" /\ \A d \in Decisions : <<t, d>> \notin late_decisions'
    BY <1>0, <1>2, Zenon DEF Undecided, Asked
  <2> QED
    BY <1>2, <1>3, <1>5, <2>1, Zenon DEF RouterInv, Undecided, Asked
<1>9. /\ RouterSeq(r)' /\ Coordinating(r) /\ Coordinating(r)'
      /\ \A q \in Routers : q # r => Coordinating(q)' = Coordinating(q)
  BY <1>0, <1>3, <1>5, Zenon DEF RouterSeq, Coordinating
<1> QED
  BY Zenon, <1>0, <1>3, <1>4, <1>5, <1>6, <1>7, <1>8, <1>9, QuietStep

(* Routers that coordinate anything but t keep what they hold.             *)
RoutersKept(t) ==
    /\ router' \in [Routers -> RouterState]
    /\ \A q \in Routers : router'[q] = router[q]
                          \/ (RouterSeq(q)' /\ router'[q].work = router[q].work)
    /\ \A q \in Routers : Coordinating(q)' =>
           /\ Coordinating(q) /\ router'[q].txn = router[q].txn
           /\ RouterInv(q)' \/ (router'[q] = router[q] /\ router[q].txn # t)

(* The coordinator row is written: by the router, or by its call that      *)
(* comes late.                                                             *)
LEMMA DecisionRecorded ==
    ASSUME DistInv, NEW t \in Txns \ LegacyTxns, NEW d \in Decisions, decision[t] = "none", Asked(t),
           d = "Commit" => Promised(t), Record(t, d),
           UNCHANGED <<sequence, store, batch, late_ids, late_prepares, late_finishes, answer>>,
           late_decisions' \subseteq late_decisions, \A e \in Decisions : <<t, e>> \notin late_decisions',
           RoutersKept(t)
    PROVE  DistInv'
<1> USE DEF DistInv
<1>1. \A x \in Txns : decision'[x] = IF x = t THEN d ELSE decision[x]
  BY Zenon DEF Record, TypeOK
<1>2. TypeOK'
  <2>1. decision' \in [Txns -> Decisions \cup {"none"}]
    BY Zenon DEF Record, TypeOK
  <2> QED
    BY <2>1, Zenon DEF TypeOK, store, RoutersKept
<1>3. Keeps
  BY StoreKept, Zenon DEF store
<1>4. SequenceInv'
  BY <1>1, <1>3, SequenceFrame, Zenon DEF RoutersKept
<1>5. FreshIds'
  BY FreshFrame, ZenonT(40) DEF RoutersKept
<1>6. ShardInv'
  <2>1. ShardInv /\ UNCHANGED <<batch, prepared, finished, locks>>
    BY Zenon DEF store
  <2> HIDE DEF DistInv
  <2>2. ASSUME NEW u \in Shards, NEW x \in Txns, finished[u][x] # "none"
        PROVE  finished[u][x] = decision'[x]
    <3>1. finished[u][x] = decision[x]
      BY Zenon, <2>1, <2>2, OutcomeOnRecord
    <3>2. x # t
      BY Zenon, <2>2, <3>1
    <3> QED
      BY Zenon, <1>1, <3>1, <3>2
  <2> QED
    BY Zenon, <2>1, <2>2, ShardFrame
<1>7. \A x \in Txns : decision[x] # "none" => decision'[x] = decision[x]
  BY Zenon, <1>1
<1>8. CallInv'
  <2>1. \A w \in Txns \X Shards \X Decisions : decision[w[1]] = w[3] => decision'[w[1]] = w[3]
    BY <1>7, Zenon DEF Decisions
  <2>2. \A q \in Routers : router'[q].work = router[q].work
                           /\ router[q].work \subseteq Txns \X Shards \X Decisions
    BY Zenon DEF TypeOK, RouterState, RoutersKept
  <2>3. late_finishes \subseteq Txns \X Shards \X Decisions
    BY Zenon DEF TypeOK
  <2> QED
    BY <2>1, <2>2, <2>3, Zenon DEF CoordinatorInv, CallInv, Asked
<1>9. ASSUME NEW q \in Routers, Coordinating(q)' PROVE RouterInv(q)'
  <2>1. CASE router'[q] = router[q] /\ router[q].txn # t
    <3>1. Coordinating(q) /\ RouterInv(q) /\ router[q].txn \in Txns
      <4>1. Coordinating(q)
        BY <1>9, ZenonT(30) DEF RoutersKept
      <4> QED
        BY <4>1, ZenonT(30) DEF CoordinatorInv, RouterInv
    <3>2. Undecided(router[q].txn) => Undecided(router[q].txn)'
      BY <1>1, <2>1, <3>1, Zenon DEF Undecided
    <3> QED
      BY Zenon, <1>3, <1>7, <2>1, <3>1, <3>2, RouterFrame
  <2> QED
    BY <1>9, <2>1, Zenon DEF RoutersKept
<1>10. LateDecisionInv'
  <2> SUFFICES ASSUME NEW x \in Txns, NEW y \in Decisions, <<x, y>> \in late_decisions'
               PROVE  /\ x \notin LegacyTxns /\ Asked(x)' /\ decision'[x] = "none" /\ answer'[x] = "Err"
                      /\ y = "Commit" => Promised(x)'
                      /\ \A e \in Decisions : <<x, e>> \in late_decisions' => e = y
    BY Zenon DEF LateDecisionInv
  <2>1. <<x, y>> \in late_decisions /\ x # t
    BY Zenon
  <2>2. /\ x \notin LegacyTxns /\ Asked(x) /\ decision[x] = "none" /\ answer[x] = "Err"
        /\ y = "Commit" => Promised(x)
        /\ \A e \in Decisions : <<x, e>> \in late_decisions => e = y
    BY <2>1, Zenon DEF CoordinatorInv, LateDecisionInv
  <2> QED
    BY <1>1, <2>1, <2>2, Zenon DEF Asked, Promised, store
<1>11. CommitInv'
  <2> SUFFICES ASSUME NEW x \in Txns \ LegacyTxns, decision'[x] = "Commit", NEW u \in ShardsOf(batch[x])
               PROVE  prepared[u][x] # {} \/ finished[u][x] = "Commit"
    BY Zenon DEF CommitInv, store
  <2>1. CASE x = t
    BY <1>1, <2>1, Zenon DEF Promised
  <2>2. CASE x # t
    BY <1>1, <2>2, Zenon DEF CoordinatorInv, CommitInv
  <2> QED
    BY Zenon, <2>1, <2>2
<1>12. AnswersAreTrue'
  BY <1>3, <1>7, AnswerFrame, Zenon DEF AnswersAreTrue, AnswersKept
<1> QED
  BY <1>2, <1>4, <1>5, <1>6, <1>8, <1>9, <1>10, <1>11, <1>12, Zenon DEF CoordinatorInv

(* A decision that had been reported as failed lands after all.            *)
LEMMA LateDecisionStep ==
    ASSUME DistInv, LateDecision PROVE DistInv'
<1>0. PICK c \in late_decisions :
        /\ Record(c[1], c[2])
        /\ late_decisions' = late_decisions \ {c}
        /\ UNCHANGED <<sequence, store, batch, late_ids, late_prepares, late_finishes,
                       router, answer>>
  BY Zenon DEF LateDecision
<1>1. PICK t \in Txns, d \in Decisions : c = <<t, d>> /\ c[1] = t /\ c[2] = d
  BY DEF DistInv, TypeOK
<1>2. /\ t \notin LegacyTxns /\ Asked(t) /\ decision[t] = "none" /\ answer[t] = "Err"
      /\ d = "Commit" => Promised(t)
      /\ \A e \in Decisions : <<t, e>> \in late_decisions => e = d
  BY <1>1, Zenon DEF DistInv, CoordinatorInv, LateDecisionInv
<1>3. \A e \in Decisions : <<t, e>> \notin late_decisions'
  BY Zenon, <1>0, <1>1, <1>2
<1>4. \A q \in Routers : Coordinating(q) => router[q].txn # t
  BY <1>2, Zenon DEF DistInv, CoordinatorInv, RouterInv
<1>5. \A q \in Routers : Coordinating(q)' = Coordinating(q)
  BY <1>0, Zenon DEF Coordinating
<1>6. Record(t, d) /\ late_decisions' \subseteq late_decisions /\ router' \in [Routers -> RouterState]
  BY <1>0, <1>1, Zenon DEF DistInv, TypeOK
<1>7. RoutersKept(t)
  BY <1>0, <1>4, <1>5, <1>6, Zenon DEF RoutersKept
<1> QED
  BY Zenon, <1>0, <1>2, <1>3, <1>6, <1>7, DecisionRecorded

(* record_dist_txn_decision wrote the decision.                            *)
LEMMA DecideStep ==
    ASSUME DistInv, NEW r \in Routers, Decide(r) PROVE DistInv'
<1>t. PICK t, d : t = router[r].txn /\ d = router[r].verdict
  BY Zenon
<1>0. /\ router[r].pc = "decide" /\ Record(t, d)
      /\ IF decision[t] \in {"none", d}
         THEN /\ Become(r, [router[r] EXCEPT !.pc = "finish", !.todo = ShardsOf(batch[t])])
              /\ UNCHANGED answer
         ELSE Become(r, Idle) /\ Answer(t, "Conflict")
      /\ UNCHANGED <<sequence, store, batch, late>>
  BY <1>t, Zenon DEF Decide
<1>1. router[r] \in RouterState /\ d \in Decisions
  BY <1>t, ZenonT(40) DEF DistInv, TypeOK, RouterState
<1>2. /\ t \in Txns \ LegacyTxns /\ Asked(t) /\ answer[t] = "none" /\ Undecided(t)
      /\ d = "Abort" => router[r].error # "none"
      /\ d = "Commit" => router[r].error = "none" /\ Promised(t)
      /\ Coordinating(r)
  BY <1>0, <1>t, ZenonT(40) DEF DistInv, CoordinatorInv, Coordinating, RouterInv
<1> DEFINE st == [router[r] EXCEPT !.pc = "finish", !.todo = ShardsOf(batch[t])]
<1>3. Become(r, st) /\ UNCHANGED answer /\ decision[t] = "none"
  BY <1>0, <1>2, Zenon DEF Undecided
<1>4. ShardsOf(batch[t]) \subseteq Shards
  BY <1>2, Participants, Zenon DEF DistInv
<1>5. /\ st \in RouterState /\ st.txn = t /\ st.work = router[r].work /\ st.todo = ShardsOf(batch[t])
      /\ st.pc = "finish" /\ st.verdict = d /\ st.error = router[r].error
  BY <1>t, <1>1, <1>4, ZenonT(30) DEF RouterState
<1> HIDE DEF st
<1>6. /\ router' \in [Routers -> RouterState]
      /\ router'[r] = st
      /\ \A q \in Routers : q # r => router'[q] = router[q]
  BY <1>3, <1>5, Becomes, Zenon DEF DistInv
<1>7. decision'[t] = d
  BY <1>0, <1>2, <1>3, Zenon DEF Record, DistInv, TypeOK
<1>8. RouterInv(r)'
  <2>1. batch'[t] = batch[t] /\ answer'[t] = "none" /\ batch[t] # {}
    BY <1>0, <1>2, <1>3, Zenon DEF Asked
  <2>2. router[r].error = "Conflict" => d = "Abort"
    BY <1>1, <1>2, Zenon DEF Decisions
  <2> QED
    BY <1>2, <1>5, <1>6, <1>7, <2>1, <2>2 DEF RouterInv, Asked
<1>9. /\ RouterSeq(r)' /\ Coordinating(r)'
      /\ \A q \in Routers : q # r => Coordinating(q)' = Coordinating(q)
  BY <1>5, <1>6, Zenon DEF RouterSeq, Coordinating
<1>10. \A q \in Routers : q # r /\ Coordinating(q) => router[q].txn # t
  BY <1>t, <1>2, Zenon DEF DistInv, FreshIds
<1>11. late_decisions' \subseteq late_decisions /\ \A e \in Decisions : <<t, e>> \notin late_decisions'
  BY <1>0, <1>2, Zenon DEF late, Undecided
<1>12. UNCHANGED <<sequence, store, batch, late_ids, late_prepares, late_finishes, answer>>
  BY <1>0, <1>3, Zenon DEF late
<1>13. RoutersKept(t)
  BY <1>t, <1>2, <1>5, <1>6, <1>8, <1>9, <1>10, Zenon DEF RoutersKept
<1> QED
  BY Zenon, <1>0, <1>1, <1>2, <1>3, <1>11, <1>12, <1>13, DecisionRecorded

(* The write of the decision failed: the batch is left in doubt.           *)
LEMMA DecideFailsStep ==
    ASSUME DistInv, NEW r \in Routers, DecideFails(r) PROVE DistInv'
<1>t. PICK t, d : t = router[r].txn /\ d = router[r].verdict
  BY Zenon
<1> USE DEF DistInv
<1>0. /\ router[r].pc = "decide"
      /\ late_decisions' \subseteq late_decisions \cup {<<t, d>>}
      /\ Become(r, Idle)
      /\ answer' = [answer EXCEPT ![t] = "Err"]
      /\ UNCHANGED <<sequence, decision, store, batch, late_ids, late_prepares, late_finishes>>
  BY <1>t, Left, Zenon DEF DecideFails, Answer
<1>1. d \in Decisions
  BY <1>t, Zenon DEF TypeOK, RouterState
<1>2. /\ t \in Txns \ LegacyTxns /\ Asked(t) /\ Undecided(t)
      /\ d = "Commit" => Promised(t)
      /\ Coordinating(r)
  BY <1>0, <1>t, Zenon DEF CoordinatorInv, Coordinating, RouterInv
<1>3. /\ router' \in [Routers -> RouterState]
      /\ router'[r] = Idle
      /\ \A q \in Routers : q # r => router'[q] = router[q]
  BY Zenon, <1>0, IdleState, Becomes
<1>4. Idle.pc = "idle" /\ Idle.work = {}
  BY Zenon DEF Idle
<1>5. \A x \in Txns : answer'[x] = IF x = t THEN "Err" ELSE answer[x]
  BY <1>0, Zenon DEF TypeOK
<1>6. TypeOK'
  <2>1. late_decisions' \subseteq Txns \X Decisions
    BY <1>0, <1>1, <1>2, SMTT(30) DEF TypeOK
  <2>2. answer' \in [Txns -> {"none", "Ok", "Conflict", "Err"}]
    BY <1>0, ZenonT(30) DEF TypeOK
  <2> QED
    BY <1>0, <1>3, <2>1, <2>2, Zenon DEF TypeOK, store
<1>7. Keeps
  BY <1>0, StoreKept, Zenon DEF store
<1>8. /\ RouterSeq(r)' /\ ~Coordinating(r)'
      /\ \A q \in Routers : q # r => Coordinating(q)' = Coordinating(q)
  BY <1>3, <1>4, Zenon DEF RouterSeq, Coordinating
<1>9. SequenceInv'
  BY Zenon, <1>0, <1>2, <1>3, <1>5, <1>7, <1>8, SequenceFrame
<1>10. FreshIds'
  BY ZenonT(40), <1>3, <1>8, FreshFrame
<1>11. ShardInv'
  BY <1>0 DEF ShardInv, store, Group
<1>12. CallInv'
  BY <1>0, <1>3, <1>4, ZenonT(30) DEF CoordinatorInv, CallInv, Asked
<1>13. ASSUME NEW q \in Routers, Coordinating(q)' PROVE RouterInv(q)'
  <2>1. q # r /\ Coordinating(q) /\ router'[q] = router[q]
    BY Zenon, <1>3, <1>8, <1>13
  <2>2. router[q].txn # t
    BY <1>t, <1>2, <2>1, Zenon DEF FreshIds
  <2>3. RouterInv(q) /\ router[q].txn \in Txns
    <3>1. RouterInv(q)
      BY <2>1, Zenon DEF CoordinatorInv
    <3> QED
      BY <3>1, Zenon DEF RouterInv
  <2>4. Undecided(router[q].txn) => Undecided(router[q].txn)'
    BY <1>0, <2>1, <2>2, Zenon DEF Undecided
  <2> QED
    BY Zenon, <1>0, <1>5, <1>7, <2>1, <2>2, <2>3, <2>4, RouterFrame
<1>14. LateDecisionInv'
  <2> SUFFICES ASSUME NEW x \in Txns, NEW y \in Decisions, <<x, y>> \in late_decisions'
               PROVE  /\ x \notin LegacyTxns /\ Asked(x) /\ decision[x] = "none" /\ answer'[x] = "Err"
                      /\ y = "Commit" => Promised(x)
                      /\ \A e \in Decisions : <<x, e>> \in late_decisions' => e = y
    BY <1>0, Zenon DEF LateDecisionInv, Asked, Promised, store
  <2>1. CASE x = t
    <3>1. \A e \in Decisions : <<t, e>> \in late_decisions' => e = d
      BY <1>0, <1>2, Zenon DEF Undecided
    <3> QED
      BY <1>2, <1>5, <2>1, <3>1, Zenon DEF Undecided
  <2>2. CASE x # t
    <3>1. \A e \in Decisions : <<x, e>> \in late_decisions' => <<x, e>> \in late_decisions
      BY Zenon, <1>0, <2>2
    <3> QED
      BY <1>5, <2>2, <3>1, Zenon DEF CoordinatorInv, LateDecisionInv
  <2> QED
    BY Zenon, <2>1, <2>2
<1>15. CommitInv'
  BY <1>0, ZenonT(40) DEF CoordinatorInv, CommitInv, store
<1>16. AnswersAreTrue'
  BY <1>0, <1>5 DEF AnswersAreTrue, store
<1> QED
  BY <1>6, <1>9, <1>10, <1>11, <1>12, <1>13, <1>14, <1>15, <1>16, Zenon DEF CoordinatorInv

-----------------------------------------------------------------------------
(* The invariant.                                                          *)

(* The sequence row, or the ids on record, bound every id in use.          *)
LEMMA LastIdBounds ==
    ASSUME TypeOK, SequenceInv
    PROVE  /\ LastId \in 0..MaxTxn /\ sequence <= LastId
           /\ \A t \in Txns : Asked(t) => t <= LastId
<1>1. CASE sequence # None
  BY <1>1, BoundAssumption DEF LastId, SequenceInv, TypeOK, Txns, None
<1>2. CASE sequence = None
  <2> DEFINE S == {0} \cup KnownIds
  <2>1. S \subseteq 0..MaxTxn /\ S # {} /\ MaxTxn \in Nat
    BY BoundAssumption DEF KnownIds, Txns
  <2>2. LastId = Max(S)
    BY <1>2, Zenon DEF LastId
  <2>3. \A t \in Txns : Asked(t) => t \in S
    BY <1>2, Zenon DEF SequenceInv
  <2> HIDE DEF S
  <2>4. Max(S) \in S /\ \A x \in S : x <= Max(S)
    BY ZenonT(30), <2>1, MaxOfBounded
  <2>5. Max(S) \in 0..MaxTxn
    BY ZenonT(30), <2>1, <2>4
  <2> QED
    BY <1>2, <2>2, <2>3, <2>4, <2>5 DEF None
<1> QED
  BY ZenonT(40), <1>1, <1>2

(* allocate_dist_txn_id read the last id and chose the one after it.       *)
LEMMA ReadSequenceStep ==
    ASSUME DistInv, NEW r \in Routers, ReadSequence(r) PROVE DistInv'
<1> DEFINE st == [router[r] EXCEPT !.pc = "allocate", !.seen = sequence, !.txn = LastId + 1]
<1>0. UNCHANGED <<sequence, decision, store, batch, late, answer>>
  BY Zenon DEF ReadSequence
<1>1. CASE LastId = MaxTxn
  <2>1. Become(r, Idle)
    BY <1>1, Zenon DEF ReadSequence
  <2> QED
    BY Zenon, <1>0, <2>1, GiveUpStep
<1>2. CASE LastId # MaxTxn
  <2>1. Become(r, st) /\ router[r].pc = "read"
    BY <1>2, Zenon DEF ReadSequence
  <2>2. LastId \in 0..MaxTxn /\ sequence \in 0..MaxTxn /\ sequence <= LastId
        /\ \A t \in Txns : Asked(t) => t <= LastId
    BY LastIdBounds, Zenon DEF DistInv, TypeOK
  <2>3. LastId + 1 \in 0..MaxTxn
    BY <1>2, <2>2, BoundAssumption
  <2>4. st \in RouterState
    <3>1. router[r] \in RouterState
      BY ZenonT(40) DEF DistInv, TypeOK
    <3> HIDE DEF LastId
    <3> QED
      BY <3>1, <2>2, <2>3, ZenonT(30) DEF RouterState
  <2>5. /\ st.pc = "allocate" /\ st.seen = sequence /\ st.txn = LastId + 1
        /\ st.ops = router[r].ops /\ st.work = router[r].work
    BY DEF DistInv, TypeOK, RouterState
  <2>6. router[r].ops \in Batches /\ \A w \in router[r].work : decision[w[1]] = w[3]
    BY <2>1, ZenonT(40) DEF DistInv, SequenceInv, CoordinatorInv, CallInv
  <2> HIDE DEF st
  <2>7. router'[r] = st
    BY <2>1, <2>4, Becomes, Zenon DEF DistInv
  <2>8. \A t \in Txns : Asked(t)' => t < LastId + 1
    BY <1>0, <2>2, BoundAssumption DEF Asked, Txns
  <2>9. RouterSeq(r)'
    BY <1>0, <2>2, <2>5, <2>6, <2>7, <2>8 DEF RouterSeq
  <2> QED
    BY Zenon, <1>0, <2>1, <2>4, <2>5, <2>6, <2>9, MemoryStep
<1> QED
  BY Zenon, <1>1, <1>2

(* A new cluster, or one with records of the old format, satisfies the     *)
(* invariant.                                                              *)
LEMMA InitInv == Init => DistInv
<1> SUFFICES ASSUME Init PROVE DistInv
  BY Zenon
<1>1. PICK b \in [LegacyTxns -> Batches], on \in SUBSET Shards,
          d \in [LegacyTxns -> Decisions \cup {"none"}] :
          /\ \A t \in LegacyTxns : on \cap ShardsOf(b[t]) # {}
          /\ batch = [t \in Txns |-> IF t \in LegacyTxns THEN b[t] ELSE {}]
          /\ decision = [t \in Txns |-> IF t \in LegacyTxns THEN d[t] ELSE "none"]
          /\ prepared = [s \in Shards |-> [t \in Txns |->
                            IF t \in LegacyTxns /\ s \in on
                            THEN {k \in b[t] : Owner[k] = s} ELSE {}]]
  BY ZenonT(30) DEF Init
<1>2. /\ sequence = None
      /\ finished = [s \in Shards |-> [t \in Txns |-> "none"]]
      /\ locks = [k \in Keys |-> None]
      /\ format = [s \in Shards |-> FALSE]
      /\ value = [k \in Keys |-> 0]
      /\ late_ids = {} /\ late_prepares = {} /\ late_decisions = {} /\ late_finishes = {}
      /\ router = [r \in Routers |-> Idle]
      /\ answer = [t \in Txns |-> "none"]
  BY Zenon DEF Init
<1>3. Idle.pc = "idle" /\ Idle.work = {}
  BY Zenon DEF Idle
<1>4. \A r \in Routers : router[r].pc = "idle" /\ router[r].work = {} /\ ~Coordinating(r)
  BY <1>2, <1>3, Zenon DEF Coordinating
<1>5. LegacyTxns \subseteq Txns
  BY LegacyAssumption, Zenon DEF Txns
<1>6. \A t \in LegacyTxns : b[t] \in Batches /\ b[t] \subseteq Keys /\ b[t] # {}
  BY Zenon, BatchAssumption
<1>7. TypeOK
  <2>1. prepared \in [Shards -> [Txns -> SUBSET Keys]]
    BY Zenon, <1>1, <1>6
  <2>2. batch \in [Txns -> Batches \cup {{}}] /\ decision \in [Txns -> Decisions \cup {"none"}]
    BY Zenon, <1>1
  <2>3. router \in [Routers -> RouterState] /\ answer \in [Txns -> {"none", "Ok", "Conflict", "Err"}]
    BY Zenon, <1>2, IdleState
  <2>4. sequence \in 0..MaxTxn /\ locks \in [Keys -> 0..MaxTxn] /\ value \in [Keys -> 0..MaxTxn]
    BY <1>2, BoundAssumption DEF None
  <2>5. finished \in [Shards -> [Txns -> Decisions \cup {"none"}]] /\ format \in [Shards -> BOOLEAN]
    BY Zenon, <1>2
  <2> QED
    BY <1>2, <2>1, <2>2, <2>3, <2>4, <2>5 DEF TypeOK
<1>8. SequenceInv
  <2>1. \A t \in Txns : Asked(t) <=> t \in LegacyTxns
    BY <1>1, <1>5, <1>6, Zenon DEF Asked
  <2>2. ASSUME NEW t \in LegacyTxns PROVE t \in KnownIds
    <3>1. PICK s \in Shards : s \in on /\ s \in ShardsOf(b[t])
      BY Zenon, <1>1
    <3>2. PICK k \in b[t] : Owner[k] = s
      BY <3>1, Zenon DEF ShardsOf
    <3>3. prepared[s][t] = {j \in b[t] : Owner[j] = s}
      BY Zenon, <1>1, <1>5, <3>1
    <3>4. prepared[s][t] # {}
      BY Zenon, <3>2, <3>3
    <3> QED
      BY <1>5, <3>4, Zenon DEF KnownIds
  <2>3. KnownIds \subseteq LegacyTxns
    BY <1>1, <1>2, Zenon DEF KnownIds
  <2> QED
    BY <1>2, <1>4, <1>5, <2>1, <2>2, <2>3, Zenon DEF SequenceInv
<1>9. FreshIds
  BY <1>4, Zenon DEF FreshIds
<1>10. ShardInv
  <2>1. \A s \in Shards, t \in Txns : prepared[s][t] \in {{}, Group(t, s)}
    BY <1>1, Zenon DEF Group
  <2>2. \A s \in Shards, t \in Txns : t \notin LegacyTxns => prepared[s][t] = {}
    BY Zenon, <1>1
  <2> QED
    BY <1>2, <2>1, <2>2, Zenon DEF ShardInv
<1>11. CoordinatorInv
  <2>1. CommitInv
    BY <1>1, Zenon DEF CommitInv
  <2> QED
    BY <1>2, <1>4, <2>1, Zenon DEF CoordinatorInv, LateDecisionInv, CallInv
<1>12. AnswersAreTrue
  BY <1>2, Zenon DEF AnswersAreTrue
<1> QED
  BY <1>7, <1>8, <1>9, <1>10, <1>11, <1>12, Zenon DEF DistInv

(* A step that changes nothing keeps the invariant.                        *)
LEMMA StutterStep == ASSUME DistInv, UNCHANGED vars PROVE DistInv'
<1> USE DEF DistInv
<1>0. UNCHANGED <<sequence, decision, prepared, finished, locks, format, value, batch, late_ids,
                  late_prepares, late_decisions, late_finishes, router, answer>>
  BY Zenon DEF vars, store, late
<1>1. TypeOK'
  BY <1>0, ZenonT(40) DEF TypeOK
<1>2. ShardInv' /\ AnswersAreTrue'
  BY <1>0 DEF ShardInv, AnswersAreTrue, Group
<1>3. Keeps
  BY Zenon, <1>0, StoreKept
<1>4. CallInv'
  BY <1>0, Zenon DEF CoordinatorInv, CallInv, Asked
<1>5. \A q \in Routers : Coordinating(q)' = Coordinating(q)
  BY <1>0, Zenon DEF Coordinating
<1> HIDE DEF DistInv
<1> QED
  BY Zenon, <1>0, <1>1, <1>2, <1>3, <1>4, <1>5, QuietStep

(* The cases of a step, once for every proof that goes through them.       *)
LEMMA RouterSteps ==
    ASSUME DistInv, NEW r \in Routers,
           Propose(r) \/ Coordinate(r) \/ Recover(r) \/ RecoverStep(r) \/ Failure(r)
    PROVE  DistInv'
<1>1. CASE Propose(r)
  BY <1>1, ProposeStep, Zenon DEF Propose
<1>2. CASE Coordinate(r)
  BY Zenon, <1>2, ReadSequenceStep, AllocateStep, AllocateConflictStep, PrepareStep, DecideStep,
     FinishStep DEF Coordinate
<1>3. CASE Recover(r)
  BY Zenon, <1>3, RecoverBegins
<1>4. CASE RecoverStep(r)
  <2>1. CASE Recovered(r)
    BY <2>1, GiveUpStep, Zenon DEF Recovered
  <2> QED
    BY <1>4, <2>1, RecoverFinishStep, RecoverLocalStep, RecoverLocalFinishStep, Zenon DEF RecoverStep
<1>5. CASE Failure(r)
  <2>1. CASE Crash(r)
    BY <2>1, GiveUpStep, Zenon DEF Crash
  <2> QED
    BY Zenon, <1>5, <2>1, AllocateFailsStep, PrepareFailsStep, DecideFailsStep, FinishFailsStep,
       RecoverFinishFailsStep DEF Failure
<1> QED
  BY Zenon, <1>1, <1>2, <1>3, <1>4, <1>5

(* Whatever the order of calls, failures, crashes and late effects, ids    *)
(* are never reused, records and locks explain each other, and a Commit is *)
(* on its way only when every participant holds its record.                *)
THEOREM DistInvariance == Spec => []DistInv
<1>1. ASSUME DistInv, [Next]_vars PROVE DistInv'
  <2>1. CASE \E r \in Routers :
               Propose(r) \/ Coordinate(r) \/ Recover(r) \/ RecoverStep(r) \/ Failure(r)
    BY Zenon, <1>1, <2>1, RouterSteps
  <2>2. CASE \E k \in Keys : PlainWrite(k)
    BY Zenon, <1>1, <2>2, PlainWriteStep
  <2>3. CASE LateEffect
    BY <1>1, <2>3, LateIdStep, LatePrepareStep, LateDecisionStep, LateFinishStep, Zenon DEF LateEffect
  <2>4. CASE UNCHANGED vars
    BY Zenon, <1>1, <2>4, StutterStep
  <2> QED
    BY <1>1, <2>1, <2>2, <2>3, <2>4, Zenon DEF Next
<1> QED
  BY <1>1, InitInv, PTL DEF Spec

(* allocate_dist_txn_id: two batches in flight never share an id, and none *)
(* takes over the id of a legacy record.                                   *)
THEOREM IdsAreFresh == Spec => []FreshIds
<1>1. DistInv => FreshIds
  BY Zenon DEF DistInv
<1> QED
  BY <1>1, DistInvariance, PTL

(* No two shards finish a transaction differently: each finishes it as the *)
(* coordinator row says.                                                   *)
THEOREM ShardsAgree == Spec => []Agreement
<1>1. DistInv => Agreement
  BY DEF DistInv, ShardInv, Agreement
<1> QED
  BY <1>1, DistInvariance, PTL

(* Once one shard shows the rows of a batch, the rest of it is shown too,  *)
(* or locked.                                                              *)
THEOREM PartialBatchesAreLocked == Spec => []AllOrLocked
<1>1. ASSUME DistInv PROVE AllOrLocked
  <2> SUFFICES ASSUME NEW t \in Txns \ LegacyTxns, NEW s \in ShardsOf(batch[t]),
                      finished[s][t] = "Commit", NEW k \in batch[t]
               PROVE  locks[k] = t \/ finished[Owner[k]][t] = "Commit"
    BY Zenon DEF AllOrLocked
  <2>1. ShardsOf(batch[t]) \subseteq Shards
    BY <1>1, Participants, Zenon DEF DistInv
  <2>2. decision[t] = "Commit"
    BY <1>1, <2>1, ZenonT(40) DEF DistInv, ShardInv
  <2>3. Owner[k] \in ShardsOf(batch[t]) /\ Owner[k] \in Shards /\ k \in Group(t, Owner[k])
    BY <2>1, Zenon DEF ShardsOf, Group
  <2>4. prepared[Owner[k]][t] # {} \/ finished[Owner[k]][t] = "Commit"
    BY <1>1, <2>2, <2>3, Zenon DEF DistInv, CoordinatorInv, CommitInv
  <2>5. prepared[Owner[k]][t] # {} => k \in prepared[Owner[k]][t] /\ locks[k] = t
    BY <1>1, <2>3 DEF DistInv, ShardInv
  <2> QED
    BY Zenon, <2>4, <2>5
<1> QED
  BY <1>1, DistInvariance, PTL

(* propose_batch answers Ok only for a batch that every participant has    *)
(* applied, and Conflict only for one that can no longer commit.           *)
THEOREM AnswersHold == Spec => []AnswersAreTrue
<1>1. DistInv => AnswersAreTrue
  BY Zenon DEF DistInv
<1> QED
  BY <1>1, DistInvariance, PTL

-----------------------------------------------------------------------------
(* What steps do to rows, locks, decisions and batches.                    *)

Prepares == \E t \in Txns \ LegacyTxns : \E s \in ShardsOf(batch[t]) :
                ExecPrepare(s, t) /\ UNCHANGED <<batch, decision>>
Finishes == \E s \in Shards, t \in Txns, d \in Decisions :
                decision[t] = d /\ ExecFinish(s, t, d) /\ UNCHANGED <<batch, decision>>
Records == \E t \in Txns \ LegacyTxns, d \in Decisions :
                /\ decision[t] = "none" /\ (d = "Commit" => Promised(t)) /\ Record(t, d)
                /\ UNCHANGED <<locks, value, batch>>
Asks == \E t \in Txns, b \in Batches :
                /\ batch[t] = {} /\ batch' = [batch EXCEPT ![t] = b]
                /\ UNCHANGED <<locks, value, decision>>
Writes == \E k \in Keys : PlainWrite(k)

(* Every step is one of these, or leaves rows and decisions alone.         *)
LEMMA StepKinds ==
    ASSUME DistInv, [Next]_vars
    PROVE  Prepares \/ Finishes \/ Records \/ Asks \/ Writes
           \/ UNCHANGED <<locks, value, decision, batch>>
<1> DEFINE Quiet == UNCHANGED <<locks, value, decision, batch>>
<1> USE DEF DistInv
<1>1. ASSUME NEW r \in Routers, Propose(r) \/ Recover(r) PROVE Quiet
  BY <1>1, ZenonT(30) DEF Propose, ProposeBatch, Recover, store
<1>2. ASSUME NEW r \in Routers, ReadSequence(r) \/ AllocateConflict(r) PROVE Quiet
  BY <1>2, Zenon DEF ReadSequence, AllocateConflict, store
<1>3. ASSUME NEW r \in Routers, Allocate(r) PROVE Asks
  <2>1. /\ router[r].pc = "allocate" /\ sequence = router[r].seen
        /\ batch' = [batch EXCEPT ![router[r].txn] = router[r].ops]
        /\ UNCHANGED <<locks, value, decision>>
    BY <1>3, ZenonT(40) DEF Allocate, store
  <2>2. /\ router[r].ops \in Batches /\ sequence < router[r].txn
        /\ \A t \in Txns : Asked(t) => t < router[r].txn
    BY <2>1, ZenonT(40) DEF SequenceInv
  <2>3. router[r].txn \in Txns
    BY <2>1, <2>2, BoundAssumption, SMTT(30) DEF TypeOK, RouterState, Txns
  <2>4. ~Asked(router[r].txn)
    <3>1. ~(router[r].txn < router[r].txn)
      BY <2>3, BoundAssumption DEF Txns
    <3> QED
      BY Zenon, <2>2, <2>3, <3>1
  <2> QED
    BY <2>1, <2>2, <2>3, <2>4, ZenonT(30) DEF Asks, Asked
<1>4. ASSUME NEW r \in Routers, Prepare(r) PROVE Prepares
  <2>1. PICK s \in Shards :
          /\ router[r].pc = "prepare" /\ s \in router[r].todo /\ ExecPrepare(s, router[r].txn)
          /\ UNCHANGED <<batch, decision>>
    BY <1>4, Zenon DEF Prepare, IsFirst
  <2>2. router[r].txn \in Txns \ LegacyTxns /\ s \in ShardsOf(batch[router[r].txn])
    BY <2>1, ZenonT(40) DEF CoordinatorInv, Coordinating, RouterInv
  <2> QED
    BY <2>1, <2>2, Zenon DEF Prepares
<1>5. ASSUME NEW r \in Routers, Decide(r) PROVE Records
  <2>1. /\ router[r].pc = "decide" /\ Record(router[r].txn, router[r].verdict)
        /\ UNCHANGED <<locks, value, batch>>
    BY <1>5, Zenon DEF Decide, store
  <2>2. /\ router[r].txn \in Txns \ LegacyTxns /\ decision[router[r].txn] = "none"
        /\ router[r].verdict = "Commit" => Promised(router[r].txn)
    BY <2>1, ZenonT(40) DEF CoordinatorInv, Coordinating, RouterInv, Undecided
  <2>3. router[r].verdict \in Decisions
    BY Zenon DEF TypeOK, RouterState
  <2> QED
    BY <2>1, <2>2, <2>3, Zenon DEF Records
<1>6. ASSUME NEW r \in Routers, Finish(r) PROVE Finishes
  <2>1. PICK s \in Shards :
          /\ router[r].pc = "finish" /\ ExecFinish(s, router[r].txn, router[r].verdict)
          /\ UNCHANGED <<batch, decision>>
    BY <1>6, Zenon DEF Finish
  <2>2. router[r].txn \in Txns /\ decision[router[r].txn] = router[r].verdict
    BY <2>1, Zenon DEF CoordinatorInv, Coordinating, RouterInv
  <2>3. router[r].verdict \in Decisions
    BY Zenon DEF TypeOK, RouterState
  <2> QED
    BY <2>1, <2>2, <2>3, Zenon DEF Finishes
<1>7. ASSUME NEW r \in Routers, RecoverFinish(r) PROVE Finishes
  <2>1. PICK w \in router[r].work :
          ExecFinish(w[2], w[1], w[3]) /\ UNCHANGED <<batch, decision>>
    BY <1>7, ZenonT(40) DEF RecoverFinish
  <2>2. router[r].work \subseteq Txns \X Shards \X Decisions
    BY Zenon DEF TypeOK, RouterState
  <2>3. w[1] \in Txns /\ w[2] \in Shards /\ w[3] \in Decisions /\ decision[w[1]] = w[3]
    BY <2>2, Zenon DEF CoordinatorInv, CallInv
  <2> QED
    BY <2>1, <2>3, Zenon DEF Finishes
<1>8. ASSUME NEW r \in Routers, RecoverLocal(r) \/ Recovered(r) PROVE Quiet
  BY <1>8, Zenon DEF RecoverLocal, Recovered, store
<1>9. ASSUME NEW r \in Routers, RecoverLocalFinish(r) PROVE Finishes \/ Quiet
  <2>1. PICK t \in router[r].local :
          /\ IF decision[t] = "none" THEN UNCHANGED store ELSE ExecFinish(Global, t, decision[t])
          /\ UNCHANGED <<batch, decision>>
    BY <1>9, Zenon DEF RecoverLocalFinish
  <2>2. t \in Txns
    BY ZenonT(40) DEF TypeOK, RouterState
  <2>3. decision[t] # "none" => decision[t] \in Decisions
    BY <2>2, ZenonT(40) DEF TypeOK
  <2> QED
    BY <2>1, <2>2, <2>3, ShardAssumption, Zenon DEF Finishes, store
<1>10. ASSUME NEW r \in Routers, Failure(r) PROVE Quiet
  BY <1>10, ZenonT(30) DEF Failure, AllocateFails, PrepareFails, DecideFails, FinishFails,
     RecoverFinishFails, Crash, store
<1>11. ASSUME LateEffect PROVE Prepares \/ Finishes \/ Records \/ Quiet
  <2>1. CASE LateId
    BY <2>1, Zenon DEF LateId, store
  <2>2. CASE LatePrepare
    <3>1. PICK c \in late_prepares : ExecPrepare(c[2], c[1]) /\ UNCHANGED <<batch, decision>>
      BY <2>2, ZenonT(40) DEF LatePrepare
    <3>2. c[1] \in Txns \ LegacyTxns /\ c[2] \in ShardsOf(batch[c[1]])
      BY Zenon DEF TypeOK, CoordinatorInv, CallInv
    <3> QED
      BY <3>1, <3>2, Zenon DEF Prepares
  <2>3. CASE LateDecision
    <3>1. PICK c \in late_decisions : Record(c[1], c[2]) /\ UNCHANGED <<locks, value, batch>>
      BY <2>3, ZenonT(40) DEF LateDecision, store
    <3>2. c = <<c[1], c[2]>> /\ c[1] \in Txns /\ c[2] \in Decisions
      BY DEF TypeOK
    <3>3. c[1] \notin LegacyTxns /\ decision[c[1]] = "none" /\ (c[2] = "Commit" => Promised(c[1]))
      BY <3>2, ZenonT(40) DEF CoordinatorInv, LateDecisionInv
    <3> QED
      BY <3>1, <3>2, <3>3, Zenon DEF Records
  <2>4. CASE LateFinish
    <3>1. PICK c \in late_finishes : ExecFinish(c[2], c[1], c[3]) /\ UNCHANGED <<batch, decision>>
      BY <2>4, Zenon DEF LateFinish
    <3>2. c[1] \in Txns /\ c[2] \in Shards /\ c[3] \in Decisions /\ decision[c[1]] = c[3]
      BY Zenon DEF TypeOK, CoordinatorInv, CallInv
    <3> QED
      BY <3>1, <3>2, Zenon DEF Finishes
  <2> QED
    BY <1>11, <2>1, <2>2, <2>3, <2>4, Zenon DEF LateEffect
<1>12. CASE UNCHANGED vars
  BY <1>12, Zenon DEF vars, store
<1> QED
  BY SMTT(30), <1>1, <1>2, <1>3, <1>4, <1>5, <1>6, <1>7, <1>8, <1>9, <1>10, <1>11, <1>12
  DEF Next, Coordinate, RecoverStep, Writes

(* While a transaction holds the lock of a key nobody changes the row, so  *)
(* no acknowledged write is lost under a commit.                           *)
THEOREM LockedRowsAreFrozen == Spec => LockedRowsStay
<1>1. ASSUME DistInv, [Next]_vars, NEW k \in Keys, locks[k] # None, locks'[k] = locks[k]
      PROVE  value'[k] = value[k]
  <2>1. CASE Prepares
    <3>1. PICK t \in Txns \ LegacyTxns : \E s \in ShardsOf(batch[t]) :
              ExecPrepare(s, t) /\ UNCHANGED <<batch, decision>>
      BY <2>1, Zenon DEF Prepares
    <3>2. ShardsOf(batch[t]) \subseteq Shards
      BY <1>1, Participants, Zenon DEF DistInv
    <3> QED
      BY <1>1, <3>1, <3>2, PrepareEffect, Zenon DEF DistInv
  <2>2. CASE Finishes
    <3>1. PICK s \in Shards, t \in Txns, d \in Decisions :
              decision[t] = d /\ ExecFinish(s, t, d) /\ UNCHANGED <<batch, decision>>
      BY <2>2, Zenon DEF Finishes
    <3>2. value'[k] # value[k] => locks'[k] = None
      BY <1>1, <3>1, FinishEffect, Zenon DEF DistInv
    <3> QED
      BY Zenon, <1>1, <3>2
  <2>3. CASE Writes
    BY <1>1, <2>3, ZenonT(40) DEF Writes, PlainWrite, Refused, DistInv, TypeOK
  <2> QED
    BY <1>1, <2>1, <2>2, <2>3, StepKinds, Zenon DEF Records, Asks
<1>2. DistInv /\ [Next]_vars =>
        [\A k \in Keys : locks[k] # None /\ locks'[k] = locks[k] => value'[k] = value[k]]_vars
  BY Zenon, <1>1
<1> QED
  BY <1>2, DistInvariance, PTL DEF Spec, LockedRowsStay

(* The three variables of AtomicBatches.                                   *)
Rows == [k \in Keys |-> Shown(k)]
Done == {t \in Txns \ LegacyTxns : decision[t] = "Commit"}

(* A promise to commit is a lock on every key of the batch, and no other.  *)
LEMMA PromisesAreLocks ==
    ASSUME DistInv, NEW t \in Txns \ LegacyTxns, Promised(t), NEW k \in Keys
    PROVE  (locks[k] = t) = (k \in batch[t])
<1>1. ASSUME k \in batch[t] PROVE locks[k] = t
  <2>1. Owner[k] \in ShardsOf(batch[t]) /\ Owner[k] \in Shards /\ k \in Group(t, Owner[k])
    BY <1>1, OwnerAssumption, ZenonT(40) DEF ShardsOf, Group
  <2>2. prepared[Owner[k]][t] = Group(t, Owner[k])
    BY <2>1 DEF Promised, DistInv, ShardInv
  <2> QED
    BY <2>1, <2>2 DEF DistInv, ShardInv
<1>2. ASSUME locks[k] = t PROVE k \in batch[t]
  <2>1. Owner[k] \in Shards /\ t # None
    BY Zenon, OwnerAssumption, Ids
  <2>2. k \in prepared[Owner[k]][t]
    BY <1>2, <2>1, Zenon DEF DistInv, ShardInv
  <2>3. prepared[Owner[k]][t] \subseteq Group(t, Owner[k])
    BY <2>1 DEF DistInv, ShardInv
  <2> QED
    BY <2>2, <2>3, Zenon DEF Group
<1> QED
  BY <1>1, <1>2

(* Recording a decision shows the batch, or nothing.                       *)
LEMMA RecordShows ==
    ASSUME DistInv, Records
    PROVE  \/ UNCHANGED <<Rows, batch, Done>>
           \/ \E t \in Txns : Atomic!WriteBatch(t)
<1>1. PICK t \in Txns \ LegacyTxns, d \in Decisions :
          /\ decision[t] = "none" /\ (d = "Commit" => Promised(t)) /\ Record(t, d)
          /\ UNCHANGED <<locks, value, batch>>
  BY Zenon DEF Records
<1>2. /\ \A x \in Txns : decision'[x] = IF x = t THEN d ELSE decision[x]
      /\ \A k \in Keys : locks[k] # None => locks[k] \in Txns
  BY <1>1, BoundAssumption DEF Record, DistInv, TypeOK, Txns, None
<1>3. CASE d = "Commit"
  <2>1. \A k \in Keys : Shown(k)' = IF k \in batch[t] THEN t ELSE Shown(k)
    <3> SUFFICES ASSUME NEW k \in Keys PROVE Shown(k)' = IF k \in batch[t] THEN t ELSE Shown(k)
      BY Zenon
    <3>1. (locks[k] = t) = (k \in batch[t])
      BY Zenon, <1>1, <1>3, PromisesAreLocks
    <3> QED
      BY <1>1, <1>2, <1>3, <3>1, Ids, ZenonT(30) DEF Shown
  <2>2. Rows' = [k \in Keys |-> IF k \in batch[t] THEN t ELSE Rows[k]]
    BY <2>1, Zenon DEF Rows
  <2>3. Done' = Done \cup {t} /\ t \notin Done
    BY <1>1, <1>2, <1>3, Zenon DEF Done
  <2> QED
    BY <1>1, <2>2, <2>3, Zenon DEF Atomic!WriteBatch, Rows, Done
<1>4. CASE d # "Commit"
  <2>1. \A k \in Keys : Shown(k)' = Shown(k)
    BY <1>1, <1>2, <1>4, Zenon DEF Shown
  <2>2. Rows' = Rows
    BY <2>1, Zenon DEF Rows
  <2>3. Done' = Done
    BY <1>1, <1>2, <1>4, Zenon DEF Done
  <2> QED
    BY Zenon, <1>1, <2>2, <2>3
<1> QED
  BY Zenon, <1>3, <1>4

(* Preparing takes locks of a batch that is not decided to commit, so no   *)
(* row changes for readers.                                                *)
LEMMA PrepareHides ==
    ASSUME DistInv, Prepares PROVE UNCHANGED <<Rows, batch, Done>>
<1>1. PICK t \in Txns \ LegacyTxns : \E s \in ShardsOf(batch[t]) :
          ExecPrepare(s, t) /\ UNCHANGED <<batch, decision>>
  BY Zenon DEF Prepares
<1>2. PICK s \in ShardsOf(batch[t]) : ExecPrepare(s, t) /\ UNCHANGED <<batch, decision>>
  BY Zenon, <1>1
<1>3. s \in Shards
  BY Participants, Zenon DEF DistInv
<1>4. /\ UNCHANGED value
      /\ \A k \in Keys : locks'[k] # locks[k] =>
            locks[k] = None /\ locks'[k] = t /\ finished[s][t] = "none" /\ prepared[s][t] = {}
  BY <1>2, <1>3, PrepareEffect DEF DistInv
<1>5. finished[s][t] = "none" /\ prepared[s][t] = {} => decision[t] # "Commit"
  BY Zenon DEF DistInv, CoordinatorInv, CommitInv
<1>6. \A k \in Keys : Shown(k)' = Shown(k)
  BY <1>2, <1>4, <1>5, Zenon DEF Shown
<1> QED
  BY <1>2, <1>6, Zenon DEF Rows, Done

(* Finishing replaces a lock by the rows it stood for.                     *)
LEMMA FinishKeepsRows ==
    ASSUME DistInv, Finishes PROVE UNCHANGED <<Rows, batch, Done>>
<1>1. PICK s \in Shards, t \in Txns, d \in Decisions :
          decision[t] = d /\ ExecFinish(s, t, d) /\ UNCHANGED <<batch, decision>>
  BY Zenon DEF Finishes
<1>2. /\ \A k \in Keys : locks'[k] # locks[k] =>
            locks[k] = t /\ locks'[k] = None /\ value'[k] = IF d = "Commit" THEN t ELSE value[k]
      /\ \A k \in Keys : value'[k] # value[k] =>
            d = "Commit" /\ value'[k] = t /\ locks[k] = t /\ locks'[k] = None
  <2>1. TypeOK /\ ShardInv
    BY Zenon DEF DistInv
  <2> QED
    BY <1>1, <2>1, FinishEffect
<1>3. t # None
  BY Zenon, Ids
<1>4. \A k \in Keys : Shown(k)' = Shown(k)
  BY <1>1, <1>2, <1>3, Zenon DEF Shown
<1> QED
  BY <1>1, <1>4, Zenon DEF Rows, Done

(* A batch over several shards is written at the instant its decision is   *)
(* recorded: the rest of the protocol, its failures and its recovery       *)
(* change nothing a reader can see.                                        *)
THEOREM BatchesTakeEffectAtOnce == Spec => BatchesAreAtomic
<1>1. ASSUME Init, DistInv PROVE Atomic!Init
  <2>1. /\ locks = [k \in Keys |-> None] /\ value = [k \in Keys |-> 0]
        /\ \A t \in Txns \ LegacyTxns : decision[t] = "none"
    BY <1>1, Zenon DEF Init
  <2>2. \A k \in Keys : Shown(k) = 0
    BY <2>1, Zenon DEF Shown
  <2>3. batch \in [Txns -> Batches \cup {{}}]
    BY <1>1, Zenon DEF DistInv, TypeOK
  <2> QED
    BY <2>1, <2>2, <2>3, Zenon DEF Atomic!Init
<1>2. ASSUME DistInv, [Next]_vars PROVE Atomic!Next \/ UNCHANGED <<Rows, batch, Done>>
  <2>1. CASE Prepares
    BY Zenon, <1>2, <2>1, PrepareHides
  <2>2. CASE Finishes
    BY Zenon, <1>2, <2>2, FinishKeepsRows
  <2>3. CASE Records
    BY <1>2, <2>3, RecordShows, Zenon DEF Atomic!Next
  <2>4. CASE Asks
    <3>1. PICK t \in Txns, b \in Batches :
            /\ batch[t] = {} /\ batch' = [batch EXCEPT ![t] = b]
            /\ UNCHANGED <<locks, value, decision>>
      BY <2>4, ZenonT(30) DEF Asks
    <3>2. UNCHANGED <<Rows, Done>>
      BY <3>1, Zenon DEF Rows, Done, Shown
    <3>3. Atomic!Ask(t)
      BY <3>1, <3>2, ZenonT(30) DEF Atomic!Ask, Rows, Done
    <3> QED
      BY <3>3, Zenon DEF Atomic!Next
  <2>5. CASE Writes
    <3>1. PICK k \in Keys : PlainWrite(k)
      BY <2>5, Zenon DEF Writes
    <3>2. locks[k] = None /\ value' = [value EXCEPT ![k] = 0] /\ UNCHANGED <<locks, decision, batch>>
      BY <3>1, Zenon DEF PlainWrite, Refused
    <3>3. \A j \in Keys : Shown(j)' = IF j = k THEN 0 ELSE Shown(j)
      BY <1>2, <3>2, ZenonT(40) DEF Shown, DistInv, TypeOK
    <3>4. Rows' = [Rows EXCEPT ![k] = 0]
      BY <3>3, ZenonT(30) DEF Rows
    <3>5. UNCHANGED <<batch, Done>>
      BY <3>2, Zenon DEF Done
    <3>6. Atomic!Write(k)
      BY <3>4, <3>5, Zenon DEF Atomic!Write, Rows, Done
    <3> QED
      BY <3>6, Zenon DEF Atomic!Next
  <2>6. CASE UNCHANGED <<locks, value, decision, batch>>
    BY <2>6, Zenon DEF Rows, Done, Shown
  <2> QED
    BY Zenon, <1>2, <2>1, <2>2, <2>3, <2>4, <2>5, <2>6, StepKinds
<1>3. DistInv /\ [Next]_vars =>
        [Atomic!Next]_<<[k \in Keys |-> Shown(k)], batch,
                        {t \in Txns \ LegacyTxns : decision[t] = "Commit"}>>
  BY <1>2, Zenon DEF Rows, Done
<1> QED
  BY <1>1, <1>3, InitInv, DistInvariance, PTL DEF Spec, BatchesAreAtomic, Atomic!Spec
=============================================================================
