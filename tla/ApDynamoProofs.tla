--------------------------- MODULE ApDynamoProofs ---------------------------
(***************************************************************************)
(* Leaderless replication: the inductive invariant of ApDynamo, lemmas on  *)
(* clocks, merges, batches and quorums, type correctness step by step,     *)
(* what a step leaves alone, that every step keeps the invariant, and the  *)
(* theorems that follow.                                                   *)
(***************************************************************************)
EXTENDS ApDynamo, Extrema, FiniteSetTheorems, TLAPS

\* The siblings of a key: no version replaces another.
Antichain(vs) == \A v, w \in vs : ~Before(v, w)

\* No version is ahead of the persisted counters of its writers.
Known(v) == \A n \in Nodes : v[n] <= node_clock[n]
Sound(vs) == (\A v \in vs : Known(v)) /\ Antichain(vs)

\* The same of every key of a batch.
SoundBatch(writes) == \A k \in Keys : Sound(Of(writes, k))

\* Node n has every write of a batch, or something newer.
Reaches(n, writes) == \A w \in writes : Covers(versions[n][w[1]], w[2])

\* One region, or none configured, and batches of one key: every coordinator
\* then counts acknowledgements over the same replicas.
Uniform == /\ \A m, n \in Nodes : Region[m] = Region[n]
           /\ \A ks \in Batches : \E k \in Keys : ks = {k}

\* Replicas that have write w and have not yet answered the read of t.
Unheard(t, w) == {n \in Preference[Home[t]][w[1]] :
                     replies[t][n] = NoReply /\ Covers(versions[n][w[1]], w[2])}

\* While t sends: who acknowledged has the batch, and is a replica.
SendingInv(t) ==
    /\ \A n \in acks[t] : Reaches(n, batch[t])
    /\ Uniform => \E k \in Keys :
          /\ \A w \in batch[t] : w[1] = k
          /\ targets[t] \cup acks[t] \subseteq Preference[Home[t]][k]

\* While t reads: each write it must see has been merged already or is held by
\* more silent replicas than the read can do without.
ReadingInv(t) ==
    /\ call[t] \in {"eventual", "siblings"} => must[t] = {}
    /\ call[t] # "range" => \E k \in Keys :
          rkeys[t] = {k} /\ targets[t] \cup Answered(t) \subseteq Preference[Home[t]][k]
    /\ \A w \in must[t] :
          /\ w[1] \in rkeys[t]
          /\ Uniform => \/ Covers(merged[t][w[1]], w[2])
                        \/ Cardinality(Unheard(t, w)) >= Required(DefaultWrite)

\* What holds of the call of one thread.
ThreadInv(t) ==
    /\ SoundBatch(batch[t])
    /\ \A h \in queue[t] : SoundBatch(h[2])
    /\ \A k \in Keys : Sound(merged[t][k])
    /\ pc[t] # "reading" => \A n \in Nodes : replies[t][n] = NoReply
    /\ pc[t] = "sending" => SendingInv(t)
    /\ pc[t] = "reading" => ReadingInv(t)
    /\ pc[t] = "resolving" => \E k \in Keys : rkeys[t] = {k}
    /\ pc[t] = "repairing" =>
          \A w \in must[t] : Uniform => Covers(merged[t][w[1]], w[2])

\* What holds of the tables of the nodes.
StoreInv ==
    /\ \A n \in Nodes, k \in Keys : Sound(versions[n][k])
    /\ \A n \in Nodes : \A h \in hints[n] : SoundBatch(h[2])
    /\ \A m \in net : SoundBatch(m[2])
    /\ \A w \in issued : Known(w[2])

\* The inductive invariant.
ApInv == /\ TypeOK /\ StoreInv /\ HintsReachTargets
         /\ Uniform => AckedOnQuorum
         /\ \A t \in Threads : ThreadInv(t)

\* VectorClock::compare is a partial order.
LEMMA ClockOrder ==
    /\ \A v \in Clock : Leq(v, v)
    /\ \A v, w \in Clock : Leq(v, w) /\ Leq(w, v) => v = w
    /\ \A u, v, w \in Clock : Leq(u, v) /\ Leq(v, w) => Leq(u, w)
<1>1. \A v \in Clock : Leq(v, v)
  BY BoundAssumption DEF Clock, Leq
<1>2. ASSUME NEW v \in Clock, NEW w \in Clock, Leq(v, w), Leq(w, v) PROVE v = w
  <2>1. \A n \in Nodes : v[n] \in Int /\ w[n] \in Int
    BY BoundAssumption DEF Clock
  <2>2. \A n \in Nodes : v[n] = w[n]
    BY <1>2, <2>1 DEF Leq
  <2> QED
    BY <2>2 DEF Clock
<1>3. ASSUME NEW u \in Clock, NEW v \in Clock, NEW w \in Clock, Leq(u, v), Leq(v, w)
      PROVE  Leq(u, w)
  <2>1. \A n \in Nodes : u[n] \in Int /\ v[n] \in Int /\ w[n] \in Int
    BY BoundAssumption DEF Clock
  <2> QED
    BY <1>3, <2>1 DEF Leq
<1> QED
  BY Zenon, <1>1, <1>2, <1>3

\* merge_one_version makes nothing up.
LEMMA MergeTakes == \A E, I : Merge(E, I) \subseteq E \cup I
  BY Zenon DEF Merge

\* merge_one_version over concurrent siblings: the result holds nothing new, no
\* version replaces another, everything covered stays covered, and nothing that
\* was replaced comes back.
LEMMA MergeFacts ==
    ASSUME NEW E \in SUBSET Clock, NEW I \in SUBSET Clock, Antichain(E), Antichain(I)
    PROVE  /\ Merge(E, I) \in SUBSET Clock
           /\ Merge(E, I) \subseteq E \cup I
           /\ Antichain(Merge(E, I))
           /\ \A v \in Clock : Covers(E, v) \/ Covers(I, v) => Covers(Merge(E, I), v)
           /\ \A v \in E, w \in Merge(E, I) : ~Before(w, v)
<1> DEFINE M == Merge(E, I)
<1>1. M \subseteq E \cup I
  BY Zenon DEF Merge
<1>2. ASSUME NEW v \in M, NEW w \in M PROVE ~Before(v, w)
  <2>1. CASE v \in E /\ w \in E
    BY <2>1, Zenon DEF Antichain
  <2>2. CASE v \in I /\ w \in I
    BY <2>2, Zenon DEF Antichain
  <2>3. CASE v \in E /\ w \in I /\ w \notin E
    BY <2>3, <1>2, Zenon DEF Merge, Covers, Before, Antichain
  <2>4. CASE v \in I /\ w \in E /\ v \notin E
    BY <2>4, <1>2, Zenon DEF Merge, Covers, Before
  <2> QED
    BY Zenon, <1>1, <2>1, <2>2, <2>3, <2>4
<1>3. ASSUME NEW v \in Clock, Covers(E, v) PROVE Covers(M, v)
  <2>1. PICK e \in E : Leq(v, e)
    BY <1>3, Zenon DEF Covers
  <2>2. CASE \A w \in I : ~Before(e, w)
    BY <2>1, <2>2, Zenon DEF Merge, Covers
  <2>3. CASE \E w \in I : Before(e, w)
    <3>1. PICK w \in I : Before(e, w)
      BY Zenon, <2>3
    <3>2. ~Covers(E, w)
      <4>1. ASSUME NEW x \in E, Leq(w, x) PROVE FALSE
        <5>1. Leq(e, x) /\ ~Before(e, x)
          BY <3>1, <4>1, ClockOrder, Zenon DEF Before, Antichain
        <5>2. e = x
          BY <5>1, Zenon DEF Before
        <5> QED
          BY <3>1, <4>1, <5>2, ClockOrder, Zenon DEF Before
      <4> QED
        BY <4>1, Zenon DEF Covers
    <3>3. w \in M /\ Leq(v, w)
      BY <2>1, <3>1, <3>2, ClockOrder, Zenon DEF Merge, Before
    <3> QED
      BY <3>3, Zenon DEF Covers
  <2> QED
    BY Zenon, <2>2, <2>3
<1>4. ASSUME NEW v \in Clock, Covers(I, v) PROVE Covers(M, v)
  <2>1. PICK w \in I : Leq(v, w)
    BY <1>4, Zenon DEF Covers
  <2>2. CASE ~Covers(E, w)
    BY <2>1, <2>2, Zenon DEF Merge, Covers
  <2>3. CASE Covers(E, w)
    <3>1. Covers(M, w)
      BY Zenon, <2>3, <1>3
    <3>2. PICK x \in M : Leq(w, x)
      BY <3>1, Zenon DEF Covers
    <3>3. x \in Clock
      BY Zenon, <1>1
    <3> QED
      BY <2>1, <3>2, <3>3, ClockOrder, Zenon DEF Covers
  <2> QED
    BY Zenon, <2>2, <2>3
<1>5. ASSUME NEW v \in E, NEW w \in M PROVE ~Before(w, v)
  <2>1. CASE w \in E
    BY <2>1, Zenon DEF Antichain
  <2>2. CASE w \notin E
    BY <2>2, Zenon DEF Merge, Covers, Before
  <2> QED
    BY Zenon, <2>1, <2>2
<1> QED
  BY <1>1, <1>2, <1>3, <1>4, <1>5, Zenon DEF Antichain

\* preference_list gives nodes.
LEMMA PreferenceType == Preference \in [Nodes -> [Keys -> SUBSET Nodes]]
  BY Zenon DEF Preference

\* In this step no node forgets a version that nothing newer replaces.
Advance == \A n \in Nodes, k \in Keys : \A v \in Clock :
               Covers(versions[n][k], v) => Covers(versions'[n][k], v)

\* The versions of one key in a batch.
LEMMA OfFacts ==
    ASSUME NEW W \in SUBSET Write, NEW k
    PROVE  /\ Of(W, k) \in SUBSET Clock
           /\ \A w \in W : w[1] = k => w[2] \in Of(W, k)
  BY Zenon DEF Of, Write

\* apply_versioned_writes keeps siblings concurrent and known, forgets nothing,
\* takes the whole batch and brings nothing old back.
LEMMA ApplyFacts ==
    ASSUME TypeOK, StoreInv, NEW n \in Nodes, NEW W \in SUBSET Write, SoundBatch(W), Apply(n, W)
    PROVE  /\ versions' \in [Nodes -> [Keys -> SUBSET Clock]]
           /\ \A m \in Nodes, k \in Keys : /\ Antichain(versions'[m][k])
                                           /\ \A v \in versions'[m][k] : Known(v)
           /\ Advance
           /\ \A w \in W : Covers(versions'[n][w[1]], w[2])
           /\ \A m \in Nodes, k \in Keys : \A v \in versions[m][k], w \in versions'[m][k] :
                 ~Before(w, v)
<1>1. versions \in [Nodes -> [Keys -> SUBSET Clock]]
  BY Zenon DEF TypeOK, StoreType
<1>2. \A k \in Keys : versions'[n][k] = Merge(versions[n][k], Of(W, k))
  BY <1>1, Zenon DEF Apply
<1>3. \A m \in Nodes \ {n} : versions'[m] = versions[m]
  BY <1>1, Zenon DEF Apply
<1>4. \A m \in Nodes, k \in Keys : Sound(versions[m][k])
  BY Zenon DEF StoreInv
<1>5. \A k \in Keys : Sound(Of(W, k))
  BY Zenon DEF SoundBatch
<1>6. \A k \in Keys :
         /\ versions'[n][k] \in SUBSET Clock
         /\ versions'[n][k] \subseteq versions[n][k] \cup Of(W, k)
         /\ Antichain(versions'[n][k])
         /\ \A v \in Clock : Covers(versions[n][k], v) \/ Covers(Of(W, k), v)
                => Covers(versions'[n][k], v)
         /\ \A v \in versions[n][k], w \in versions'[n][k] : ~Before(w, v)
  <2> SUFFICES ASSUME NEW k \in Keys
               PROVE  /\ versions'[n][k] \in SUBSET Clock
                      /\ versions'[n][k] \subseteq versions[n][k] \cup Of(W, k)
                      /\ Antichain(versions'[n][k])
                      /\ \A v \in Clock : Covers(versions[n][k], v) \/ Covers(Of(W, k), v)
                             => Covers(versions'[n][k], v)
                      /\ \A v \in versions[n][k], w \in versions'[n][k] : ~Before(w, v)
    BY Zenon
  <2>1. versions[n][k] \in SUBSET Clock /\ Antichain(versions[n][k])
    BY <1>1, <1>4, Zenon DEF Sound
  <2>2. Of(W, k) \in SUBSET Clock /\ Antichain(Of(W, k))
    BY <1>5, OfFacts, Zenon DEF Sound
  <2> QED
    BY <1>2, <2>1, <2>2, MergeFacts
<1>7. versions' \in [Nodes -> [Keys -> SUBSET Clock]]
  <2>1. versions' = [versions EXCEPT ![n] = [k \in Keys |-> Merge(versions[n][k], Of(W, k))]]
    BY Zenon DEF Apply
  <2>2. [k \in Keys |-> Merge(versions[n][k], Of(W, k))] \in [Keys -> SUBSET Clock]
    BY Zenon, <1>2, <1>6
  <2> QED
    BY Zenon, <1>1, <2>1, <2>2
<1>8. \A m \in Nodes, k \in Keys : /\ Antichain(versions'[m][k])
                                   /\ \A v \in versions'[m][k] : Known(v)
  BY <1>3, <1>4, <1>5, <1>6, Zenon DEF Sound
<1>9. Advance
  BY <1>3, <1>6, Zenon DEF Advance
<1>10. ASSUME NEW w \in W PROVE Covers(versions'[n][w[1]], w[2])
  <2>1. w[1] \in Keys /\ w[2] \in Clock /\ w[2] \in Of(W, w[1])
    BY OfFacts, Zenon DEF Write
  <2>2. Covers(Of(W, w[1]), w[2])
    BY <2>1, ClockOrder, Zenon DEF Covers
  <2> QED
    BY Zenon, <1>6, <2>1, <2>2
<1>11. \A m \in Nodes, k \in Keys : \A v \in versions[m][k], w \in versions'[m][k] : ~Before(w, v)
  BY <1>3, <1>4, <1>6, Zenon DEF Sound, Antichain
<1> QED
  BY Zenon, <1>7, <1>8, <1>9, <1>10, <1>11

\* VectorClock::merged of known versions is known.
LEMMA JoinFacts ==
    ASSUME TypeOK, NEW vs \in SUBSET Clock, \A v \in vs : Known(v)
    PROVE  Join(vs) \in Clock /\ Known(Join(vs))
<1>1. ASSUME NEW n \in Nodes
      PROVE  /\ Max({0} \cup {v[n] : v \in vs}) \in 0..MaxClock
             /\ Max({0} \cup {v[n] : v \in vs}) <= node_clock[n]
  <2> DEFINE S == {0} \cup {v[n] : v \in vs}
  <2>1. S \subseteq 0..MaxClock /\ S # {}
    BY BoundAssumption DEF Clock
  <2>2. \A x \in S : x <= node_clock[n]
    BY BoundAssumption DEF TypeOK, StoreType, Known
  <2>3. MaxClock \in Nat
    BY Zenon, BoundAssumption
  <2> HIDE DEF S
  <2>4. Max(S) \in S
    BY Zenon, <2>1, <2>3, MaxOfBounded
  <2> QED
    BY <2>1, <2>2, <2>4, Zenon DEF S
<1> QED
  BY <1>1, Zenon DEF Join, Clock, Known

\* A batch of one write per key, within the counters.
Stamped(W, ks, clocks) ==
    /\ \A w \in W : w[1] \in ks /\ \A n \in Nodes : w[2][n] <= clocks[n]
    /\ \A w, x \in W : w[1] = x[1] => w = x

\* build_writes and reserve_write_clocks give one write per key whose clock was
\* never issued before, and only raise the counter of the node.
LEMMA BuildFacts ==
    ASSUME TypeOK, StoreInv, NEW t \in Threads, NEW ks \in SUBSET Keys, NEW parents,
           \A k \in ks : parents[k] \in Clock /\ Known(parents[k]),
           Build(t, ks, parents)
    PROVE  /\ node_clock' \in [Nodes -> 0..MaxClock]
           /\ \A n \in Nodes : node_clock[n] <= node_clock'[n]
           /\ batch' = [batch EXCEPT ![t] = batch'[t]]
           /\ batch'[t] \in SUBSET Write
           /\ Stamped(batch'[t], ks, node_clock')
           /\ batch'[t] \cap issued = {}
           /\ issued' = issued \cup batch'[t]
           /\ targets' = [targets EXCEPT ![t] = UNION {Preference[Home[t]][k] : k \in ks}]
<1> DEFINE n == Home[t]
           S == {node_clock[n]} \cup {v[n] : v \in {parents[k] : k \in ks}}
           next == NextClock(n, {parents[k] : k \in ks})
           writes == {<<k, [parents[k] EXCEPT ![n] = next]>> : k \in ks}
<1>1. n \in Nodes
  BY Zenon, ThreadAssumption
<1>2. /\ next <= MaxClock
      /\ node_clock' = [node_clock EXCEPT ![n] = next]
      /\ batch' = [batch EXCEPT ![t] = writes]
      /\ issued' = issued \cup writes
      /\ targets' = [targets EXCEPT ![t] = UNION {Preference[n][k] : k \in ks}]
  BY Zenon DEF Build, Fits
<1>3. node_clock \in [Nodes -> 0..MaxClock] /\ batch \in [Threads -> SUBSET Write]
  BY Zenon DEF TypeOK, StoreType, LocalType
<1>4. S \subseteq 0..MaxClock /\ S # {}
  BY <1>1, <1>3 DEF Clock
<1>5. next = Max(S) + 1
  BY Zenon DEF NextClock
<1>6. Max(S) \in S /\ \A x \in S : x <= Max(S)
  <2> HIDE DEF S
  <2> QED
    BY Zenon, <1>4, BoundAssumption, MaxOfBounded
<1>7. next \in 0..MaxClock /\ node_clock[n] < next
  <2>1. node_clock[n] \in S /\ next <= MaxClock
    BY Zenon, <1>2
  <2> HIDE DEF S, next
  <2>2. PICK m \in S : next = m + 1 /\ \A x \in S : x <= m
    BY Zenon, <1>5, <1>6
  <2>3. m \in 0..MaxClock /\ node_clock[n] \in 0..MaxClock /\ node_clock[n] <= m
    BY Zenon, <1>4, <2>1, <2>2
  <2> QED
    BY <2>1, <2>2, <2>3, BoundAssumption
<1> HIDE DEF next, S
<1>8. \A k \in ks : [parents[k] EXCEPT ![n] = next] \in Clock
  BY <1>7, Zenon DEF Clock
<1>9. batch'[t] = writes
  BY Zenon, <1>2, <1>3
<1>10. node_clock' \in [Nodes -> 0..MaxClock] /\ node_clock'[n] = next
  BY Zenon, <1>1, <1>2, <1>3, <1>7
<1>11. ASSUME NEW m \in Nodes PROVE node_clock[m] <= node_clock'[m]
  BY <1>1, <1>2, <1>3, <1>7
<1>12. ASSUME NEW k \in ks, NEW m \in Nodes
       PROVE  [parents[k] EXCEPT ![n] = next][m] <= node_clock'[m]
  <2>1. CASE m = n
    BY <2>1, <1>7, <1>10 DEF Clock
  <2>2. CASE m # n
    BY <2>2, <1>2, <1>3, Zenon DEF Clock, Known
  <2> QED
    BY Zenon, <2>1, <2>2
<1>13. \A w \in writes : w[1] \in ks /\ w[2] = [parents[w[1]] EXCEPT ![n] = next]
  OBVIOUS
<1>14. writes \in SUBSET Write
  BY <1>8 DEF Write
<1>15. ASSUME NEW w \in writes PROVE w \notin issued
  <2>1. w[2][n] = next
    BY <1>1, <1>13 DEF Clock
  <2> QED
    BY <1>1, <1>3, <1>7, <2>1 DEF StoreInv, Known
<1>16. \A w, x \in writes : w[1] = x[1] => w = x
  OBVIOUS
<1> HIDE DEF writes
<1>17. \A w \in writes : w[1] \in ks /\ \A m \in Nodes : w[2][m] <= node_clock'[m]
  BY Zenon, <1>12, <1>13
<1>18. Stamped(batch'[t], ks, node_clock')
  BY <1>9, <1>16, <1>17, Zenon DEF Stamped
<1> QED
  BY Zenon, <1>2, <1>9, <1>10, <1>11, <1>14, <1>15, <1>18

\* An empty record set.
LEMMA NoVersionsType == NoVersions \in [Keys -> SUBSET Clock]
  BY Zenon DEF NoVersions

\* A call that ends leaves well-typed state.
LEMMA ResetType ==
    ASSUME LocalType, NEW ts, Reset(ts) PROVE LocalType'
<1>1. "eventual" \in Reads
  BY Zenon DEF Reads
<1> QED
  BY <1>1, NoVersionsType, Zenon DEF Reset, LocalType

\* A lost send leaves a well-typed transport.
LEMMA LoseType ==
    ASSUME net \subseteq Nodes \X SUBSET Write, NEW t, NEW n \in Nodes,
           NEW W \in SUBSET Write, Lose(t, n, W)
    PROVE  net' \subseteq Nodes \X SUBSET Write
  BY DEF Lose

\* records_to_writes gives writes.
LEMMA WritesType ==
    ASSUME NEW ks \in SUBSET Keys, NEW vs \in [Keys -> SUBSET Clock]
    PROVE  Writes(ks, vs) \in SUBSET Write
  BY DEF Writes, Write

\* The parent clocks of propose_batch and of resolve_conflict are known.
LEMMA WriteParents ==
    ASSUME ApInv, NEW t \in Threads
    PROVE  /\ \A k \in Keys : /\ Join(versions[Home[t]][k]) \in Clock
                              /\ Known(Join(versions[Home[t]][k]))
           /\ \A k \in Keys : Join(merged[t][k]) \in Clock /\ Known(Join(merged[t][k]))
<1>1. Home[t] \in Nodes
  BY Zenon, ThreadAssumption
<1>2. ASSUME NEW k \in Keys
      PROVE  /\ Join(versions[Home[t]][k]) \in Clock /\ Known(Join(versions[Home[t]][k]))
             /\ Join(merged[t][k]) \in Clock /\ Known(Join(merged[t][k]))
  <2>1. versions[Home[t]][k] \in SUBSET Clock /\ merged[t][k] \in SUBSET Clock /\ TypeOK
    BY <1>1 DEF ApInv, TypeOK, StoreType, LocalType
  <2>2. /\ \A v \in versions[Home[t]][k] : Known(v)
        /\ \A v \in merged[t][k] : Known(v)
    BY <1>1, Zenon DEF ApInv, StoreInv, ThreadInv, Sound
  <2> QED
    BY Zenon, <2>1, <2>2, JoinFacts
<1> QED
  BY Zenon, <1>2

\* propose_batch and resolve_conflict both come down to build_writes.
LEMMA ProposeBuild ==
    ASSUME ApInv, NEW t \in Threads, ProposeBatch(t) \/ ResolveConflict(t)
    PROVE  \E ks \in SUBSET Keys :
              /\ Uniform => \E k \in Keys : ks = {k}
              /\ \E parents : /\ \A k \in ks : parents[k] \in Clock /\ Known(parents[k])
                              /\ Build(t, ks, parents)
<1>1. CASE ProposeBatch(t)
  <2>1. PICK ks \in Batches : Build(t, ks, [k \in ks |-> Join(versions[Home[t]][k])])
    BY <1>1, Zenon DEF ProposeBatch
  <2>2. ks \in SUBSET Keys /\ (Uniform => \E k \in Keys : ks = {k})
    BY KeysAssumption, Zenon DEF Uniform
  <2>3. \A k \in ks : /\ [j \in ks |-> Join(versions[Home[t]][j])][k] \in Clock
                      /\ Known([j \in ks |-> Join(versions[Home[t]][j])][k])
    BY Zenon, <2>2, WriteParents
  <2> QED
    BY <2>1, <2>2, <2>3, Zenon
<1>2. CASE ResolveConflict(t)
  <2> DEFINE ks == rkeys[t]
  <2>1. Build(t, ks, [k \in ks |-> Join(merged[t][k])]) /\ pc[t] = "resolving"
    BY <1>2, Zenon DEF ResolveConflict
  <2>2. ks \in SUBSET Keys /\ (Uniform => \E k \in Keys : ks = {k})
    BY <2>1, Zenon DEF ApInv, TypeOK, LocalType, ThreadInv
  <2>3. \A k \in ks : /\ [j \in ks |-> Join(merged[t][j])][k] \in Clock
                      /\ Known([j \in ks |-> Join(merged[t][j])][k])
    BY Zenon, <2>2, WriteParents
  <2> QED
    BY <2>1, <2>2, <2>3, Zenon
<1> QED
  BY Zenon, <1>1, <1>2

\* The steps of a write keep the types.
LEMMA WriteStepType == ASSUME ApInv, NEW t \in Threads, WriteStep(t) PROVE TypeOK'
<1>1. Home[t] \in Nodes
  BY Zenon, ThreadAssumption
<1>2. TypeOK /\ StoreType /\ LocalType /\ StoreInv
  BY Zenon DEF ApInv, TypeOK
<1>3. SoundBatch(batch[t])
  BY Zenon DEF ApInv, ThreadInv
<1>4. CASE ProposeBatch(t) \/ ResolveConflict(t)
  <2>1. PICK ks \in SUBSET Keys : \E parents :
             /\ \A k \in ks : parents[k] \in Clock /\ Known(parents[k])
             /\ Build(t, ks, parents)
    BY Zenon, <1>4, ProposeBuild
  <2>2. PICK parents : /\ \A k \in ks : parents[k] \in Clock /\ Known(parents[k])
                       /\ Build(t, ks, parents)
    BY Zenon, <2>1
  <2>3. /\ node_clock' \in [Nodes -> 0..MaxClock]
        /\ batch' = [batch EXCEPT ![t] = batch'[t]]
        /\ batch'[t] \in SUBSET Write
        /\ issued' = issued \cup batch'[t]
        /\ targets' = [targets EXCEPT ![t] = UNION {Preference[Home[t]][k] : k \in ks}]
    BY Zenon, <1>2, <2>2, BuildFacts
  <2>4. /\ acks' = [acks EXCEPT ![t] = {}]
        /\ pc' = [pc EXCEPT ![t] = "sending"]
        /\ UNCHANGED <<versions, hints, net, acked, owed>>
    BY <2>2, Zenon DEF Build
  <2>5. UNION {Preference[Home[t]][k] : k \in ks} \in SUBSET Nodes
    BY <1>1, PreferenceType
  <2>6. StoreType'
    BY <1>2, <2>3, <2>4, Zenon DEF StoreType
  <2>7. /\ UNCHANGED <<queue, replies, repairs, call, must>>
        /\ \/ UNCHANGED <<rkeys, merged>>
           \/ rkeys' = [rkeys EXCEPT ![t] = {}] /\ merged' = [merged EXCEPT ![t] = NoVersions]
    BY <1>4, Zenon DEF ProposeBatch, ResolveConflict, reading
  <2>8. rkeys' \in [Threads -> SUBSET Keys] /\ merged' \in [Threads -> [Keys -> SUBSET Clock]]
    <3>1. rkeys \in [Threads -> SUBSET Keys] /\ merged \in [Threads -> [Keys -> SUBSET Clock]]
      BY <1>2, Zenon DEF LocalType
    <3>2. CASE UNCHANGED <<rkeys, merged>>
      BY Zenon, <3>1, <3>2
    <3>3. CASE rkeys' = [rkeys EXCEPT ![t] = {}] /\ merged' = [merged EXCEPT ![t] = NoVersions]
      BY Zenon, <3>1, <3>3, NoVersionsType
    <3> QED
      BY Zenon, <2>7, <3>2, <3>3
  <2>9. /\ batch' \in [Threads -> SUBSET Write]
        /\ targets' \in [Threads -> SUBSET Nodes]
        /\ acks' \in [Threads -> SUBSET Nodes]
    <3>1. batch \in [Threads -> SUBSET Write] /\ targets \in [Threads -> SUBSET Nodes]
          /\ acks \in [Threads -> SUBSET Nodes]
      BY <1>2, Zenon DEF LocalType
    <3>2. PICK B \in SUBSET Write : batch' = [batch EXCEPT ![t] = B]
      BY Zenon, <2>3
    <3>3. PICK T \in SUBSET Nodes : targets' = [targets EXCEPT ![t] = T]
      BY Zenon, <2>3, <2>5
    <3> QED
      BY Zenon, <2>4, <3>1, <3>2, <3>3
  <2>10. LocalType'
    BY <1>2, <2>4, <2>7, <2>8, <2>9, Zenon DEF LocalType
  <2> QED
    BY <2>6, <2>10, Zenon DEF TypeOK
<1>5. CASE SendOk(t)
  <2>1. PICK n \in targets[t] : /\ Apply(n, batch[t])
                                /\ acks' = [acks EXCEPT ![t] = @ \cup {n}]
                                /\ targets' = [targets EXCEPT ![t] = @ \ {n}]
    BY <1>5, Zenon DEF SendOk
  <2>2. n \in Nodes /\ batch[t] \in SUBSET Write
    BY <1>2, Zenon DEF LocalType
  <2>3. versions' \in [Nodes -> [Keys -> SUBSET Clock]]
    BY Zenon, <1>2, <1>3, <2>1, <2>2, ApplyFacts
  <2>4. UNCHANGED <<node_clock, hints, net, pc, queue, batch, reading, aux>>
    BY <1>5, Zenon DEF SendOk
  <2>5. StoreType'
    BY <1>2, <2>3, <2>4, Zenon DEF StoreType, aux
  <2>6. LocalType'
    BY <1>2, <2>1, <2>2, <2>4, Zenon DEF LocalType, reading
  <2> QED
    BY <2>5, <2>6, Zenon DEF TypeOK
<1>6. CASE SendHinted(t)
  <2>1. PICK n \in targets[t] : /\ hints' = [hints EXCEPT ![Home[t]] = @ \cup {<<n, batch[t]>>}]
                                /\ owed' = owed \cup {<<Home[t], n, batch[t]>>}
                                /\ targets' = [targets EXCEPT ![t] = @ \ {n}]
                                /\ Lose(t, n, batch[t])
    BY <1>6, Zenon DEF SendHinted
  <2>2. n \in Nodes /\ batch[t] \in SUBSET Write
    BY <1>2, Zenon DEF LocalType
  <2>3. net' \subseteq Nodes \X SUBSET Write
    BY <1>2, <2>1, <2>2, LoseType, Zenon DEF StoreType
  <2>4. UNCHANGED <<versions, node_clock, pc, queue, sending, reading, issued, acked>>
    BY <1>6, Zenon DEF SendHinted
  <2>5. StoreType'
    BY <1>1, <1>2, <2>1, <2>2, <2>3, <2>4 DEF StoreType
  <2>6. LocalType'
    BY <1>2, <2>1, <2>4, Zenon DEF LocalType, sending, reading
  <2> QED
    BY <2>5, <2>6, Zenon DEF TypeOK
<1>7. CASE SendRefused(t)
  <2>1. PICK n \in targets[t] : Lose(t, n, batch[t])
    BY <1>7, Zenon DEF SendRefused
  <2>2. n \in Nodes /\ batch[t] \in SUBSET Write
    BY <1>2, Zenon DEF LocalType
  <2>3. net' \subseteq Nodes \X SUBSET Write
    BY <1>2, <2>1, <2>2, LoseType, Zenon DEF StoreType
  <2>4. UNCHANGED <<versions, node_clock, hints, aux>> /\ Reset({t})
    BY <1>7, Zenon DEF SendRefused
  <2>5. StoreType'
    BY <1>2, <2>3, <2>4, Zenon DEF StoreType, aux
  <2> QED
    BY <1>2, <2>4, <2>5, ResetType, Zenon DEF TypeOK
<1>8. CASE WriteReturns(t)
  <2>1. /\ acked' = acked \/ acked' = acked \cup batch[t]
        /\ UNCHANGED <<stored, issued, owed>> /\ Reset({t})
    BY <1>8, Zenon DEF WriteReturns
  <2>2. batch[t] \in SUBSET Write
    BY <1>2, Zenon DEF LocalType
  <2>3. StoreType'
    BY <1>2, <2>1, <2>2, Zenon DEF StoreType, stored
  <2> QED
    BY <1>2, <2>1, <2>3, ResetType, Zenon DEF TypeOK
<1> QED
  BY <1>4, <1>5, <1>6, <1>7, <1>8, Zenon DEF WriteStep

\* merge_reply_versions keeps merged replies concurrent and known.
LEMMA ReplyType ==
    ASSUME TypeOK, NEW t \in Threads, NEW n \in Nodes,
           \A k \in Keys : Sound(merged[t][k]), StoreInv,
           NEW mine, mine = [k \in Keys |-> IF k \in rkeys[t] /\ n \in Preference[Home[t]][k]
                                           THEN versions[n][k] ELSE {}]
    PROVE  /\ mine \in [Keys -> SUBSET Clock]
           /\ \A k \in Keys : Antichain(mine[k]) /\ \A v \in mine[k] : Known(v)
           /\ [k \in Keys |-> Merge(merged[t][k], mine[k])] \in [Keys -> SUBSET Clock]
           /\ \A k \in Keys : Sound(Merge(merged[t][k], mine[k]))
<1>1. /\ versions \in [Nodes -> [Keys -> SUBSET Clock]]
      /\ merged[t] \in [Keys -> SUBSET Clock]
  BY Zenon DEF TypeOK, StoreType, LocalType
<1>2. mine \in [Keys -> SUBSET Clock]
  BY <1>1
<1>3. \A k \in Keys : Sound(versions[n][k])
  BY Zenon DEF StoreInv
<1>4. \A k \in Keys : Antichain(mine[k]) /\ \A v \in mine[k] : Known(v)
  BY <1>1, <1>3, Zenon DEF Sound, Antichain
<1>5. ASSUME NEW k \in Keys
      PROVE  Merge(merged[t][k], mine[k]) \in SUBSET Clock /\ Sound(Merge(merged[t][k], mine[k]))
  <2>1. /\ merged[t][k] \in SUBSET Clock /\ Antichain(merged[t][k])
        /\ \A v \in merged[t][k] : Known(v)
    BY <1>1, Zenon DEF Sound
  <2>2. mine[k] \in SUBSET Clock
    BY Zenon, <1>2
  <2> QED
    BY <2>1, <2>2, <1>4, MergeFacts DEF Sound
<1> QED
  BY Zenon, <1>2, <1>4, <1>5

\* Records that are concurrent and known make such a batch.
LEMMA SoundWrites ==
    ASSUME NEW ks \in SUBSET Keys, NEW vs \in [Keys -> SUBSET Clock],
           \A k \in Keys : Sound(vs[k])
    PROVE  Writes(ks, vs) \in SUBSET Write /\ SoundBatch(Writes(ks, vs))
<1>1. Writes(ks, vs) \in SUBSET Write
  BY Zenon, WritesType
<1>2. ASSUME NEW k \in Keys PROVE Sound(Of(Writes(ks, vs), k))
  <2>1. Of(Writes(ks, vs), k) \subseteq vs[k]
    BY DEF Of, Writes
  <2> QED
    BY <2>1, Zenon DEF Sound, Antichain
<1> QED
  BY <1>1, <1>2, Zenon DEF SoundBatch

\* The steps of a read keep the types.
LEMMA ReadStepType == ASSUME ApInv, NEW t \in Threads, ReadStep(t) PROVE TypeOK'
<1>1. Home[t] \in Nodes
  BY Zenon, ThreadAssumption
<1>2. TypeOK /\ StoreType /\ LocalType /\ StoreInv
  BY Zenon DEF ApInv, TypeOK
<1>3. CASE StartRead(t)
  <2>1. PICK kind \in Reads, k \in Keys :
          LET ks == IF kind = "range" THEN Keys ELSE {k}
          IN  /\ call' = [call EXCEPT ![t] = kind]
              /\ rkeys' = [rkeys EXCEPT ![t] = ks]
              /\ targets' = [targets EXCEPT ![t] =
                    IF kind = "range" THEN Nodes ELSE Preference[Home[t]][k]]
              /\ must' = [must EXCEPT ![t] =
                    {w \in acked : kind \in {"strong", "range"} /\ w[1] \in ks}]
    BY <1>3, Zenon DEF StartRead
  <2>2. /\ pc' = [pc EXCEPT ![t] = "reading"]
        /\ UNCHANGED <<stored, queue, sending, replies, merged, repairs, aux>>
    BY <1>3, Zenon DEF StartRead
  <2>3. Preference[Home[t]][k] \in SUBSET Nodes
    BY Zenon, <1>1, PreferenceType
  <2>4. /\ call' \in [Threads -> Reads] /\ rkeys' \in [Threads -> SUBSET Keys]
        /\ targets' \in [Threads -> SUBSET Nodes]
    BY <1>2, <2>1, <2>3, Zenon DEF LocalType
  <2>5. must' \in [Threads -> SUBSET Write]
    BY <1>2, <2>1, Zenon DEF LocalType, StoreType
  <2>6. StoreType'
    BY <1>2, <2>2, Zenon DEF StoreType, stored, aux
  <2>7. LocalType'
    BY <1>2, <2>2, <2>4, <2>5, Zenon DEF LocalType, sending
  <2> QED
    BY <2>6, <2>7, Zenon DEF TypeOK
<1>4. CASE Reply(t)
  <2>1. PICK n \in targets[t] :
          LET mine == [k \in Keys |-> IF k \in rkeys[t] /\ n \in Preference[Home[t]][k]
                                      THEN versions[n][k] ELSE {}]
          IN  /\ targets' = [targets EXCEPT ![t] = @ \ {n}]
              /\ replies' = [replies EXCEPT ![t] = [@ EXCEPT ![n] = mine]]
              /\ merged' = [merged EXCEPT ![t] = [k \in Keys |-> Merge(@[k], mine[k])]]
    BY <1>4, Zenon DEF Reply
  <2>2. UNCHANGED <<stored, pc, queue, sending, rkeys, repairs, call, must, aux>>
    BY <1>4, Zenon DEF Reply
  <2> DEFINE mine == [k \in Keys |-> IF k \in rkeys[t] /\ n \in Preference[Home[t]][k]
                                    THEN versions[n][k] ELSE {}]
             both == [k \in Keys |-> Merge(merged[t][k], mine[k])]
  <2>3. n \in Nodes /\ \A k \in Keys : Sound(merged[t][k])
    BY <1>2, Zenon DEF LocalType, ApInv, ThreadInv
  <2>4. mine \in [Keys -> SUBSET Clock] /\ both \in [Keys -> SUBSET Clock]
    <3>1. versions[n] \in [Keys -> SUBSET Clock] /\ merged[t] \in [Keys -> SUBSET Clock]
      BY <1>2, <2>3, Zenon DEF StoreType, LocalType
    <3>2. mine \in [Keys -> SUBSET Clock]
      BY <3>1
    <3> HIDE DEF mine
    <3>3. ASSUME NEW k \in Keys PROVE Merge(merged[t][k], mine[k]) \in SUBSET Clock
      <4>1. Merge(merged[t][k], mine[k]) \subseteq merged[t][k] \cup mine[k]
        BY MergeTakes, Zenon
      <4> QED
        BY <3>1, <3>2, <4>1
    <3> QED
      BY <3>2, <3>3, Zenon
  <2>5. /\ targets' = [targets EXCEPT ![t] = @ \ {n}]
        /\ replies' = [replies EXCEPT ![t] = [@ EXCEPT ![n] = mine]]
        /\ merged' = [merged EXCEPT ![t] = both]
    BY <2>1, <1>2, Zenon DEF LocalType
  <2> HIDE DEF mine, both
  <2>6. /\ targets' \in [Threads -> SUBSET Nodes]
        /\ merged' \in [Threads -> [Keys -> SUBSET Clock]]
    BY <1>2, <2>4, <2>5, Zenon DEF LocalType
  <2>7. replies' \in [Threads -> [Nodes -> [Keys -> SUBSET Clock] \cup {NoReply}]]
    BY <1>2, <2>3, <2>4, <2>5, Zenon DEF LocalType
  <2>8. StoreType'
    BY <1>2, <2>2, Zenon DEF StoreType, stored, aux
  <2>9. LocalType'
    BY <1>2, <2>2, <2>6, <2>7, Zenon DEF LocalType, sending
  <2> QED
    BY <2>8, <2>9, Zenon DEF TypeOK
<1>5. CASE NoAnswer(t)
  <2>1. PICK n \in targets[t] : targets' = [targets EXCEPT ![t] = @ \ {n}]
    BY <1>5, Zenon DEF NoAnswer
  <2>2. UNCHANGED <<stored, pc, queue, sending, reading, aux>>
    BY <1>5, Zenon DEF NoAnswer
  <2>3. StoreType'
    BY <1>2, <2>2, Zenon DEF StoreType, stored, aux
  <2>4. LocalType'
    BY <1>2, <2>1, <2>2, Zenon DEF LocalType, sending, reading
  <2> QED
    BY <2>3, <2>4, Zenon DEF TypeOK
<1>6. CASE ReadFails(t) \/ ReadReturns(t)
  <2>1. Reset({t}) /\ UNCHANGED <<stored, aux>>
    BY <1>6, Zenon DEF ReadFails, ReadReturns
  <2>2. StoreType'
    BY <1>2, <2>1, Zenon DEF StoreType, stored, aux
  <2> QED
    BY <1>2, <2>1, <2>2, ResetType, Zenon DEF TypeOK
<1>7. CASE ReadMerged(t)
  <2>1. /\ pc' = [pc EXCEPT ![t] = IF call[t] = "siblings" THEN "resolving" ELSE "repairing"]
        /\ replies' = [replies EXCEPT ![t] = [n \in Nodes |-> NoReply]]
        /\ call' = [call EXCEPT ![t] = "eventual"]
        /\ UNCHANGED <<stored, targets, queue, sending, rkeys, merged, must, aux>>
    BY <1>7, Zenon DEF ReadMerged
  <2>2. repairs' = [repairs EXCEPT ![t] =
          {r \in Answered(t) \X rkeys[t] : /\ call[t] # "siblings"
                                           /\ r[1] \in Preference[Home[t]][r[2]]
                                           /\ replies[t][r[1]][r[2]] # merged[t][r[2]]}]
    BY <1>7, Zenon DEF ReadMerged
  <2>3. Answered(t) \subseteq Nodes /\ rkeys[t] \subseteq Keys
    BY <1>2, Zenon DEF Answered, LocalType
  <2>4. PICK R \in SUBSET (Nodes \X Keys) : repairs' = [repairs EXCEPT ![t] = R]
    BY Zenon, <2>2, <2>3
  <2>5. repairs' \in [Threads -> SUBSET (Nodes \X Keys)]
    BY <1>2, <2>4, Zenon DEF LocalType
  <2>6. call' \in [Threads -> Reads]
    BY <1>2, <2>1, Zenon DEF LocalType, Reads
  <2>7. replies' \in [Threads -> [Nodes -> [Keys -> SUBSET Clock] \cup {NoReply}]]
    BY <1>2, <2>1, Zenon DEF LocalType
  <2>8. StoreType'
    BY <1>2, <2>1, Zenon DEF StoreType, stored, aux
  <2>9. LocalType'
    BY <1>2, <2>1, <2>5, <2>6, <2>7, Zenon DEF LocalType, sending
  <2> QED
    BY <2>8, <2>9, Zenon DEF TypeOK
<1>8. CASE Repair(t)
  <2>1. PICK r \in repairs[t] :
          /\ repairs' = [repairs EXCEPT ![t] = @ \ {r}]
          /\ \/ Apply(r[1], Writes({r[2]}, merged[t])) /\ UNCHANGED net
             \/ Lose(t, r[1], Writes({r[2]}, merged[t])) /\ UNCHANGED versions
    BY <1>8, Zenon DEF Repair
  <2>2. UNCHANGED <<node_clock, hints, pc, targets, queue, sending, rkeys, replies, merged,
                    call, must, aux>>
    BY <1>8, Zenon DEF Repair
  <2>3. r[1] \in Nodes /\ r[2] \in Keys
    BY <1>2 DEF LocalType
  <2>4. Writes({r[2]}, merged[t]) \in SUBSET Write /\ SoundBatch(Writes({r[2]}, merged[t]))
    BY <1>2, <2>3, SoundWrites, Zenon DEF LocalType, ApInv, ThreadInv
  <2>5. versions' \in [Nodes -> [Keys -> SUBSET Clock]] /\ net' \subseteq Nodes \X SUBSET Write
    <3>1. CASE Apply(r[1], Writes({r[2]}, merged[t])) /\ UNCHANGED net
      BY <1>2, <2>3, <2>4, <3>1, ApplyFacts, Zenon DEF StoreType
    <3>2. CASE Lose(t, r[1], Writes({r[2]}, merged[t])) /\ UNCHANGED versions
      BY <1>2, <2>3, <2>4, <3>2, LoseType, Zenon DEF StoreType
    <3> QED
      BY Zenon, <2>1, <3>1, <3>2
  <2>6. StoreType'
    BY <1>2, <2>2, <2>5, Zenon DEF StoreType, aux
  <2>7. LocalType'
    BY <1>2, <2>1, <2>2, Zenon DEF LocalType, sending
  <2> QED
    BY <2>6, <2>7, Zenon DEF TypeOK
<1> QED
  BY <1>3, <1>4, <1>5, <1>6, <1>7, <1>8, Zenon DEF ReadStep

\* The steps of deliver_hints keep the types.
LEMMA HandoffStepType == ASSUME ApInv, NEW t \in Threads, HandoffStep(t) PROVE TypeOK'
<1>1. Home[t] \in Nodes
  BY Zenon, ThreadAssumption
<1>2. TypeOK /\ StoreType /\ LocalType /\ StoreInv
  BY Zenon DEF ApInv, TypeOK
<1>3. CASE StartDelivery(t)
  <2>1. /\ queue' = [queue EXCEPT ![t] = hints[Home[t]]]
        /\ pc' = [pc EXCEPT ![t] = "delivering"]
        /\ UNCHANGED <<stored, targets, sending, reading, aux>>
    BY <1>3, Zenon DEF StartDelivery
  <2>2. hints[Home[t]] \in SUBSET (Nodes \X SUBSET Write)
    BY <1>1, <1>2, Zenon DEF StoreType
  <2>3. StoreType'
    BY <1>2, <2>1, Zenon DEF StoreType, stored, aux
  <2>4. LocalType'
    BY <1>2, <2>1, <2>2, Zenon DEF LocalType, sending, reading
  <2> QED
    BY <2>3, <2>4, Zenon DEF TypeOK
<1>4. CASE DeliverHint(t)
  <2>1. PICK h \in queue[t] :
          /\ queue' = [queue EXCEPT ![t] = @ \ {h}]
          /\ \/ /\ hints' = [hints EXCEPT ![Home[t]] = @ \ {h}]
                /\ owed' = owed \ {<<Home[t], h[1], h[2]>>}
                /\ UNCHANGED <<versions, net>>
             \/ UNCHANGED <<versions, net, hints, owed>>
             \/ /\ Apply(h[1], h[2])
                /\ hints' = [hints EXCEPT ![Home[t]] = @ \ {h}]
                /\ owed' = owed \ {<<Home[t], h[1], h[2]>>}
                /\ UNCHANGED net
             \/ /\ Lose(t, h[1], h[2])
                /\ hints' = [hints EXCEPT ![Home[t]] = @ \cup {h}]
                /\ UNCHANGED <<versions, owed>>
    BY <1>4, Zenon DEF DeliverHint
  <2>2. UNCHANGED <<node_clock, pc, targets, sending, reading, issued, acked>>
    BY <1>4, Zenon DEF DeliverHint
  <2>3. /\ h \in Nodes \X SUBSET Write /\ h[1] \in Nodes /\ h[2] \in SUBSET Write
        /\ SoundBatch(h[2])
    BY <1>2 DEF LocalType, ApInv, ThreadInv
  <2>4. versions' \in [Nodes -> [Keys -> SUBSET Clock]]
    BY <1>2, <2>1, <2>3, ApplyFacts, Zenon DEF StoreType
  <2>5. net' \subseteq Nodes \X SUBSET Write
    BY <1>2, <2>1, <2>3, LoseType, Zenon DEF StoreType
  <2>6. owed' \subseteq Nodes \X Nodes \X SUBSET Write
    BY <1>2, <2>1, Zenon DEF StoreType
  <2>7. hints' \in [Nodes -> SUBSET (Nodes \X SUBSET Write)]
    BY <1>1, <1>2, <2>1, <2>3 DEF StoreType
  <2>8. StoreType'
    BY <1>2, <2>2, <2>4, <2>5, <2>6, <2>7, Zenon DEF StoreType
  <2>9. LocalType'
    BY <1>2, <2>1, <2>2, Zenon DEF LocalType, sending, reading
  <2> QED
    BY <2>8, <2>9, Zenon DEF TypeOK
<1>5. CASE DeliveryReturns(t)
  <2>1. Reset({t}) /\ UNCHANGED <<stored, aux>>
    BY <1>5, Zenon DEF DeliveryReturns
  <2>2. StoreType'
    BY <1>2, <2>1, Zenon DEF StoreType, stored, aux
  <2> QED
    BY <1>2, <2>1, <2>2, ResetType, Zenon DEF TypeOK
<1> QED
  BY <1>3, <1>4, <1>5, Zenon DEF HandoffStep

\* merge_record_sets keeps siblings concurrent and known.
LEMMA RecordsMerged ==
    ASSUME ApInv, NEW t \in Threads, NEW peer \in Nodes
    PROVE  /\ [k \in Keys |-> Merge(merged[t][k], versions[peer][k])] \in [Keys -> SUBSET Clock]
           /\ \A k \in Keys : Sound([j \in Keys |-> Merge(merged[t][j], versions[peer][j])][k])
<1>1. ASSUME NEW k \in Keys
      PROVE  /\ Merge(merged[t][k], versions[peer][k]) \in SUBSET Clock
             /\ Sound(Merge(merged[t][k], versions[peer][k]))
  <2>1. merged[t][k] \in SUBSET Clock /\ versions[peer][k] \in SUBSET Clock
    BY DEF ApInv, TypeOK, StoreType, LocalType
  <2>2. Sound(merged[t][k]) /\ Sound(versions[peer][k])
    BY Zenon DEF ApInv, StoreInv, ThreadInv
  <2> QED
    BY <2>1, <2>2, MergeFacts DEF Sound
<1> QED
  BY Zenon, <1>1

\* The steps of anti_entropy_with keep the types.
LEMMA AntiEntropyStepType ==
    ASSUME ApInv, NEW t \in Threads, AntiEntropyStep(t) PROVE TypeOK'
<1>1. Home[t] \in Nodes
  BY Zenon, ThreadAssumption
<1>2. TypeOK /\ StoreType /\ LocalType /\ StoreInv
  BY Zenon DEF ApInv, TypeOK
<1>3. batch[t] \in SUBSET Write /\ SoundBatch(batch[t])
  BY <1>2, Zenon DEF LocalType, ApInv, ThreadInv
<1>4. CASE AntiEntropyWith(t)
  <2>1. PICK peer \in Peers : targets' = [targets EXCEPT ![t] = {peer}]
    BY <1>4, Zenon DEF AntiEntropyWith
  <2>2. /\ merged' = [merged EXCEPT ![t] = versions[Home[t]]]
        /\ pc' = [pc EXCEPT ![t] = "leaves"]
        /\ UNCHANGED <<stored, queue, sending, rkeys, replies, repairs, call, must, aux>>
    BY <1>4, Zenon DEF AntiEntropyWith
  <2>3. peer \in Nodes /\ versions[Home[t]] \in [Keys -> SUBSET Clock]
    BY <1>1, <1>2, ThreadAssumption, Zenon DEF StoreType
  <2>4. /\ targets' \in [Threads -> SUBSET Nodes]
        /\ merged' \in [Threads -> [Keys -> SUBSET Clock]]
    BY <1>2, <2>1, <2>2, <2>3, Zenon DEF LocalType
  <2>5. StoreType'
    BY <1>2, <2>2, Zenon DEF StoreType, stored, aux
  <2>6. LocalType'
    BY <1>2, <2>2, <2>4, Zenon DEF LocalType, sending
  <2> QED
    BY <2>5, <2>6, Zenon DEF TypeOK
<1>5. CASE CompareLeaves(t)
  <2>1. PICK ks \in SUBSET Keys : rkeys' = [rkeys EXCEPT ![t] = ks]
    BY <1>5, Zenon DEF CompareLeaves, FirstKeys
  <2>2. /\ merged' = [merged EXCEPT ![t] = NoVersions]
        /\ pc' = [pc EXCEPT ![t] = "fetch"]
        /\ UNCHANGED <<stored, targets, queue, sending, replies, repairs, call, must, aux>>
    BY <1>5, Zenon DEF CompareLeaves
  <2>3. merged' \in [Threads -> [Keys -> SUBSET Clock]] /\ rkeys' \in [Threads -> SUBSET Keys]
    BY <1>2, <2>1, <2>2, NoVersionsType, Zenon DEF LocalType
  <2>4. StoreType'
    BY <1>2, <2>2, Zenon DEF StoreType, stored, aux
  <2>5. LocalType'
    BY <1>2, <2>2, <2>3, Zenon DEF LocalType, sending
  <2> QED
    BY <2>4, <2>5, Zenon DEF TypeOK
<1>6. CASE FetchLocal(t)
  <2>1. /\ merged' = [merged EXCEPT ![t] =
              [k \in Keys |-> IF k \in rkeys[t] THEN versions[Home[t]][k] ELSE {}]]
        /\ pc' = [pc EXCEPT ![t] = "fetched"]
        /\ UNCHANGED <<stored, targets, queue, sending, rkeys, replies, repairs, call, must, aux>>
    BY <1>6, Zenon DEF FetchLocal
  <2>2. [k \in Keys |-> IF k \in rkeys[t] THEN versions[Home[t]][k] ELSE {}]
            \in [Keys -> SUBSET Clock]
    BY <1>1, <1>2 DEF StoreType
  <2>3. merged' \in [Threads -> [Keys -> SUBSET Clock]]
    BY <1>2, <2>1, <2>2, Zenon DEF LocalType
  <2>4. StoreType'
    BY <1>2, <2>1, Zenon DEF StoreType, stored, aux
  <2>5. LocalType'
    BY <1>2, <2>1, <2>3, Zenon DEF LocalType, sending
  <2> QED
    BY <2>4, <2>5, Zenon DEF TypeOK
<1>7. CASE FetchRemote(t)
  <2>1. PICK peer \in targets[t] :
          batch' = [batch EXCEPT ![t] = Writes(rkeys[t],
              [k \in Keys |-> Merge(merged[t][k], versions[peer][k])])]
    BY <1>7, Zenon DEF FetchRemote
  <2>2. /\ merged' = [merged EXCEPT ![t] = NoVersions]
        /\ rkeys' = [rkeys EXCEPT ![t] = {}]
        /\ pc' = [pc EXCEPT ![t] = "exchange"]
        /\ UNCHANGED <<stored, targets, queue, acks, replies, repairs, call, must, aux>>
    BY <1>7, Zenon DEF FetchRemote
  <2>3. peer \in Nodes /\ rkeys[t] \in SUBSET Keys
    BY <1>2, Zenon DEF LocalType
  <2>4. PICK W \in SUBSET Write : batch' = [batch EXCEPT ![t] = W]
    BY Zenon, <2>1, <2>3, RecordsMerged, WritesType
  <2>5. /\ merged' \in [Threads -> [Keys -> SUBSET Clock]] /\ rkeys' \in [Threads -> SUBSET Keys]
        /\ batch' \in [Threads -> SUBSET Write]
    BY <1>2, <2>2, <2>4, NoVersionsType, Zenon DEF LocalType
  <2>6. StoreType'
    BY <1>2, <2>2, Zenon DEF StoreType, stored, aux
  <2>7. LocalType'
    BY <1>2, <2>2, <2>5, Zenon DEF LocalType
  <2> QED
    BY <2>6, <2>7, Zenon DEF TypeOK
<1>8. CASE ApplyLocally(t)
  <2>1. /\ Apply(Home[t], batch[t])
        /\ pc' = [pc EXCEPT ![t] = "push"]
        /\ UNCHANGED <<node_clock, hints, net, targets, queue, sending, reading, aux>>
    BY <1>8, Zenon DEF ApplyLocally
  <2>2. versions' \in [Nodes -> [Keys -> SUBSET Clock]]
    BY Zenon, <1>1, <1>2, <1>3, <2>1, ApplyFacts
  <2>3. StoreType'
    BY <1>2, <2>1, <2>2, Zenon DEF StoreType, aux
  <2>4. LocalType'
    BY <1>2, <2>1, Zenon DEF LocalType, sending, reading
  <2> QED
    BY <2>3, <2>4, Zenon DEF TypeOK
<1>9. CASE PushToPeer(t)
  <2>1. PICK peer \in targets[t] : Apply(peer, batch[t])
    BY <1>9, Zenon DEF PushToPeer
  <2>2. Reset({t}) /\ UNCHANGED <<node_clock, hints, net, aux>>
    BY <1>9, Zenon DEF PushToPeer
  <2>3. peer \in Nodes
    BY <1>2, Zenon DEF LocalType
  <2>4. versions' \in [Nodes -> [Keys -> SUBSET Clock]]
    BY Zenon, <1>2, <1>3, <2>1, <2>3, ApplyFacts
  <2>5. StoreType'
    BY <1>2, <2>2, <2>4, Zenon DEF StoreType, aux
  <2> QED
    BY <1>2, <2>2, <2>5, ResetType, Zenon DEF TypeOK
<1>10. CASE AntiEntropyReturns(t)
  <2>1. net' = net \/ \E peer \in targets[t] : Lose(t, peer, batch[t])
    BY <1>10, Zenon DEF AntiEntropyReturns
  <2>2. Reset({t}) /\ UNCHANGED <<versions, node_clock, hints, aux>>
    BY <1>10, Zenon DEF AntiEntropyReturns
  <2>3. targets[t] \subseteq Nodes
    BY <1>2, Zenon DEF LocalType
  <2>4. net' \subseteq Nodes \X SUBSET Write
    BY <1>2, <1>3, <2>1, <2>3, LoseType, Zenon DEF StoreType
  <2>5. StoreType'
    BY <1>2, <2>2, <2>4, Zenon DEF StoreType, aux
  <2> QED
    BY <1>2, <2>2, <2>5, ResetType, Zenon DEF TypeOK
<1> QED
  BY <1>4, <1>5, <1>6, <1>7, <1>8, <1>9, <1>10, Zenon DEF AntiEntropyStep

\* A late batch keeps the types.
LEMMA LateArrivalType == ASSUME ApInv, LateArrival PROVE TypeOK'
<1>1. TypeOK /\ StoreType /\ LocalType /\ StoreInv
  BY Zenon DEF ApInv, TypeOK
<1>2. PICK m \in net : Apply(m[1], m[2]) /\ net' = net \ {m}
  BY Zenon DEF LateArrival
<1>3. UNCHANGED <<node_clock, hints, local, aux>>
  BY Zenon DEF LateArrival
<1>4. m[1] \in Nodes /\ m[2] \in SUBSET Write /\ SoundBatch(m[2])
  BY <1>1, Zenon DEF StoreType, StoreInv
<1>5. versions' \in [Nodes -> [Keys -> SUBSET Clock]]
  BY Zenon, <1>1, <1>2, <1>4, ApplyFacts
<1>6. StoreType'
  BY <1>1, <1>2, <1>3, <1>5, Zenon DEF StoreType, aux
<1>7. LocalType'
  BY <1>1, <1>3, Zenon DEF LocalType, local, sending, reading
<1> QED
  BY <1>6, <1>7, Zenon DEF TypeOK

\* A crash keeps the types.
LEMMA CrashType == ASSUME ApInv, NEW n \in Nodes, Crash(n) PROVE TypeOK'
<1>1. TypeOK /\ StoreType /\ LocalType
  BY Zenon DEF ApInv, TypeOK
<1>2. Reset({t \in Threads : Home[t] = n}) /\ UNCHANGED <<stored, aux>>
  BY Zenon DEF Crash
<1>3. StoreType'
  BY <1>1, <1>2, Zenon DEF StoreType, stored, aux
<1> QED
  BY <1>1, <1>2, <1>3, ResetType, Zenon DEF TypeOK

\* Neither the versions nor the counters go back.
Forward == /\ Advance
           /\ \A n \in Nodes : node_clock[n] <= node_clock'[n]

\* The call of u stays as it is.
Same(u) == /\ pc'[u] = pc[u] /\ batch'[u] = batch[u] /\ targets'[u] = targets[u]
           /\ acks'[u] = acks[u] /\ rkeys'[u] = rkeys[u] /\ replies'[u] = replies[u]
           /\ merged'[u] = merged[u] /\ repairs'[u] = repairs[u] /\ queue'[u] = queue[u]
           /\ call'[u] = call[u] /\ must'[u] = must[u]

\* Versions and batches stay sound when the counters only grow.
LEMMA SoundStays ==
    ASSUME TypeOK, TypeOK', Forward
    PROVE  /\ \A vs \in SUBSET Clock : Sound(vs) =>
                 Antichain(vs) /\ \A v \in vs : \A n \in Nodes : v[n] <= node_clock'[n]
           /\ \A W \in SUBSET Write : SoundBatch(W) => \A k \in Keys :
                 /\ Antichain(Of(W, k))
                 /\ \A v \in Of(W, k) : \A n \in Nodes : v[n] <= node_clock'[n]
<1>1. ASSUME NEW vs \in SUBSET Clock, Sound(vs), NEW v \in vs, NEW n \in Nodes
      PROVE  v[n] <= node_clock'[n]
  <2>1. v[n] \in Int /\ node_clock[n] \in Int /\ node_clock'[n] \in Int
    BY BoundAssumption DEF Clock, TypeOK, StoreType
  <2>2. v[n] <= node_clock[n] /\ node_clock[n] <= node_clock'[n]
    BY <1>1, Zenon DEF Sound, Known, Forward
  <2> QED
    BY <2>1, <2>2
<1>2. \A vs \in SUBSET Clock : Sound(vs) =>
          Antichain(vs) /\ \A v \in vs : \A n \in Nodes : v[n] <= node_clock'[n]
  BY <1>1, Zenon DEF Sound
<1>3. ASSUME NEW W \in SUBSET Write, SoundBatch(W), NEW k \in Keys
      PROVE  /\ Antichain(Of(W, k))
             /\ \A v \in Of(W, k) : \A n \in Nodes : v[n] <= node_clock'[n]
  BY <1>2, <1>3, OfFacts, Zenon DEF SoundBatch
<1> QED
  BY Zenon, <1>2, <1>3

\* Silent replicas that hold a write go on holding it.
LEMMA UnheardGrows ==
    ASSUME TypeOK, Advance, NEW u \in Threads, NEW w \in Write,
           replies'[u] = replies[u],
           Cardinality(Unheard(u, w)) >= Required(DefaultWrite)
    PROVE  Cardinality({n \in Preference[Home[u]][w[1]] :
              replies'[u][n] = NoReply /\ Covers(versions'[n][w[1]], w[2])})
                  >= Required(DefaultWrite)
<1> DEFINE S == {n \in Preference[Home[u]][w[1]] :
              replies'[u][n] = NoReply /\ Covers(versions'[n][w[1]], w[2])}
<1>1. w[1] \in Keys /\ w[2] \in Clock /\ Home[u] \in Nodes
  BY ThreadAssumption, Zenon DEF Write
<1>2. Preference[Home[u]][w[1]] \in SUBSET Nodes
  BY Zenon, <1>1, PreferenceType
<1>3. Unheard(u, w) \subseteq S
  BY <1>1, <1>2, Zenon DEF Unheard, Advance
<1>4. IsFiniteSet(S) /\ S \in SUBSET Nodes
  BY Zenon, <1>2, NodesAssumption, FS_Subset
<1>5. /\ Cardinality(Unheard(u, w)) <= Cardinality(S)
      /\ Cardinality(S) \in Int /\ Cardinality(Unheard(u, w)) \in Int
  BY <1>3, <1>4, FS_Subset, FS_CardinalityType
<1>6. Required(DefaultWrite) \in Int
  BY LevelAssumption, NodesAssumption, FS_CardinalityType DEF Required, Levels
<1> QED
  BY <1>5, <1>6

\* A step that leaves the call of u alone keeps what holds of it.
LEMMA OtherThread ==
    ASSUME ApInv, TypeOK', Forward, NEW u \in Threads, Same(u)
    PROVE  ThreadInv(u)'
<1>1. TypeOK /\ ThreadInv(u) /\ Advance
  BY Zenon DEF ApInv, Forward
<1>2. /\ batch[u] \in SUBSET Write /\ queue[u] \in SUBSET (Nodes \X SUBSET Write)
      /\ merged[u] \in [Keys -> SUBSET Clock] /\ must[u] \in SUBSET Write
      /\ acks[u] \in SUBSET Nodes /\ rkeys[u] \in SUBSET Keys
  BY <1>1, Zenon DEF TypeOK, LocalType
<1>3. SoundBatch(batch[u])'
  BY <1>1, <1>2, SoundStays, Zenon DEF ThreadInv, Same, SoundBatch, Sound, Known
<1>4. (\A h \in queue[u] : SoundBatch(h[2]))'
  <2>1. ASSUME NEW h \in queue[u] PROVE SoundBatch(h[2])'
    <3>1. h[2] \in SUBSET Write /\ SoundBatch(h[2])
      BY <1>1, <1>2, <2>1, Zenon DEF ThreadInv
    <3> QED
      BY <1>1, <3>1, SoundStays, Zenon DEF SoundBatch, Sound, Known
  <2> QED
    BY <2>1, Zenon DEF Same
<1>5. (\A k \in Keys : Sound(merged[u][k]))'
  BY <1>1, <1>2, SoundStays, Zenon DEF ThreadInv, Same, Sound, Known
<1>6. (pc[u] # "reading" => \A n \in Nodes : replies[u][n] = NoReply)'
  BY <1>1, Zenon DEF ThreadInv, Same
<1>7. (pc[u] = "sending" => SendingInv(u))'
  <2> SUFFICES ASSUME pc[u] = "sending" PROVE SendingInv(u)'
    BY Zenon DEF Same
  <2>1. SendingInv(u)
    BY <1>1, Zenon DEF ThreadInv
  <2>2. (\A n \in acks[u] : Reaches(n, batch[u]))'
    <3>1. ASSUME NEW n \in acks[u], NEW w \in batch[u] PROVE Covers(versions'[n][w[1]], w[2])
      <4>1. n \in Nodes /\ w[1] \in Keys /\ w[2] \in Clock
        BY <1>2, Zenon DEF Write
      <4>2. Covers(versions[n][w[1]], w[2])
        BY <2>1, Zenon DEF SendingInv, Reaches
      <4> QED
        BY <1>1, <4>1, <4>2, Zenon DEF Advance
    <3> QED
      BY <3>1, Zenon DEF Same, Reaches
  <2>3. (Uniform => \E k \in Keys :
          /\ \A w \in batch[u] : w[1] = k
          /\ targets[u] \cup acks[u] \subseteq Preference[Home[u]][k])'
    BY <2>1, Zenon DEF Same, SendingInv, Uniform
  <2> QED
    BY <2>2, <2>3, Zenon DEF SendingInv
<1>8. (pc[u] = "reading" => ReadingInv(u))'
  <2> SUFFICES ASSUME pc[u] = "reading" PROVE ReadingInv(u)'
    BY Zenon DEF Same
  <2>1. ReadingInv(u)
    BY <1>1, Zenon DEF ThreadInv
  <2>2. (call[u] \in {"eventual", "siblings"} => must[u] = {})'
    BY <2>1, Zenon DEF Same, ReadingInv
  <2>3. (call[u] # "range" => \E k \in Keys :
          rkeys[u] = {k} /\ targets[u] \cup Answered(u) \subseteq Preference[Home[u]][k])'
    BY <2>1, Zenon DEF Same, ReadingInv, Answered
  <2>4. ASSUME NEW w \in must[u], Uniform
        PROVE  \/ Covers(merged'[u][w[1]], w[2])
               \/ Cardinality(Unheard(u, w))' >= Required(DefaultWrite)
    <3>1. w \in Write
      BY Zenon, <1>2
    <3>2. CASE Covers(merged[u][w[1]], w[2])
      BY <3>2, Zenon DEF Same
    <3>3. CASE Cardinality(Unheard(u, w)) >= Required(DefaultWrite)
      BY <1>1, <3>1, <3>3, UnheardGrows, Zenon DEF Same, Unheard
    <3> QED
      BY <2>1, <2>4, <3>2, <3>3, Zenon DEF ReadingInv
  <2>5. ASSUME NEW w \in must[u] PROVE w[1] \in rkeys[u]
    BY <2>1, Zenon DEF ReadingInv
  <2> QED
    BY <2>2, <2>3, <2>4, <2>5, Zenon DEF ReadingInv, Same, Uniform
<1>9. (pc[u] = "resolving" => \E k \in Keys : rkeys[u] = {k})'
  BY <1>1, Zenon DEF ThreadInv, Same
<1>10. (pc[u] = "repairing" => \A w \in must[u] : Uniform => Covers(merged[u][w[1]], w[2]))'
  BY <1>1, Zenon DEF ThreadInv, Same, Uniform
<1> QED
  BY <1>3, <1>4, <1>5, <1>6, <1>7, <1>8, <1>9, <1>10, Zenon DEF ThreadInv

\* Empty batches and record sets are sound.
LEMMA EmptySound ==
    /\ SoundBatch({})
    /\ SoundBatch({})'
    /\ \A k \in Keys : Sound(NoVersions[k]) /\ Sound(NoVersions[k])'
  BY Zenon DEF SoundBatch, Sound, Antichain, Of, NoVersions

\* Ending calls, or crashing a node, keeps what holds of every call.
LEMMA ResetThreads ==
    ASSUME ApInv, TypeOK', Forward, NEW ts, Reset(ts)
    PROVE  \A u \in Threads : ThreadInv(u)'
<1>1. ASSUME NEW u \in Threads, u \in ts PROVE ThreadInv(u)'
  <2>1. /\ pc'[u] = "idle" /\ batch'[u] = {} /\ merged'[u] = NoVersions /\ queue'[u] = {}
        /\ \A n \in Nodes : replies'[u][n] = NoReply
    BY <1>1, Zenon DEF Reset
  <2>2. SoundBatch(batch[u])' /\ (\A k \in Keys : Sound(merged[u][k]))'
    BY Zenon, <2>1, EmptySound
  <2> QED
    BY <2>1, <2>2, Zenon DEF ThreadInv
<1>2. ASSUME NEW u \in Threads, u \notin ts PROVE ThreadInv(u)'
  <2>1. Same(u)
    BY <1>2, Zenon DEF Reset, Same
  <2> QED
    BY Zenon, <2>1, OtherThread
<1> QED
  BY Zenon, <1>1, <1>2

\* What the tables need of a step to stay sound.
LEMMA StoreStays ==
    ASSUME ApInv, TypeOK', Forward,
           \A n \in Nodes, k \in Keys :
              \/ versions'[n][k] = versions[n][k]
              \/ /\ Antichain(versions'[n][k])
                 /\ \A v \in versions'[n][k] : \A m \in Nodes : v[m] <= node_clock'[m],
           \A n \in Nodes : \A h \in hints'[n] : h \in hints[n] \/ SoundBatch(h[2]),
           \A m \in net' : m \in net \/ SoundBatch(m[2]),
           \A w \in issued' : w \in issued \/ \A n \in Nodes : w[2][n] <= node_clock'[n]
    PROVE  StoreInv'
<1>1. TypeOK /\ StoreInv
  BY Zenon DEF ApInv
<1>2. ASSUME NEW n \in Nodes, NEW k \in Keys PROVE Sound(versions[n][k])'
  <2>1. versions[n][k] \in SUBSET Clock /\ Sound(versions[n][k])
    BY <1>1 DEF TypeOK, StoreType, StoreInv
  <2> QED
    BY <1>1, <2>1, SoundStays, Zenon DEF Sound, Known
<1>3. ASSUME NEW n \in Nodes, NEW h \in hints'[n] PROVE SoundBatch(h[2])'
  <2>1. h[2] \in SUBSET Write
    BY DEF TypeOK, StoreType
  <2>2. SoundBatch(h[2])
    BY <1>1, Zenon DEF StoreInv
  <2> QED
    BY <1>1, <2>1, <2>2, SoundStays, Zenon DEF SoundBatch, Sound, Known
<1>4. ASSUME NEW m \in net' PROVE SoundBatch(m[2])'
  <2>1. m[2] \in SUBSET Write
    BY Zenon DEF TypeOK, StoreType
  <2>2. SoundBatch(m[2])
    BY <1>1, Zenon DEF StoreInv
  <2> QED
    BY <1>1, <2>1, <2>2, SoundStays, Zenon DEF SoundBatch, Sound, Known
<1>5. ASSUME NEW w \in issued', NEW n \in Nodes PROVE w[2][n] <= node_clock'[n]
  <2>1. CASE w \in issued
    <3>1. w[2] \in Clock /\ w[2][n] <= node_clock[n] /\ node_clock[n] <= node_clock'[n]
      BY <1>1, <2>1, Zenon DEF TypeOK, StoreType, StoreInv, Known, Write, Forward
    <3>2. w[2][n] \in Int /\ node_clock[n] \in Int /\ node_clock'[n] \in Int
      BY <1>1, <3>1, BoundAssumption DEF Clock, TypeOK, StoreType
    <3> QED
      BY <3>1, <3>2
  <2> QED
    BY Zenon, <2>1
<1> QED
  BY <1>2, <1>3, <1>4, <1>5, Zenon DEF StoreInv, Known

\* A step that applies nothing forgets nothing.
LEMMA StandsStill == versions' = versions => Advance
  BY Zenon DEF Advance

\* apply_versioned_writes is a step forward.
LEMMA ApplyGoes ==
    ASSUME ApInv, NEW n \in Nodes, NEW W \in SUBSET Write, SoundBatch(W), Apply(n, W),
           node_clock' = node_clock, node_clock \in [Nodes -> 0..MaxClock]
    PROVE  /\ Forward
           /\ \A m \in Nodes, k \in Keys :
                 /\ Antichain(versions'[m][k])
                 /\ \A v \in versions'[m][k] : \A j \in Nodes : v[j] <= node_clock'[j]
           /\ \A w \in W : Covers(versions'[n][w[1]], w[2])
<1>1. TypeOK /\ StoreInv
  BY Zenon DEF ApInv
<1>2. /\ Advance
      /\ \A m \in Nodes, k \in Keys : /\ Antichain(versions'[m][k])
                                      /\ \A v \in versions'[m][k] : Known(v)
      /\ \A w \in W : Covers(versions'[n][w[1]], w[2])
  BY Zenon, <1>1, ApplyFacts
<1>3. \A m \in Nodes : node_clock[m] <= node_clock'[m]
  BY BoundAssumption
<1> QED
  BY <1>2, <1>3, Zenon DEF Forward, Known

\* Acknowledged writes stay on their replicas in a step that acknowledges none.
LEMMA AckedStays ==
    ASSUME ApInv, TypeOK', Advance, acked' = acked
    PROVE  (Uniform => AckedOnQuorum)'
<1> SUFFICES ASSUME Uniform, NEW w \in acked, NEW n \in Nodes
             PROVE  Cardinality(Holders(w[1], w[2])' \cap Preference[n][w[1]])
                        >= Required(DefaultWrite)
  BY Zenon DEF AckedOnQuorum, Uniform
<1> DEFINE H == Holders(w[1], w[2]) \cap Preference[n][w[1]]
           G == Holders(w[1], w[2])' \cap Preference[n][w[1]]
<1>1. w[1] \in Keys /\ w[2] \in Clock
  BY Zenon DEF ApInv, TypeOK, StoreType, Write
<1>2. H \subseteq G /\ G \in SUBSET Nodes
  BY <1>1, Zenon DEF Holders, Advance
<1>3. IsFiniteSet(G)
  BY Zenon, <1>2, NodesAssumption, FS_Subset
<1>4. Cardinality(H) <= Cardinality(G) /\ Cardinality(H) \in Int /\ Cardinality(G) \in Int
  BY <1>2, <1>3, FS_Subset, FS_CardinalityType
<1>5. Cardinality(H) >= Required(DefaultWrite)
  BY Zenon DEF ApInv, AckedOnQuorum
<1>6. Required(DefaultWrite) \in Int
  BY LevelAssumption, NodesAssumption, FS_CardinalityType DEF Required, Levels
<1> QED
  BY <1>4, <1>5, <1>6

\* Hinted batches stay hinted or delivered if no hint goes with its debt open.
LEMMA HintsStay ==
    ASSUME ApInv, TypeOK', Advance,
           \A o \in owed' : \/ <<o[2], o[3]>> \in hints'[o[1]]
                            \/ o \in owed /\ <<o[2], o[3]>> \notin hints[o[1]]
    PROVE  HintsReachTargets'
<1>1. ASSUME NEW o \in owed', <<o[2], o[3]>> \notin hints'[o[1]], NEW w \in o[3]
      PROVE  Covers(versions'[o[2]][w[1]], w[2])
  <2>1. o[2] \in Nodes /\ w[1] \in Keys /\ w[2] \in Clock
    BY <1>1, Zenon DEF TypeOK, StoreType, Write
  <2>2. Covers(versions[o[2]][w[1]], w[2])
    BY <1>1, Zenon DEF ApInv, HintsReachTargets
  <2> QED
    BY <2>1, <2>2, Zenon DEF Advance
<1> QED
  BY <1>1, Zenon DEF HintsReachTargets

\* What is lost in the transport was sound when sent.
LEMMA LoseSound ==
    ASSUME NEW t, NEW n, NEW W, SoundBatch(W), Lose(t, n, W)
    PROVE  \A m \in net' : m \in net \/ SoundBatch(m[2])
  BY DEF Lose

\* A step that touches no table but the transport keeps the store invariants.
LEMMA QuietStep ==
    ASSUME ApInv, TypeOK', UNCHANGED <<versions, node_clock>>,
           UNCHANGED <<hints, owed>>, UNCHANGED <<issued, acked>>,
           \A m \in net' : m \in net \/ SoundBatch(m[2])
    PROVE  Forward /\ StoreInv' /\ HintsReachTargets' /\ (Uniform => AckedOnQuorum)'
<1>1. node_clock \in [Nodes -> 0..MaxClock]
  BY Zenon DEF ApInv, TypeOK, StoreType
<1>2. Forward
  BY <1>1, StandsStill, BoundAssumption DEF Forward
<1>3. StoreInv'
  BY Zenon, <1>2, StoreStays
<1>4. HintsReachTargets'
  <2>1. \A o \in owed' : \/ <<o[2], o[3]>> \in hints'[o[1]]
                         \/ o \in owed /\ <<o[2], o[3]>> \notin hints[o[1]]
    BY Zenon
  <2> QED
    BY <1>2, <2>1, HintsStay, Zenon DEF Forward
<1>5. (Uniform => AckedOnQuorum)'
  BY <1>2, AckedStays, Zenon DEF Forward
<1> QED
  BY Zenon, <1>2, <1>3, <1>4, <1>5

\* A step that applies a batch to one node keeps the store invariants.
LEMMA ApplyStep ==
    ASSUME ApInv, TypeOK', NEW n \in Nodes, NEW W \in SUBSET Write, SoundBatch(W), Apply(n, W),
           UNCHANGED node_clock, UNCHANGED <<issued, acked>>,
           \A m \in net' : m \in net \/ SoundBatch(m[2]),
           UNCHANGED <<hints, owed>>
    PROVE  Forward /\ StoreInv' /\ HintsReachTargets' /\ (Uniform => AckedOnQuorum)'
<1>1. node_clock \in [Nodes -> 0..MaxClock]
  BY Zenon DEF ApInv, TypeOK, StoreType
<1>2. /\ Forward
      /\ \A m \in Nodes, k \in Keys :
            /\ Antichain(versions'[m][k])
            /\ \A v \in versions'[m][k] : \A j \in Nodes : v[j] <= node_clock'[j]
  BY Zenon, <1>1, ApplyGoes
<1>3. StoreInv'
  BY Zenon, <1>2, StoreStays
<1>4. HintsReachTargets'
  <2>1. \A o \in owed' : \/ <<o[2], o[3]>> \in hints'[o[1]]
                         \/ o \in owed /\ <<o[2], o[3]>> \notin hints[o[1]]
    BY Zenon
  <2> QED
    BY <1>2, <2>1, HintsStay, Zenon DEF Forward
<1>5. (Uniform => AckedOnQuorum)'
  BY <1>2, AckedStays, Zenon DEF Forward
<1> QED
  BY Zenon, <1>2, <1>3, <1>4, <1>5

-----------------------------------------------------------------------------
\* The parts make up the invariant when only the call of t moves.
LEMMA Assembled ==
    ASSUME ApInv, TypeOK', Forward, StoreInv', HintsReachTargets', (Uniform => AckedOnQuorum)',
           NEW t \in Threads, ThreadInv(t)', \A u \in Threads \ {t} : Same(u)
    PROVE  ApInv'
  BY OtherThread, Zenon DEF ApInv

\* The same when calls end.
LEMMA AssembledReset ==
    ASSUME ApInv, TypeOK', Forward, StoreInv', HintsReachTargets', (Uniform => AckedOnQuorum)',
           NEW ts, Reset(ts)
    PROVE  ApInv'
  BY ResetThreads, Zenon DEF ApInv

\* What t keeps stays sound.
LEMMA KeptSound ==
    ASSUME ApInv, TypeOK', Forward, NEW t \in Threads
    PROVE  /\ batch'[t] = batch[t] => SoundBatch(batch[t])'
           /\ queue'[t] \subseteq queue[t] => (\A h \in queue[t] : SoundBatch(h[2]))'
           /\ merged'[t] = merged[t] => (\A k \in Keys : Sound(merged[t][k]))'
<1>1. TypeOK /\ ThreadInv(t)
  BY Zenon DEF ApInv
<1>2. /\ batch[t] \in SUBSET Write /\ queue[t] \in SUBSET (Nodes \X SUBSET Write)
      /\ merged[t] \in [Keys -> SUBSET Clock]
  BY <1>1, Zenon DEF TypeOK, LocalType
<1>3. batch'[t] = batch[t] => SoundBatch(batch[t])'
  BY <1>1, <1>2, SoundStays, Zenon DEF ThreadInv, SoundBatch, Sound, Known
<1>4. ASSUME NEW h \in queue[t] PROVE SoundBatch(h[2])'
  <2>1. h[2] \in SUBSET Write /\ SoundBatch(h[2])
    BY <1>1, <1>2, Zenon DEF ThreadInv
  <2> QED
    BY <1>1, <2>1, SoundStays, Zenon DEF SoundBatch, Sound, Known
<1>5. merged'[t] = merged[t] => (\A k \in Keys : Sound(merged[t][k]))'
  BY <1>1, <1>2, SoundStays, Zenon DEF ThreadInv, Sound, Known
<1> QED
  BY Zenon, <1>3, <1>4, <1>5

\* propose_batch and resolve_conflict keep the invariant.
LEMMA BuildKeeps ==
    ASSUME ApInv, TypeOK', NEW t \in Threads, ProposeBatch(t) \/ ResolveConflict(t)
    PROVE  ApInv'
<1>1. TypeOK /\ StoreInv /\ ThreadInv(t) /\ Home[t] \in Nodes
  BY ThreadAssumption, Zenon DEF ApInv
<1>2. PICK ks \in SUBSET Keys :
          /\ Uniform => \E k \in Keys : ks = {k}
          /\ \E parents : /\ \A k \in ks : parents[k] \in Clock /\ Known(parents[k])
                          /\ Build(t, ks, parents)
  BY Zenon, ProposeBuild
<1>3. PICK parents : /\ \A k \in ks : parents[k] \in Clock /\ Known(parents[k])
                     /\ Build(t, ks, parents)
  BY Zenon, <1>2
<1>4. /\ \A n \in Nodes : node_clock[n] <= node_clock'[n]
      /\ batch' = [batch EXCEPT ![t] = batch'[t]]
      /\ batch'[t] \in SUBSET Write
      /\ \A w \in batch'[t] : w[1] \in ks /\ \A n \in Nodes : w[2][n] <= node_clock'[n]
      /\ \A w, x \in batch'[t] : w[1] = x[1] => w = x
      /\ issued' = issued \cup batch'[t]
      /\ targets' = [targets EXCEPT ![t] = UNION {Preference[Home[t]][k] : k \in ks}]
  <2>1. Stamped(batch'[t], ks, node_clock')
    BY Zenon, <1>1, <1>3, BuildFacts
  <2>2. /\ \A n \in Nodes : node_clock[n] <= node_clock'[n]
        /\ batch' = [batch EXCEPT ![t] = batch'[t]]
        /\ batch'[t] \in SUBSET Write
        /\ issued' = issued \cup batch'[t]
        /\ targets' = [targets EXCEPT ![t] = UNION {Preference[Home[t]][k] : k \in ks}]
    BY Zenon, <1>1, <1>3, BuildFacts
  <2> QED
    BY <2>1, <2>2, Zenon DEF Stamped
<1>5. /\ acks' = [acks EXCEPT ![t] = {}]
      /\ pc' = [pc EXCEPT ![t] = "sending"]
      /\ UNCHANGED <<versions, hints, net, acked, owed>>
  BY <1>3, Zenon DEF Build
<1>6. /\ UNCHANGED <<queue, replies, repairs, call, must>>
      /\ pc[t] # "reading"
      /\ \/ UNCHANGED <<rkeys, merged>>
         \/ rkeys' = [rkeys EXCEPT ![t] = {}] /\ merged' = [merged EXCEPT ![t] = NoVersions]
  BY Zenon DEF ProposeBatch, ResolveConflict, reading
<1>7. Forward
  BY <1>4, <1>5, StandsStill, Zenon DEF Forward
<1>8. StoreInv'
  <2>1. \A w \in issued' : w \in issued \/ \A n \in Nodes : w[2][n] <= node_clock'[n]
    BY Zenon, <1>4
  <2> QED
    BY Zenon, <1>5, <1>7, <2>1, StoreStays
<1>9. HintsReachTargets' /\ (Uniform => AckedOnQuorum)'
  <2>1. \A o \in owed' : \/ <<o[2], o[3]>> \in hints'[o[1]]
                         \/ o \in owed /\ <<o[2], o[3]>> \notin hints[o[1]]
    BY Zenon, <1>5
  <2> QED
    BY <1>5, <1>7, <2>1, HintsStay, AckedStays, Zenon DEF Forward
<1>10. /\ pc'[t] = "sending" /\ acks'[t] = {}
       /\ targets'[t] = UNION {Preference[Home[t]][k] : k \in ks}
       /\ merged'[t] = merged[t] \/ merged'[t] = NoVersions
       /\ \A u \in Threads \ {t} : Same(u)
  <2>1. pc'[t] = "sending" /\ acks'[t] = {}
    BY <1>1, <1>5, Zenon DEF TypeOK, LocalType
  <2>2. targets'[t] = UNION {Preference[Home[t]][k] : k \in ks}
    BY <1>1, <1>4, Zenon DEF TypeOK, LocalType
  <2>3. merged'[t] = merged[t] \/ merged'[t] = NoVersions
    BY <1>1, <1>6, Zenon DEF TypeOK, LocalType
  <2>4. ASSUME NEW u \in Threads \ {t} PROVE Same(u)
    <3>1. rkeys'[u] = rkeys[u] /\ merged'[u] = merged[u]
      BY <1>1, <1>6, Zenon DEF TypeOK, LocalType
    <3>2. batch'[u] = batch[u] /\ targets'[u] = targets[u]
      BY <1>1, <1>4, Zenon DEF TypeOK, LocalType
    <3>3. pc'[u] = pc[u] /\ acks'[u] = acks[u]
      BY <1>1, <1>5, Zenon DEF TypeOK, LocalType
    <3> QED
      BY <1>6, <3>1, <3>2, <3>3, Zenon DEF Same
  <2> QED
    BY Zenon, <2>1, <2>2, <2>3, <2>4
<1>11. ThreadInv(t)'
  <2>1. SoundBatch(batch[t])'
    <3>1. ASSUME NEW k \in Keys
          PROVE  /\ Antichain(Of(batch'[t], k))
                 /\ \A v \in Of(batch'[t], k) : \A n \in Nodes : v[n] <= node_clock'[n]
      <4>1. \A v \in Of(batch'[t], k) : \E w \in batch'[t] : w[1] = k /\ w[2] = v
        BY Zenon DEF Of
      <4>2. \A v, x \in Of(batch'[t], k) : v = x
        BY <1>4, <4>1
      <4> QED
        BY <1>4, <4>1, <4>2, Zenon DEF Antichain, Before
    <3> QED
      BY <3>1, Zenon DEF SoundBatch, Sound, Known
  <2>2. (\A h \in queue[t] : SoundBatch(h[2]))'
    BY Zenon, <1>6, <1>7, KeptSound
  <2>3. (\A k \in Keys : Sound(merged[t][k]))'
    BY Zenon, <1>7, <1>10, KeptSound, EmptySound
  <2>4. \A n \in Nodes : replies'[t][n] = NoReply
    BY <1>1, <1>6, Zenon DEF ThreadInv
  <2>5. SendingInv(t)'
    <3>1. (\A n \in acks[t] : Reaches(n, batch[t]))'
      BY Zenon, <1>10
    <3>2. ASSUME Uniform
          PROVE  \E k \in Keys :
                    /\ \A w \in batch'[t] : w[1] = k
                    /\ targets'[t] \cup acks'[t] \subseteq Preference[Home[t]][k]
      <4>1. PICK k \in Keys : ks = {k}
        BY Zenon, <1>2, <3>2
      <4>2. UNION {Preference[Home[t]][j] : j \in ks} \subseteq Preference[Home[t]][k]
        BY Zenon, <4>1
      <4> QED
        BY Zenon, <1>4, <1>10, <4>1, <4>2
    <3> QED
      BY <3>1, <3>2, Zenon DEF SendingInv, Uniform
  <2> QED
    BY <1>10, <2>1, <2>2, <2>3, <2>4, <2>5, Zenon DEF ThreadInv
<1> QED
  BY Zenon, <1>7, <1>8, <1>9, <1>10, <1>11, Assembled

\* A send that is taken, or fails and is hinted, keeps the invariant.
LEMMA SendKeeps ==
    ASSUME ApInv, TypeOK', NEW t \in Threads, SendOk(t) \/ SendHinted(t)
    PROVE  ApInv'
<1>1. TypeOK /\ StoreInv /\ ThreadInv(t) /\ Home[t] \in Nodes /\ pc[t] = "sending"
  BY ThreadAssumption, Zenon DEF ApInv, SendOk, SendHinted
<1>2. SoundBatch(batch[t]) /\ SendingInv(t) /\ batch[t] \in SUBSET Write
      /\ acks[t] \in SUBSET Nodes /\ targets[t] \in SUBSET Nodes
  BY <1>1, Zenon DEF ThreadInv, TypeOK, LocalType
<1>3. /\ UNCHANGED <<node_clock, pc, queue, batch, reading, issued, acked>>
      /\ \E n \in targets[t] : targets' = [targets EXCEPT ![t] = @ \ {n}]
  BY Zenon DEF SendOk, SendHinted, sending, aux
<1>4. /\ \A u \in Threads \ {t} : targets'[u] = targets[u]
      /\ targets'[t] \subseteq targets[t]
  <2>1. targets \in [Threads -> SUBSET Nodes]
    BY <1>1, Zenon DEF TypeOK, LocalType
  <2> QED
    BY Zenon, <1>3, <2>1
<1>5. CASE SendOk(t)
  <2>1. PICK n \in targets[t] : Apply(n, batch[t]) /\ acks' = [acks EXCEPT ![t] = @ \cup {n}]
    BY <1>5, Zenon DEF SendOk
  <2>2. UNCHANGED <<hints, net, owed>> /\ n \in Nodes
    BY <1>2, <1>5, Zenon DEF SendOk, aux
  <2>3. Forward /\ StoreInv' /\ HintsReachTargets' /\ (Uniform => AckedOnQuorum)'
    BY Zenon, <1>2, <1>3, <2>1, <2>2, ApplyStep
  <2>4. acks'[t] = acks[t] \cup {n} /\ \A u \in Threads \ {t} : acks'[u] = acks[u]
    BY <1>1, <2>1, Zenon DEF TypeOK, LocalType
  <2>5. \A u \in Threads \ {t} : Same(u)
    BY <1>3, <1>4, <2>4, Zenon DEF Same, reading
  <2>6. \A w \in batch[t] : Covers(versions'[n][w[1]], w[2])
    <3>1. node_clock \in [Nodes -> 0..MaxClock]
      BY <1>1, Zenon DEF TypeOK, StoreType
    <3> QED
      BY Zenon, <1>2, <1>3, <2>1, <2>2, <3>1, ApplyGoes
  <2>7. SendingInv(t)'
    <3>1. ASSUME NEW m \in acks'[t], NEW w \in batch[t] PROVE Covers(versions'[m][w[1]], w[2])
      <4>1. CASE m = n
        BY Zenon, <2>6, <4>1
      <4>2. CASE m \in acks[t]
        <5>1. Covers(versions[m][w[1]], w[2]) /\ m \in Nodes /\ w[1] \in Keys /\ w[2] \in Clock
          BY <1>2, <4>2, Zenon DEF SendingInv, Reaches, Write
        <5> QED
          BY <2>3, <5>1, Zenon DEF Forward, Advance
      <4> QED
        BY Zenon, <2>4, <4>1, <4>2
    <3>2. ASSUME Uniform
          PROVE  \E k \in Keys : /\ \A w \in batch[t] : w[1] = k
                                 /\ targets'[t] \cup acks'[t] \subseteq Preference[Home[t]][k]
      BY <1>2, <1>4, <2>4, <3>2, ZenonT(40) DEF SendingInv
    <3> QED
      BY <1>3, <3>1, <3>2, Zenon DEF SendingInv, Reaches, Uniform
  <2>8. ThreadInv(t)'
    <3>1. pc'[t] = "sending" /\ batch'[t] = batch[t] /\ queue'[t] = queue[t]
          /\ merged'[t] = merged[t] /\ replies'[t] = replies[t]
      BY <1>1, <1>3, Zenon DEF reading
    <3>2. SoundBatch(batch[t])' /\ (\A h \in queue[t] : SoundBatch(h[2]))'
          /\ (\A k \in Keys : Sound(merged[t][k]))'
      BY Zenon, <2>3, <3>1, KeptSound
    <3>3. \A m \in Nodes : replies'[t][m] = NoReply
      BY <1>1, <3>1, Zenon DEF ThreadInv
    <3> QED
      BY <2>7, <3>1, <3>2, <3>3, Zenon DEF ThreadInv
  <2> QED
    BY Zenon, <2>3, <2>5, <2>8, Assembled
<1>6. CASE SendHinted(t)
  <2>1. PICK n \in targets[t] :
           /\ hints' = [hints EXCEPT ![Home[t]] = @ \cup {<<n, batch[t]>>}]
           /\ owed' = owed \cup {<<Home[t], n, batch[t]>>}
           /\ Lose(t, n, batch[t])
    BY <1>6, Zenon DEF SendHinted
  <2>2. UNCHANGED <<versions, acks>> /\ n \in Nodes
    BY <1>2, <1>6, Zenon DEF SendHinted, sending
  <2>3. Forward
    <3>1. node_clock \in [Nodes -> 0..MaxClock]
      BY <1>1, Zenon DEF TypeOK, StoreType
    <3> QED
      BY <1>3, <2>2, <3>1, StandsStill, BoundAssumption DEF Forward
  <2>4. /\ \A m \in Nodes : hints[m] \subseteq hints'[m]
        /\ <<n, batch[t]>> \in hints'[Home[t]]
        /\ \A m \in Nodes : \A h \in hints'[m] : h \in hints[m] \/ h = <<n, batch[t]>>
    BY <1>1, <2>1, ZenonT(40) DEF TypeOK, StoreType
  <2>5. StoreInv'
    <3>1. \A m \in net' : m \in net \/ SoundBatch(m[2])
      BY ZenonT(40), <1>2, <2>1, LoseSound
    <3>2. \A m \in Nodes : \A h \in hints'[m] : h \in hints[m] \/ SoundBatch(h[2])
      BY <1>2, <2>4
    <3> QED
      BY <1>3, <2>2, <2>3, <3>1, <3>2, StoreStays
  <2>6. HintsReachTargets' /\ (Uniform => AckedOnQuorum)'
    <3>1. ASSUME NEW o \in owed'
          PROVE  \/ <<o[2], o[3]>> \in hints'[o[1]]
                 \/ o \in owed /\ <<o[2], o[3]>> \notin hints[o[1]]
      <4>1. CASE o = <<Home[t], n, batch[t]>>
        BY Zenon, <2>4, <4>1
      <4>2. CASE o \in owed
        <5>1. o[1] \in Nodes
          BY <1>1, <4>2, Zenon DEF TypeOK, StoreType
        <5> QED
          BY <2>4, <4>2, <5>1
      <4> QED
        BY Zenon, <2>1, <4>1, <4>2
    <3> QED
      BY <1>3, <2>3, <3>1, HintsStay, AckedStays, Zenon DEF Forward
  <2>7. \A u \in Threads \ {t} : Same(u)
    BY <1>3, <1>4, <2>2, Zenon DEF Same, reading
  <2>8. SendingInv(t)'
    <3>1. ASSUME Uniform
          PROVE  \E k \in Keys : /\ \A w \in batch[t] : w[1] = k
                                 /\ targets'[t] \cup acks[t] \subseteq Preference[Home[t]][k]
      BY <1>2, <1>4, <3>1, Zenon DEF SendingInv
    <3> QED
      BY <1>2, <1>3, <2>2, <3>1, Zenon DEF SendingInv, Reaches, Uniform
  <2>9. ThreadInv(t)'
    <3>1. pc'[t] = "sending" /\ batch'[t] = batch[t] /\ queue'[t] = queue[t]
          /\ merged'[t] = merged[t] /\ replies'[t] = replies[t]
      BY <1>1, <1>3, Zenon DEF reading
    <3>2. SoundBatch(batch[t])' /\ (\A h \in queue[t] : SoundBatch(h[2]))'
          /\ (\A k \in Keys : Sound(merged[t][k]))'
      BY Zenon, <2>3, <3>1, KeptSound
    <3>3. \A m \in Nodes : replies'[t][m] = NoReply
      BY <1>1, <3>1, Zenon DEF ThreadInv
    <3> QED
      BY <2>8, <3>1, <3>2, <3>3, Zenon DEF ThreadInv
  <2> QED
    BY Zenon, <2>3, <2>5, <2>6, <2>7, <2>9, Assembled
<1> QED
  BY Zenon, <1>5, <1>6

\* In one region all coordinators prefer the same replicas.
LEMMA SamePreference ==
    ASSUME Uniform, NEW m \in Nodes, NEW n \in Nodes, NEW k \in Keys
    PROVE  Preference[m][k] = Preference[n][k]
<1>1. \A a, b \in Nodes : Ahead(m, k, b, a) <=> Ahead(n, k, b, a)
  BY Zenon DEF Ahead, Uniform
<1>2. \A a \in Nodes : {b \in Nodes : Ahead(m, k, b, a)} = {b \in Nodes : Ahead(n, k, b, a)}
  BY Zenon, <1>1
<1> QED
  BY <1>2, Zenon DEF Preference

\* A write that returns or is refused keeps the invariant: a quorum of
\* acknowledgements is a quorum of holders.
LEMMA WriteEnds ==
    ASSUME ApInv, TypeOK', NEW t \in Threads, SendRefused(t) \/ WriteReturns(t)
    PROVE  ApInv'
<1>1. TypeOK /\ ThreadInv(t) /\ Home[t] \in Nodes /\ pc[t] = "sending"
  BY ThreadAssumption, Zenon DEF ApInv, SendRefused, WriteReturns
<1>2. /\ SoundBatch(batch[t]) /\ SendingInv(t) /\ batch[t] \in SUBSET Write
      /\ acks[t] \in SUBSET Nodes
  BY <1>1, Zenon DEF ThreadInv, TypeOK, LocalType
<1>3. Reset({t}) /\ UNCHANGED <<versions, node_clock>>
      /\ UNCHANGED <<hints, owed>> /\ UNCHANGED issued
  BY Zenon DEF SendRefused, WriteReturns, stored, aux
<1>4. CASE SendRefused(t)
  <2>1. UNCHANGED acked /\ \E n \in targets[t] : Lose(t, n, batch[t])
    BY <1>4, Zenon DEF SendRefused, aux
  <2>2. \A m \in net' : m \in net \/ SoundBatch(m[2])
    BY Zenon, <1>2, <2>1, LoseSound
  <2> QED
    BY Zenon, <1>3, <2>1, <2>2, QuietStep, AssembledReset
<1>5. CASE WriteReturns(t)
  <2>1. /\ UNCHANGED net
        /\ acked' = acked \/ (/\ Cardinality(acks[t]) >= Required(DefaultWrite)
                              /\ acked' = acked \cup batch[t])
    BY <1>5, Zenon DEF WriteReturns, stored
  <2>2. Forward
    <3>1. node_clock \in [Nodes -> 0..MaxClock]
      BY <1>1, Zenon DEF TypeOK, StoreType
    <3> QED
      BY <1>3, <3>1, StandsStill, BoundAssumption DEF Forward
  <2>3. StoreInv'
    BY Zenon, <1>3, <2>1, <2>2, StoreStays
  <2>4. HintsReachTargets'
    BY <1>3, Zenon DEF HintsReachTargets, ApInv
  <2>5. ASSUME Uniform, NEW w \in acked', NEW n \in Nodes
        PROVE  Cardinality(Holders(w[1], w[2]) \cap Preference[n][w[1]]) >= Required(DefaultWrite)
    <3>1. CASE w \in acked
      BY <2>5, <3>1, Zenon DEF ApInv, AckedOnQuorum
    <3>2. CASE w \notin acked
      <4>1. w \in batch[t] /\ Cardinality(acks[t]) >= Required(DefaultWrite)
        BY Zenon, <2>1, <2>5, <3>2
      <4> DEFINE H == Holders(w[1], w[2]) \cap Preference[n][w[1]]
      <4>2. w[1] \in Keys /\ acks[t] \subseteq Preference[Home[t]][w[1]]
        BY <1>2, <2>5, <4>1, Zenon DEF SendingInv, Write
      <4>3. acks[t] \subseteq H
        BY <1>1, <1>2, <2>5, <4>1, <4>2, SamePreference DEF SendingInv, Reaches, Holders
      <4>4. H \in SUBSET Nodes
        BY Zenon DEF Holders
      <4>5. IsFiniteSet(H)
        BY Zenon, <4>4, NodesAssumption, FS_Subset
      <4>6. Cardinality(acks[t]) <= Cardinality(H) /\ Cardinality(acks[t]) \in Int
            /\ Cardinality(H) \in Int
        BY <4>3, <4>5, FS_Subset, FS_CardinalityType
      <4>7. Required(DefaultWrite) \in Int
        BY LevelAssumption, NodesAssumption, FS_CardinalityType DEF Required, Levels
      <4> QED
        BY <4>1, <4>6, <4>7
    <3> QED
      BY Zenon, <3>1, <3>2
  <2>6. (Uniform => AckedOnQuorum)'
    BY <1>3, <2>5, Zenon DEF AckedOnQuorum, Uniform, Holders
  <2> QED
    BY Zenon, <1>3, <2>2, <2>3, <2>4, <2>6, AssembledReset
<1> QED
  BY Zenon, <1>4, <1>5

\* read_level_for(Strong) picks a level that overlaps every write quorum.
LEMMA Quorums ==
    /\ Required(DefaultWrite) \in 1..RF
    /\ Required(StrongLevel) \in 1..RF
    /\ Required(StrongLevel) + Required(DefaultWrite) > RF
<1>1. RF \in Int /\ RF >= 1
  BY NodesAssumption, FS_CardinalityType
<1>2. /\ Required("One") = 1 /\ Required("Quorum") = RF \div 2 + 1 /\ Required("All") = RF
      /\ Required(DefaultWrite) \in 1..RF
  BY <1>1, LevelAssumption DEF Required, Levels
<1> QED
  BY <1>1, <1>2 DEF StrongLevel

\* The start of a read keeps the invariant: the acknowledged writes are all on
\* silent replicas.
LEMMA StartReadKeeps == ASSUME ApInv, TypeOK', NEW t \in Threads, StartRead(t) PROVE ApInv'
<1>1. TypeOK /\ ThreadInv(t) /\ Home[t] \in Nodes /\ pc[t] = "idle"
  BY ThreadAssumption, Zenon DEF ApInv, StartRead
<1>2. PICK kind \in Reads, k \in Keys : LET ks == IF kind = "range" THEN Keys ELSE {k} IN
          /\ call' = [call EXCEPT ![t] = kind]
          /\ rkeys' = [rkeys EXCEPT ![t] = ks]
          /\ targets' = [targets EXCEPT ![t] =
                IF kind = "range" THEN Nodes ELSE Preference[Home[t]][k]]
          /\ must' = [must EXCEPT ![t] =
                {w \in acked : kind \in {"strong", "range"} /\ w[1] \in ks}]
  BY Zenon DEF StartRead
<1> DEFINE ks == IF kind = "range" THEN Keys ELSE {k}
<1>3. /\ pc' = [pc EXCEPT ![t] = "reading"]
      /\ UNCHANGED <<versions, node_clock>> /\ UNCHANGED <<hints, owed>>
      /\ UNCHANGED <<issued, acked>> /\ UNCHANGED net
      /\ UNCHANGED <<queue, batch, acks, replies, merged, repairs>>
  BY Zenon DEF StartRead, stored, sending, aux
<1>4. Forward /\ StoreInv' /\ HintsReachTargets' /\ (Uniform => AckedOnQuorum)'
  BY ZenonT(40), <1>3, QuietStep
<1>5. /\ call'[t] = kind /\ rkeys'[t] = ks /\ pc'[t] = "reading"
      /\ targets'[t] = IF kind = "range" THEN Nodes ELSE Preference[Home[t]][k]
      /\ must'[t] = {w \in acked : kind \in {"strong", "range"} /\ w[1] \in ks}
  BY <1>1, <1>2, <1>3 DEF TypeOK, LocalType
<1>6. \A u \in Threads \ {t} : Same(u)
  <2>1. ASSUME NEW u \in Threads \ {t} PROVE /\ pc'[u] = pc[u] /\ call'[u] = call[u]
        /\ rkeys'[u] = rkeys[u] /\ targets'[u] = targets[u] /\ must'[u] = must[u]
    BY <1>1, <1>2, <1>3 DEF TypeOK, LocalType
  <2> QED
    BY <1>3, <2>1, ZenonT(40) DEF Same
<1>7. \A n \in Nodes : replies'[t][n] = NoReply
  BY <1>1, <1>3, Zenon DEF ThreadInv
<1>8. ReadingInv(t)'
  <2>1. (call[t] \in {"eventual", "siblings"} => must[t] = {})'
    BY Zenon, <1>5
  <2>2. (call[t] # "range" => \E j \in Keys :
          rkeys[t] = {j} /\ targets[t] \cup Answered(t) \subseteq Preference[Home[t]][j])'
    BY <1>5, <1>7, Zenon DEF Answered
  <2>3. ASSUME NEW w \in must'[t] PROVE w[1] \in rkeys'[t]
    BY Zenon, <1>5
  <2>4. ASSUME NEW w \in must'[t], Uniform
        PROVE  Cardinality(Unheard(t, w)') >= Required(DefaultWrite)
    <3>1. w \in acked /\ w[1] \in Keys
      BY <1>1, <1>5, Zenon DEF TypeOK, StoreType, Write
    <3>2. Preference[Home[t]][w[1]] \in SUBSET Nodes
      BY Zenon, <1>1, <3>1, PreferenceType
    <3>3. Unheard(t, w)' = Holders(w[1], w[2]) \cap Preference[Home[t]][w[1]]
      BY <1>3, <1>7, <3>2, Zenon DEF Unheard, Holders
    <3> QED
      BY <1>1, <2>4, <3>1, <3>3, Zenon DEF ApInv, AckedOnQuorum
  <2> QED
    BY <2>1, <2>2, <2>3, <2>4, Zenon DEF ReadingInv, Uniform
<1>9. ThreadInv(t)'
  <2>1. SoundBatch(batch[t])' /\ (\A h \in queue[t] : SoundBatch(h[2]))'
        /\ (\A j \in Keys : Sound(merged[t][j]))'
    BY Zenon, <1>3, <1>4, KeptSound
  <2> QED
    BY <1>5, <1>8, <2>1, Zenon DEF ThreadInv
<1> QED
  BY Zenon, <1>4, <1>6, <1>9, Assembled

\* A reply keeps the invariant: a holder that answers hands its write over.
LEMMA ReplyKeeps == ASSUME ApInv, TypeOK', NEW t \in Threads, Reply(t) PROVE ApInv'
<1>1. TypeOK /\ StoreInv /\ ThreadInv(t) /\ Home[t] \in Nodes /\ pc[t] = "reading"
  BY ThreadAssumption, Zenon DEF ApInv, Reply
<1>2. PICK n \in targets[t] :
          LET mine == [k \in Keys |-> IF k \in rkeys[t] /\ n \in Preference[Home[t]][k]
                                      THEN versions[n][k] ELSE {}]
          IN  /\ targets' = [targets EXCEPT ![t] = @ \ {n}]
              /\ replies' = [replies EXCEPT ![t] = [@ EXCEPT ![n] = mine]]
              /\ merged' = [merged EXCEPT ![t] = [k \in Keys |-> Merge(@[k], mine[k])]]
  BY Zenon DEF Reply
<1> DEFINE mine == [k \in Keys |-> IF k \in rkeys[t] /\ n \in Preference[Home[t]][k]
                                  THEN versions[n][k] ELSE {}]
<1>3. /\ mine = [k \in Keys |-> IF k \in rkeys[t] /\ n \in Preference[Home[t]][k]
                                THEN versions[n][k] ELSE {}]
      /\ targets' = [targets EXCEPT ![t] = targets[t] \ {n}]
      /\ replies' = [replies EXCEPT ![t] = [replies[t] EXCEPT ![n] = mine]]
      /\ merged' = [merged EXCEPT ![t] = [k \in Keys |-> Merge(merged[t][k], mine[k])]]
  BY <1>1, <1>2, Zenon DEF TypeOK, LocalType
<1> HIDE DEF mine
<1>4. /\ UNCHANGED <<versions, node_clock>> /\ UNCHANGED <<hints, owed>>
      /\ UNCHANGED <<issued, acked>> /\ UNCHANGED net
      /\ UNCHANGED <<pc, queue, batch, acks, rkeys, repairs, call, must>>
  BY Zenon DEF Reply, stored, sending, aux
<1>5. Forward /\ StoreInv' /\ HintsReachTargets' /\ (Uniform => AckedOnQuorum)'
  BY Zenon, <1>4, QuietStep
<1>6. /\ n \in Nodes /\ targets[t] \in SUBSET Nodes /\ rkeys[t] \in SUBSET Keys
      /\ must[t] \in SUBSET Write /\ merged[t] \in [Keys -> SUBSET Clock]
      /\ \A k \in Keys : Sound(merged[t][k])
  BY <1>1, Zenon DEF TypeOK, LocalType, ThreadInv
<1>7. /\ mine \in [Keys -> SUBSET Clock]
      /\ \A k \in Keys : Antichain(mine[k]) /\ \A v \in mine[k] : Known(v)
      /\ \A k \in Keys : Sound(Merge(merged[t][k], mine[k]))
  BY Zenon, <1>1, <1>3, <1>6, ReplyType
<1>8. /\ targets'[t] = targets[t] \ {n}
      /\ replies'[t] = [replies[t] EXCEPT ![n] = mine]
      /\ merged'[t] = [k \in Keys |-> Merge(merged[t][k], mine[k])]
  BY <1>1, <1>3, ZenonT(40) DEF TypeOK, LocalType
<1>9. \A u \in Threads \ {t} : Same(u)
  <2>1. ASSUME NEW u \in Threads \ {t}
        PROVE  targets'[u] = targets[u] /\ replies'[u] = replies[u] /\ merged'[u] = merged[u]
    <3>1. \E R : replies' = [replies EXCEPT ![t] = R]
      BY Zenon, <1>3
    <3>2. \E M : merged' = [merged EXCEPT ![t] = M]
      BY Zenon, <1>3
    <3>3. \E T : targets' = [targets EXCEPT ![t] = T]
      BY Zenon, <1>3
    <3> QED
      BY <1>1, <3>1, <3>2, <3>3, Zenon DEF TypeOK, LocalType
  <2> QED
    BY <1>4, <2>1, Zenon DEF Same
<1>10. /\ \A m \in Nodes \ {n} : replies'[t][m] = replies[t][m]
       /\ replies'[t][n] # NoReply
  <2>1. replies[t] \in [Nodes -> [Keys -> SUBSET Clock] \cup {NoReply}]
    BY <1>1, Zenon DEF TypeOK, LocalType
  <2>2. mine # NoReply
    BY Zenon, <1>7, ReplyAssumption
  <2> QED
    BY Zenon, <1>6, <1>8, <2>1, <2>2
<1>11. ReadingInv(t)'
  <2>1. ReadingInv(t)
    BY <1>1, Zenon DEF ThreadInv
  <2>2. (call[t] \in {"eventual", "siblings"} => must[t] = {})'
    BY <1>4, <2>1, Zenon DEF ReadingInv
  <2>3. (call[t] # "range" => \E k \in Keys :
          rkeys[t] = {k} /\ targets[t] \cup Answered(t) \subseteq Preference[Home[t]][k])'
    <3>1. Answered(t)' \subseteq Answered(t) \cup {n}
      BY <1>10, Zenon DEF Answered
    <3>2. (targets[t] \cup Answered(t))' \subseteq targets[t] \cup Answered(t)
      BY Zenon, <1>8, <3>1
    <3> QED
      BY <1>4, <2>1, <3>2, Zenon DEF ReadingInv
  <2>4. ASSUME NEW w \in must[t] PROVE w[1] \in rkeys[t]
    BY <2>1, Zenon DEF ReadingInv
  <2>5. ASSUME NEW w \in must[t], Uniform
        PROVE  \/ Covers(merged'[t][w[1]], w[2])
               \/ Cardinality(Unheard(t, w)') >= Required(DefaultWrite)
    <3> DEFINE E == merged[t][w[1]]
               I == mine[w[1]]
    <3>1. w \in Write /\ w[1] \in Keys /\ w[2] \in Clock /\ w[1] \in rkeys[t]
      BY <1>6, <2>4, Zenon DEF Write
    <3>2. E \in SUBSET Clock /\ I \in SUBSET Clock /\ Antichain(E) /\ Antichain(I)
      BY <1>6, <1>7, <3>1, Zenon DEF Sound
    <3>3. Covers(E, w[2]) \/ Covers(I, w[2]) => Covers(Merge(E, I), w[2])
      BY Zenon, <3>1, <3>2, MergeFacts
    <3>4. merged'[t][w[1]] = Merge(E, I)
      BY Zenon, <1>8, <3>1
    <3>5. CASE Covers(E, w[2])
      BY Zenon, <3>3, <3>4, <3>5
    <3>6. CASE Cardinality(Unheard(t, w)) >= Required(DefaultWrite) /\ n \in Unheard(t, w)
      <4>1. I = versions[n][w[1]]
        BY <1>3, <3>1, <3>6, Zenon DEF Unheard
      <4> QED
        BY <3>3, <3>4, <3>6, <4>1, Zenon DEF Unheard
    <3>7. CASE Cardinality(Unheard(t, w)) >= Required(DefaultWrite) /\ n \notin Unheard(t, w)
      <4>1. Preference[Home[t]][w[1]] \in SUBSET Nodes
        BY Zenon, <1>1, <3>1, PreferenceType
      <4>2. Unheard(t, w)' = Unheard(t, w)
        BY <1>4, <1>10, <3>7, <4>1, Zenon DEF Unheard
      <4> QED
        BY Zenon, <3>7, <4>2
    <3> QED
      BY <2>1, <2>5, <3>5, <3>6, <3>7, Zenon DEF ReadingInv
  <2> QED
    BY <1>4, <2>2, <2>3, <2>4, <2>5, Zenon DEF ReadingInv, Uniform
<1>12. ThreadInv(t)'
  <2>1. SoundBatch(batch[t])' /\ (\A h \in queue[t] : SoundBatch(h[2]))'
    BY Zenon, <1>4, <1>5, KeptSound
  <2>2. (\A k \in Keys : Sound(merged[t][k]))'
    BY <1>4, <1>7, <1>8, Zenon DEF Sound, Known
  <2>3. pc'[t] = "reading"
    BY Zenon, <1>1, <1>4
  <2> QED
    BY <1>11, <2>1, <2>2, <2>3, Zenon DEF ThreadInv
<1> QED
  BY Zenon, <1>5, <1>9, <1>12, Assembled

\* A node that does not answer keeps the invariant.
LEMMA NoAnswerKeeps == ASSUME ApInv, TypeOK', NEW t \in Threads, NoAnswer(t) PROVE ApInv'
<1>1. TypeOK /\ ThreadInv(t) /\ pc[t] = "reading"
  BY Zenon DEF ApInv, NoAnswer
<1>2. PICK n \in targets[t] : targets' = [targets EXCEPT ![t] = @ \ {n}]
  BY Zenon DEF NoAnswer
<1>3. /\ UNCHANGED <<versions, node_clock>> /\ UNCHANGED <<hints, owed>>
      /\ UNCHANGED <<issued, acked>> /\ UNCHANGED net
      /\ UNCHANGED <<pc, queue, batch, acks, rkeys, replies, merged, repairs, call, must>>
  BY Zenon DEF NoAnswer, stored, sending, reading, aux
<1>4. Forward /\ StoreInv' /\ HintsReachTargets' /\ (Uniform => AckedOnQuorum)'
  BY Zenon, <1>3, QuietStep
<1>5. targets'[t] \subseteq targets[t] /\ \A u \in Threads \ {t} : targets'[u] = targets[u]
  BY <1>1, <1>2, Zenon DEF TypeOK, LocalType
<1>6. \A u \in Threads \ {t} : Same(u)
  BY <1>3, <1>5, Zenon DEF Same
<1>7. ReadingInv(t)'
  <2>1. ReadingInv(t)
    BY <1>1, Zenon DEF ThreadInv
  <2>2. (call[t] # "range" => \E k \in Keys :
          rkeys[t] = {k} /\ targets[t] \cup Answered(t) \subseteq Preference[Home[t]][k])'
    BY <1>3, <1>5, <2>1, Zenon DEF ReadingInv, Answered
  <2>3. \A w : Unheard(t, w)' = Unheard(t, w)
    BY <1>3, Zenon DEF Unheard
  <2> QED
    BY <1>3, <2>1, <2>2, <2>3, Zenon DEF ReadingInv, Uniform
<1>8. ThreadInv(t)'
  <2>1. SoundBatch(batch[t])' /\ (\A h \in queue[t] : SoundBatch(h[2]))'
        /\ (\A k \in Keys : Sound(merged[t][k]))'
    BY Zenon, <1>3, <1>4, KeptSound
  <2> QED
    BY <1>1, <1>3, <1>7, <2>1, Zenon DEF ThreadInv
<1> QED
  BY Zenon, <1>4, <1>6, <1>8, Assembled

\* When enough nodes have answered, some holder of each write was among them.
LEMMA QuorumHeard ==
    ASSUME ApInv, Uniform, NEW t \in Threads, pc[t] = "reading",
           Cardinality(Answered(t)) >= RequiredReplies(call[t]), NEW w \in must[t]
    PROVE  Covers(merged[t][w[1]], w[2])
<1>1. TypeOK /\ ReadingInv(t) /\ Home[t] \in Nodes
  BY ThreadAssumption, Zenon DEF ApInv, ThreadInv
<1>2. w[1] \in rkeys[t] /\ w[1] \in Keys /\ call[t] \in {"strong", "range"}
  BY <1>1, Zenon DEF ReadingInv, TypeOK, LocalType, Reads
<1> SUFFICES ASSUME Cardinality(Unheard(t, w)) >= Required(DefaultWrite) PROVE FALSE
  BY <1>1, ZenonT(40) DEF ReadingInv
<1>3. /\ IsFiniteSet(Nodes) /\ Cardinality(Nodes) \in Int
      /\ Preference[Home[t]][w[1]] \in SUBSET Nodes
      /\ Cardinality(Preference[Home[t]][w[1]]) = RF
      /\ Answered(t) \in SUBSET Nodes
  <2>1. IsFiniteSet(Nodes) /\ Cardinality(Nodes) \in Nat
    BY Zenon, NodesAssumption, FS_CardinalityType
  <2>2. Preference[Home[t]][w[1]] \in SUBSET Nodes
    BY ZenonT(40), <1>1, <1>2, PreferenceType
  <2>3. Cardinality(Preference[Home[t]][w[1]]) = RF
    BY Zenon, <1>1, <1>2, PreferenceAssumption
  <2>4. Answered(t) \in SUBSET Nodes
    BY Zenon DEF Answered
  <2> QED
    BY <2>1, <2>2, <2>3, <2>4
<1>4. Unheard(t, w) \subseteq Preference[Home[t]][w[1]] /\ Unheard(t, w) \cap Answered(t) = {}
  BY Zenon DEF Unheard, Answered
<1>5. IsFiniteSet(Preference[Home[t]][w[1]])
  BY Zenon, <1>3, FS_Subset
<1>6. Unheard(t, w) \in SUBSET Nodes
  BY ZenonT(40), <1>3, <1>4
<1>7. Cardinality(Answered(t)) \in Int /\ Cardinality(Unheard(t, w)) \in Int
  BY <1>3, <1>6, FS_Subset, FS_CardinalityType, SMTT(30)
<1>8. RF \in Int /\ Required(DefaultWrite) \in Int /\ Required(StrongLevel) \in Int
  BY NodesAssumption, FS_CardinalityType, Quorums
<1>9. CASE call[t] = "strong"
  <2>1. Cardinality(Answered(t)) >= Required(StrongLevel)
    BY <1>9, Zenon DEF RequiredReplies
  <2>2. Cardinality(Unheard(t, w)) + Cardinality(Answered(t)) > RF
    BY <1>7, <1>8, <2>1, Quorums
  <2>3. Answered(t) \subseteq Preference[Home[t]][w[1]]
    BY <1>1, <1>2, <1>9, Zenon DEF ReadingInv
  <2> QED
    BY Zenon, <1>3, <1>4, <1>5, <2>2, <2>3, FS_MajoritiesIntersect
<1>10. CASE call[t] = "range"
  <2>1. Cardinality(Answered(t)) >= Cardinality(Nodes) - RF + Required(StrongLevel)
    BY <1>10, Zenon DEF RequiredReplies
  <2>2. Cardinality(Unheard(t, w)) + Cardinality(Answered(t)) > Cardinality(Nodes)
    BY <1>3, <1>7, <1>8, <2>1, Quorums
  <2> QED
    BY Zenon, <1>3, <1>4, <1>6, <2>2, FS_MajoritiesIntersect
<1> QED
  BY Zenon, <1>2, <1>9, <1>10

\* The end of the replies keeps the invariant.
LEMMA ReadMergedKeeps == ASSUME ApInv, TypeOK', NEW t \in Threads, ReadMerged(t) PROVE ApInv'
<1>1. TypeOK /\ ThreadInv(t) /\ pc[t] = "reading"
  BY Zenon DEF ApInv, ReadMerged
<1>2. /\ pc' = [pc EXCEPT ![t] = IF call[t] = "siblings" THEN "resolving" ELSE "repairing"]
      /\ replies' = [replies EXCEPT ![t] = [n \in Nodes |-> NoReply]]
      /\ call' = [call EXCEPT ![t] = "eventual"]
      /\ \E R : repairs' = [repairs EXCEPT ![t] = R]
      /\ Cardinality(Answered(t)) >= RequiredReplies(call[t])
  BY Zenon DEF ReadMerged
<1>3. /\ UNCHANGED <<versions, node_clock>> /\ UNCHANGED <<hints, owed>>
      /\ UNCHANGED <<issued, acked>> /\ UNCHANGED net
      /\ UNCHANGED <<targets, queue, batch, acks, rkeys, merged, must>>
  BY Zenon DEF ReadMerged, stored, sending, aux
<1>4. Forward /\ StoreInv' /\ HintsReachTargets' /\ (Uniform => AckedOnQuorum)'
  BY Zenon, <1>3, QuietStep
<1>5. /\ pc'[t] = IF call[t] = "siblings" THEN "resolving" ELSE "repairing"
      /\ \A n \in Nodes : replies'[t][n] = NoReply
  BY <1>1, <1>2, Zenon DEF TypeOK, LocalType
<1>6. \A u \in Threads \ {t} : Same(u)
  <2>1. ASSUME NEW u \in Threads \ {t}
        PROVE  pc'[u] = pc[u] /\ replies'[u] = replies[u] /\ call'[u] = call[u]
    BY <1>1, <1>2, SMTT(20) DEF TypeOK, LocalType
  <2>2. ASSUME NEW u \in Threads \ {t} PROVE repairs'[u] = repairs[u]
    BY <1>1, <1>2 DEF TypeOK, LocalType
  <2> QED
    BY <1>3, <2>1, <2>2, ZenonT(40) DEF Same
<1>7. call[t] = "siblings" => \E k \in Keys : rkeys[t] = {k}
  BY <1>1, Zenon DEF ThreadInv, ReadingInv
<1>8. \A w \in must[t] : Uniform => Covers(merged[t][w[1]], w[2])
  BY Zenon, <1>1, <1>2, QuorumHeard
<1>9. ThreadInv(t)'
  <2>1. SoundBatch(batch[t])' /\ (\A h \in queue[t] : SoundBatch(h[2]))'
        /\ (\A k \in Keys : Sound(merged[t][k]))'
    BY Zenon, <1>3, <1>4, KeptSound
  <2>2. pc'[t] \in {"resolving", "repairing"}
    BY Zenon, <1>5
  <2>3. (pc[t] = "resolving" => \E k \in Keys : rkeys[t] = {k})'
    BY Zenon, <1>3, <1>5, <1>7
  <2>4. (pc[t] = "repairing" => \A w \in must[t] : Uniform => Covers(merged[t][w[1]], w[2]))'
    BY <1>3, <1>8, Zenon DEF Uniform
  <2> QED
    BY <1>5, <2>1, <2>2, <2>3, <2>4, Zenon DEF ThreadInv
<1> QED
  BY Zenon, <1>4, <1>6, <1>9, Assembled

\* read_repair keeps the invariant.
LEMMA RepairKeeps == ASSUME ApInv, TypeOK', NEW t \in Threads, Repair(t) PROVE ApInv'
<1>1. TypeOK /\ ThreadInv(t) /\ pc[t] = "repairing"
  BY Zenon DEF ApInv, Repair
<1>2. PICK r \in repairs[t] :
          /\ repairs' = [repairs EXCEPT ![t] = @ \ {r}]
          /\ \/ Apply(r[1], Writes({r[2]}, merged[t])) /\ UNCHANGED net
             \/ Lose(t, r[1], Writes({r[2]}, merged[t])) /\ UNCHANGED versions
  BY Zenon DEF Repair
<1>3. /\ UNCHANGED node_clock /\ UNCHANGED <<hints, owed>> /\ UNCHANGED <<issued, acked>>
      /\ UNCHANGED <<pc, targets, queue, batch, acks, rkeys, replies, merged, call, must>>
  BY ZenonT(40) DEF Repair, sending, aux
<1>4. /\ r[1] \in Nodes /\ r[2] \in Keys /\ merged[t] \in [Keys -> SUBSET Clock]
      /\ \A k \in Keys : Sound(merged[t][k])
  BY <1>1 DEF TypeOK, LocalType, ThreadInv
<1>5. Writes({r[2]}, merged[t]) \in SUBSET Write /\ SoundBatch(Writes({r[2]}, merged[t]))
  BY Zenon, <1>4, SoundWrites
<1>6. Forward /\ StoreInv' /\ HintsReachTargets' /\ (Uniform => AckedOnQuorum)'
  <2>1. CASE Apply(r[1], Writes({r[2]}, merged[t])) /\ UNCHANGED net
    BY Zenon, <1>3, <1>4, <1>5, <2>1, ApplyStep
  <2>2. CASE Lose(t, r[1], Writes({r[2]}, merged[t])) /\ UNCHANGED versions
    <3>1. \A m \in net' : m \in net \/ SoundBatch(m[2])
      BY Zenon, <1>5, <2>2, LoseSound
    <3> QED
      BY Zenon, <1>3, <2>2, <3>1, QuietStep
  <2> QED
    BY Zenon, <1>2, <2>1, <2>2
<1>7. \A u \in Threads \ {t} : Same(u)
  <2>1. ASSUME NEW u \in Threads \ {t} PROVE repairs'[u] = repairs[u]
    BY <1>1, <1>2, Zenon DEF TypeOK, LocalType
  <2> QED
    BY <1>3, <2>1, Zenon DEF Same
<1>8. ThreadInv(t)'
  <2>1. SoundBatch(batch[t])' /\ (\A h \in queue[t] : SoundBatch(h[2]))'
        /\ (\A k \in Keys : Sound(merged[t][k]))'
    BY Zenon, <1>3, <1>6, KeptSound
  <2> QED
    BY <1>1, <1>3, <2>1, Zenon DEF ThreadInv, Uniform
<1> QED
  BY Zenon, <1>6, <1>7, <1>8, Assembled

\* Calls that end without touching a table keep the invariant.
LEMMA ReadEnds ==
    ASSUME ApInv, TypeOK', NEW ts, Reset(ts), UNCHANGED <<stored, aux>> PROVE ApInv'
<1>1. /\ UNCHANGED <<versions, node_clock>> /\ UNCHANGED <<hints, owed>>
      /\ UNCHANGED <<issued, acked>> /\ UNCHANGED net
  BY Zenon DEF stored, aux
<1> QED
  BY Zenon, <1>1, QuietStep, AssembledReset

\* The start of deliver_hints keeps the invariant.
LEMMA StartDeliveryKeeps ==
    ASSUME ApInv, TypeOK', NEW t \in Threads, StartDelivery(t) PROVE ApInv'
<1>1. TypeOK /\ StoreInv /\ ThreadInv(t) /\ pc[t] = "idle" /\ Home[t] \in Nodes
  BY ThreadAssumption, Zenon DEF ApInv, StartDelivery
<1>2. /\ queue' = [queue EXCEPT ![t] = hints[Home[t]]]
      /\ pc' = [pc EXCEPT ![t] = "delivering"]
      /\ UNCHANGED <<versions, node_clock>> /\ UNCHANGED <<hints, owed>>
      /\ UNCHANGED <<issued, acked>> /\ UNCHANGED net
      /\ UNCHANGED <<targets, batch, acks, rkeys, replies, merged, repairs, call, must>>
  BY Zenon DEF StartDelivery, stored, sending, reading, aux
<1>3. Forward /\ StoreInv' /\ HintsReachTargets' /\ (Uniform => AckedOnQuorum)'
  BY Zenon, <1>2, QuietStep
<1>4. /\ pc'[t] = "delivering" /\ queue'[t] = hints[Home[t]]
      /\ \A u \in Threads \ {t} : pc'[u] = pc[u] /\ queue'[u] = queue[u]
  BY <1>1, <1>2, Zenon DEF TypeOK, LocalType
<1>5. \A u \in Threads \ {t} : Same(u)
  BY <1>2, <1>4, Zenon DEF Same
<1>6. ThreadInv(t)'
  <2>1. SoundBatch(batch[t])' /\ (\A k \in Keys : Sound(merged[t][k]))'
    BY Zenon, <1>2, <1>3, KeptSound
  <2>2. (\A h \in queue[t] : SoundBatch(h[2]))'
    BY <1>1, <1>2, <1>3, <1>4, ZenonT(40) DEF StoreInv
  <2> QED
    BY <1>1, <1>2, <1>4, <2>1, <2>2, Zenon DEF ThreadInv
<1> QED
  BY Zenon, <1>3, <1>5, <1>6, Assembled

\* Each outcome of a hint keeps the invariant.
LEMMA DeliverHintKeeps ==
    ASSUME ApInv, TypeOK', NEW t \in Threads, DeliverHint(t) PROVE ApInv'
<1>1. TypeOK /\ StoreInv /\ ThreadInv(t) /\ pc[t] = "delivering" /\ Home[t] \in Nodes
  BY ThreadAssumption, Zenon DEF ApInv, DeliverHint
<1>2. PICK h \in queue[t] :
        /\ queue' = [queue EXCEPT ![t] = @ \ {h}]
        /\ \/ /\ hints' = [hints EXCEPT ![Home[t]] = @ \ {h}]
              /\ owed' = owed \ {<<Home[t], h[1], h[2]>>}
              /\ UNCHANGED <<versions, net>>
           \/ UNCHANGED <<versions, net, hints, owed>>
           \/ /\ Apply(h[1], h[2])
              /\ hints' = [hints EXCEPT ![Home[t]] = @ \ {h}]
              /\ owed' = owed \ {<<Home[t], h[1], h[2]>>}
              /\ UNCHANGED net
           \/ /\ Lose(t, h[1], h[2])
              /\ hints' = [hints EXCEPT ![Home[t]] = @ \cup {h}]
              /\ UNCHANGED <<versions, owed>>
  BY Zenon DEF DeliverHint
<1>3. /\ UNCHANGED node_clock /\ UNCHANGED <<issued, acked>>
      /\ UNCHANGED <<pc, targets, batch, acks, rkeys, replies, merged, repairs, call, must>>
  BY ZenonT(40) DEF DeliverHint, sending, reading
<1>4. /\ h \in Nodes \X SUBSET Write /\ h[1] \in Nodes /\ h[2] \in SUBSET Write
      /\ h = <<h[1], h[2]>> /\ SoundBatch(h[2])
  <2>1. h \in Nodes \X SUBSET Write
    BY <1>1, Zenon DEF TypeOK, LocalType
  <2>2. SoundBatch(h[2])
    BY <1>1, Zenon DEF ThreadInv
  <2>3. ASSUME NEW p \in Nodes \X SUBSET Write
        PROVE  p[1] \in Nodes /\ p[2] \in SUBSET Write /\ p = <<p[1], p[2]>>
    OBVIOUS
  <2> QED
    BY Zenon, <2>1, <2>2, <2>3
<1>5. /\ Forward
      /\ \A n \in Nodes, k \in Keys :
            \/ versions'[n][k] = versions[n][k]
            \/ /\ Antichain(versions'[n][k])
               /\ \A v \in versions'[n][k] : \A m \in Nodes : v[m] <= node_clock'[m]
  <2>1. node_clock \in [Nodes -> 0..MaxClock]
    BY <1>1, Zenon DEF TypeOK, StoreType
  <2>2. CASE versions' = versions
    BY <1>3, <2>1, <2>2, StandsStill, BoundAssumption DEF Forward
  <2>3. CASE Apply(h[1], h[2])
    BY Zenon, <1>3, <1>4, <2>1, <2>3, ApplyGoes
  <2> QED
    BY Zenon, <1>2, <2>2, <2>3
<1>6. StoreInv'
  <2>1. \A m \in net' : m \in net \/ SoundBatch(m[2])
    <3>1. CASE net' = net
      BY Zenon, <3>1
    <3>2. CASE Lose(t, h[1], h[2])
      BY Zenon, <1>4, <3>2, LoseSound
    <3> QED
      BY Zenon, <1>2, <3>1, <3>2
  <2>2. \A n \in Nodes : \A x \in hints'[n] : x \in hints[n] \/ SoundBatch(x[2])
    <3>1. \A n \in Nodes : hints'[n] \subseteq hints[n] \cup {h}
      <4>1. hints \in [Nodes -> SUBSET (Nodes \X SUBSET Write)]
        BY <1>1, Zenon DEF TypeOK, StoreType
      <4>2. \/ hints' = [hints EXCEPT ![Home[t]] = @ \ {h}] \/ hints' = hints
            \/ hints' = [hints EXCEPT ![Home[t]] = @ \cup {h}]
        BY Zenon, <1>2
      <4> QED
        BY Zenon, <4>1, <4>2
    <3> QED
      BY ZenonT(40), <1>4, <3>1
  <2> QED
    BY Zenon, <1>3, <1>5, <2>1, <2>2, StoreStays
<1>7. HintsReachTargets'
  <2>1. ASSUME NEW o \in owed' PROVE \/ <<o[2], o[3]>> \in hints'[o[1]]
                                     \/ o \in owed /\ <<o[2], o[3]>> \notin hints[o[1]]
    <3>1. /\ o \in owed /\ o \in Nodes \X Nodes \X SUBSET Write /\ o[1] \in Nodes
          /\ o = <<o[1], o[2], o[3]>>
      <4>1. o \in owed
        BY Zenon, <1>2, <2>1
      <4>2. o \in Nodes \X Nodes \X SUBSET Write
        BY <1>1, <4>1, Zenon DEF TypeOK, StoreType
      <4>3. ASSUME NEW p \in Nodes \X Nodes \X SUBSET Write
            PROVE  p[1] \in Nodes /\ p = <<p[1], p[2], p[3]>>
        OBVIOUS
      <4> QED
        BY Zenon, <4>1, <4>2, <4>3
    <3>2. \/ hints[o[1]] \subseteq hints'[o[1]]
          \/ /\ o # <<Home[t], h[1], h[2]>>
             /\ hints' = [hints EXCEPT ![Home[t]] = @ \ {h}]
      <4>1. hints \in [Nodes -> SUBSET (Nodes \X SUBSET Write)]
        BY <1>1, Zenon DEF TypeOK, StoreType
      <4>2. CASE /\ hints' = [hints EXCEPT ![Home[t]] = @ \ {h}]
                 /\ owed' = owed \ {<<Home[t], h[1], h[2]>>}
        BY Zenon, <2>1, <4>2
      <4>3. CASE hints' = hints \/ hints' = [hints EXCEPT ![Home[t]] = @ \cup {h}]
        BY Zenon, <3>1, <4>1, <4>3
      <4> QED
        BY Zenon, <1>2, <4>2, <4>3
    <3>3. CASE o # <<Home[t], h[1], h[2]>> /\ hints' = [hints EXCEPT ![Home[t]] = @ \ {h}]
      <4>1. o[1] # Home[t] \/ <<o[2], o[3]>> # h
        BY <1>4, <3>1, <3>3
      <4> QED
        BY <1>1, <3>1, <3>3, <4>1, SMTT(20) DEF TypeOK, StoreType
    <3> QED
      BY Zenon, <3>1, <3>2, <3>3
  <2> QED
    BY <1>5, <2>1, HintsStay, Zenon DEF Forward
<1>8. (Uniform => AckedOnQuorum)'
  BY <1>3, <1>5, AckedStays, Zenon DEF Forward
<1>9. queue'[t] \subseteq queue[t] /\ \A u \in Threads \ {t} : queue'[u] = queue[u]
  BY <1>1, <1>2, Zenon DEF TypeOK, LocalType
<1>10. \A u \in Threads \ {t} : Same(u)
  BY <1>3, <1>9, Zenon DEF Same
<1>11. ThreadInv(t)'
  <2>1. SoundBatch(batch[t])' /\ (\A x \in queue[t] : SoundBatch(x[2]))'
        /\ (\A k \in Keys : Sound(merged[t][k]))'
    BY Zenon, <1>3, <1>5, <1>9, KeptSound
  <2> QED
    BY <1>1, <1>3, <2>1, Zenon DEF ThreadInv
<1> QED
  BY Zenon, <1>5, <1>6, <1>7, <1>8, <1>10, <1>11, Assembled

\* What a call of anti_entropy_with needs to keep.
LEMMA EntropyThread ==
    ASSUME ApInv, TypeOK', Forward, NEW t \in Threads,
           pc[t] # "reading", pc'[t] \in {"leaves", "fetch", "fetched", "exchange", "push"},
           SoundBatch(batch[t])', (\A k \in Keys : Sound(merged[t][k]))',
           queue'[t] = queue[t], replies'[t] = replies[t]
    PROVE  ThreadInv(t)'
<1>1. (\A h \in queue[t] : SoundBatch(h[2]))'
  BY Zenon, KeptSound
<1>2. \A n \in Nodes : replies'[t][n] = NoReply
  BY Zenon DEF ApInv, ThreadInv
<1> QED
  BY <1>1, <1>2, Zenon DEF ThreadInv

\* Comparing leaves and fetching records keep the invariant.
LEMMA CollectKeeps ==
    ASSUME ApInv, TypeOK', NEW t \in Threads,
           AntiEntropyWith(t) \/ CompareLeaves(t) \/ FetchLocal(t) \/ FetchRemote(t)
    PROVE  ApInv'
<1>1. /\ TypeOK /\ StoreInv /\ ThreadInv(t) /\ Home[t] \in Nodes
      /\ targets[t] \in SUBSET Nodes /\ rkeys[t] \in SUBSET Keys
  BY ThreadAssumption, Zenon DEF ApInv, TypeOK, LocalType
<1>2. /\ UNCHANGED <<versions, node_clock>> /\ UNCHANGED <<hints, owed>>
      /\ UNCHANGED <<issued, acked>> /\ UNCHANGED net
      /\ UNCHANGED <<queue, acks, replies, repairs, call, must>>
      /\ pc[t] # "reading"
  BY Zenon DEF AntiEntropyWith, CompareLeaves, FetchLocal, FetchRemote, stored, sending, aux
<1>3. /\ \E x \in {"leaves", "fetch", "fetched", "exchange"} : pc' = [pc EXCEPT ![t] = x]
      /\ \E x : merged' = [merged EXCEPT ![t] = x]
      /\ batch' = batch \/ \E x : batch' = [batch EXCEPT ![t] = x]
      /\ targets' = targets \/ \E x : targets' = [targets EXCEPT ![t] = x]
      /\ rkeys' = rkeys \/ \E x : rkeys' = [rkeys EXCEPT ![t] = x]
  BY Zenon DEF AntiEntropyWith, CompareLeaves, FetchLocal, FetchRemote, sending
<1>4. Forward /\ StoreInv' /\ HintsReachTargets' /\ (Uniform => AckedOnQuorum)'
  BY ZenonT(40), <1>2, QuietStep
<1>5. pc'[t] \in {"leaves", "fetch", "fetched", "exchange"}
  <2>1. t \in DOMAIN pc
    BY <1>1, Zenon DEF TypeOK, LocalType
  <2> QED
    BY Zenon, <1>3, <2>1
<1>6. ASSUME NEW u \in Threads \ {t} PROVE Same(u)
  <2>0. /\ u # t /\ u \in DOMAIN pc /\ u \in DOMAIN merged /\ u \in DOMAIN batch
        /\ u \in DOMAIN targets /\ u \in DOMAIN rkeys
    BY <1>1, Zenon DEF TypeOK, LocalType
  <2>1. pc'[u] = pc[u] /\ merged'[u] = merged[u]
    BY Zenon, <1>3, <2>0
  <2>2. batch'[u] = batch[u]
    BY Zenon, <1>3, <2>0
  <2>3. targets'[u] = targets[u] /\ rkeys'[u] = rkeys[u]
    BY Zenon, <1>3, <2>0
  <2> QED
    BY <1>2, <2>1, <2>2, <2>3, Zenon DEF Same
<1>7. (\A k \in Keys : Sound(merged[t][k]))'
  <2>1. merged \in [Threads -> [Keys -> SUBSET Clock]]
    BY <1>1, Zenon DEF TypeOK, LocalType
  <2>2. CASE AntiEntropyWith(t)
    <3>1. merged'[t] = versions[Home[t]]
      BY <2>1, <2>2, Zenon DEF AntiEntropyWith
    <3> QED
      BY <1>1, <1>2, <3>1, Zenon DEF StoreInv, Sound, Known
  <2>3. CASE CompareLeaves(t) \/ FetchRemote(t)
    <3>1. merged'[t] = NoVersions
      BY <2>1, <2>3, Zenon DEF CompareLeaves, FetchRemote
    <3> QED
      BY Zenon, <3>1, EmptySound
  <2>4. CASE FetchLocal(t)
    <3>1. merged'[t] = [k \in Keys |-> IF k \in rkeys[t] THEN versions[Home[t]][k] ELSE {}]
      BY <2>1, <2>4, Zenon DEF FetchLocal
    <3>2. \A k \in Keys : merged'[t][k] = versions[Home[t]][k] \/ merged'[t][k] = {}
      BY Zenon, <3>1
    <3>3. Sound({})'
      BY Zenon DEF Sound, Antichain
    <3>4. \A k \in Keys : Sound(versions[Home[t]][k])'
      BY <1>1, <1>4, Zenon DEF StoreInv
    <3> QED
      BY <1>2, <3>2, <3>3, <3>4, Zenon DEF Sound, Known
  <2> QED
    BY ZenonT(40), <2>2, <2>3, <2>4
<1>8. SoundBatch(batch[t])'
  <2>1. CASE batch'[t] = batch[t]
    BY Zenon, <1>4, <2>1, KeptSound
  <2>2. CASE FetchRemote(t)
    <3>1. PICK peer \in targets[t] :
            batch' = [batch EXCEPT ![t] = Writes(rkeys[t],
                [k \in Keys |-> Merge(merged[t][k], versions[peer][k])])]
      BY <2>2, Zenon DEF FetchRemote
    <3> DEFINE vs == [k \in Keys |-> Merge(merged[t][k], versions[peer][k])]
    <3>2. vs \in [Keys -> SUBSET Clock] /\ \A k \in Keys : Sound(vs[k])
      BY Zenon, <1>1, RecordsMerged
    <3>3. batch'[t] = Writes(rkeys[t], vs)
      BY <1>1, <3>1, Zenon DEF TypeOK, LocalType
    <3> HIDE DEF vs
    <3>4. SoundBatch(Writes(rkeys[t], vs))
      BY Zenon, <1>1, <3>2, SoundWrites
    <3> QED
      BY <1>2, <3>3, <3>4, Zenon DEF SoundBatch, Sound, Known
  <2> QED
    BY <2>1, <2>2, Zenon DEF AntiEntropyWith, CompareLeaves, FetchLocal, sending
<1>9. ThreadInv(t)'
  <2>1. pc'[t] \in {"leaves", "fetch", "fetched", "exchange", "push"}
    BY Zenon, <1>5
  <2>2. queue'[t] = queue[t] /\ replies'[t] = replies[t]
    BY Zenon, <1>2
  <2> QED
    BY Zenon, <1>2, <1>4, <1>7, <1>8, <2>1, <2>2, EntropyThread
<1> QED
  BY Zenon, <1>4, <1>6, <1>9, Assembled

\* Applying and pushing the merged records keep the invariant.
LEMMA ExchangeKeeps ==
    ASSUME ApInv, TypeOK', NEW t \in Threads,
           ApplyLocally(t) \/ PushToPeer(t) \/ AntiEntropyReturns(t)
    PROVE  ApInv'
<1>1. /\ TypeOK /\ ThreadInv(t) /\ Home[t] \in Nodes
      /\ targets[t] \in SUBSET Nodes /\ batch[t] \in SUBSET Write /\ SoundBatch(batch[t])
  BY ThreadAssumption, Zenon DEF ApInv, TypeOK, LocalType, ThreadInv
<1>2. UNCHANGED node_clock /\ UNCHANGED <<hints, owed>> /\ UNCHANGED <<issued, acked>>
  BY Zenon DEF ApplyLocally, PushToPeer, AntiEntropyReturns, aux
<1>3. CASE ApplyLocally(t)
  <2>1. /\ Apply(Home[t], batch[t]) /\ UNCHANGED net /\ pc[t] = "exchange"
        /\ pc' = [pc EXCEPT ![t] = "push"]
        /\ UNCHANGED <<targets, queue, batch, acks, rkeys, replies, merged, repairs, call, must>>
    BY <1>3, Zenon DEF ApplyLocally, sending, reading
  <2>2. Forward /\ StoreInv' /\ HintsReachTargets' /\ (Uniform => AckedOnQuorum)'
    BY Zenon, <1>1, <1>2, <2>1, ApplyStep
  <2>3. pc'[t] = "push" /\ \A u \in Threads \ {t} : pc'[u] = pc[u]
    BY <1>1, <2>1, Zenon DEF TypeOK, LocalType
  <2>4. \A u \in Threads \ {t} : Same(u)
    BY <2>1, <2>3, Zenon DEF Same
  <2>5. SoundBatch(batch[t])' /\ (\A k \in Keys : Sound(merged[t][k]))'
    BY Zenon, <2>1, <2>2, KeptSound
  <2>6. ThreadInv(t)'
    BY Zenon, <2>1, <2>2, <2>3, <2>5, EntropyThread
  <2> QED
    BY Zenon, <2>2, <2>4, <2>6, Assembled
<1>4. CASE PushToPeer(t)
  <2>1. PICK peer \in targets[t] : Apply(peer, batch[t])
    BY <1>4, Zenon DEF PushToPeer
  <2>2. UNCHANGED net /\ Reset({t}) /\ peer \in Nodes
    BY <1>1, <1>4, Zenon DEF PushToPeer
  <2> QED
    BY Zenon, <1>1, <1>2, <2>1, <2>2, ApplyStep, AssembledReset
<1>5. CASE AntiEntropyReturns(t)
  <2>1. /\ net' = net \/ \E peer \in targets[t] : Lose(t, peer, batch[t])
        /\ Reset({t}) /\ UNCHANGED <<versions, node_clock>>
    BY <1>5, Zenon DEF AntiEntropyReturns
  <2>2. \A m \in net' : m \in net \/ SoundBatch(m[2])
    BY Zenon, <1>1, <2>1, LoseSound
  <2> QED
    BY Zenon, <1>2, <2>1, <2>2, QuietStep, AssembledReset
<1> QED
  BY Zenon, <1>3, <1>4, <1>5

\* A late batch keeps the invariant.
LEMMA LateArrivalKeeps == ASSUME ApInv, TypeOK', LateArrival PROVE ApInv'
<1>1. TypeOK /\ StoreInv
  BY Zenon DEF ApInv
<1>2. PICK m \in net : Apply(m[1], m[2]) /\ net' = net \ {m}
  BY Zenon DEF LateArrival
<1>3. /\ UNCHANGED node_clock /\ UNCHANGED <<hints, owed>> /\ UNCHANGED <<issued, acked>>
      /\ UNCHANGED <<pc, targets, queue, batch, acks, rkeys, replies, merged, repairs, call, must>>
  BY Zenon DEF LateArrival, local, sending, reading, aux
<1>4. m[1] \in Nodes /\ m[2] \in SUBSET Write /\ SoundBatch(m[2])
  BY <1>1, Zenon DEF TypeOK, StoreType, StoreInv
<1>5. Forward /\ StoreInv' /\ HintsReachTargets' /\ (Uniform => AckedOnQuorum)'
  BY Zenon, <1>2, <1>3, <1>4, ApplyStep
<1>6. \A u \in Threads : Same(u)
  BY <1>3, Zenon DEF Same
<1>7. \A u \in Threads : ThreadInv(u)'
  BY Zenon, <1>5, <1>6, OtherThread
<1> QED
  BY <1>5, <1>7, Zenon DEF ApInv

\* The invariant holds at first.
LEMMA InitApInv == Init => ApInv
<1> SUFFICES ASSUME Init PROVE ApInv
  BY Zenon
<1>1. StoreType
  BY NoVersionsType, BoundAssumption DEF Init, StoreType
<1>2. LocalType
  BY NoVersionsType, Zenon DEF Init, LocalType, Reads
<1>3. \A t \in Threads : ThreadInv(t)
  BY EmptySound, Zenon DEF Init, ThreadInv
<1>4. StoreInv
  BY EmptySound, Zenon DEF Init, StoreInv
<1>5. HintsReachTargets /\ AckedOnQuorum
  BY Zenon DEF Init, HintsReachTargets, AckedOnQuorum
<1> QED
  BY <1>1, <1>2, <1>3, <1>4, <1>5, Zenon DEF ApInv, TypeOK

\* Every step keeps the invariant.
LEMMA StepApInv == ApInv /\ [Next]_vars => ApInv'
<1> SUFFICES ASSUME ApInv, [Next]_vars PROVE ApInv'
  BY Zenon
<1>1. ASSUME NEW t \in Threads, WriteStep(t) PROVE ApInv'
  <2>1. TypeOK'
    BY Zenon, <1>1, WriteStepType
  <2> QED
    BY <1>1, <2>1, BuildKeeps, SendKeeps, WriteEnds, Zenon DEF WriteStep
<1>2. ASSUME NEW t \in Threads, ReadStep(t) PROVE ApInv'
  <2>1. TypeOK'
    BY Zenon, <1>2, ReadStepType
  <2>2. CASE ReadFails(t) \/ ReadReturns(t)
    BY <2>1, <2>2, ReadEnds, Zenon DEF ReadFails, ReadReturns
  <2> QED
    BY SMTT(20), <1>2, <2>1, <2>2, StartReadKeeps, ReplyKeeps, NoAnswerKeeps, ReadMergedKeeps, RepairKeeps
       DEF ReadStep
<1>3. ASSUME NEW t \in Threads, HandoffStep(t) PROVE ApInv'
  <2>1. TypeOK'
    BY Zenon, <1>3, HandoffStepType
  <2>2. CASE DeliveryReturns(t)
    BY <2>1, <2>2, ReadEnds, Zenon DEF DeliveryReturns
  <2> QED
    BY <1>3, <2>1, <2>2, StartDeliveryKeeps, DeliverHintKeeps, Zenon DEF HandoffStep
<1>4. ASSUME NEW t \in Threads, AntiEntropyStep(t) PROVE ApInv'
  <2>1. TypeOK'
    BY Zenon, <1>4, AntiEntropyStepType
  <2> QED
    BY <1>4, <2>1, CollectKeeps, ExchangeKeeps, Zenon DEF AntiEntropyStep
<1>5. CASE LateArrival
  BY Zenon, <1>5, LateArrivalType, LateArrivalKeeps
<1>6. ASSUME NEW n \in Nodes, Crash(n) PROVE ApInv'
  BY <1>6, CrashType, ReadEnds, Zenon DEF Crash
<1>7. CASE UNCHANGED vars
  <2>1. UNCHANGED <<versions, node_clock, hints, net, pc, targets, queue, batch, acks, rkeys,
                    replies, merged, repairs, call, must, issued, acked, owed>>
    BY <1>7, Zenon DEF vars, stored, local, sending, reading, aux
  <2>2. TypeOK'
    BY <2>1, Zenon DEF ApInv, TypeOK, StoreType, LocalType
  <2>3. /\ UNCHANGED <<versions, node_clock>> /\ UNCHANGED <<hints, owed>>
        /\ UNCHANGED <<issued, acked>> /\ UNCHANGED net
    BY Zenon, <2>1
  <2>4. Forward /\ StoreInv' /\ HintsReachTargets' /\ (Uniform => AckedOnQuorum)'
    BY Zenon, <2>2, <2>3, QuietStep
  <2>5. \A u \in Threads : Same(u)
    BY <2>1, Zenon DEF Same
  <2>6. \A u \in Threads : ThreadInv(u)'
    BY Zenon, <2>2, <2>4, <2>5, OtherThread
  <2> QED
    BY <2>2, <2>4, <2>6, Zenon DEF ApInv
<1> QED
  BY <1>1, <1>2, <1>3, <1>4, <1>5, <1>6, <1>7, Zenon DEF Next

\* The invariant holds for any number of nodes, keys and callers.
THEOREM ApInvariance == Spec => []ApInv
  BY InitApInv, StepApInv, PTL DEF Spec

\* The tables and calls of repl/ap.rs hold what they should; no counter passes
\* u64::MAX (checked_add in reserve_write_clocks).
THEOREM ApTypeCorrect == Spec => []TypeOK
<1>1. ApInv => TypeOK
  BY Zenon DEF ApInv
<1> QED
  BY <1>1, ApInvariance, PTL

\* store_hint and deliver_hints: a hinted batch is held for its target until the
\* target has it or the hint expires, whatever crashes, repeats or comes late.
THEOREM HintsAreKept == Spec => []HintsReachTargets
<1>1. ApInv => HintsReachTargets
  BY Zenon DEF ApInv
<1> QED
  BY <1>1, ApInvariance, PTL

\* write_versioned_batch: in one region and with single-key batches, what was
\* acknowledged stays on a write quorum of the replicas.
THEOREM AckedWritesStay == ASSUME Uniform PROVE Spec => []AckedOnQuorum
<1>1. ApInv => AckedOnQuorum
  BY Zenon DEF ApInv
<1> QED
  BY <1>1, ApInvariance, PTL

\* read_level_for(Strong), range: in one region and with single-key batches, a
\* strong read or range that succeeds sees every write acknowledged before it.
THEOREM StrongReadsSeeWrites == ASSUME Uniform PROVE Spec => []StrongReadsAreFresh
<1>1. ApInv => StrongReadsAreFresh
  BY Zenon DEF ApInv, ThreadInv, StrongReadsAreFresh
<1> QED
  BY <1>1, ApInvariance, PTL

\* merge_one_version twice is the merge of both.
LEMMA TwoMerges ==
    ASSUME NEW E \in SUBSET Clock, NEW v \in Clock, NEW w \in Clock,
           Antichain(E), ~Before(v, w), ~Before(w, v)
    PROVE  MergeOne(MergeOne(E, v), w) = Merge(E, {v, w})
<1> DEFINE M == MergeOne(E, v)
<1>1. M = {e \in E : ~Before(e, v)} \cup (IF Covers(E, v) THEN {} ELSE {v})
  BY Zenon DEF MergeOne
<1>2. M = Merge(E, {v})
  BY <1>1, Zenon DEF Merge
<1>3. Covers(E, w) => Covers(M, w)
  <2>1. {v} \in SUBSET Clock /\ Antichain({v})
    BY Zenon DEF Antichain, Before
  <2> QED
    BY <1>2, <2>1, MergeFacts
<1>4. Covers(M, w) => Covers(E, w) \/ w \in M
  <2> SUFFICES ASSUME NEW x \in M, Leq(w, x), ~Covers(E, w) PROVE w \in M
    BY Zenon DEF Covers
  <2>1. x = v
    BY <1>1, Zenon DEF Covers
  <2> QED
    BY <2>1, Zenon DEF Before
<1>5. MergeOne(M, w) = {x \in M : ~Before(x, w)} \cup (IF Covers(M, w) THEN {} ELSE {w})
  BY Zenon DEF MergeOne
<1>6. \A x : x \in MergeOne(M, w) <=> x \in Merge(E, {v, w})
  <2>1. \A x : x \in Merge(E, {v, w}) <=>
            \/ x \in E /\ ~Before(x, v) /\ ~Before(x, w)
            \/ x = v /\ ~Covers(E, v)
            \/ x = w /\ ~Covers(E, w)
    BY Zenon DEF Merge
  <2>2. \A x : x \in M <=> (x \in E /\ ~Before(x, v)) \/ (x = v /\ ~Covers(E, v))
    BY Zenon, <1>1
  <2>3. \A x : x \in MergeOne(M, w) <=>
            (x \in M /\ ~Before(x, w)) \/ (x = w /\ ~Covers(M, w))
    BY Zenon, <1>5
  <2> HIDE DEF M
  <2>4. ASSUME NEW x, x \in MergeOne(M, w) PROVE x \in Merge(E, {v, w})
    BY SMTT(20), <1>3, <2>1, <2>2, <2>3, <2>4
  <2>5. w \in M => ~Before(w, w)
    BY Zenon DEF Before
  <2>6. ASSUME NEW x, x \in Merge(E, {v, w}) PROVE x \in MergeOne(M, w)
    BY SMTT(20), <1>4, <2>1, <2>2, <2>3, <2>5, <2>6
  <2> QED
    BY Zenon, <2>4, <2>6
<1> QED
  BY Zenon, <1>6

\* merge_versions folds merge_one_version in any order.
THEOREM MergesFold == Spec => []MergeIsFold
<1>1. ASSUME ApInv PROVE MergeIsFold
  <2>1. ASSUME NEW n \in Nodes, NEW m \in Nodes, NEW k \in Keys,
               NEW v \in versions[m][k], NEW w \in versions[m][k]
        PROVE  MergeOne(MergeOne(versions[n][k], v), w) = Merge(versions[n][k], {v, w})
    <3>1. /\ versions[n][k] \in SUBSET Clock /\ versions[m][k] \in SUBSET Clock
          /\ Antichain(versions[n][k]) /\ Antichain(versions[m][k])
      BY <1>1, Zenon DEF ApInv, TypeOK, StoreType, StoreInv, Sound
    <3> QED
      BY <3>1, TwoMerges, Zenon DEF Antichain
  <2> QED
    BY <2>1, Zenon DEF MergeIsFold
<1> QED
  BY <1>1, ApInvariance, PTL

\* Every step applies nothing, or one sound batch to one node.
LEMMA VersionsChange ==
    ASSUME ApInv, Next
    PROVE  \/ versions' = versions
           \/ \E n \in Nodes, W \in SUBSET Write : SoundBatch(W) /\ Apply(n, W)
<1>1. TypeOK /\ LocalType /\ StoreType /\ StoreInv
  BY Zenon DEF ApInv, TypeOK
<1>2. ASSUME NEW t \in Threads, WriteStep(t)
      PROVE  versions' = versions \/ \E n \in targets[t] : Apply(n, batch[t])
  BY <1>2, Zenon DEF WriteStep, ProposeBatch, ResolveConflict, Build, SendOk, SendHinted, SendRefused,
              WriteReturns, stored
<1>3. ASSUME NEW t \in Threads
      PROVE  /\ targets[t] \in SUBSET Nodes /\ batch[t] \in SUBSET Write /\ SoundBatch(batch[t])
             /\ Home[t] \in Nodes
  BY <1>1, ThreadAssumption, Zenon DEF LocalType, ApInv, ThreadInv
<1>4. ASSUME NEW t \in Threads, ReadStep(t)
      PROVE  \/ versions' = versions
             \/ \E n \in Nodes, W \in SUBSET Write : SoundBatch(W) /\ Apply(n, W)
  <2>1. CASE Repair(t)
    <3>1. PICK r \in repairs[t] : versions' = versions \/ Apply(r[1], Writes({r[2]}, merged[t]))
      BY <2>1, ZenonT(40) DEF Repair
    <3>2. /\ r[1] \in Nodes /\ r[2] \in Keys /\ merged[t] \in [Keys -> SUBSET Clock]
          /\ \A k \in Keys : Sound(merged[t][k])
      <4>1. r \in Nodes \X Keys /\ merged[t] \in [Keys -> SUBSET Clock]
        BY <1>1, Zenon DEF LocalType
      <4>2. ThreadInv(t)
        BY Zenon DEF ApInv
      <4>3. \A k \in Keys : Sound(merged[t][k])
        BY <4>2, Zenon DEF ThreadInv
      <4>4. ASSUME NEW p \in Nodes \X Keys PROVE p[1] \in Nodes /\ p[2] \in Keys
        OBVIOUS
      <4> QED
        BY Zenon, <4>1, <4>3, <4>4
    <3> QED
      BY Zenon, <3>1, <3>2, SoundWrites
  <2>2. CASE ~Repair(t)
    BY <1>4, <2>2, Zenon DEF ReadStep, StartRead, Reply, NoAnswer, ReadFails, ReadMerged, ReadReturns,
                      stored
  <2> QED
    BY Zenon, <2>1, <2>2
<1>5. ASSUME NEW t \in Threads, HandoffStep(t)
      PROVE  versions' = versions \/ \E h \in queue[t] : Apply(h[1], h[2])
  BY <1>5, ZenonT(40) DEF HandoffStep, StartDelivery, DeliverHint, DeliveryReturns, stored
<1>6. ASSUME NEW t \in Threads, NEW h \in queue[t]
      PROVE  h[1] \in Nodes /\ h[2] \in SUBSET Write /\ SoundBatch(h[2])
  <2>1. h \in Nodes \X SUBSET Write
    BY <1>1, Zenon DEF LocalType
  <2>2. SoundBatch(h[2])
    BY Zenon DEF ApInv, ThreadInv
  <2>3. ASSUME NEW p \in Nodes \X SUBSET Write PROVE p[1] \in Nodes /\ p[2] \in SUBSET Write
    OBVIOUS
  <2> QED
    BY Zenon, <2>1, <2>2, <2>3
<1>7. ASSUME NEW t \in Threads, AntiEntropyStep(t)
      PROVE  \/ versions' = versions \/ Apply(Home[t], batch[t])
             \/ \E n \in targets[t] : Apply(n, batch[t])
  BY <1>7, Zenon DEF AntiEntropyStep, AntiEntropyWith, CompareLeaves, FetchLocal, FetchRemote,
              ApplyLocally, PushToPeer, AntiEntropyReturns, stored
<1>8. CASE LateArrival
  <2>1. PICK m \in net : Apply(m[1], m[2])
    BY <1>8, Zenon DEF LateArrival
  <2>2. m[1] \in Nodes /\ m[2] \in SUBSET Write /\ SoundBatch(m[2])
    BY <1>1, Zenon DEF StoreType, StoreInv
  <2> QED
    BY Zenon, <2>1, <2>2
<1>9. ASSUME NEW n \in Nodes, Crash(n) PROVE versions' = versions
  BY <1>9, Zenon DEF Crash, stored
<1>10. ASSUME NEW t \in Threads,
              WriteStep(t) \/ ReadStep(t) \/ HandoffStep(t) \/ AntiEntropyStep(t)
       PROVE  \/ versions' = versions
              \/ \E n \in Nodes, W \in SUBSET Write : SoundBatch(W) /\ Apply(n, W)
  <2>1. CASE WriteStep(t)
    BY Zenon, <1>2, <1>3, <2>1
  <2>2. CASE ReadStep(t)
    BY Zenon, <1>4, <2>2
  <2>3. CASE HandoffStep(t)
    BY Zenon, <1>5, <1>6, <2>3
  <2>4. CASE AntiEntropyStep(t)
    BY Zenon, <1>3, <1>7, <2>4
  <2> QED
    BY Zenon, <1>10, <2>1, <2>2, <2>3, <2>4
<1> QED
  BY <1>8, <1>9, <1>10, Zenon DEF Next

\* apply_versioned_writes: replicas only move forward.
THEOREM ReplicasAdvance == Spec => ReplicasOnlyAdvance
<1>1. ASSUME ApInv, [Next]_vars
      PROVE  \A n \in Nodes, k \in Keys :
                /\ \A v \in versions[n][k] : Covers(versions'[n][k], v)
                /\ \A v \in versions[n][k], w \in versions'[n][k] : ~Before(w, v)
  <2>1. TypeOK /\ StoreInv
    BY <1>1, ZenonT(40) DEF ApInv
  <2>2. \A n \in Nodes, k \in Keys : /\ versions[n][k] \in SUBSET Clock
                                     /\ Antichain(versions[n][k])
                                     /\ \A v \in versions[n][k] : Covers(versions[n][k], v)
    BY <2>1, ClockOrder DEF TypeOK, StoreType, StoreInv, Sound, Covers
  <2>3. CASE versions' = versions
    BY <2>2, <2>3, Zenon DEF Antichain
  <2>4. CASE \E n \in Nodes, W \in SUBSET Write : SoundBatch(W) /\ Apply(n, W)
    <3>1. PICK n \in Nodes, W \in SUBSET Write : SoundBatch(W) /\ Apply(n, W)
      BY Zenon, <2>4
    <3>2. /\ Advance
          /\ \A m \in Nodes, k \in Keys : \A v \in versions[m][k], w \in versions'[m][k] :
                ~Before(w, v)
      BY Zenon, <2>1, <3>1, ApplyFacts
    <3> QED
      BY <2>2, <3>2, Zenon DEF Advance
  <2> QED
    BY <1>1, <2>3, <2>4, VersionsChange, SMTT(20) DEF vars, stored
<1> QED
  BY <1>1, ApInvariance, PTL DEF Spec, ReplicasOnlyAdvance

\* Only propose_batch and resolve_conflict start to send.
LEMMA SendingBegins ==
    ASSUME ApInv, Next, NEW u \in Threads, pc[u] # "sending", pc'[u] = "sending"
    PROVE  ProposeBatch(u) \/ ResolveConflict(u)
<1>1. pc \in [Threads -> {"idle", "sending", "reading", "repairing", "resolving",
                          "delivering", "leaves", "fetch", "fetched", "exchange", "push"}]
  BY Zenon DEF ApInv, TypeOK, LocalType
<1>2. ASSUME NEW ts, Reset(ts) PROVE FALSE
  BY <1>2, Zenon DEF Reset
<1>3. ASSUME NEW t \in Threads, WriteStep(t) PROVE ProposeBatch(u) \/ ResolveConflict(u)
  <2>1. CASE ProposeBatch(t) \/ ResolveConflict(t)
    <3>1. pc' = [pc EXCEPT ![t] = "sending"]
      BY <2>1, Zenon DEF ProposeBatch, ResolveConflict, Build
    <3>2. u = t
      BY Zenon, <1>1, <3>1
    <3> QED
      BY Zenon, <2>1, <3>2
  <2>2. CASE SendOk(t) \/ SendHinted(t)
    BY <2>2, Zenon DEF SendOk, SendHinted
  <2>3. CASE SendRefused(t) \/ WriteReturns(t)
    BY <1>2, <2>3, Zenon DEF SendRefused, WriteReturns
  <2> QED
    BY <1>3, <2>1, <2>2, <2>3, Zenon DEF WriteStep
<1>4. ASSUME NEW t \in Threads, NEW x \in {"reading", "repairing", "resolving", "delivering",
                  "leaves", "fetch", "fetched", "exchange", "push"}, pc' = [pc EXCEPT ![t] = x]
      PROVE  FALSE
  BY Zenon, <1>1, <1>4
<1>5. ASSUME NEW t \in Threads, ReadStep(t) PROVE FALSE
  BY <1>2, <1>4, <1>5, Zenon DEF ReadStep, StartRead, Reply, NoAnswer, ReadFails, ReadMerged, Repair,
                          ReadReturns
<1>6. ASSUME NEW t \in Threads, HandoffStep(t) PROVE FALSE
  BY <1>2, <1>4, <1>6, Zenon DEF HandoffStep, StartDelivery, DeliverHint, DeliveryReturns
<1>7. ASSUME NEW t \in Threads, AntiEntropyStep(t) PROVE FALSE
  BY <1>2, <1>4, <1>7, Zenon DEF AntiEntropyStep, AntiEntropyWith, CompareLeaves, FetchLocal,
                          FetchRemote, ApplyLocally, PushToPeer, AntiEntropyReturns
<1>8. CASE LateArrival
  BY <1>8, Zenon DEF LateArrival, local
<1>9. ASSUME NEW n \in Nodes, Crash(n) PROVE FALSE
  BY <1>2, <1>9, Zenon DEF Crash
<1> QED
  BY <1>3, <1>5, <1>6, <1>7, <1>8, <1>9, ZenonT(40) DEF Next

\* reserve_write_clocks never issues a clock twice.
THEOREM ClocksStayFresh == Spec => ClocksAreFresh
<1>1. ASSUME ApInv, [Next]_vars
      PROVE  \A t \in Threads : pc[t] # "sending" /\ pc'[t] = "sending" =>
                batch'[t] \cap issued = {}
  <2> SUFFICES ASSUME NEW t \in Threads, pc[t] # "sending", pc'[t] = "sending"
               PROVE  batch'[t] \cap issued = {}
    BY Zenon
  <2>1. Next
    BY <1>1, Zenon DEF vars, local
  <2>2. ProposeBatch(t) \/ ResolveConflict(t)
    BY Zenon, <1>1, <2>1, SendingBegins
  <2>3. PICK ks \in SUBSET Keys :
            \E parents : /\ \A k \in ks : parents[k] \in Clock /\ Known(parents[k])
                         /\ Build(t, ks, parents)
    BY Zenon, <1>1, <2>2, ProposeBuild
  <2>4. TypeOK /\ StoreInv
    BY <1>1, Zenon DEF ApInv
  <2> QED
    BY Zenon, <2>3, <2>4, BuildFacts
<1> QED
  BY <1>1, ApInvariance, PTL DEF Spec, ClocksAreFresh
=============================================================================
