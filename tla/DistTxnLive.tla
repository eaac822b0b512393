---------------------------- MODULE DistTxnLive ----------------------------
(***************************************************************************)
(* Progress of DistTxn in an environment that calms down: from some point  *)
(* on calls answer and processes live, started calls go on, and recovery   *)
(* is run again and again.                                                 *)
(***************************************************************************)
EXTENDS DistTxn

VARIABLE calm   \* no call fails any more

CalmDown ==
    /\ ~calm
    /\ calm' = TRUE
    /\ UNCHANGED vars

LiveNext ==
    \/ CalmDown
    \/ /\ \/ \E r \in Routers : Propose(r) \/ Coordinate(r) \/ Recover(r) \/ RecoverStep(r)
          \/ \E k \in Keys : PlainWrite(k)
          \/ LateEffect
       /\ UNCHANGED calm
    \/ /\ ~calm
       /\ \E r \in Routers : Failure(r)
       /\ UNCHANGED calm

LiveSpec ==
    /\ Init /\ calm = FALSE
    /\ [][LiveNext]_<<vars, calm>>
    /\ WF_calm(CalmDown)
    /\ \A r \in Routers :
          /\ SF_vars(Recover(r))
          /\ WF_vars(Coordinate(r))
          /\ WF_vars(RecoverStep(r))

\* finish_write_set refuses to commit a record that has no locks, and
\* recover_dist_txns stops at the first call that fails: such a record has to
\* be resolved by an operator.
RecoveryRefused ==
    \E t \in LegacyTxns, s \in Shards : decision[t] = "Commit" /\ prepared[s][t] # {}

\* A decided transaction is finished on all its shards, whatever failed
\* before: recover_dist_txns reaches every decision on record, and a decision
\* recorded after its list was read is left to the next call. Only a legacy
\* record that was decided to commit keeps recovery from getting there.
DecidedIsFinished ==
    \A t \in Txns :
        decision[t] # "none" ~>
            RecoveryRefused \/ \A s \in ShardsOf(batch[t]) : finished[s][t] = decision[t]
=============================================================================
