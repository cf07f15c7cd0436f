--------------------------- MODULE RaftRefinement ---------------------------
(***************************************************************************)
(* Module Raft implements the two abstract specifications a reader of      *)
(* raft/raft.go expects of it.                                             *)
(***************************************************************************)
EXTENDS RaftElection

Leaders == INSTANCE OneLeader WITH Term <- Nat, leaders <- elected

Replicas == INSTANCE TotalOrder
    WITH Replica <- Node,
         delivered <- [i \in Node |-> SubSeq(raft[i].log, 1, raft[i].lastApplied)]

\* Elections, with restarts and lost messages, make leaders one term at a time and
\* never two in a term (becomeCandidate, handleRequestVote, handleRequestVoteResp,
\* becomeLeader, persistState).
ImplementsOneLeader == Leaders!Spec

\* What the nodes hand to their KV stores is one sequence, which each of them follows
\* at its own pace and never takes back, while no node loses its log by a restart
\* (handleAppendEntries, maybeAdvanceCommit, ApplicableEntries).
ImplementsTotalOrder == Replicas!Spec
=============================================================================
