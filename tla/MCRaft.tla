------------------------------- MODULE MCRaft -------------------------------
(***************************************************************************)
(* Small instances of module Raft for TLC.                                 *)
(***************************************************************************)
EXTENDS RaftRefinement, RaftCommitInv, TLC

\* PEERS names every other node.
FullMesh == [i \in Node |-> Node \ {i}]

Symmetry == Permutations(Node)

\* What the actions read of a node's record: the leader's bookkeeping matters on
\* a leader, the votes on a candidate, leaderID and heartbeatAcked not at all.
live(r) ==
    [state |-> r.state, currentTerm |-> r.currentTerm, votedFor |-> r.votedFor,
     log |-> r.log, commitIndex |-> r.commitIndex, lastApplied |-> r.lastApplied,
     leaderActive |-> r.leaderActive, preVotes |-> r.preVotes, peers |-> r.peers,
     votes |-> IF r.state = "Candidate" THEN r.votes ELSE {},
     leads |-> IF r.state = "Leader"
               THEN [p \in r.peers |-> <<r.nextIndex[p], r.matchIndex[p]>>] ELSE <<>>]

\* The store is read by restarts only.
liveDisk ==
    IF MaxRestarts > 0 /\ SumFunction(epoch) < MaxRestarts THEN <<disk, diskErrors>> ELSE <<>>

\* The lease of a leader, for the properties that mention it.
lease(r) == IF r.state = "Leader" THEN r.heartbeatAcked ELSE 0

\* States with the same view have the same future: the view leaves out what is
\* not live, and the histories that the run's properties do not mention.
LogView ==
    <<[i \in Node |-> <<live(raft[i]), lease(raft[i])>>], liveDisk, msgs, epoch, elected, applied>>

CommitView == <<[i \in Node |-> live(raft[i])], liveDisk, msgs, epoch, history>>
=============================================================================
