----------------------------- MODULE MCRaftLease -----------------------------
(***************************************************************************)
(* A small instance of module RaftLease for TLC.                           *)
(***************************************************************************)
EXTENDS RaftLease, TLC

FullMesh == [i \in Node |-> Node \ {i}]

Symmetry == Permutations(Node)

\* What the actions and the property read.
LeaseView ==
    <<[i \in Node |-> [state |-> raft[i].state, currentTerm |-> raft[i].currentTerm,
                       votedFor |-> raft[i].votedFor, log |-> raft[i].log,
                       commitIndex |-> raft[i].commitIndex, leaderActive |-> raft[i].leaderActive,
                       votes |-> IF raft[i].state = "Candidate" THEN raft[i].votes ELSE {},
                       leads |-> IF raft[i].state = "Leader"
                                 THEN <<raft[i].nextIndex, raft[i].matchIndex, raft[i].heartbeatAcked>>
                                 ELSE <<>>]], msgs, epoch, disk, ackers>>
=============================================================================
