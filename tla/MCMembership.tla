---------------------------- MODULE MCMembership ----------------------------
(***************************************************************************)
(* Small instances of module Membership for TLC.                           *)
(***************************************************************************)
EXTENDS Membership, RaftRefinement, TLC

\* PEERS names every other node.
FullMesh == [i \in Node |-> Node \ {i}]

\* PEERS is empty: every peer is found by gossip.
NoPeers == [i \in Node |-> {}]

Symmetry == Permutations(Node)

\* Updates, and what a node hears of itself, have no effect.
seen(i, e) == IF e.type = "NodeUpdate" \/ e.node = i THEN <<>> ELSE <<e.type, e.node>>

\* What the actions and the properties read.
MemberView ==
    <<[i \in Node |-> [state |-> raft[i].state, currentTerm |-> raft[i].currentTerm,
                       votedFor |-> raft[i].votedFor, log |-> raft[i].log,
                       commitIndex |-> raft[i].commitIndex,
                       leaderActive |-> raft[i].leaderActive, preVotes |-> raft[i].preVotes,
                       peers |-> raft[i].peers,
                       votes |-> IF raft[i].state = "Candidate" THEN raft[i].votes ELSE {},
                       leads |-> IF raft[i].state = "Leader"
                                 THEN <<raft[i].nextIndex, raft[i].matchIndex>> ELSE <<>>]],
      msgs, epoch, disk, cast, elected,
      [i \in Node |-> [k \in DOMAIN events[i] |-> seen(i, events[i][k])]], notices>>
=============================================================================
