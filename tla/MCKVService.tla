----------------------------- MODULE MCKVService -----------------------------
(***************************************************************************)
(* Small instances of module KVService for TLC: one key, one client that   *)
(* sets it and one that deletes it.                                        *)
(***************************************************************************)
EXTENDS KVService

CONSTANTS TheKey, TheValue

FullMesh == [i \in Node |-> Node \ {i}]

Symmetry == Permutations(Node)

Commands == [op : {"SET"}, key : {TheKey}, value : {TheValue}] \cup [op : {"DELETE"}, key : {TheKey}]

\* What the actions read of a node's record.
live(r, lease) ==
    [state |-> r.state, currentTerm |-> r.currentTerm, votedFor |-> r.votedFor,
     log |-> r.log, commitIndex |-> r.commitIndex, lastApplied |-> r.lastApplied,
     leaderActive |-> r.leaderActive,
     votes |-> IF r.state = "Candidate" THEN r.votes ELSE {},
     leads |-> IF r.state = "Leader" THEN <<r.nextIndex, r.matchIndex, lease>> ELSE <<>>]

service == <<msgs, epoch, disk, applied, kv, proposals, outcome, origin>>

ServiceView ==
    <<[i \in Node |-> live(raft[i], raft[i].heartbeatAcked)], service, elected, reads>>

\* Without reads nothing looks at heartbeatAcked.
WriteView == <<[i \in Node |-> live(raft[i], 0)], service>>
=============================================================================
