---------------------------- MODULE RaftElection ----------------------------
(***************************************************************************)
(* Why a term has at most one leader.                                      *)
(*                                                                         *)
(* The code does not keep Raft's rule that a node votes once in a term:    *)
(* becomeFollower clears votedFor when a candidate meets the leader of its *)
(* own term, and after a restart nothing keeps that node from voting       *)
(* again.  What it does keep is enough: a node's votes for OTHERS in a     *)
(* term agree, and the winner of a term never votes for another in it.     *)
(***************************************************************************)
EXTENDS Raft

\* Every node's PEERS names all the others.
StaticMesh == \A i \in Node : InitialPeers[i] = Node \ {i}

\* The nodes that have voted for c in term t.
Voters(c, t) ==
    {v \in Node : [voter |-> v, candidate |-> c, term |-> t] \in cast}

IsMajority(Q) == 2 * Cardinality(Q) > Cardinality(Node)

\* The store holds the term and the vote of its node between any two steps.
DiskMirrors ==
    \A i \in Node : disk[i].term = raft[i].currentTerm /\ disk[i].vote = raft[i].votedFor

PeersFixed == \A i \in Node : raft[i].peers = Node \ {i}

\* A vote is of a term its voter has reached, and the vote for another in the
\* current term is still in votedFor.
VotesHeld ==
    \A x \in cast :
        /\ raft[x.voter].currentTerm >= x.term
        /\ x.candidate # x.voter /\ raft[x.voter].currentTerm = x.term
               => raft[x.voter].votedFor = x.candidate

\* votedFor is in the history.
VotesRecorded ==
    \A v \in Node : raft[v].votedFor # None => v \in Voters(raft[v].votedFor, raft[v].currentTerm)

\* The votes for others of one node in one term are for the same candidate.
OthersOnce ==
    \A x, y \in cast :
        /\ x.voter = y.voter /\ x.term = y.term
        /\ x.candidate # x.voter /\ y.candidate # y.voter
        => x.candidate = y.candidate

\* Candidates and leaders hold their own vote, and the votes a candidate has
\* counted were cast.
CandidatesVoteForThemselves ==
    \A i \in Node :
        /\ raft[i].state # "Follower" => raft[i].votedFor = i
        /\ raft[i].state = "Candidate" => raft[i].votes \subseteq Voters(i, raft[i].currentTerm)

\* Every leader has had the votes of a majority, holds its own vote until it
\* leaves the term, and never votes for another in it.
WinnersHaveMajorities ==
    \A e \in elected :
        /\ IsMajority(Voters(e.leader, e.term))
        /\ raft[e.leader].currentTerm >= e.term
        /\ raft[e.leader].currentTerm = e.term => raft[e.leader].votedFor = e.leader
        /\ \A d \in Node : d # e.leader => e.leader \notin Voters(d, e.term)

\* A node that leads is in the history of leaders.
LeadersRecorded ==
    \A i \in Node : raft[i].state = "Leader" =>
        [leader |-> i, term |-> raft[i].currentTerm] \in elected

\* What a message tells is true: no node sends to itself, nobody asks for a
\* pre-vote, a granted vote was cast, entries come from an elected leader.
Truthful(m) ==
    /\ m.from # m.to
    /\ m.type \in {"RequestVote", "RequestVoteResp"} => ~m.isPreVote
    /\ m.type = "RequestVoteResp" /\ ~m.reject => m.from \in Voters(m.to, m.term)
    /\ m.type = "AppendEntries" => [leader |-> m.from, term |-> m.term] \in elected

MessagesTrue == \A m \in BagToSet(msgs) : Truthful(m)

\* The inductive invariant behind ElectionSafety: the votes in the state, on disk,
\* in flight and in the history agree (handleRequestVote, becomeFollower,
\* persistState, NewNode).
ElectionInv ==
    /\ DiskMirrors /\ PeersFixed /\ VotesHeld /\ VotesRecorded /\ OthersOnce
    /\ CandidatesVoteForThemselves /\ WinnersHaveMajorities
    /\ LeadersRecorded /\ MessagesTrue /\ ElectionSafety

=============================================================================
