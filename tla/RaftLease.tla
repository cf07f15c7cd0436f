------------------------------ MODULE RaftLease ------------------------------
(***************************************************************************)
(* The lease behind linearizable reads: module Raft with a history of who  *)
(* has acknowledged a leader since heartbeatAcked was last set to one.     *)
(***************************************************************************)
EXTENDS Raft

VARIABLE ackers     \* history: the nodes that heartbeatAcked stands for

leaseVars == <<vars, ackers>>

\* handleAppendEntriesResp counts this answer.
counted(m) ==
    LET r == stepDown(raft[m.to], m.term, None)
    IN  r.state = "Leader" /\ m.term = r.currentTerm /\ ~m.reject

LeaseInit == Init /\ ackers = [i \in Node |-> {}]

LeaseNext ==
    \/ \E i \in Node : \/ TickElection(i) /\ ackers' = [ackers EXCEPT ![i] = {i}]
                       \/ TickHeartbeat(i) /\ ackers' = [ackers EXCEPT ![i] = {i}]
                       \/ \E c \in Command : HandlePropose(i, c) /\ UNCHANGED ackers
                       \/ Restart(i) /\ UNCHANGED ackers
    \/ \E m \in BagToSet(msgs) :
           \/ HandleRequestVote(m) /\ UNCHANGED ackers
           \/ HandleAppendEntries(m) /\ UNCHANGED ackers
           \/ SendFails(m) /\ UNCHANGED ackers
           \/ /\ HandleRequestVoteResp(m)
              /\ ackers' = [ackers EXCEPT ![m.to] =
                               IF raft'[m.to].state # raft[m.to].state THEN {m.to} ELSE @]
           \/ /\ HandleAppendEntriesResp(m)
              /\ ackers' = [ackers EXCEPT ![m.to] = IF counted(m) THEN @ \cup {m.from} ELSE @]

LeaseSpec == LeaseInit /\ [][LeaseNext]_leaseVars

\* A leader that serves reads has been acknowledged by a majority since it last
\* started a round of heartbeats (HasLeaderQuorum).
LeaseFromMajority ==
    \A i \in Node : HasLeaderQuorum(raft[i]) => Cardinality(ackers[i]) >= quorumSize(raft[i])
=============================================================================
