------------------------------ MODULE RaftJoin ------------------------------
(***************************************************************************)
(* A machine is added to a running cluster: modules RaftCatchUp (one       *)
(* leader stays in office) and Membership (gossip tells it of the machine) *)
(* together.                                                               *)
(***************************************************************************)
EXTENDS RaftCatchUp, Membership

CONSTANT Joiner     \* the machine that is added: a node other than Chief

\* The others have elected Chief and agree on a log of one entry, its no-op.  Gossip
\* has just told each of them of the new machine, which starts with an empty store.
JoinInit ==
    LET old == Node \ {Joiner}
        peers(p) == old \ {p}
        voter(p) == NewRaft(MaxTerm, Chief, <<>>, peers(p))
    IN  /\ raft = [p \in Node |-> IF p = Chief THEN becomeLeader(p, voter(p))
                                  ELSE IF p = Joiner THEN NewRaft(0, None, <<>>, old)
                                  ELSE voter(p)]
        /\ disk = [p \in Node |-> [term |-> raft[p].currentTerm, vote |-> raft[p].votedFor,
                                   log |-> <<>>]]
        /\ epoch = [p \in Node |-> 0]
        /\ msgs = SetToBag(broadcastHeartbeat(Chief, raft[Chief]))
        /\ diskErrors = 0
        /\ cast = {[voter |-> p, candidate |-> Chief, term |-> MaxTerm] : p \in old}
        /\ elected = {[leader |-> Chief, term |-> MaxTerm]}
        /\ applied = {}
        /\ events = [p \in Node |-> IF p = Joiner THEN <<>>
                                    ELSE <<[type |-> "NodeJoin", node |-> Joiner]>>]
        /\ notices = Cardinality(old)

JoinNext ==
    \/ CatchUpNext /\ UNCHANGED <<events, notices>>
    \/ \E i \in Node : HandleDiscoveryEvent(i)

\* The loop of Run also keeps receiving from the channel.
JoinSpec ==
    /\ JoinInit /\ [][JoinNext]_memberVars
    /\ CatchUpFairness
    /\ \A i \in Node : WF_memberVars(HandleDiscoveryEvent(i))
=============================================================================
