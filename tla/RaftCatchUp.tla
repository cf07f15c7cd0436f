----------------------------- MODULE RaftCatchUp -----------------------------
(***************************************************************************)
(* What a new leader does with followers whose logs have diverged: the     *)
(* part of module Raft that runs while one leader stays in office.         *)
(*                                                                         *)
(* The run starts when the leader of term MaxTerm has just been elected,   *)
(* after earlier terms have left every node with some log.  No election    *)
(* timer runs out (the leader's heartbeats keep resetting them).  RPCs may *)
(* still fail and overtake each other, and a follower may restart, which   *)
(* empties its log.                                                        *)
(***************************************************************************)
EXTENDS Raft

CONSTANTS
    Chief,      \* the leader
    MaxOld      \* bound: length of a log at the start

ASSUME ChiefAssumption == Chief \in Node /\ MaxOld \in Nat

\* The logs that terms before MaxTerm can have left: terms do not decrease, and the
\* entries of a term start with its leader's no-op.
OldLogs ==
    UNION {{log \in [1 .. n -> [term : 1 .. MaxTerm - 1, cmd : Command \cup {NoOp}]] :
               \A k \in 1 .. n :
                   LET before == logTerm(log, k - 1)
                   IN  /\ before <= log[k].term
                       /\ (log[k].cmd = NoOp) <=> (before < log[k].term)} : n \in 0 .. MaxOld}

\* A term had one leader: two logs with entries of a term agree up to the first
\* of them, and further as far as both go in that term.
OneOrigin(p, q) ==
    \A j \in DOMAIN p, k \in DOMAIN q :
        p[j].term = q[k].term /\ p[j].cmd = NoOp /\ q[k].cmd = NoOp
            => j = k /\ SubSeq(p, 1, j) = SubSeq(q, 1, k)

\* The nodes that vote for a leader with this log.
Supporters(logs) ==
    {p \in Node : isLogUpToDate(logs[p], lastLogIndex(logs[Chief]), lastLogTerm(logs[Chief]))}

CatchUpInit ==
    \E logs \in [Node -> OldLogs] :
        LET term(p) == IF p \in Supporters(logs) THEN MaxTerm ELSE MaxTerm - 1
            vote(p) == IF p \in Supporters(logs) THEN Chief ELSE None
        IN  /\ \A p, q \in Node : OneOrigin(logs[p], logs[q])
            /\ 2 * Cardinality(Supporters(logs)) > Cardinality(Node)
            /\ raft = [p \in Node |->
                          LET r == NewRaft(term(p), vote(p), logs[p], InitialPeers[p])
                          IN  IF p = Chief THEN becomeLeader(p, r) ELSE r]
            /\ disk = [p \in Node |-> [term |-> term(p), vote |-> vote(p), log |-> <<>>]]
            /\ epoch = [p \in Node |-> 0]
            /\ msgs = SetToBag(broadcastHeartbeat(Chief, raft[Chief]))
            /\ diskErrors = 0
            /\ cast = {[voter |-> p, candidate |-> Chief, term |-> MaxTerm] : p \in Supporters(logs)}
            /\ elected = {[leader |-> Chief, term |-> MaxTerm]}
            /\ applied = {}

CatchUpNext ==
    \/ TickHeartbeat(Chief)
    \/ \E c \in Command : HandlePropose(Chief, c)
    \/ \E p \in Node \ {Chief} : Restart(p)
    \/ \E m \in BagToSet(msgs) : \/ HandleAppendEntries(m)
                                 \/ HandleAppendEntriesResp(m)
                                 \/ SendFails(m)

\* The ticker of Run keeps firing; of the RPCs to a peer not all fail, and of
\* their answers not all get lost.
CatchUpFairness ==
    /\ WF_vars(TickHeartbeat(Chief))
    /\ \A p \in Node \ {Chief} :
           /\ SF_vars(\E m \in BagToSet(msgs) : m.to = p /\ HandleAppendEntries(m))
           /\ SF_vars(\E m \in BagToSet(msgs) : m.from = p /\ HandleAppendEntriesResp(m))

CatchUpSpec == CatchUpInit /\ [][CatchUpNext]_vars /\ CatchUpFairness

\* Under a leader that stays, every node ends up with the leader's log, all of it
\* committed and applied: nextIndex finds the point of divergence from the hints of
\* handleAppendEntries, and the new leader's no-op carries the older entries.
EventuallyCaughtUp ==
    <>[](\A p \in Node : /\ raft[p].log = raft[Chief].log
                         /\ raft[p].commitIndex = lastLogIndex(raft[Chief].log)
                         /\ raft[p].lastApplied = lastLogIndex(raft[Chief].log))
=============================================================================
