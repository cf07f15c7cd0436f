-------------------------------- MODULE Raft --------------------------------
(***************************************************************************)
(* A cluster of Phalanx nodes: the consensus state machine of raft/raft.go *)
(* driven by the Node of node.go.                                          *)
(*                                                                         *)
(* raft[i] is the Raft struct of node i, one field per field of the code.  *)
(* The operators with the code's names take such a record and return the   *)
(* record the method leaves behind; an action is one critical section of   *)
(* Node.mu: the Raft step, applyCommitted, persistState, and the messages  *)
(* handed to the send goroutines (or the RPC's answer).                    *)
(*                                                                         *)
(* The two tick counters are abstracted: a timer that has not run out      *)
(* changes nothing that is visible here, and as nothing bounds the delay   *)
(* of a message or of a goroutine against ticks, a timer may run out at    *)
(* any moment.                                                             *)
(*                                                                         *)
(* msgs is the bag of RPC requests and answers in flight.  Every RPC is    *)
(* sent by a goroutine of its own, so the order of delivery is arbitrary;  *)
(* two equal heartbeats may be in flight together; an RPC that fails or    *)
(* times out is one that is never delivered.  epoch[i] counts the restarts *)
(* of node i: the answer to an RPC goes to the process that made the call, *)
(* and to nobody when that process is gone.                                *)
(***************************************************************************)
EXTENDS RaftLog, FiniteSets, Functions, Bags

CONSTANTS
    Node,           \* the node IDs
    None,           \* "" in votedFor and leaderID
    InitialPeers,   \* InitialPeers[i] is cfg.Peers of node i
    IndexSpace,     \* stands for 2^64, the number of values of a uint64
    MaxTerm,        \* bound: no election starts in this term
    MaxLog,         \* bound: no proposal is appended to a log this long
    MaxInFlight,    \* bound: messages in flight when a timer or a client acts
    MaxRestarts,    \* bound: restarts of all nodes together
    MaxDiskErrors   \* bound: calls of SaveState that return an error

ASSUME NodeAssumption == IsFiniteSet(Node) /\ None \notin Node

ASSUME PeersAssumption == InitialPeers \in [Node -> SUBSET Node]

ASSUME BoundsAssumption ==
    /\ MaxTerm \in Nat /\ MaxLog \in Nat /\ MaxInFlight \in Nat
    /\ MaxRestarts \in Nat /\ MaxDiskErrors \in Nat
    /\ IndexSpace \in Nat /\ IndexSpace > MaxLog + MaxTerm + 1

VARIABLES
    raft,        \* raft[i]: the Raft struct of node i
    disk,        \* disk[i]: the BadgerDB store of node i
    msgs,        \* the bag of requests and answers in flight
    epoch,       \* epoch[i]: how often node i has restarted
    diskErrors,  \* how many calls of SaveState have failed
    cast,        \* history: every vote a node has held
    elected,     \* history: every leader and its term
    applied      \* history: every entry handed to some node's KV store

vars == <<raft, disk, msgs, epoch, diskErrors, cast, elected, applied>>

history == <<cast, elected, applied>>

-----------------------------------------------------------------------------
(* Types *)

RaftState ==
    [state : {"Follower", "Candidate", "Leader"},
     currentTerm : Nat,
     votedFor : Node \cup {None},
     log : Log,
     commitIndex : Nat,
     lastApplied : Nat,
     leaderID : Node \cup {None},
     leaderActive : BOOLEAN,
     votes : SUBSET Node,
     preVotes : SUBSET Node,
     nextIndex : [Node -> Nat],
     matchIndex : [Node -> Nat],
     heartbeatAcked : Nat,
     peers : SUBSET Node]

RequestVote ==
    [type : {"RequestVote"}, from : Node, to : Node, epoch : Nat, term : Nat,
     lastLogIndex : Nat, lastLogTerm : Nat, isPreVote : BOOLEAN]

RequestVoteResp ==
    [type : {"RequestVoteResp"}, from : Node, to : Node, epoch : Nat, term : Nat,
     reject : BOOLEAN, isPreVote : BOOLEAN]

AppendEntries ==
    [type : {"AppendEntries"}, from : Node, to : Node, epoch : Nat, term : Nat,
     prevLogIndex : Nat, prevLogTerm : Nat, entries : Log, leaderCommit : Nat]

AppendEntriesResp ==
    [type : {"AppendEntriesResp"}, from : Node, to : Node, epoch : Nat, term : Nat,
     reject : BOOLEAN, index : Nat]

Message == RequestVote \cup RequestVoteResp \cup AppendEntries \cup AppendEntriesResp

DiskState == [term : Nat, vote : Node \cup {None}, log : Log]

Vote == [voter : Node, candidate : Node, term : Nat]

Leadership == [leader : Node, term : Nat]

Application == [index : Nat, entry : Entry]

\* Every variable keeps the type of the Go field it stands for.
TypeOK ==
    /\ raft \in [Node -> RaftState]
    /\ disk \in [Node -> DiskState]
    /\ IsABag(msgs) /\ BagToSet(msgs) \subseteq Message
    /\ epoch \in [Node -> Nat]
    /\ diskErrors \in Nat
    /\ cast \subseteq Vote
    /\ elected \subseteq Leadership
    /\ applied \subseteq Application

-----------------------------------------------------------------------------
(* Quorum *)

quorumSize(r) == (Cardinality(r.peers) + 1) \div 2 + 1

quorum(r) == Cardinality(r.votes) >= quorumSize(r)

\* Mutant: one peer too few has to have an entry.
replicatedOneShort(r) ==
    {n \in 1 .. lastLogIndex(r.log) :
        2 + Cardinality({p \in r.peers : r.matchIndex[p] >= n}) >= quorumSize(r)}

\* The indices a majority has replicated, counting this leader itself.
replicated(r) ==
    {n \in 1 .. lastLogIndex(r.log) :
        1 + Cardinality({p \in r.peers : r.matchIndex[p] >= n}) >= quorumSize(r)}

\* The loop raises commitIndex to the last replicated entry of the current term.
maybeAdvanceCommit(r) ==
    [r EXCEPT !.commitIndex =
        Max({@} \cup {n \in replicated(r) : n > @ /\ logTerm(r.log, n) = r.currentTerm})]

-----------------------------------------------------------------------------
(* State transitions *)

NewRaft(term, vote, log, peers) ==
    [state |-> "Follower", currentTerm |-> term, votedFor |-> vote, log |-> log,
     commitIndex |-> 0, lastApplied |-> 0, leaderID |-> None, leaderActive |-> FALSE,
     votes |-> {}, preVotes |-> {},
     nextIndex |-> [n \in Node |-> 0], matchIndex |-> [n \in Node |-> 0],
     heartbeatAcked |-> 0, peers |-> peers]

\* The vote is cleared even when the term stays the same.
becomeFollower(r, term, leader) ==
    [r EXCEPT !.state = "Follower", !.currentTerm = term, !.votedFor = None,
              !.leaderID = leader, !.leaderActive = (leader # None)]

\* Mutant: a new leader appends no entry of its term.
becomeLeaderWithoutNoOp(i, r) ==
    [r EXCEPT !.state = "Leader", !.leaderID = i, !.heartbeatAcked = 1,
              !.nextIndex = [n \in Node |-> IF n \in r.peers THEN lastLogIndex(r.log) + 1 ELSE 0],
              !.matchIndex = [n \in Node |-> 0]]

becomeLeader(i, r) ==
    [r EXCEPT !.state = "Leader", !.leaderID = i, !.heartbeatAcked = 1,
              !.nextIndex = [n \in Node |-> IF n \in r.peers THEN lastLogIndex(r.log) + 1 ELSE 0],
              !.matchIndex = [n \in Node |-> 0],
              !.log = Append(@, [term |-> r.currentTerm, cmd |-> NoOp])]

\* The caller broadcasts: heartbeats if the node alone is a quorum and leads at
\* once, vote requests otherwise.
becomeCandidate(i, r) ==
    LET c == [r EXCEPT !.state = "Candidate", !.currentTerm = @ + 1, !.votedFor = i,
                       !.leaderID = None, !.votes = {i}]
    IN  IF quorum(c) THEN becomeLeader(i, c) ELSE c

\* A higher term in a message turns any node into a follower of that term.
stepDown(r, term, leader) ==
    IF term > r.currentTerm THEN becomeFollower(r, term, leader) ELSE r

\* The entries lastApplied+1 .. lastApplied' go to the KV store; Observe below
\* records them.
applyCommitted(r) ==
    LET end == Min({r.commitIndex, lastLogIndex(r.log)})
    IN  IF r.lastApplied < end THEN [r EXCEPT !.lastApplied = end] ELSE r

-----------------------------------------------------------------------------
(* Broadcasts *)

broadcastRequestVote(i, r) ==
    {[type |-> "RequestVote", from |-> i, to |-> p, epoch |-> epoch[i],
      term |-> r.currentTerm, lastLogIndex |-> lastLogIndex(r.log),
      lastLogTerm |-> lastLogTerm(r.log), isPreVote |-> FALSE] : p \in r.peers}

\* Subtraction of one from a uint64 wraps around at zero.
pred(n) == IF n = 0 THEN IndexSpace - 1 ELSE n - 1

\* r.log[next:], where index 0 is the sentinel.
entriesFrom(log, next) ==
    IF next = 0 THEN <<Sentinel>> \o log ELSE SubSeq(log, next, Len(log))

broadcastHeartbeat(i, r) ==
    {[type |-> "AppendEntries", from |-> i, to |-> p, epoch |-> epoch[i],
      term |-> r.currentTerm, prevLogIndex |-> pred(r.nextIndex[p]),
      prevLogTerm |-> logTerm(r.log, pred(r.nextIndex[p])),
      entries |-> entriesFrom(r.log, r.nextIndex[p]),
      leaderCommit |-> r.commitIndex] : p \in r.peers}

\* What becomeCandidate and becomeLeader have left in the outbox on the way from
\* record r to record s.
electionMessages(i, r, s) ==
    IF s.state = "Leader" /\ r.state # "Leader" THEN broadcastHeartbeat(i, s)
    ELSE IF s.currentTerm > r.currentTerm /\ s.state = "Candidate"
         THEN broadcastRequestVote(i, s)
         ELSE {}

-----------------------------------------------------------------------------
(* Message handlers *)

\* Leader stickiness, the check of the pre-vote query and the real vote.
grantsVote(r, m) ==
    /\ ~ (r.leaderActive /\ m.term <= r.currentTerm)
    /\ m.term >= r.currentTerm
    /\ m.isPreVote \/ r.votedFor \in {None, m.from}
    /\ isLogUpToDate(r.log, m.lastLogIndex, m.lastLogTerm)

handleRequestVote(r, m) ==
    IF grantsVote(r, m) /\ ~m.isPreVote THEN [r EXCEPT !.votedFor = m.from] ELSE r

\* Pre-vote answers are counted in a map of their own, which starts with the
\* node itself and is never cleared.
handlePreVoteResp(i, r, m) ==
    LET known == IF r.preVotes = {} THEN {i} ELSE r.preVotes
        s == [r EXCEPT !.preVotes = IF m.reject THEN known \ {m.from} ELSE known \cup {m.from}]
    IN  IF Cardinality(s.preVotes) >= quorumSize(s) THEN becomeCandidate(i, s) ELSE s

handleVoteResp(i, r, m) ==
    LET s == [r EXCEPT !.votes = IF m.reject THEN @ \ {m.from} ELSE @ \cup {m.from}]
    IN  IF quorum(s) THEN becomeLeader(i, s) ELSE s

handleRequestVoteResp(i, r, m) ==
    IF r.state # "Candidate" THEN r
    ELSE IF m.isPreVote THEN handlePreVoteResp(i, r, m)
    ELSE IF m.term = r.currentTerm THEN handleVoteResp(i, r, m)
    ELSE r

\* The log check of an AppendEntries that is not stale.
rejectsEntries(r, m) ==
    \/ hasGap(r.log, m.prevLogIndex)
    \/ hasConflict(r.log, m.prevLogIndex, m.prevLogTerm)

acceptEntries(r, m) ==
    [r EXCEPT !.log = mergeEntries(@, m.prevLogIndex, m.entries),
              !.commitIndex = IF m.leaderCommit > @
                              THEN Min({m.leaderCommit, m.prevLogIndex + Len(m.entries)})
                              ELSE @]

\* The leader of the message is followed even when its entries are rejected.
follow(r, m) ==
    IF r.state = "Follower"
    THEN [r EXCEPT !.leaderID = m.from, !.leaderActive = TRUE]
    ELSE becomeFollower(r, m.term, m.from)

handleAppendEntries(r, m) ==
    IF m.term < r.currentTerm THEN r
    ELSE IF rejectsEntries(r, m) THEN follow(r, m)
    ELSE acceptEntries(follow(r, m), m)

\* The Index of the answer: a hint where to back off to, or the end of the log.
answerIndex(r, m) ==
    IF m.term < r.currentTerm THEN 0
    ELSE IF hasGap(r.log, m.prevLogIndex) THEN lastLogIndex(r.log)
    ELSE IF hasConflict(r.log, m.prevLogIndex, m.prevLogTerm)
         THEN conflictHint(r.log, m.prevLogIndex)
    ELSE lastLogIndex(mergeEntries(r.log, m.prevLogIndex, m.entries))

\* Mutant: nextIndex backs off past its floor.
backOffTooFar(r, m) ==
    [r EXCEPT !.nextIndex[m.from] = IF m.index > 0 THEN m.index + 1
                                    ELSE IF @ > 1 THEN @ - 2 ELSE @]

\* Mutant: nextIndex moves only when the answer carries a hint.
backOffToHintOnly(r, m) ==
    [r EXCEPT !.nextIndex[m.from] = IF m.index > 0 THEN m.index + 1 ELSE @]

backOff(r, m) ==
    [r EXCEPT !.nextIndex[m.from] = IF m.index > 0 THEN m.index + 1
                                    ELSE IF @ > 1 THEN @ - 1 ELSE @]

\* heartbeatAcked is only ever compared with quorumSize, so it stops there.
acknowledge(r, m) ==
    LET s == IF m.index > 0
             THEN [r EXCEPT !.matchIndex[m.from] = m.index, !.nextIndex[m.from] = m.index + 1]
             ELSE r
    IN  maybeAdvanceCommit(
            [s EXCEPT !.heartbeatAcked = IF @ < quorumSize(r) THEN @ + 1 ELSE @])

handleAppendEntriesResp(r, m) ==
    IF r.state # "Leader" \/ m.term # r.currentTerm THEN r
    ELSE IF m.reject THEN backOff(r, m)
    ELSE acknowledge(r, m)

\* The lease check of HandleRead.
HasLeaderQuorum(r) == r.state = "Leader" /\ r.heartbeatAcked >= quorumSize(r)

-----------------------------------------------------------------------------
(* What every critical section of the node ends with *)

\* The votes, leaders and applied entries of the new state are remembered.
Observe(i) ==
    /\ cast' = IF raft'[i].votedFor = None THEN cast
               ELSE cast \cup {[voter |-> i, candidate |-> raft'[i].votedFor,
                                 term |-> raft'[i].currentTerm]}
    /\ elected' = IF raft'[i].state = "Leader"
                  THEN elected \cup {[leader |-> i, term |-> raft'[i].currentTerm]} ELSE elected
    /\ applied' = applied \cup {[index |-> k, entry |-> raft'[i].log[k]] :
                                k \in raft[i].lastApplied + 1 .. raft'[i].lastApplied}

\* Mutant: the vote is not saved.
persistTermOnly(i) ==
    /\ disk' = [disk EXCEPT ![i].term = raft'[i].currentTerm]
    /\ UNCHANGED diskErrors

\* Mutant: nothing is saved.
persistNothing(i) == UNCHANGED <<disk, diskErrors>>

\* persistState saves the term and the vote; the log is never written.  An error
\* of the store is logged and the step goes on.
persistState(i) ==
    \/ /\ disk' = [disk EXCEPT ![i].term = raft'[i].currentTerm, ![i].vote = raft'[i].votedFor]
       /\ UNCHANGED diskErrors
    \/ /\ diskErrors < MaxDiskErrors
       /\ diskErrors' = diskErrors + 1
       /\ UNCHANGED disk

\* Node i's critical section leaves record r behind.
Finish(i, r) ==
    /\ raft' = [raft EXCEPT ![i] = r]
    /\ Observe(i)
    /\ persistState(i)
    /\ UNCHANGED epoch

\* One copy of m is taken out of flight, the messages in out are put there.
Exchange(m, out) == msgs' = (msgs (-) SetToBag({m})) (+) SetToBag(out)

Dispatch(out) == msgs' = msgs (+) SetToBag(out)

\* The bound on messages in flight leaves room for these.
Room(out) == BagCardinality(msgs) + Cardinality(out) <= MaxInFlight

-----------------------------------------------------------------------------
(* Actions *)

\* Run, case <-ticker.C: the election timer of a follower or candidate runs out.
TickElection(i) ==
    LET r == raft[i]
        s == becomeCandidate(i, [r EXCEPT !.leaderActive = FALSE])
    IN  /\ r.state # "Leader"
        /\ r.currentTerm < MaxTerm
        /\ Room(electionMessages(i, r, s))
        /\ Finish(i, applyCommitted(s))
        /\ Dispatch(electionMessages(i, r, s))

\* Run, case <-ticker.C: the heartbeat timer of a leader runs out.
TickHeartbeat(i) ==
    LET s == [raft[i] EXCEPT !.heartbeatAcked = 1]
    IN  /\ raft[i].state = "Leader"
        /\ Room(broadcastHeartbeat(i, s))
        /\ Finish(i, applyCommitted(s))
        /\ Dispatch(broadcastHeartbeat(i, s))

\* HandlePropose on a leader (on any other node it changes nothing).
HandlePropose(i, c) ==
    LET r == raft[i]
        s == [r EXCEPT !.log = Append(@, [term |-> r.currentTerm, cmd |-> c]),
                       !.matchIndex[i] = lastLogIndex(r.log) + 1]
    IN  /\ r.state = "Leader"
        /\ lastLogIndex(r.log) < MaxLog
        /\ Room(broadcastHeartbeat(i, s))
        /\ Finish(i, s)
        /\ Dispatch(broadcastHeartbeat(i, s))

HandleRequestVote(m) ==
    LET i == m.to
        r == IF m.isPreVote THEN raft[i] ELSE stepDown(raft[i], m.term, None)
        reply == [type |-> "RequestVoteResp", from |-> i, to |-> m.from, epoch |-> m.epoch,
                  term |-> r.currentTerm, reject |-> ~grantsVote(r, m),
                  isPreVote |-> m.isPreVote]
    IN  /\ m.type = "RequestVote"
        /\ Finish(i, handleRequestVote(r, m))
        /\ Exchange(m, {reply})

\* The rest of sendRequestVote, after the answer has arrived.
HandleRequestVoteResp(m) ==
    LET i == m.to
        r == IF m.isPreVote THEN raft[i] ELSE stepDown(raft[i], m.term, None)
        s == handleRequestVoteResp(i, r, m)
    IN  /\ m.type = "RequestVoteResp"
        /\ m.epoch = epoch[i]
        /\ Finish(i, s)
        /\ Exchange(m, electionMessages(i, r, s))

HandleAppendEntries(m) ==
    LET i == m.to
        r == stepDown(raft[i], m.term, m.from)
        reply == [type |-> "AppendEntriesResp", from |-> i, to |-> m.from, epoch |-> m.epoch,
                  term |-> r.currentTerm,
                  reject |-> m.term < r.currentTerm \/ rejectsEntries(r, m),
                  index |-> answerIndex(r, m)]
    IN  /\ m.type = "AppendEntries"
        /\ Finish(i, applyCommitted(handleAppendEntries(r, m)))
        /\ Exchange(m, {reply})

\* The rest of sendAppendEntries, after the answer has arrived.
HandleAppendEntriesResp(m) ==
    LET i == m.to
        r == stepDown(raft[i], m.term, None)
    IN  /\ m.type = "AppendEntriesResp"
        /\ m.epoch = epoch[i]
        /\ Finish(i, applyCommitted(handleAppendEntriesResp(r, m)))
        /\ Exchange(m, {})

\* An RPC ends in an error for the caller, before or after it was handled: the
\* peer cannot be reached, a connection breaks, the two seconds are over.
SendFails(m) ==
    /\ Exchange(m, {})
    /\ UNCHANGED <<raft, disk, epoch, diskErrors, history>>

\* The process of node i ends and NewNode starts it again from its store.
Restart(i) ==
    /\ SumFunction(epoch) < MaxRestarts
    /\ epoch' = [epoch EXCEPT ![i] = @ + 1]
    /\ raft' = [raft EXCEPT ![i] =
                   NewRaft(disk[i].term, disk[i].vote, disk[i].log, InitialPeers[i])]
    /\ UNCHANGED <<disk, msgs, diskErrors, history>>

-----------------------------------------------------------------------------
(* The specification *)

Init ==
    /\ raft = [i \in Node |-> NewRaft(0, None, <<>>, InitialPeers[i])]
    /\ disk = [i \in Node |-> [term |-> 0, vote |-> None, log |-> <<>>]]
    /\ msgs = EmptyBag
    /\ epoch = [i \in Node |-> 0]
    /\ diskErrors = 0
    /\ cast = {} /\ elected = {} /\ applied = {}

\* The steps of a node that no client asks for.
NodeStep ==
    \/ \E i \in Node : TickElection(i) \/ TickHeartbeat(i) \/ Restart(i)
    \/ \E m \in BagToSet(msgs) : \/ HandleRequestVote(m)
                                 \/ HandleRequestVoteResp(m)
                                 \/ HandleAppendEntries(m)
                                 \/ HandleAppendEntriesResp(m)
                                 \/ SendFails(m)

Next ==
    \/ NodeStep
    \/ \E i \in Node, c \in Command : HandlePropose(i, c)

Spec == Init /\ [][Next]_vars

-----------------------------------------------------------------------------
(* Properties *)

\* At most one node ever becomes leader of a term: two majorities that
\* handleRequestVoteResp counted in it would share a node, and handleRequestVote
\* gives that node's vote to one of them only.
ElectionSafety ==
    \A e, f \in elected : e.term = f.term => e.leader = f.leader

\* No two nodes ever hand different entries of the same index to their KV stores
\* (ApplicableEntries, applyCommitted).
StateMachineSafety ==
    \A a, b \in applied : a.index = b.index => a.entry = b.entry

\* Two logs with an entry of the same index and term are the same up to it: the
\* consistency check and the truncation of handleAppendEntries.
LogMatching ==
    \A i, j \in Node :
        \A k \in DOMAIN raft[i].log \cap DOMAIN raft[j].log :
            raft[i].log[k].term = raft[j].log[k].term =>
                SubSeq(raft[i].log, 1, k) = SubSeq(raft[j].log, 1, k)

\* The newest leader has every entry that any node has applied: the up-to-date
\* check of handleRequestVote against the commit rule of maybeAdvanceCommit.
LeaderCompleteness ==
    \A i \in Node :
        /\ raft[i].state = "Leader"
        /\ \A e \in elected : e.term <= raft[i].currentTerm
        => \A a \in applied : a.index \in DOMAIN raft[i].log
                              /\ raft[i].log[a.index] = a.entry

\* The newest leader with a lease has itself applied every entry that any node has
\* applied: heartbeatAcked reaches a quorum only after the no-op of the term has been
\* acknowledged, and with it all that was committed before (HasLeaderQuorum,
\* becomeLeader, maybeAdvanceCommit).
LeaseCoversApplied ==
    \A i \in Node :
        HasLeaderQuorum(raft[i]) /\ (\A e \in elected : e.term <= raft[i].currentTerm)
            => \A a \in applied : a.index <= raft[i].lastApplied

\* What some node has applied is in the logs of a majority (maybeAdvanceCommit), and
\* no later truncation takes it out of there again.
CommittedOnMajority ==
    \A a \in applied :
        2 * Cardinality({i \in Node : a.index \in DOMAIN raft[i].log
                                      /\ raft[i].log[a.index] = a.entry})
            > Cardinality(Node)

\* A follower answers with the end of its whole log, not with the end of what the
\* message brought.  Still, what the leader books in matchIndex is in the log of a
\* peer that has not left for a later term.
MatchIndexSound ==
    \A i, p \in Node :
        /\ raft[i].state = "Leader"
        /\ raft[p].currentTerm <= raft[i].currentTerm
        /\ p # i
        => LET k == raft[i].matchIndex[p]
           IN  /\ k <= Len(raft[i].log) /\ k <= Len(raft[p].log)
               /\ SubSeq(raft[i].log, 1, k) = SubSeq(raft[p].log, 1, k)

\* nextIndex of a leader stays within its log, whatever hints arrive in whatever
\* order: nextIndex - 1 never wraps around and LeaderCommit never lies beyond the
\* entries sent (broadcastHeartbeat, handleAppendEntriesResp).
NextIndexInRange ==
    \A i \in Node : raft[i].state = "Leader" =>
        \A p \in raft[i].peers : raft[i].nextIndex[p] \in 1 .. Len(raft[i].log) + 1

\* A process never takes back a committed entry: commitIndex does not retreat and
\* no truncation of handleAppendEntries reaches below it.
CommittedPrefixStable ==
    [][\A i \in Node : epoch'[i] = epoch[i] =>
           LET k == raft[i].commitIndex
           IN  /\ raft'[i].commitIndex >= k
               /\ k <= Len(raft'[i].log)
               /\ SubSeq(raft'[i].log, 1, k) = SubSeq(raft[i].log, 1, k)]_vars

\* No node goes back to an earlier term, not even by a restart (persistState).
TermNeverRetreats ==
    [][\A i \in Node : raft'[i].currentTerm >= raft[i].currentTerm]_vars
=============================================================================
