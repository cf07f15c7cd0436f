--------------------------- MODULE RaftTypeProofs ---------------------------
(***************************************************************************)
(* Type correctness of module Raft, for every finite set of nodes and      *)
(* every choice of peers.  The lemmas follow the operators of the model    *)
(* from the log functions up to the actions; what is not routine is that   *)
(* no slice expression of the code leaves its bounds: the cut of           *)
(* mergeEntries, the walk of conflictHint, and the entries that            *)
(* applyCommitted hands to the KV store.                                   *)
(***************************************************************************)
EXTENDS Raft, FiniteSetTheorems, SequenceTheorems, WellFoundedInduction, TLAPS

(* Minima and maxima *)

\* A set of natural numbers has a least element, and Min is it.
LEMMA MinNat ==
    ASSUME NEW S \in SUBSET Nat, S # {}
    PROVE  Min(S) \in S /\ \A y \in S : Min(S) <= y
<1>1. \E x \in S : \A y \in S : ~(<<y, x>> \in OpToRel(<, Nat))
  BY NatLessThanWellFounded, WFMin
<1>3. \A x, y \in Nat : y < x => <<y, x>> \in OpToRel(<, Nat)
  BY Zenon DEF OpToRel
<1>4. \A x, y \in S : ~(y < x) => x <= y
  OBVIOUS
<1>2. \E x \in S : \A y \in S : x <= y
  BY <1>1, <1>3, <1>4, Zenon
<1> QED
  BY <1>2 DEF Min

\* A bounded set of natural numbers has a greatest element, and Max is it.
LEMMA MaxNat ==
    ASSUME NEW S \in SUBSET Nat, S # {}, NEW b \in Nat, \A x \in S : x <= b
    PROVE  Max(S) \in S /\ \A y \in S : Max(S) >= y
<1> DEFINE T == {b - x : x \in S}
<1>1. Min(T) \in T /\ \A y \in T : Min(T) <= y
  <2>1. T \in SUBSET Nat
    OBVIOUS
  <2>2. T # {}
    OBVIOUS
  <2> QED BY <2>1, <2>2, MinNat
<1>2. PICK x \in S : Min(T) = b - x
  BY <1>1
<1>3. \A y \in S : x >= y
  <2> SUFFICES ASSUME NEW y \in S PROVE x >= y
    OBVIOUS
  <2>1. b - y \in T
    OBVIOUS
  <2>2. Min(T) <= b - y
    BY <2>1, <1>1
  <2>3. b - x <= b - y
    BY <2>2, <1>2
  <2> HIDE DEF T
  <2> QED BY <2>3
<1> QED
  BY <1>3 DEF Max

\* The smaller of two numbers, as in commitIndex = min(LeaderCommit, last new index).
LEMMA MinPair ==
    ASSUME NEW a \in Nat, NEW b \in Nat
    PROVE  Min({a, b}) \in Nat /\ Min({a, b}) <= a /\ Min({a, b}) <= b
BY MinNat

-----------------------------------------------------------------------------
(* Bags: what is in flight after a step *)

\* Putting messages in flight adds exactly them (dispatchMessages).
LEMMA DispatchSet ==
    ASSUME NEW B, NEW S
    PROVE  BagToSet(B (+) SetToBag(S)) = BagToSet(B) \cup S
BY DEF BagToSet, SetToBag, (+)

\* Delivering a message puts no other one in flight.
LEMMA ExchangeSet ==
    ASSUME NEW B, NEW m, NEW S
    PROVE  BagToSet((B (-) SetToBag({m})) (+) SetToBag(S)) \subseteq BagToSet(B) \cup S
BY DEF BagToSet, SetToBag, (+), (-)

\* Both leave a bag.
LEMMA DispatchBag ==
    ASSUME NEW B, IsABag(B), NEW S
    PROVE  IsABag(B (+) SetToBag(S))
BY DEF IsABag, SetToBag, (+)

LEMMA ExchangeBag ==
    ASSUME NEW B, IsABag(B), NEW m, NEW S
    PROVE  IsABag((B (-) SetToBag({m})) (+) SetToBag(S))
BY DEF IsABag, SetToBag, (+), (-)

-----------------------------------------------------------------------------
(* The log *)

\* logTerm answers 0 outside the log, so it is a term for every index.
LEMMA LogTermType ==
    ASSUME NEW log \in Log, NEW n \in Int
    PROVE  logTerm(log, n) \in Nat
<1>1. ASSUME n \in 1 .. Len(log) PROVE log[n] \in Entry
  BY <1>1, ElementOfSeq DEF Log
<1> QED
  BY <1>1 DEF logTerm, Entry

\* The walk back over a term ends at index 0 at the latest.
LEMMA ConflictHintType ==
    ASSUME NEW log \in Log, NEW n \in Nat, n > 0
    PROVE  conflictHint(log, n) \in Nat
<1> DEFINE S == {h \in 1 .. n : \A k \in h .. n : logTerm(log, k) = logTerm(log, n)}
<1>1. S \in SUBSET Nat
  OBVIOUS
<1>2. n \in S
  <2>1. \A k \in n .. n : k = n
    OBVIOUS
  <2> QED BY <2>1
<1>3. Min(S) \in S
  BY <1>1, <1>2, MinNat
<1> QED
  BY <1>3 DEF conflictHint

\* The new log of handleAppendEntries: the cut lies within the old log.
LEMMA MergeEntriesType ==
    ASSUME NEW log \in Log, NEW entries \in Log, NEW n \in Nat, n <= Len(log)
    PROVE  mergeEntries(log, n, entries) \in Log
<1> DEFINE M == missing(log, n, entries)
           k == Min(M)
<1>0. log \in Seq(Entry) /\ entries \in Seq(Entry) /\ Len(log) \in Nat /\ Len(entries) \in Nat
  BY LenProperties DEF Log
<1>1. CASE M = {}
  BY <1>1 DEF mergeEntries
<1>2. CASE M # {}
  <2>1. M \in SUBSET Nat /\ M \subseteq 1 .. Len(entries)
    BY <1>0 DEF missing
  <2>2. k \in M /\ \A y \in M : k <= y
    BY <1>2, <2>1, MinNat
  <2>3. k \in 1 .. Len(entries)
    BY <2>1, <2>2
  <2>4. n + k - 1 <= Len(log)
    <3>1. CASE k = 1
      BY <3>1, <1>0
    <3>2. CASE k # 1
      <4>1. k - 1 \in 1 .. Len(entries) /\ ~(k <= k - 1)
        BY <2>3, <3>2, <1>0
      <4>2. k - 1 \notin M
        BY <4>1, <2>2
      <4>3. ~(n + (k - 1) > lastLogIndex(log))
        BY <4>1, <4>2 DEF missing
      <4> QED BY <4>3, <2>3, <1>0 DEF lastLogIndex
    <3> QED BY <3>1, <3>2
  <2> HIDE DEF k, M
  <2>5. SubSeq(log, 1, n + k - 1) \in Seq(Entry)
    BY <1>0, <2>3, <2>4, SubSeqProperties
  <2>6. SubSeq(entries, k, Len(entries)) \in Seq(Entry)
    BY <1>0, <2>3, SubSeqProperties
  <2>7. SubSeq(log, 1, n + k - 1) \o SubSeq(entries, k, Len(entries)) \in Seq(Entry)
    BY <2>5, <2>6, ConcatProperties
  <2> QED BY <1>2, <2>7 DEF mergeEntries, Log, k, M
<1> QED BY <1>1, <1>2

-----------------------------------------------------------------------------
(* The operators on a node's record *)

\* Record s has the type of a Raft struct and leaves alone what only
\* applyCommitted and AddPeer change.
Keeps(r, s) == s \in RaftState /\ s.lastApplied = r.lastApplied /\ s.peers = r.peers

LEMMA QuorumSizeType ==
    ASSUME NEW r \in RaftState
    PROVE  quorumSize(r) \in Nat
<1>1. r.peers \subseteq Node
  BY DEF RaftState
<1>2. Cardinality(r.peers) \in Nat
  BY <1>1, NodeAssumption, FS_Subset, FS_CardinalityType
<1> QED
  BY <1>2 DEF quorumSize

LEMMA BecomeFollowerType ==
    ASSUME NEW r \in RaftState, NEW t \in Nat, NEW l \in Node \cup {None}
    PROVE  Keeps(r, becomeFollower(r, t, l))
BY DEF becomeFollower, RaftState, Keeps

LEMMA StepDownType ==
    ASSUME NEW r \in RaftState, NEW t \in Nat, NEW l \in Node \cup {None}
    PROVE  Keeps(r, stepDown(r, t, l))
BY BecomeFollowerType DEF stepDown, Keeps

LEMMA BecomeLeaderType ==
    ASSUME NEW r \in RaftState, NEW i \in Node
    PROVE  Keeps(r, becomeLeader(i, r))
<1> DEFINE e == [term |-> r.currentTerm, cmd |-> NoOp]
           newLog == Append(r.log, e)
           next == [n \in Node |-> IF n \in r.peers THEN lastLogIndex(r.log) + 1 ELSE 0]
           match == [n \in Node |-> 0]
<1>1. e \in Entry
  BY DEF Entry, RaftState
<1>2. r.log \in Seq(Entry)
  BY DEF RaftState, Log
<1>3. newLog \in Log
  BY <1>1, <1>2, AppendProperties DEF Log
<1>4. next \in [Node -> Nat]
  BY <1>2, LenProperties DEF lastLogIndex
<1>5. match \in [Node -> Nat]
  OBVIOUS
<1> HIDE DEF e, newLog, next, match
<1>6. [r EXCEPT !.state = "Leader", !.leaderID = i, !.heartbeatAcked = 1,
                !.nextIndex = next, !.matchIndex = match, !.log = newLog] \in RaftState
  BY <1>3, <1>4, <1>5 DEF RaftState
<1>7. Keeps(r, [r EXCEPT !.state = "Leader", !.leaderID = i, !.heartbeatAcked = 1,
                !.nextIndex = next, !.matchIndex = match, !.log = newLog])
  BY <1>6 DEF Keeps, RaftState
<1> QED
  BY <1>7 DEF becomeLeader, e, newLog, next, match

LEMMA BecomeCandidateType ==
    ASSUME NEW r \in RaftState, NEW i \in Node
    PROVE  Keeps(r, becomeCandidate(i, r))
<1> DEFINE c == [r EXCEPT !.state = "Candidate", !.currentTerm = @ + 1, !.votedFor = i,
                          !.leaderID = None, !.votes = {i}]
<1>1. Keeps(r, c)
  <2>1. r.currentTerm + 1 \in Nat
    BY DEF RaftState
  <2>2. c \in RaftState
    BY <2>1 DEF RaftState
  <2>3. c.lastApplied = r.lastApplied /\ c.peers = r.peers
    BY DEF RaftState
  <2> QED BY <2>2, <2>3 DEF Keeps
<1> HIDE DEF c
<1>2. Keeps(r, becomeLeader(i, c))
  BY <1>1, BecomeLeaderType DEF Keeps
<1> QED
  BY <1>1, <1>2 DEF becomeCandidate, c

LEMMA HandleRequestVoteType ==
    ASSUME NEW r \in RaftState, NEW m \in RequestVote
    PROVE  Keeps(r, handleRequestVote(r, m))
<1>1. m.from \in Node
  BY DEF RequestVote
<1> QED
  BY <1>1 DEF handleRequestVote, RaftState, Keeps

LEMMA HandleRequestVoteRespType ==
    ASSUME NEW r \in RaftState, NEW i \in Node, NEW m \in RequestVoteResp
    PROVE  Keeps(r, handleRequestVoteResp(i, r, m))
<1>1. m.from \in Node
  BY DEF RequestVoteResp
<1>2. Keeps(r, handlePreVoteResp(i, r, m))
  <2> DEFINE known == IF r.preVotes = {} THEN {i} ELSE r.preVotes
             count == IF m.reject THEN known \ {m.from} ELSE known \cup {m.from}
             s == [r EXCEPT !.preVotes = count]
  <2>1. count \in SUBSET Node
    BY <1>1 DEF RaftState
  <2> HIDE DEF count
  <2>2. Keeps(r, s)
    BY <2>1 DEF RaftState, Keeps
  <2> HIDE DEF s
  <2>3. Keeps(r, becomeCandidate(i, s))
    BY <2>2, BecomeCandidateType DEF Keeps
  <2> QED BY <2>2, <2>3 DEF handlePreVoteResp, s, count
<1>3. Keeps(r, handleVoteResp(i, r, m))
  <2> DEFINE count == IF m.reject THEN r.votes \ {m.from} ELSE r.votes \cup {m.from}
             s == [r EXCEPT !.votes = count]
  <2>1. count \in SUBSET Node
    BY <1>1 DEF RaftState
  <2> HIDE DEF count
  <2>2. Keeps(r, s)
    BY <2>1 DEF RaftState, Keeps
  <2> HIDE DEF s
  <2>3. Keeps(r, becomeLeader(i, s))
    BY <2>2, BecomeLeaderType DEF Keeps
  <2> QED BY <2>2, <2>3 DEF handleVoteResp, s, count
<1>4. Keeps(r, r)
  BY DEF Keeps
<1> QED
  BY <1>2, <1>3, <1>4 DEF handleRequestVoteResp

LEMMA FollowType ==
    ASSUME NEW r \in RaftState, NEW m \in AppendEntries
    PROVE  Keeps(r, follow(r, m)) /\ follow(r, m).log = r.log
<1>1. m.from \in Node /\ m.term \in Nat
  BY DEF AppendEntries
<1>2. Keeps(r, becomeFollower(r, m.term, m.from))
  BY <1>1, BecomeFollowerType
<1>3. becomeFollower(r, m.term, m.from).log = r.log
  BY DEF becomeFollower, RaftState
<1>4. Keeps(r, [r EXCEPT !.leaderID = m.from, !.leaderActive = TRUE])
  BY <1>1 DEF Keeps, RaftState
<1>5. [r EXCEPT !.leaderID = m.from, !.leaderActive = TRUE].log = r.log
  BY DEF RaftState
<1> QED
  BY <1>2, <1>3, <1>4, <1>5 DEF follow

LEMMA HandleAppendEntriesType ==
    ASSUME NEW r \in RaftState, NEW m \in AppendEntries
    PROVE  Keeps(r, handleAppendEntries(r, m))
<1>1. m.leaderCommit \in Nat /\ m.prevLogIndex \in Nat /\ m.entries \in Log
  BY DEF AppendEntries
<1>2. Keeps(r, follow(r, m)) /\ follow(r, m).log = r.log
  BY FollowType
<1>3. ASSUME ~rejectsEntries(r, m)
      PROVE  Keeps(r, acceptEntries(follow(r, m), m))
  <2> DEFINE f == follow(r, m)
             newLog == mergeEntries(f.log, m.prevLogIndex, m.entries)
             lastNew == m.prevLogIndex + Len(m.entries)
             commit == IF m.leaderCommit > f.commitIndex
                       THEN Min({m.leaderCommit, lastNew}) ELSE f.commitIndex
  <2>1. f \in RaftState /\ f.log = r.log /\ f.commitIndex \in Nat /\ f.log \in Log
    BY <1>2 DEF Keeps, RaftState
  <2>2. m.prevLogIndex <= Len(r.log)
    <3>1. Len(r.log) \in Nat
      BY <2>1, LenProperties DEF Log
    <3> QED BY <1>3, <1>1, <3>1 DEF rejectsEntries, hasGap, lastLogIndex
  <2>3. newLog \in Log
    BY <1>1, <2>1, <2>2, MergeEntriesType
  <2>4. lastNew \in Nat
    BY <1>1, LenProperties DEF Log
  <2> HIDE DEF f, newLog, lastNew
  <2>5. commit \in Nat
    BY <1>1, <2>1, <2>4, MinPair
  <2> HIDE DEF commit
  <2>6. [f EXCEPT !.log = newLog, !.commitIndex = commit] \in RaftState
    BY <2>1, <2>3, <2>5 DEF RaftState
  <2>7. Keeps(f, [f EXCEPT !.log = newLog, !.commitIndex = commit])
    BY <2>1, <2>6 DEF Keeps, RaftState
  <2>8. acceptEntries(f, m) = [f EXCEPT !.log = newLog, !.commitIndex = commit]
    BY DEF acceptEntries, newLog, commit, lastNew
  <2> QED BY <1>2, <2>7, <2>8 DEF Keeps, f
<1>4. Keeps(r, r)
  BY DEF Keeps
<1> QED
  BY <1>2, <1>3, <1>4 DEF handleAppendEntries

\* The commit index stays within the log: it is raised to an index of it.
LEMMA MaybeAdvanceCommitType ==
    ASSUME NEW r \in RaftState
    PROVE  Keeps(r, maybeAdvanceCommit(r))
<1> DEFINE S == {r.commitIndex} \cup
                {n \in replicated(r) : n > r.commitIndex /\ logTerm(r.log, n) = r.currentTerm}
<1>1. r.commitIndex \in Nat /\ Len(r.log) \in Nat
  BY LenProperties DEF RaftState, Log
<1>2. replicated(r) \subseteq 1 .. Len(r.log)
  BY DEF replicated, lastLogIndex
<1>3. S \in SUBSET Nat /\ S # {}
  BY <1>1, <1>2
<1>4. \A x \in S : x <= r.commitIndex + Len(r.log)
  BY <1>1, <1>2
<1>5. Max(S) \in Nat
  <2>1. r.commitIndex + Len(r.log) \in Nat
    BY <1>1
  <2> HIDE DEF S
  <2> QED BY <1>3, <1>4, <2>1, MaxNat
<1> HIDE DEF S
<1>6. Keeps(r, [r EXCEPT !.commitIndex = Max(S)])
  BY <1>5 DEF Keeps, RaftState
<1> QED
  BY <1>6 DEF maybeAdvanceCommit, S

LEMMA HandleAppendEntriesRespType ==
    ASSUME NEW r \in RaftState, NEW m \in AppendEntriesResp
    PROVE  Keeps(r, handleAppendEntriesResp(r, m))
<1>1. m.from \in Node /\ m.index \in Nat
  BY DEF AppendEntriesResp
<1>2. r.nextIndex \in [Node -> Nat] /\ r.matchIndex \in [Node -> Nat] /\ r.heartbeatAcked \in Nat
  BY DEF RaftState
<1>3. Keeps(r, backOff(r, m))
  <2> DEFINE next == [r.nextIndex EXCEPT ![m.from] = IF m.index > 0 THEN m.index + 1
                                                     ELSE IF @ > 1 THEN @ - 1 ELSE @]
  <2>1. next \in [Node -> Nat]
    BY <1>1, <1>2
  <2> HIDE DEF next
  <2>2. Keeps(r, [r EXCEPT !.nextIndex = next])
    BY <2>1 DEF Keeps, RaftState
  <2>3. backOff(r, m) = [r EXCEPT !.nextIndex = next]
    BY DEF backOff, next, RaftState
  <2> QED BY <2>2, <2>3
<1>4. Keeps(r, acknowledge(r, m))
  <2> DEFINE match == [r.matchIndex EXCEPT ![m.from] = m.index]
             next == [r.nextIndex EXCEPT ![m.from] = m.index + 1]
             s == IF m.index > 0 THEN [r EXCEPT !.matchIndex = match, !.nextIndex = next] ELSE r
             acked == IF s.heartbeatAcked < quorumSize(r) THEN s.heartbeatAcked + 1
                      ELSE s.heartbeatAcked
  <2>1. match \in [Node -> Nat] /\ next \in [Node -> Nat]
    BY <1>1, <1>2
  <2> HIDE DEF match, next
  <2>2. Keeps(r, s)
    BY <2>1 DEF Keeps, RaftState
  <2> HIDE DEF s
  <2>3. acked \in Nat
    BY <2>2 DEF Keeps, RaftState
  <2> HIDE DEF acked
  <2>4. Keeps(s, [s EXCEPT !.heartbeatAcked = acked])
    BY <2>2, <2>3 DEF Keeps, RaftState
  <2>5. Keeps(r, maybeAdvanceCommit([s EXCEPT !.heartbeatAcked = acked]))
    BY <2>2, <2>4, MaybeAdvanceCommitType DEF Keeps
  <2>6. acknowledge(r, m) = maybeAdvanceCommit([s EXCEPT !.heartbeatAcked = acked])
    BY DEF acknowledge, s, match, next, acked, RaftState
  <2> QED BY <2>5, <2>6
<1>5. Keeps(r, r)
  BY DEF Keeps
<1> QED
  BY <1>3, <1>4, <1>5 DEF handleAppendEntriesResp

\* applyCommitted stops at the end of the log.
LEMMA ApplyCommittedType ==
    ASSUME NEW r \in RaftState
    PROVE  LET s == applyCommitted(r)
           IN  /\ s \in RaftState
               /\ s.lastApplied = r.lastApplied \/ s.lastApplied <= Len(s.log)
               /\ s = [r EXCEPT !.lastApplied = s.lastApplied]
<1> DEFINE end == Min({r.commitIndex, Len(r.log)})
<1>1. r.commitIndex \in Nat /\ Len(r.log) \in Nat
  BY LenProperties DEF RaftState, Log
<1>2. end \in Nat /\ end <= Len(r.log)
  BY <1>1, MinPair
<1> HIDE DEF end
<1>3. [r EXCEPT !.lastApplied = end] \in RaftState
  BY <1>2 DEF RaftState
<1>4. /\ [r EXCEPT !.lastApplied = end].lastApplied = end
      /\ [r EXCEPT !.lastApplied = end].log = r.log
      /\ r = [r EXCEPT !.lastApplied = r.lastApplied]
  BY DEF RaftState
<1>5. applyCommitted(r) = IF r.lastApplied < end THEN [r EXCEPT !.lastApplied = end] ELSE r
  BY DEF applyCommitted, end, lastLogIndex
<1> QED
  BY <1>2, <1>3, <1>4, <1>5

-----------------------------------------------------------------------------
(* Messages *)

LEMMA BroadcastRequestVoteType ==
    ASSUME TypeOK, NEW i \in Node, NEW r \in RaftState
    PROVE  broadcastRequestVote(i, r) \subseteq RequestVote
<1>1. r.log \in Log /\ r.peers \subseteq Node /\ r.currentTerm \in Nat /\ epoch[i] \in Nat
  BY DEF RaftState, TypeOK
<1>2. Len(r.log) \in Nat
  BY <1>1, LenProperties DEF Log
<1>3. lastLogTerm(r.log) \in Nat
  BY <1>1, <1>2, LogTermType DEF lastLogTerm
<1>4. ASSUME NEW p \in Node
      PROVE  [type |-> "RequestVote", from |-> i, to |-> p, epoch |-> epoch[i],
              term |-> r.currentTerm, lastLogIndex |-> Len(r.log),
              lastLogTerm |-> lastLogTerm(r.log), isPreVote |-> FALSE] \in RequestVote
  BY <1>1, <1>2, <1>3 DEF RequestVote
<1> QED
  BY <1>1, <1>4 DEF broadcastRequestVote, lastLogIndex

\* r.log[nextIndex:] is a sequence of entries, or with nextIndex 0 the sentinel and
\* the log.
LEMMA EntriesFromType ==
    ASSUME NEW log \in Log, NEW n \in Nat
    PROVE  entriesFrom(log, n) \in Log
<1>1. log \in Seq(Entry) /\ Len(log) \in Nat
  BY LenProperties DEF Log
<1>2. Sentinel \in Entry
  BY DEF Sentinel, Entry
<1>3. <<Sentinel>> \o log \in Log
  BY <1>1, <1>2, ConcatProperties DEF Log
<1>4. ASSUME n # 0, n <= Len(log) + 1 PROVE SubSeq(log, n, Len(log)) \in Log
  BY <1>4, <1>1, SubSeqProperties DEF Log
<1>5. ASSUME n > Len(log) + 1 PROVE SubSeq(log, n, Len(log)) \in Log
  <2>1. SubSeq(log, n, Len(log)) = << >>
    BY <1>5, <1>1
  <2> QED BY <2>1 DEF Log
<1> QED
  BY <1>1, <1>3, <1>4, <1>5 DEF entriesFrom

LEMMA BroadcastHeartbeatType ==
    ASSUME TypeOK, NEW i \in Node, NEW r \in RaftState
    PROVE  broadcastHeartbeat(i, r) \subseteq AppendEntries
<1>1. /\ r.log \in Log /\ r.peers \subseteq Node /\ r.currentTerm \in Nat
      /\ r.commitIndex \in Nat /\ r.nextIndex \in [Node -> Nat] /\ epoch[i] \in Nat
  BY DEF RaftState, TypeOK
<1>2. \A p \in Node : pred(r.nextIndex[p]) \in Nat
  BY <1>1, BoundsAssumption DEF pred
<1>3. \A p \in Node : logTerm(r.log, pred(r.nextIndex[p])) \in Nat
  BY <1>1, <1>2, LogTermType
<1>4. \A p \in Node : entriesFrom(r.log, r.nextIndex[p]) \in Log
  BY <1>1, EntriesFromType
<1> QED
  BY <1>1, <1>2, <1>3, <1>4 DEF broadcastHeartbeat, AppendEntries

LEMMA ElectionMessagesType ==
    ASSUME TypeOK, NEW i \in Node, NEW r, NEW s \in RaftState
    PROVE  electionMessages(i, r, s) \subseteq Message
BY BroadcastRequestVoteType, BroadcastHeartbeatType DEF electionMessages, Message

LEMMA AnswerIndexType ==
    ASSUME NEW r \in RaftState, NEW m \in AppendEntries
    PROVE  answerIndex(r, m) \in Nat
<1>1. r.log \in Log /\ m.prevLogIndex \in Nat /\ m.entries \in Log
  BY DEF RaftState, AppendEntries
<1>2. Len(r.log) \in Nat
  BY <1>1, LenProperties DEF Log
<1>3. ASSUME hasConflict(r.log, m.prevLogIndex, m.prevLogTerm)
      PROVE  conflictHint(r.log, m.prevLogIndex) \in Nat
  BY <1>1, <1>3, ConflictHintType DEF hasConflict
<1>4. ASSUME ~hasGap(r.log, m.prevLogIndex)
      PROVE  Len(mergeEntries(r.log, m.prevLogIndex, m.entries)) \in Nat
  <2>1. mergeEntries(r.log, m.prevLogIndex, m.entries) \in Log
    BY <1>1, <1>2, <1>4, MergeEntriesType DEF hasGap, lastLogIndex
  <2> QED BY <2>1, LenProperties DEF Log
<1> QED
  BY <1>2, <1>3, <1>4 DEF answerIndex, lastLogIndex

-----------------------------------------------------------------------------
(* The end of a critical section *)

\* The type invariant without msgs.
StateTypeOK ==
    /\ raft \in [Node -> RaftState]
    /\ disk \in [Node -> DiskState]
    /\ epoch \in [Node -> Nat]
    /\ diskErrors \in Nat
    /\ cast \subseteq Vote
    /\ elected \subseteq Leadership
    /\ applied \subseteq Application

MsgsTypeOK == IsABag(msgs) /\ BagToSet(msgs) \subseteq Message

LEMMA FinishType ==
    ASSUME TypeOK, NEW i \in Node, NEW s \in RaftState,
           s.lastApplied = raft[i].lastApplied \/ s.lastApplied <= Len(s.log),
           Finish(i, s)
    PROVE  StateTypeOK'
<1> USE DEF Finish
<1>1. raft' \in [Node -> RaftState] /\ raft'[i] = s
  BY DEF TypeOK
<1>2. /\ s.currentTerm \in Nat /\ s.votedFor \in Node \cup {None}
      /\ s.log \in Log /\ s.lastApplied \in Nat /\ raft[i].lastApplied \in Nat
  BY DEF TypeOK, RaftState
<1>3. disk' \in [Node -> DiskState] /\ diskErrors' \in Nat
  <2>1. [disk[i] EXCEPT !.term = s.currentTerm, !.vote = s.votedFor] \in DiskState
    BY <1>2 DEF TypeOK, DiskState
  <2>2. [disk EXCEPT ![i].term = s.currentTerm, ![i].vote = s.votedFor]
          = [disk EXCEPT ![i] = [disk[i] EXCEPT !.term = s.currentTerm, !.vote = s.votedFor]]
    BY DEF TypeOK, DiskState
  <2>3. [disk EXCEPT ![i].term = s.currentTerm, ![i].vote = s.votedFor] \in [Node -> DiskState]
    BY <2>1, <2>2 DEF TypeOK
  <2>4. \/ disk' = [disk EXCEPT ![i].term = s.currentTerm, ![i].vote = s.votedFor]
        \/ disk' = disk
    BY <1>1 DEF persistState
  <2>5. disk' \in [Node -> DiskState]
    BY <2>3, <2>4 DEF TypeOK
  <2>6. diskErrors' \in Nat
    BY DEF persistState, TypeOK
  <2> QED BY <2>5, <2>6
<1>4. epoch' \in [Node -> Nat]
  BY DEF TypeOK
<1>5. cast' \subseteq Vote
  <2>1. s.votedFor # None => [voter |-> i, candidate |-> s.votedFor, term |-> s.currentTerm] \in Vote
    BY <1>2 DEF Vote
  <2>2. \/ s.votedFor = None /\ cast' = cast
        \/ /\ s.votedFor # None
           /\ cast' = cast \cup {[voter |-> i, candidate |-> s.votedFor, term |-> s.currentTerm]}
    BY <1>1 DEF Observe
  <2>3. cast \subseteq Vote
    BY DEF TypeOK
  <2> QED BY <2>1, <2>2, <2>3
<1>6. elected' \subseteq Leadership
  <2>1. [leader |-> i, term |-> s.currentTerm] \in Leadership
    BY <1>2 DEF Leadership
  <2>2. elected' = elected \/ elected' = elected \cup {[leader |-> i, term |-> s.currentTerm]}
    BY <1>1 DEF Observe
  <2>3. elected \subseteq Leadership
    BY DEF TypeOK
  <2> QED BY <2>1, <2>2, <2>3
<1>7. applied' \subseteq Application
  <2>1. ASSUME NEW k \in raft[i].lastApplied + 1 .. s.lastApplied
        PROVE  k \in Nat /\ s.log[k] \in Entry
    <3>1. k \in 1 .. Len(s.log)
      <4>1. Len(s.log) \in Nat
        BY <1>2, LenProperties DEF Log
      <4> QED BY <1>2, <2>1, <4>1
    <3> QED BY <3>1, <1>2, ElementOfSeq DEF Log
  <2>2. \A k \in raft[i].lastApplied + 1 .. s.lastApplied :
            [index |-> k, entry |-> s.log[k]] \in Application
    BY <2>1 DEF Application
  <2> QED BY <1>1, <2>2 DEF Observe, TypeOK
<1> QED
  BY <1>1, <1>3, <1>4, <1>5, <1>6, <1>7 DEF StateTypeOK

LEMMA DispatchType ==
    ASSUME TypeOK, NEW out \in SUBSET Message, Dispatch(out)
    PROVE  MsgsTypeOK'
BY DispatchSet, DispatchBag DEF Dispatch, TypeOK, MsgsTypeOK

LEMMA ExchangeType ==
    ASSUME TypeOK, NEW m, NEW out \in SUBSET Message, Exchange(m, out)
    PROVE  MsgsTypeOK'
BY ExchangeSet, ExchangeBag DEF Exchange, TypeOK, MsgsTypeOK

-----------------------------------------------------------------------------
(* The actions *)

LEMMA InitType == Init => TypeOK
<1> SUFFICES ASSUME Init PROVE TypeOK
  OBVIOUS
<1> USE DEF Init
<1>1. << >> \in Log
  BY DEF Log
<1>2. \A i \in Node : NewRaft(0, None, <<>>, InitialPeers[i]) \in RaftState
  BY <1>1, PeersAssumption DEF NewRaft, RaftState
<1>3. raft \in [Node -> RaftState]
  BY <1>2
<1>4. disk \in [Node -> DiskState]
  BY <1>1 DEF DiskState
<1>5. IsABag(msgs) /\ BagToSet(msgs) \subseteq Message
  BY DEF EmptyBag, SetToBag, IsABag, BagToSet
<1> QED
  BY <1>3, <1>4, <1>5 DEF TypeOK

LEMMA TickElectionType ==
    ASSUME TypeOK, NEW i \in Node, TickElection(i)
    PROVE  TypeOK'
<1> DEFINE r == raft[i]
           q == [r EXCEPT !.leaderActive = FALSE]
           s == becomeCandidate(i, q)
<1>1. r \in RaftState
  BY DEF TypeOK
<1>2. Keeps(r, q)
  BY <1>1 DEF Keeps, RaftState
<1> HIDE DEF q
<1>3. Keeps(r, s)
  BY <1>2, BecomeCandidateType DEF Keeps
<1>4. Finish(i, applyCommitted(s)) /\ Dispatch(electionMessages(i, r, s))
  BY DEF TickElection, q
<1> HIDE DEF s
<1>5. StateTypeOK'
  BY <1>3, <1>4, ApplyCommittedType, FinishType DEF Keeps
<1>6. MsgsTypeOK'
  BY <1>3, <1>4, ElectionMessagesType, DispatchType DEF Keeps
<1> QED
  BY <1>5, <1>6 DEF StateTypeOK, MsgsTypeOK, TypeOK

LEMMA TickHeartbeatType ==
    ASSUME TypeOK, NEW i \in Node, TickHeartbeat(i)
    PROVE  TypeOK'
<1> DEFINE s == [raft[i] EXCEPT !.heartbeatAcked = 1]
<1>1. Keeps(raft[i], s)
  <2>1. raft[i] \in RaftState
    BY DEF TypeOK
  <2> QED BY <2>1 DEF Keeps, RaftState
<1>2. Finish(i, applyCommitted(s)) /\ Dispatch(broadcastHeartbeat(i, s))
  BY DEF TickHeartbeat
<1> HIDE DEF s
<1>3. StateTypeOK'
  BY <1>1, <1>2, ApplyCommittedType, FinishType DEF Keeps
<1>4. MsgsTypeOK'
  BY <1>1, <1>2, BroadcastHeartbeatType, DispatchType DEF Keeps, Message
<1> QED
  BY <1>3, <1>4 DEF StateTypeOK, MsgsTypeOK, TypeOK

LEMMA HandleProposeType ==
    ASSUME TypeOK, NEW i \in Node, NEW c \in Command, HandlePropose(i, c)
    PROVE  TypeOK'
<1> DEFINE r == raft[i]
           newLog == Append(r.log, [term |-> r.currentTerm, cmd |-> c])
           match == [r.matchIndex EXCEPT ![i] = lastLogIndex(r.log) + 1]
           s == [r EXCEPT !.log = newLog, !.matchIndex = match]
<1>1. r \in RaftState
  BY DEF TypeOK
<1>2. newLog \in Log
  <2>1. [term |-> r.currentTerm, cmd |-> c] \in Entry /\ r.log \in Seq(Entry)
    BY <1>1 DEF Entry, RaftState, Log
  <2> QED BY <2>1, AppendProperties DEF Log
<1>3. match \in [Node -> Nat]
  <2>1. r.matchIndex \in [Node -> Nat] /\ r.log \in Seq(Entry)
    BY <1>1 DEF RaftState, Log
  <2>2. lastLogIndex(r.log) + 1 \in Nat
    BY <2>1, LenProperties DEF lastLogIndex
  <2> QED BY <2>1, <2>2
<1>4. [r EXCEPT !.log = Append(@, [term |-> r.currentTerm, cmd |-> c]),
                !.matchIndex[i] = lastLogIndex(r.log) + 1] = s
  BY <1>1 DEF RaftState
<1>5. Finish(i, s) /\ Dispatch(broadcastHeartbeat(i, s))
  BY <1>4 DEF HandlePropose
<1> HIDE DEF newLog, match
<1>6. Keeps(r, s)
  BY <1>1, <1>2, <1>3 DEF Keeps, RaftState
<1> HIDE DEF s
<1>7. StateTypeOK'
  BY <1>5, <1>6, FinishType DEF Keeps
<1>8. MsgsTypeOK'
  BY <1>5, <1>6, BroadcastHeartbeatType, DispatchType DEF Keeps, Message
<1> QED
  BY <1>7, <1>8 DEF StateTypeOK, MsgsTypeOK, TypeOK

LEMMA HandleRequestVoteActionType ==
    ASSUME TypeOK, NEW m \in RequestVote, HandleRequestVote(m)
    PROVE  TypeOK'
<1> DEFINE i == m.to
           r == IF m.isPreVote THEN raft[i] ELSE stepDown(raft[i], m.term, None)
           reply == [type |-> "RequestVoteResp", from |-> i, to |-> m.from, epoch |-> m.epoch,
                     term |-> r.currentTerm, reject |-> ~grantsVote(r, m),
                     isPreVote |-> m.isPreVote]
<1>1. i \in Node /\ m.from \in Node /\ m.epoch \in Nat /\ m.term \in Nat /\ m.isPreVote \in BOOLEAN
  BY DEF RequestVote
<1>2. raft[i] \in RaftState
  BY <1>1 DEF TypeOK
<1>3. Keeps(raft[i], r)
  <2>1. Keeps(raft[i], raft[i])
    BY <1>2 DEF Keeps
  <2>2. Keeps(raft[i], stepDown(raft[i], m.term, None))
    BY <1>1, <1>2, StepDownType
  <2> QED BY <2>1, <2>2
<1>4. Finish(i, handleRequestVote(r, m)) /\ Exchange(m, {reply})
  BY DEF HandleRequestVote
<1> HIDE DEF i, r
<1>5. Keeps(raft[i], handleRequestVote(r, m))
  BY <1>3, HandleRequestVoteType DEF Keeps
<1>6. StateTypeOK'
  BY <1>1, <1>4, <1>5, FinishType DEF Keeps
<1>7. reply \in Message
  <2>1. r.currentTerm \in Nat
    BY <1>3 DEF Keeps, RaftState
  <2>2. (~grantsVote(r, m)) \in BOOLEAN
    OBVIOUS
  <2> QED BY <1>1, <2>1, <2>2 DEF RequestVoteResp, Message
<1>8. MsgsTypeOK'
  BY <1>4, <1>7, ExchangeType
<1> QED
  BY <1>6, <1>8 DEF StateTypeOK, MsgsTypeOK, TypeOK

LEMMA HandleRequestVoteRespActionType ==
    ASSUME TypeOK, NEW m \in RequestVoteResp, HandleRequestVoteResp(m)
    PROVE  TypeOK'
<1> DEFINE i == m.to
           r == IF m.isPreVote THEN raft[i] ELSE stepDown(raft[i], m.term, None)
           s == handleRequestVoteResp(i, r, m)
<1>1. i \in Node /\ m.term \in Nat
  BY DEF RequestVoteResp
<1>2. raft[i] \in RaftState
  BY <1>1 DEF TypeOK
<1>3. Keeps(raft[i], r)
  <2>1. Keeps(raft[i], raft[i])
    BY <1>2 DEF Keeps
  <2>2. Keeps(raft[i], stepDown(raft[i], m.term, None))
    BY <1>1, <1>2, StepDownType
  <2> QED BY <2>1, <2>2
<1>4. Finish(i, s) /\ Exchange(m, electionMessages(i, r, s))
  BY DEF HandleRequestVoteResp
<1> HIDE DEF i, r
<1>5. Keeps(raft[i], s)
  BY <1>1, <1>3, HandleRequestVoteRespType DEF Keeps
<1> HIDE DEF s
<1>6. StateTypeOK'
  BY <1>1, <1>4, <1>5, FinishType DEF Keeps
<1>7. MsgsTypeOK'
  BY <1>1, <1>4, <1>5, ElectionMessagesType, ExchangeType DEF Keeps
<1> QED
  BY <1>6, <1>7 DEF StateTypeOK, MsgsTypeOK, TypeOK

LEMMA HandleAppendEntriesActionType ==
    ASSUME TypeOK, NEW m \in AppendEntries, HandleAppendEntries(m)
    PROVE  TypeOK'
<1> DEFINE i == m.to
           r == stepDown(raft[i], m.term, m.from)
           s == handleAppendEntries(r, m)
           reply == [type |-> "AppendEntriesResp", from |-> i, to |-> m.from, epoch |-> m.epoch,
                     term |-> r.currentTerm,
                     reject |-> m.term < r.currentTerm \/ rejectsEntries(r, m),
                     index |-> answerIndex(r, m)]
<1>1. i \in Node /\ m.from \in Node /\ m.epoch \in Nat /\ m.term \in Nat
  BY DEF AppendEntries
<1>2. raft[i] \in RaftState
  BY <1>1 DEF TypeOK
<1>3. Keeps(raft[i], r)
  BY <1>1, <1>2, StepDownType
<1>4. Finish(i, applyCommitted(s)) /\ Exchange(m, {reply})
  BY DEF HandleAppendEntries
<1> HIDE DEF i, r
<1>5. Keeps(raft[i], s)
  BY <1>3, HandleAppendEntriesType DEF Keeps
<1> HIDE DEF s
<1>6. StateTypeOK'
  BY <1>1, <1>4, <1>5, ApplyCommittedType, FinishType DEF Keeps
<1>7. reply \in Message
  <2>1. r.currentTerm \in Nat
    BY <1>3 DEF Keeps, RaftState
  <2>2. (m.term < r.currentTerm \/ rejectsEntries(r, m)) \in BOOLEAN
    OBVIOUS
  <2>3. answerIndex(r, m) \in Nat
    BY <1>3, AnswerIndexType DEF Keeps
  <2> QED BY <1>1, <2>1, <2>2, <2>3 DEF AppendEntriesResp, Message
<1>8. MsgsTypeOK'
  BY <1>4, <1>7, ExchangeType
<1> QED
  BY <1>6, <1>8 DEF StateTypeOK, MsgsTypeOK, TypeOK

LEMMA HandleAppendEntriesRespActionType ==
    ASSUME TypeOK, NEW m \in AppendEntriesResp, HandleAppendEntriesResp(m)
    PROVE  TypeOK'
<1> DEFINE i == m.to
           r == stepDown(raft[i], m.term, None)
           s == handleAppendEntriesResp(r, m)
<1>1. i \in Node /\ m.term \in Nat
  BY DEF AppendEntriesResp
<1>2. raft[i] \in RaftState
  BY <1>1 DEF TypeOK
<1>3. Keeps(raft[i], r)
  BY <1>1, <1>2, StepDownType
<1>4. Finish(i, applyCommitted(s)) /\ Exchange(m, {})
  BY DEF HandleAppendEntriesResp
<1> HIDE DEF i, r
<1>5. Keeps(raft[i], s)
  BY <1>3, HandleAppendEntriesRespType DEF Keeps
<1> HIDE DEF s
<1>6. StateTypeOK'
  BY <1>1, <1>4, <1>5, ApplyCommittedType, FinishType DEF Keeps
<1>7. MsgsTypeOK'
  BY <1>4, ExchangeType
<1> QED
  BY <1>6, <1>7 DEF StateTypeOK, MsgsTypeOK, TypeOK

LEMMA SendFailsType ==
    ASSUME TypeOK, NEW m, SendFails(m)
    PROVE  TypeOK'
<1>1. MsgsTypeOK'
  BY ExchangeType DEF SendFails
<1> QED
  BY <1>1 DEF SendFails, history, MsgsTypeOK, TypeOK

LEMMA RestartType ==
    ASSUME TypeOK, NEW i \in Node, Restart(i)
    PROVE  TypeOK'
<1>1. disk[i] \in DiskState
  BY DEF TypeOK
<1>2. NewRaft(disk[i].term, disk[i].vote, disk[i].log, InitialPeers[i]) \in RaftState
  BY <1>1, PeersAssumption DEF NewRaft, RaftState, DiskState
<1>3. raft' \in [Node -> RaftState]
  BY <1>2 DEF Restart, TypeOK
<1>4. epoch' \in [Node -> Nat]
  BY DEF Restart, TypeOK
<1> QED
  BY <1>3, <1>4 DEF Restart, history, TypeOK

\* A message in flight is of the kind its type field says.
LEMMA MessageKinds ==
    ASSUME TypeOK, NEW m \in BagToSet(msgs)
    PROVE  /\ m \in Message
           /\ m.type = "RequestVote" => m \in RequestVote
           /\ m.type = "RequestVoteResp" => m \in RequestVoteResp
           /\ m.type = "AppendEntries" => m \in AppendEntries
           /\ m.type = "AppendEntriesResp" => m \in AppendEntriesResp
<1>1. m \in Message
  BY DEF TypeOK
<1> QED
  BY <1>1 DEF Message, RequestVote, RequestVoteResp, AppendEntries, AppendEntriesResp

LEMMA NextType == TypeOK /\ [Next]_vars => TypeOK'
<1> SUFFICES ASSUME TypeOK, [Next]_vars PROVE TypeOK'
  OBVIOUS
<1>1. ASSUME NEW i \in Node, TickElection(i) PROVE TypeOK'
  BY <1>1, TickElectionType
<1>2. ASSUME NEW i \in Node, TickHeartbeat(i) PROVE TypeOK'
  BY <1>2, TickHeartbeatType
<1>3. ASSUME NEW i \in Node, NEW c \in Command, HandlePropose(i, c) PROVE TypeOK'
  BY <1>3, HandleProposeType
<1>4. ASSUME NEW i \in Node, Restart(i) PROVE TypeOK'
  BY <1>4, RestartType
<1>5. ASSUME NEW m \in BagToSet(msgs), HandleRequestVote(m) PROVE TypeOK'
  BY <1>5, MessageKinds, HandleRequestVoteActionType DEF HandleRequestVote
<1>6. ASSUME NEW m \in BagToSet(msgs), HandleRequestVoteResp(m) PROVE TypeOK'
  BY <1>6, MessageKinds, HandleRequestVoteRespActionType DEF HandleRequestVoteResp
<1>7. ASSUME NEW m \in BagToSet(msgs), HandleAppendEntries(m) PROVE TypeOK'
  BY <1>7, MessageKinds, HandleAppendEntriesActionType DEF HandleAppendEntries
<1>8. ASSUME NEW m \in BagToSet(msgs), HandleAppendEntriesResp(m) PROVE TypeOK'
  BY <1>8, MessageKinds, HandleAppendEntriesRespActionType DEF HandleAppendEntriesResp
<1>9. ASSUME NEW m \in BagToSet(msgs), SendFails(m) PROVE TypeOK'
  BY <1>9, SendFailsType
<1>10. CASE UNCHANGED vars
  BY <1>10 DEF vars, TypeOK
<1> QED
  BY <1>1, <1>2, <1>3, <1>4, <1>5, <1>6, <1>7, <1>8, <1>9, <1>10 DEF Next, NodeStep

\* Every field of every node's Raft struct, every message in flight and everything
\* stored keeps its type, for any number of nodes and any bounds.
THEOREM TypeCorrect == Spec => []TypeOK
BY InitType, NextType, PTL DEF Spec

=============================================================================
