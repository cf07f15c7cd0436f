---------------------------- MODULE RaftLogProofs ----------------------------
(***************************************************************************)
(* Log matching, for any finite set of nodes that know each other from the *)
(* start and whose stores do not fail, through any number of restarts.     *)
(* One lemma per action, each by one of the three ways of RaftLogSections. *)
(***************************************************************************)
EXTENDS RaftLogSections

LEMMA TickElectionLog ==
    ASSUME TypeOK, TypeOK', ElectionInv, ElectionInv', MaxDiskErrors = 0, LogInv,
           NEW i \in Node, TickElection(i)
    PROVE  LogInv'
<1> DEFINE r == raft[i]
           q == [r EXCEPT !.leaderActive = FALSE]
           c == [q EXCEPT !.state = "Candidate", !.currentTerm = @ + 1, !.votedFor = i,
                          !.leaderID = None, !.votes = {i}]
           s == becomeCandidate(i, q)
           f == applyCommitted(s)
           out == electionMessages(i, r, s)
<1>1. r \in RaftState /\ r.peers = Node \ {i} /\ r.currentTerm \in Nat
  BY DEF TypeOK, ElectionInv, PeersFixed, RaftState
<1>2. q \in RaftState /\ q.currentTerm = r.currentTerm /\ q.peers = r.peers /\ q.log = r.log
  BY <1>1 DEF RaftState
<1>3. Finish(i, f) /\ Dispatch(out)
  BY DEF TickElection
<1> HIDE DEF q
<1>4. /\ c \in RaftState /\ c.state = "Candidate" /\ c.currentTerm = r.currentTerm + 1
      /\ c.log = r.log /\ c.peers = r.peers
  <2>1. q.currentTerm + 1 \in Nat
    BY <1>1, <1>2
  <2> QED BY <1>2, <2>1 DEF RaftState
<1>5. s = becomeLeader(i, c) \/ s = c
  BY DEF becomeCandidate
<1> HIDE DEF c, s
<1>6. /\ s \in RaftState /\ s.currentTerm = r.currentTerm + 1 /\ s.peers = Node \ {i}
      /\ s.state = "Leader" => \A p \in Node \ {i} : s.nextIndex[p] >= 1
  <2>1. CASE s = c
    BY <1>1, <1>4, <2>1
  <2>2. CASE s = becomeLeader(i, c)
    <3>1. /\ s \in RaftState /\ s.currentTerm = c.currentTerm /\ s.peers = c.peers
          /\ \A p \in c.peers : s.nextIndex[p] >= 1
      BY <1>4, <2>2, BecomeLeaderLog
    <3> QED BY <1>1, <1>4, <3>1
  <2> QED BY <1>5, <2>1, <2>2
<1>7. f \in RaftState /\ SameLog(s, f)
  BY <1>6, ApplyCommittedLog
<1> HIDE DEF f
<1>8. SoundOut(s, out)
  BY <1>6, ElectionMessagesCut
<1>9. SoundOut(f, out)
  BY <1>7, <1>8 DEF SoundOut, SameLog
<1> HIDE DEF out
<1>10. BagToSet(msgs') \subseteq BagToSet(msgs) \cup out
  BY <1>3, DispatchSet DEF Dispatch
<1>11. CASE s = c
  <2>1. f.state = "Candidate" /\ f.log = r.log /\ f.currentTerm = r.currentTerm + 1
    BY <1>4, <1>7, <1>11 DEF SameLog
  <2>2. elected' = elected
    BY <1>3, <1>7, <2>1, FinishEffect
  <2>3. SoundLog(i, f)
    BY <1>7, <2>1, <2>2, LogKept
  <2>4. [leader |-> i, term |-> f.currentTerm] \notin elected
    BY <1>1, <2>1 DEF ElectionInv, WinnersHaveMajorities
  <2>5. SoundBooks(i, f)
    BY <2>1, <2>2, <2>4 DEF SoundBooks
  <2> QED BY <1>3, <1>7, <1>9, <1>10, <2>3, <2>5, FinishLog
<1>12. CASE s = becomeLeader(i, c)
  <2>1. PICK e \in Entry : e.term = r.currentTerm + 1 /\ s.log = Append(r.log, e)
    BY <1>4, <1>12, BecomeLeaderLog
  <2>2. s.state = "Leader"
    BY <1>4, <1>12, BecomeLeaderLog
  <2>3. /\ f.state = "Leader" /\ e.term = f.currentTerm /\ f.log = Append(raft[i].log, e)
        /\ f.currentTerm > raft[i].currentTerm /\ \A p \in Node \ {i} : f.nextIndex[p] >= 1
    BY <1>1, <1>6, <1>7, <2>1, <2>2 DEF SameLog
  <2> QED BY <1>3, <1>7, <1>9, <1>10, <2>3, WinKeeps
<1> QED
  BY <1>5, <1>11, <1>12

LEMMA TickHeartbeatLog ==
    ASSUME TypeOK, TypeOK', ElectionInv, MaxDiskErrors = 0, LogInv, NEW i \in Node, TickHeartbeat(i)
    PROVE  LogInv'
<1> DEFINE r == raft[i]
           s == [r EXCEPT !.heartbeatAcked = 1]
           f == applyCommitted(s)
           out == broadcastHeartbeat(i, s)
<1>1. r \in RaftState /\ r.state = "Leader" /\ r.peers = Node \ {i}
  BY DEF TypeOK, TickHeartbeat, ElectionInv, PeersFixed
<1>2. s \in RaftState /\ SameLog(r, s)
  BY <1>1 DEF RaftState, SameLog
<1>3. Finish(i, f) /\ Dispatch(out)
  BY DEF TickHeartbeat
<1> HIDE DEF s
<1>4. f \in RaftState /\ SameLog(s, f)
  BY <1>2, ApplyCommittedLog
<1> HIDE DEF f
<1>5. \A p \in Node \ {i} : s.nextIndex[p] >= 1
  BY <1>1, <1>2 DEF LogInv, NextIndexPositive, SameLog
<1>6. SoundOut(s, out)
  BY <1>1, <1>2, <1>5, HeartbeatsCut DEF SameLog
<1>7. SoundOut(f, out)
  BY <1>4, <1>6 DEF SoundOut, SameLog
<1> HIDE DEF out
<1>8. BagToSet(msgs') \subseteq BagToSet(msgs) \cup out
  BY <1>3, DispatchSet DEF Dispatch
<1>9. /\ f.log = raft[i].log /\ f.state = raft[i].state /\ f.currentTerm = raft[i].currentTerm
      /\ \A p \in Node \ {i} : f.nextIndex[p] >= 1
  BY <1>2, <1>4, <1>5 DEF SameLog
<1> QED
  BY <1>3, <1>4, <1>7, <1>8, <1>9, QuietSection
LEMMA HandleProposeLog ==
    ASSUME TypeOK, TypeOK', ElectionInv, ElectionInv', MaxDiskErrors = 0, LogInv,
           NEW i \in Node, NEW c \in Command, HandlePropose(i, c)
    PROVE  LogInv'
<1> DEFINE r == raft[i]
           e == [term |-> r.currentTerm, cmd |-> c]
           s == [r EXCEPT !.log = Append(@, e), !.matchIndex[i] = lastLogIndex(r.log) + 1]
           out == broadcastHeartbeat(i, s)
<1>1. /\ r \in RaftState /\ r.state = "Leader" /\ r.peers = Node \ {i}
      /\ r.currentTerm \in Nat /\ \A p \in Node \ {i} : r.nextIndex[p] >= 1
  BY DEF TypeOK, RaftState, HandlePropose, ElectionInv, PeersFixed, LogInv, NextIndexPositive
<1>2. e \in Entry /\ e.term = r.currentTerm
  BY <1>1 DEF Entry
<1>3. Finish(i, s) /\ Dispatch(out)
  BY DEF HandlePropose
<1>4. /\ s.log = Append(r.log, e) /\ s.state = r.state /\ s.currentTerm = r.currentTerm
      /\ s.nextIndex = r.nextIndex /\ s.peers = r.peers
  BY <1>1 DEF RaftState
<1> HIDE DEF e, s
<1>5. s \in RaftState
  BY <1>3 DEF Finish, TypeOK
<1>6. SoundOut(s, out)
  BY <1>1, <1>4, <1>5, HeartbeatsCut
<1> HIDE DEF out
<1>7. BagToSet(msgs') \subseteq BagToSet(msgs) \cup out
  BY <1>3, DispatchSet DEF Dispatch
<1>8. elected' = elected \cup {[leader |-> i, term |-> s.currentTerm]}
  BY <1>1, <1>3, <1>4, <1>5, FinishEffect
<1>9. SoundLog(i, s)
  BY <1>1, <1>2, <1>4, <1>5, <1>8, LogExtended
<1>10. SoundBooks(i, s)
  BY <1>1, <1>4 DEF SoundBooks
<1> QED
  BY <1>3, <1>5, <1>6, <1>7, <1>9, <1>10, FinishLog

LEMMA HandleRequestVoteLog ==
    ASSUME TypeOK, TypeOK', ElectionInv, MaxDiskErrors = 0, LogInv,
           NEW m \in BagToSet(msgs), m \in RequestVote, HandleRequestVote(m)
    PROVE  LogInv'
<1> DEFINE i == m.to
           r == IF m.isPreVote THEN raft[i] ELSE stepDown(raft[i], m.term, None)
           s == handleRequestVote(r, m)
           reply == [type |-> "RequestVoteResp", from |-> i, to |-> m.from, epoch |-> m.epoch,
                     term |-> r.currentTerm, reject |-> ~grantsVote(r, m),
                     isPreVote |-> m.isPreVote]
<1>1. i \in Node /\ m.from \in Node /\ m.term \in Nat
  BY DEF RequestVote
<1>2. raft[i] \in RaftState
  BY <1>1 DEF TypeOK
<1>3. Finish(i, s) /\ Exchange(m, {reply})
  BY DEF HandleRequestVote
<1>4. r \in RaftState /\ r.log = raft[i].log /\ (r = raft[i] \/ r.state = "Follower")
  BY <1>1, <1>2, StepDownLog
<1> HIDE DEF i, r
<1>5. s \in RaftState /\ SameLog(r, s)
  <2>1. s \in RaftState
    BY <1>4, HandleRequestVoteType DEF Keeps
  <2> QED BY <1>4, <2>1 DEF handleRequestVote, SameLog, RaftState
<1>6. SoundOut(s, {reply})
  BY DEF SoundOut
<1> HIDE DEF s, reply
<1>7. BagToSet(msgs') \subseteq BagToSet(msgs) \cup {reply}
  BY <1>3, ExchangeSet DEF Exchange
<1>8. /\ s.log = raft[i].log
      /\ s.state # "Follower" => s.state = raft[i].state /\ s.currentTerm = raft[i].currentTerm
      /\ s.state = "Leader" => \A p \in Node \ {i} : s.nextIndex[p] >= 1
  BY <1>1, <1>4, <1>5 DEF SameLog, LogInv, NextIndexPositive
<1> QED
  BY <1>1, <1>3, <1>5, <1>6, <1>7, <1>8, QuietSection

LEMMA HandleRequestVoteRespLog ==
    ASSUME TypeOK, TypeOK', ElectionInv, ElectionInv', MaxDiskErrors = 0, LogInv,
           NEW m \in BagToSet(msgs), m \in RequestVoteResp, HandleRequestVoteResp(m)
    PROVE  LogInv'
<1> DEFINE i == m.to
           r == IF m.isPreVote THEN raft[i] ELSE stepDown(raft[i], m.term, None)
           s == handleRequestVoteResp(i, r, m)
           out == electionMessages(i, r, s)
<1>1. i \in Node /\ m.from \in Node /\ m.term \in Nat /\ ~m.isPreVote
  BY DEF RequestVoteResp, ElectionInv, MessagesTrue, Truthful
<1>2. raft[i] \in RaftState /\ raft[i].peers = Node \ {i}
  BY <1>1 DEF TypeOK, ElectionInv, PeersFixed
<1>3. Finish(i, s) /\ Exchange(m, out)
  BY DEF HandleRequestVoteResp
<1>4. /\ r \in RaftState /\ r.log = raft[i].log /\ r.peers = raft[i].peers
      /\ r = raft[i] \/ r.state = "Follower"
  BY <1>1, <1>2, StepDownLog
<1> HIDE DEF i, r
<1>5. s \in RaftState
  BY <1>1, <1>4, HandleRequestVoteRespType DEF Keeps
<1>6. BagToSet(msgs') \subseteq BagToSet(msgs) \cup out
  BY <1>3, ExchangeSet DEF Exchange
<1>7. CASE s = r
  <2> HIDE DEF s
  <2>1. s.state = "Leader" => \A p \in Node \ {i} : s.nextIndex[p] >= 1
    BY <1>1, <1>4, <1>7 DEF LogInv, NextIndexPositive
  <2>2. SoundOut(s, out)
    BY <1>1, <1>2, <1>4, <1>5, <1>7, <2>1, ElectionMessagesCut
  <2> HIDE DEF out
  <2> QED BY <1>1, <1>3, <1>4, <1>5, <1>6, <1>7, <2>1, <2>2, QuietSection
<1>8. CASE s # r
  <2> DEFINE q == [r EXCEPT !.votes = IF m.reject THEN @ \ {m.from} ELSE @ \cup {m.from}]
  <2>1. r.state = "Candidate" /\ r = raft[i] /\ s = handleVoteResp(i, r, m)
    BY <1>1, <1>4, <1>8 DEF handleRequestVoteResp
  <2>2. s = becomeLeader(i, q) \/ s = q
    BY <2>1 DEF handleVoteResp
  <2>3. q \in RaftState /\ SameLog(r, q)
    BY <1>1, <1>4 DEF RaftState, SameLog
  <2> HIDE DEF q, s
  <2>4. CASE s = q
    <3>1. s.state = "Candidate"
      BY <2>1, <2>3, <2>4 DEF SameLog
    <3>2. SoundOut(s, out)
      BY <1>1, <1>2, <1>4, <1>5, <2>3, <2>4, <3>1, ElectionMessagesCut DEF SameLog
    <3> HIDE DEF out
    <3> QED BY <1>1, <1>3, <1>5, <1>6, <2>1, <2>3, <2>4, <3>1, <3>2, QuietSection DEF SameLog
  <2>5. CASE s = becomeLeader(i, q)
    <3>1. PICK e \in Entry : e.term = q.currentTerm /\ s.log = Append(q.log, e)
      BY <1>1, <2>3, <2>5, BecomeLeaderLog
    <3>2. /\ s.state = "Leader" /\ s.currentTerm = q.currentTerm /\ s.peers = q.peers
          /\ \A p \in q.peers : s.nextIndex[p] >= 1
      BY <1>1, <2>3, <2>5, BecomeLeaderLog
    <3>3. /\ e.term = s.currentTerm /\ s.log = Append(raft[i].log, e)
          /\ s.currentTerm = raft[i].currentTerm /\ raft[i].state = "Candidate"
          /\ s.peers = Node \ {i} /\ \A p \in Node \ {i} : s.nextIndex[p] >= 1
      BY <1>2, <2>1, <2>3, <3>1, <3>2 DEF SameLog
    <3>4. SoundOut(s, out)
      BY <1>1, <1>5, <3>3, ElectionMessagesCut
    <3> HIDE DEF out
    <3> QED BY <1>1, <1>3, <1>5, <1>6, <3>2, <3>3, <3>4, WinKeeps
  <2> QED BY <2>2, <2>4, <2>5
<1> QED
  BY <1>7, <1>8

LEMMA HandleAppendEntriesLog ==
    ASSUME TypeOK, TypeOK', MaxDiskErrors = 0, LogInv,
           NEW m \in BagToSet(msgs), m \in AppendEntries, HandleAppendEntries(m)
    PROVE  LogInv'
<1> DEFINE i == m.to
           r == stepDown(raft[i], m.term, m.from)
           s == handleAppendEntries(r, m)
           f == applyCommitted(s)
           reply == [type |-> "AppendEntriesResp", from |-> i, to |-> m.from, epoch |-> m.epoch,
                     term |-> r.currentTerm,
                     reject |-> m.term < r.currentTerm \/ rejectsEntries(r, m),
                     index |-> answerIndex(r, m)]
<1>1. i \in Node /\ m.from \in Node /\ m.from \in Node \cup {None} /\ m.term \in Nat /\ m \in Sent
  BY DEF AppendEntries, Sent
<1>2. raft[i] \in RaftState
  BY <1>1 DEF TypeOK
<1>3. Finish(i, f) /\ Exchange(m, {reply})
  BY DEF HandleAppendEntries
<1>4. r \in RaftState /\ r.log = raft[i].log /\ (r = raft[i] \/ r.state = "Follower")
  BY <1>1, <1>2, StepDownLog
<1>5. SoundOut(f, {reply})
  BY DEF SoundOut
<1> HIDE DEF reply, r
<1>6. BagToSet(msgs') \subseteq BagToSet(msgs) \cup {reply}
  BY <1>3, ExchangeSet DEF Exchange
<1>7. s \in RaftState
  BY <1>4, HandleAppendEntriesType DEF Keeps
<1>8. follow(r, m) \in RaftState /\ follow(r, m).state = "Follower" /\ follow(r, m).log = r.log
  <2>1. follow(r, m) \in RaftState
    BY <1>4, FollowType DEF Keeps
  <2> QED BY <1>4, <2>1 DEF follow, becomeFollower, RaftState
<1>9. \/ s = r
      \/ s.state = "Follower" /\ s.log = r.log
      \/ /\ s.state = "Follower" /\ ~rejectsEntries(r, m)
         /\ s.log = mergeEntries(r.log, m.prevLogIndex, m.entries)
  <2>1. CASE m.term < r.currentTerm
    BY <2>1 DEF handleAppendEntries
  <2>2. CASE ~(m.term < r.currentTerm) /\ rejectsEntries(r, m)
    BY <1>8, <2>2 DEF handleAppendEntries
  <2>3. CASE ~(m.term < r.currentTerm) /\ ~rejectsEntries(r, m)
    <3>1. s = acceptEntries(follow(r, m), m)
      BY <2>3 DEF handleAppendEntries
    <3> HIDE DEF s
    <3>2. s.state = "Follower" /\ s.log = mergeEntries(r.log, m.prevLogIndex, m.entries)
      BY <1>8, <3>1 DEF acceptEntries, RaftState
    <3> QED BY <2>3, <3>2
  <2> QED BY <2>1, <2>2, <2>3
<1> HIDE DEF s
<1>10. f \in RaftState /\ SameLog(s, f)
  BY <1>7, ApplyCommittedLog
<1> HIDE DEF i, f
<1>11. CASE s = r \/ (s.state = "Follower" /\ s.log = r.log)
  <2>1. /\ f.log = raft[i].log
        /\ f.state # "Follower" => f.state = raft[i].state /\ f.currentTerm = raft[i].currentTerm
        /\ f.state = "Leader" => \A p \in Node \ {i} : f.nextIndex[p] >= 1
    BY <1>1, <1>4, <1>10, <1>11 DEF SameLog, LogInv, NextIndexPositive
  <2> QED BY <1>1, <1>3, <1>5, <1>6, <1>10, <2>1, QuietSection
<1>12. CASE /\ s.state = "Follower" /\ ~rejectsEntries(r, m)
            /\ s.log = mergeEntries(r.log, m.prevLogIndex, m.entries)
  <2>1. /\ f.state = "Follower" /\ ~rejectsEntries(raft[i], m)
        /\ f.log = mergeEntries(raft[i].log, m.prevLogIndex, m.entries)
    BY <1>4, <1>10, <1>12 DEF SameLog, rejectsEntries
  <2>2. elected \subseteq elected'
    BY <1>1, <1>3, <1>10, FinishEffect
  <2>3. SoundLog(i, f)
    BY <1>1, <1>10, <2>1, <2>2, LogJoined
  <2>4. SoundBooks(i, f)
    BY <2>1 DEF SoundBooks
  <2> QED BY <1>1, <1>3, <1>5, <1>6, <1>10, <2>3, <2>4, FinishLog
<1> QED
  BY <1>9, <1>11, <1>12
LEMMA HandleAppendEntriesRespLog ==
    ASSUME TypeOK, TypeOK', MaxDiskErrors = 0, LogInv,
           NEW m \in BagToSet(msgs), m \in AppendEntriesResp, HandleAppendEntriesResp(m)
    PROVE  LogInv'
<1> DEFINE i == m.to
           r == stepDown(raft[i], m.term, None)
           s == handleAppendEntriesResp(r, m)
           f == applyCommitted(s)
<1>1. i \in Node /\ m.from \in Node /\ m.term \in Nat /\ m.index \in Nat /\ None \in Node \cup {None}
  BY DEF AppendEntriesResp
<1>2. raft[i] \in RaftState
  BY <1>1 DEF TypeOK
<1>3. Finish(i, f) /\ Exchange(m, {})
  BY DEF HandleAppendEntriesResp
<1>4. r \in RaftState /\ r.log = raft[i].log /\ (r = raft[i] \/ r.state = "Follower")
  BY <1>1, <1>2, StepDownLog
<1> HIDE DEF i, r
<1>5. s \in RaftState
  BY <1>4, HandleAppendEntriesRespType DEF Keeps
<1>6. /\ s.log = r.log /\ s.state = r.state /\ s.currentTerm = r.currentTerm
      /\ s.nextIndex = r.nextIndex \/ \E n \in Nat : /\ n >= 1 \/ n = r.nextIndex[m.from]
                                                     /\ s.nextIndex = [r.nextIndex EXCEPT ![m.from] = n]
  <2>1. r.nextIndex \in [Node -> Nat]
    BY <1>4 DEF RaftState
  <2>2. CASE s = r
    BY <2>2
  <2>3. CASE s = backOff(r, m)
    <3> DEFINE n == IF m.index > 0 THEN m.index + 1
                    ELSE IF r.nextIndex[m.from] > 1 THEN r.nextIndex[m.from] - 1
                    ELSE r.nextIndex[m.from]
    <3>1. n \in Nat /\ (n >= 1 \/ n = r.nextIndex[m.from])
      BY <1>1, <2>1
    <3>2. s = [r EXCEPT !.nextIndex[m.from] = n]
      BY <2>3 DEF backOff
    <3> HIDE DEF n, s
    <3>3. /\ s.log = r.log /\ s.state = r.state /\ s.currentTerm = r.currentTerm
          /\ s.nextIndex = [r.nextIndex EXCEPT ![m.from] = n]
      BY <1>4, <3>2 DEF RaftState
    <3> QED BY <3>1, <3>3
  <2>4. CASE s = acknowledge(r, m)
    <3> DEFINE n == m.index + 1
               t == IF m.index > 0
                    THEN [r EXCEPT !.matchIndex[m.from] = m.index, !.nextIndex[m.from] = n]
                    ELSE r
               a == [t EXCEPT !.heartbeatAcked = IF @ < quorumSize(r) THEN @ + 1 ELSE @]
    <3>1. s = maybeAdvanceCommit(a)
      BY <2>4 DEF acknowledge
    <3>2. n \in Nat /\ n >= 1
      BY <1>1
    <3> HIDE DEF n
    <3>3. /\ t.log = r.log /\ t.state = r.state /\ t.currentTerm = r.currentTerm
          /\ t.nextIndex = r.nextIndex \/ t.nextIndex = [r.nextIndex EXCEPT ![m.from] = n]
          /\ DOMAIN t = DOMAIN r
      BY <1>4 DEF RaftState
    <3>4. DOMAIN r = DOMAIN NewRaft(0, None, <<>>, {})
      BY <1>4 DEF RaftState, NewRaft
    <3> HIDE DEF t, s
    <3>5. /\ a.log = t.log /\ a.state = t.state /\ a.currentTerm = t.currentTerm
          /\ a.nextIndex = t.nextIndex /\ DOMAIN a = DOMAIN t
      BY <3>3, <3>4 DEF NewRaft
    <3> HIDE DEF a
    <3>6. /\ s.log = a.log /\ s.state = a.state /\ s.currentTerm = a.currentTerm
          /\ s.nextIndex = a.nextIndex
      BY <3>1, <3>3, <3>4, <3>5 DEF maybeAdvanceCommit, NewRaft
    <3> QED BY <3>2, <3>3, <3>5, <3>6
  <2> QED BY <2>2, <2>3, <2>4 DEF handleAppendEntriesResp
<1> HIDE DEF s
<1>7. f \in RaftState /\ SameLog(s, f)
  BY <1>5, ApplyCommittedLog
<1> HIDE DEF f
<1>8. BagToSet(msgs') \subseteq BagToSet(msgs) \cup {}
  BY <1>3, ExchangeSet DEF Exchange
<1>9. PICK out : out = {}
  OBVIOUS
<1>10. SoundOut(f, out)
  BY <1>9 DEF SoundOut
<1>11. f.state = "Leader" => \A p \in Node \ {i} : f.nextIndex[p] >= 1
  <2> SUFFICES ASSUME f.state = "Leader", NEW p \in Node \ {i} PROVE f.nextIndex[p] >= 1
    OBVIOUS
  <2>1. r = raft[i] /\ r.state = "Leader" /\ r.nextIndex \in [Node -> Nat]
    BY <1>4, <1>6, <1>7 DEF SameLog, RaftState
  <2>2. r.nextIndex[p] >= 1
    BY <1>1, <2>1 DEF LogInv, NextIndexPositive
  <2>3. s.nextIndex[p] >= 1
    BY <1>1, <1>6, <2>1, <2>2
  <2> QED BY <1>7, <2>3 DEF SameLog
<1>12. /\ f.log = raft[i].log
       /\ f.state # "Follower" => f.state = raft[i].state /\ f.currentTerm = raft[i].currentTerm
  BY <1>4, <1>6, <1>7 DEF SameLog
<1> QED
  BY <1>1, <1>3, <1>7, <1>8, <1>9, <1>10, <1>11, <1>12, QuietSection

\* A restart leaves a follower without a log, whose term and vote are the stored ones.
LEMMA RestartLog ==
    ASSUME StaticMesh, TypeOK, TypeOK', LogInv, NEW i \in Node, Restart(i)
    PROVE  LogInv'
<1> DEFINE s == NewRaft(disk[i].term, disk[i].vote, disk[i].log, InitialPeers[i])
<1>1. raft' = [raft EXCEPT ![i] = s] /\ UNCHANGED <<disk, msgs, elected>>
  BY DEF Restart, history
<1>2. s.state = "Follower" /\ s.log = <<>>
  BY DEF NewRaft, LogInv, LogNotStored
<1> HIDE DEF s
<1>3. raft'[i] = s /\ \A j \in Node \ {i} : raft'[j] = raft[j]
  BY <1>1 DEF TypeOK
<1>4. s \in RaftState
  BY <1>3 DEF TypeOK
<1>5. Indices(logFragment(s.log)) = {}
  BY <1>2, <1>4, LogFragment DEF RaftState
<1>6. SoundLog(i, s)
  BY <1>2, <1>5 DEF SoundLog, Agree
<1>7. SoundBooks(i, s)
  BY <1>2 DEF SoundBooks
<1>8. PICK out : out = {}
  OBVIOUS
<1>9. SoundOut(s, out)
  BY <1>8 DEF SoundOut
<1> QED
  BY <1>1, <1>3, <1>4, <1>6, <1>7, <1>8, <1>9, SectionKeeps

LEMMA NextLog ==
    ASSUME StaticMesh, MaxDiskErrors = 0, TypeOK, TypeOK', ElectionInv, ElectionInv',
           LogInv, [Next]_vars
    PROVE  LogInv'
<1>1. ASSUME NEW i \in Node, TickElection(i) PROVE LogInv'
  BY <1>1, TickElectionLog
<1>2. ASSUME NEW i \in Node, TickHeartbeat(i) PROVE LogInv'
  BY <1>2, TickHeartbeatLog
<1>3. ASSUME NEW i \in Node, NEW c \in Command, HandlePropose(i, c) PROVE LogInv'
  BY <1>3, HandleProposeLog
<1>4. ASSUME NEW i \in Node, Restart(i) PROVE LogInv'
  BY <1>4, RestartLog
<1>5. ASSUME NEW m \in BagToSet(msgs), HandleRequestVote(m) PROVE LogInv'
  BY <1>5, MessageKinds, HandleRequestVoteLog DEF HandleRequestVote
<1>6. ASSUME NEW m \in BagToSet(msgs), HandleRequestVoteResp(m) PROVE LogInv'
  BY <1>6, MessageKinds, HandleRequestVoteRespLog DEF HandleRequestVoteResp
<1>7. ASSUME NEW m \in BagToSet(msgs), HandleAppendEntries(m) PROVE LogInv'
  BY <1>7, MessageKinds, HandleAppendEntriesLog DEF HandleAppendEntries
<1>8. ASSUME NEW m \in BagToSet(msgs), HandleAppendEntriesResp(m) PROVE LogInv'
  BY <1>8, MessageKinds, HandleAppendEntriesRespLog DEF HandleAppendEntriesResp
<1>9. ASSUME NEW m \in BagToSet(msgs), SendFails(m) PROVE LogInv'
  <2>1. BagToSet(msgs') \subseteq BagToSet(msgs) \cup {}
    BY <1>9, ExchangeSet DEF SendFails, Exchange
  <2> QED BY <1>9, <2>1, FewerFragments DEF SendFails, history
<1>10. CASE UNCHANGED vars
  BY <1>10, FewerFragments DEF vars, history
<1> QED
  BY <1>1, <1>2, <1>3, <1>4, <1>5, <1>6, <1>7, <1>8, <1>9, <1>10 DEF Next, NodeStep

\* In a cluster of any size whose nodes all know each other, two logs with an entry of
\* the same index and term are the same up to it, however messages are lost, delayed
\* or reordered and however often nodes restart with an empty log, as long as
\* SaveState succeeds.
THEOREM LogsMatch ==
    ASSUME StaticMesh, MaxDiskErrors = 0
    PROVE  Spec => []LogMatching
<1>1. Init => ElectionInv /\ LogInv
  BY InitElection, InitLog
<1>2. TypeOK /\ TypeOK' /\ ElectionInv /\ LogInv /\ [Next]_vars => ElectionInv' /\ LogInv'
  BY NextElection, NextLog DEF SoundStep
<1>3. TypeOK /\ LogInv => LogMatching
  BY AgreementMatches
<1> QED
  BY <1>1, <1>2, <1>3, TypeCorrect, PTL DEF Spec
=============================================================================
