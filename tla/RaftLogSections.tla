--------------------------- MODULE RaftLogSections ---------------------------
(***************************************************************************)
(* What a critical section has to see to so that logs match: lemmas for    *)
(* RaftLogProofs.  SectionKeeps says when the step of one node keeps       *)
(* LogInv; the lemmas after it show that a log that is left alone, one     *)
(* with an entry of the leader's term appended, and one joined with the    *)
(* entries of a message meet that.                                         *)
(***************************************************************************)
EXTENDS RaftFragmentProofs, RaftElectionProofs

LEMMA FragmentsType ==
    ASSUME TypeOK
    PROVE  Fragments \subseteq Fragment
<1>1. ASSUME NEW i \in Node PROVE logFragment(raft[i].log) \in Fragment
  BY LogFragment DEF TypeOK, RaftState
<1>2. ASSUME NEW m \in Sent PROVE msgFragment(m) \in Fragment
  <2>1. m \in AppendEntries
    BY MessageKinds DEF Sent
  <2> QED BY <2>1 DEF AppendEntries, msgFragment, Fragment
<1> QED
  BY <1>1, <1>2 DEF Fragments

LEMMA FragmentsTypeNext ==
    ASSUME TypeOK'
    PROVE  Fragments' \subseteq Fragment
<1>1. ASSUME NEW i \in Node PROVE logFragment(raft'[i].log) \in Fragment
  BY LogFragment DEF TypeOK, RaftState
<1>2. ASSUME NEW m \in Sent' PROVE msgFragment(m) \in Fragment
  <2>1. m \in Message /\ m.type = "AppendEntries"
    BY DEF Sent, TypeOK
  <2>2. m \in AppendEntries
    BY <2>1 DEF Message, RequestVote, RequestVoteResp, AppendEntries, AppendEntriesResp
  <2> QED BY <2>2 DEF AppendEntries, msgFragment, Fragment
<1> QED
  BY <1>1, <1>2 DEF Fragments

\* What node i's new log must be like: it agrees with all there is, its entries are of
\* elected leaders, and none runs ahead of the leader of its term.
SoundLog(i, s) ==
    LET N == logFragment(s.log)
    IN  /\ \A G \in Fragments : Agree(N, G)
        /\ \A q \in Indices(N) : \E l \in Node : [leader |-> l, term |-> At(N, q).term] \in elected'
        /\ \A j \in Node \ {i} : raft[j].state = "Leader" =>
               \A q \in Indices(N) : At(N, q).term = raft[j].currentTerm => q <= Len(raft[j].log)
        /\ s.state = "Leader" =>
               \A G \in Fragments : \A q \in Indices(G) :
                   At(G, q).term = s.currentTerm => q <= Len(s.log)

SoundBooks(i, s) ==
    /\ s.state = "Leader" => \A p \in Node \ {i} : s.nextIndex[p] >= 1
    /\ s.state = "Candidate" => [leader |-> i, term |-> s.currentTerm] \notin elected'

\* The entries in the messages are cut from that log.
SoundOut(s, out) ==
    \A m \in out : m.type = "AppendEntries" =>
        /\ msgFragment(m) \in Fragment /\ PartOf(msgFragment(m), logFragment(s.log))
        /\ msgFragment(m).prev = 0 => msgFragment(m).prevTerm = 0

LEMMA SectionKeeps ==
    ASSUME TypeOK, TypeOK', LogInv, NEW i \in Node, NEW s \in RaftState,
           raft'[i] = s, \A j \in Node \ {i} : raft'[j] = raft[j],
           elected \subseteq elected',
           elected' \subseteq elected \cup {[leader |-> i, term |-> s.currentTerm]},
           \A j \in Node : disk'[j].log = disk[j].log,
           NEW out, BagToSet(msgs') \subseteq BagToSet(msgs) \cup out,
           SoundLog(i, s), SoundBooks(i, s), SoundOut(s, out)
    PROVE  LogInv'
<1> DEFINE N == logFragment(s.log)
           Old == Fragments
           New == Fragments'
<1>1. Old \subseteq Fragment /\ New \subseteq Fragment
  BY FragmentsType, FragmentsTypeNext
<1>2. /\ N \in Fragment /\ N.prev = 0 /\ N.prevTerm = 0 /\ Indices(N) = 1 .. Len(s.log)
      /\ Len(s.log) \in Nat
  BY LogFragment DEF RaftState
<1>3. \A F \in New : \/ F \in Old
                     \/ F = N
                     \/ PartOf(F, N) /\ (F.prev = 0 => F.prevTerm = 0)
  <2> SUFFICES ASSUME NEW F \in New
               PROVE  \/ F \in Old
                      \/ F = N
                      \/ PartOf(F, N) /\ (F.prev = 0 => F.prevTerm = 0)
    OBVIOUS
  <2>1. ASSUME NEW j \in Node, F = logFragment(raft'[j].log) PROVE F \in Old \/ F = N
    BY <2>1 DEF Fragments
  <2>2. ASSUME NEW m \in Sent', F = msgFragment(m)
        PROVE  \/ F \in Old
               \/ PartOf(F, N) /\ (F.prev = 0 => F.prevTerm = 0)
    <3>1. m.type = "AppendEntries" /\ (m \in BagToSet(msgs) \/ m \in out)
      BY DEF Sent
    <3> QED BY <2>2, <3>1 DEF Fragments, Sent, SoundOut
  <2> QED BY <2>1, <2>2 DEF Fragments
<1> HIDE DEF N, Old, New
<1>4. \A F, G \in Old : Agree(F, G)
  BY DEF LogInv, FragmentsAgree, Old
<1>5. \A G \in Old : Agree(N, G)
  BY DEF SoundLog, N, Old
<1>6. \A G \in New : Agree(N, G)
  BY <1>1, <1>2, <1>3, <1>5, AgreeSelf, AgreeSymmetric, PartAgrees
<1>7. \A F, G \in New : Agree(F, G)
  <2> SUFFICES ASSUME NEW F \in New, NEW G \in New PROVE Agree(F, G)
    OBVIOUS
  <2>1. F \in Fragment /\ G \in Fragment /\ Agree(N, F) /\ Agree(N, G)
    BY <1>1, <1>6
  <2>2. CASE F = N
    BY <2>1, <2>2
  <2>3. CASE PartOf(F, N)
    BY <1>2, <2>1, <2>3, PartAgrees
  <2>4. CASE G = N
    BY <2>1, <2>4, AgreeSymmetric
  <2>5. CASE PartOf(G, N)
    <3>1. Agree(G, F)
      BY <1>2, <2>1, <2>5, PartAgrees
    <3> QED BY <2>1, <3>1, AgreeSymmetric
  <2>6. CASE F \in Old /\ G \in Old
    BY <1>4, <2>6
  <2> QED BY <1>3, <2>2, <2>3, <2>4, <2>5, <2>6
<1>8. FragmentsAgree' /\ Rooted'
  <2>1. \A F \in New : F.prev = 0 => F.prevTerm = 0
    BY <1>2, <1>3 DEF LogInv, Rooted, Old
  <2> QED BY <1>7, <2>1 DEF FragmentsAgree, Rooted, New
\* Every entry of a new fragment is an entry of an old one or of the new log.
<1>9. \A F \in New : \A q \in Indices(F) :
          \/ F \in Old
          \/ q \in Indices(N) /\ At(F, q) = At(N, q)
  BY <1>3 DEF PartOf
<1>10. TermsElected'
  <2>1. \A F \in New : \A q \in Indices(F) :
            \E l \in Node : [leader |-> l, term |-> At(F, q).term] \in elected'
    BY <1>9 DEF SoundLog, LogInv, TermsElected, N, Old
  <2> QED BY <2>1 DEF TermsElected, New
<1>11. LeadersHaveAll'
  <2> SUFFICES ASSUME NEW j \in Node, raft'[j].state = "Leader", NEW F \in New,
                      NEW q \in Indices(F), At(F, q).term = raft'[j].currentTerm
               PROVE  q <= Len(raft'[j].log)
    BY DEF LeadersHaveAll, New
  <2>1. CASE j = i
    BY <1>2, <1>9, <2>1 DEF SoundLog, Old
  <2>2. CASE j # i
    BY <1>9, <2>2 DEF SoundLog, LogInv, LeadersHaveAll, N, Old
  <2> QED BY <2>1, <2>2
<1>12. WonOnce'
  BY DEF SoundBooks, LogInv, WonOnce
<1>13. NextIndexPositive'
  BY DEF SoundBooks, LogInv, NextIndexPositive
<1>14. LogNotStored'
  BY DEF LogInv, LogNotStored
<1> QED
  BY <1>8, <1>10, <1>11, <1>12, <1>13, <1>14 DEF LogInv
LEMMA FinishLog ==
    ASSUME TypeOK, TypeOK', MaxDiskErrors = 0, LogInv, NEW i \in Node, NEW s \in RaftState,
           Finish(i, s), NEW out, BagToSet(msgs') \subseteq BagToSet(msgs) \cup out,
           SoundLog(i, s), SoundBooks(i, s), SoundOut(s, out)
    PROVE  LogInv'
<1>1. /\ raft'[i] = s /\ \A j \in Node \ {i} : raft'[j] = raft[j]
      /\ elected \subseteq elected'
      /\ elected' \subseteq elected \cup {[leader |-> i, term |-> s.currentTerm]}
  BY FinishEffect
<1>2. \A j \in Node : disk'[j].log = disk[j].log
  <2>1. disk' = [disk EXCEPT ![i].term = s.currentTerm, ![i].vote = s.votedFor]
    BY <1>1, BoundsAssumption DEF Finish, persistState, TypeOK
  <2> QED BY <2>1 DEF TypeOK, DiskState
<1> QED
  BY <1>1, <1>2, SectionKeeps

\* A log that is left alone stays sound, except on a new leader.
LEMMA LogKept ==
    ASSUME TypeOK, LogInv, NEW i \in Node, NEW s \in RaftState, elected \subseteq elected',
           s.log = raft[i].log,
           s.state = "Leader" => raft[i].state = "Leader" /\ s.currentTerm = raft[i].currentTerm
    PROVE  SoundLog(i, s)
<1>1. logFragment(s.log) \in Fragments
  BY DEF Fragments
<1> QED
  BY <1>1 DEF SoundLog, LogInv, FragmentsAgree, TermsElected, LeadersHaveAll

\* The first win of a term has no other.
LEMMA FirstWin ==
    ASSUME TypeOK, ElectionInv, ElectionInv', LogInv, NEW i \in Node, NEW t \in Nat,
           elected \subseteq elected', [leader |-> i, term |-> t] \in elected',
           \/ t > raft[i].currentTerm
           \/ t = raft[i].currentTerm /\ raft[i].state = "Candidate"
    PROVE  \A x \in elected : x.term # t
<1> SUFFICES ASSUME NEW x \in elected, x.term = t PROVE FALSE
  OBVIOUS
<1>1. x \in [leader : Node, term : Nat] /\ raft[i].currentTerm \in Nat
  BY DEF TypeOK, Leadership, RaftState
<1>2. x.leader = i
  BY DEF ElectionInv, ElectionSafety
<1>3. raft[i].currentTerm >= t
  BY <1>2 DEF ElectionInv, WinnersHaveMajorities
<1>4. x = [leader |-> i, term |-> t]
  BY <1>1, <1>2
<1> QED
  BY <1>1, <1>3, <1>4 DEF LogInv, WonOnce

\* A leader may append an entry of its term, and so may the winner of a new term.
LEMMA LogExtended ==
    ASSUME TypeOK, ElectionInv, ElectionInv', LogInv, NEW i \in Node, NEW s \in RaftState,
           NEW e \in Entry, s.log = Append(raft[i].log, e), e.term = s.currentTerm,
           elected \subseteq elected', [leader |-> i, term |-> s.currentTerm] \in elected',
           \/ raft[i].state = "Leader" /\ s.currentTerm = raft[i].currentTerm
           \/ \A x \in elected : x.term # s.currentTerm
    PROVE  SoundLog(i, s)
<1> DEFINE log == raft[i].log
           F == logFragment(log)
           N == logFragment(s.log)
<1>1. log \in Log /\ F \in Fragments /\ Fragments \subseteq Fragment /\ s.log \in Log
  BY FragmentsType DEF TypeOK, RaftState, Fragments
<1>2. \A G \in Fragments : \A q \in Indices(G) : At(G, q).term = e.term => q <= Len(log)
  BY DEF LogInv, LeadersHaveAll, TermsElected
<1>3. \A G \in Fragments : Agree(N, G)
  BY <1>1, <1>2, AppendAgrees DEF LogInv, FragmentsAgree
<1>4. /\ Len(s.log) = Len(log) + 1 /\ Len(log) \in Nat
      /\ s.log[Len(log) + 1] = e /\ \A q \in 1 .. Len(log) : s.log[q] = log[q]
  BY <1>1, AppendProperties, LenProperties DEF Log
<1>5. Indices(N) = 1 .. Len(s.log) /\ \A q \in 1 .. Len(s.log) : At(N, q) = s.log[q]
  BY <1>1, LogFragment
<1>6. Indices(F) = 1 .. Len(log) /\ \A q \in 1 .. Len(log) : At(F, q) = log[q]
  BY <1>1, LogFragment
<1>7. \A q \in Indices(N) : \/ q \in Indices(F) /\ At(N, q) = At(F, q)
                            \/ At(N, q) = e
  BY <1>4, <1>5, <1>6
<1> HIDE DEF F, N
<1>8. \A q \in Indices(N) : \E l \in Node : [leader |-> l, term |-> At(N, q).term] \in elected'
  BY <1>1, <1>7 DEF LogInv, TermsElected
<1>9. ASSUME NEW j \in Node \ {i}, raft[j].state = "Leader",
             NEW q \in Indices(N), At(N, q).term = raft[j].currentTerm
      PROVE  q <= Len(raft[j].log)
  <2>1. CASE At(N, q) = e
    <3>1. [leader |-> j, term |-> s.currentTerm] \in elected'
      BY <1>9, <2>1 DEF ElectionInv, LeadersRecorded
    <3> QED BY <3>1 DEF ElectionInv, ElectionSafety
  <2>2. CASE q \in Indices(F) /\ At(N, q) = At(F, q)
    BY <1>1, <1>9, <2>2 DEF LogInv, LeadersHaveAll
  <2> QED BY <1>7, <2>1, <2>2
<1>10. \A G \in Fragments : \A q \in Indices(G) : At(G, q).term = s.currentTerm => q <= Len(s.log)
  <2> SUFFICES ASSUME NEW G \in Fragments, NEW q \in Indices(G), At(G, q).term = s.currentTerm
               PROVE  q <= Len(s.log)
    OBVIOUS
  <2>1. G.prev \in Nat /\ Len(G.entries) \in Nat
    BY <1>1, LenProperties DEF Fragment, Log
  <2> QED BY <1>2, <1>4, <2>1 DEF Indices
<1> QED
  BY <1>3, <1>8, <1>9, <1>10 DEF SoundLog, N

\* A follower may join the entries of a message it does not reject.
LEMMA LogJoined ==
    ASSUME TypeOK, LogInv, NEW i \in Node, NEW s \in RaftState, elected \subseteq elected',
           NEW m \in Sent, ~rejectsEntries(raft[i], m), s.state # "Leader",
           s.log = mergeEntries(raft[i].log, m.prevLogIndex, m.entries)
    PROVE  SoundLog(i, s)
<1> DEFINE log == raft[i].log
           F == logFragment(log)
           M == msgFragment(m)
           N == logFragment(s.log)
<1>1. /\ log \in Log /\ F \in Fragments /\ M \in Fragments /\ Fragments \subseteq Fragment
      /\ M.prev = m.prevLogIndex /\ M.prevTerm = m.prevLogTerm /\ M.entries = m.entries
  BY FragmentsType DEF TypeOK, RaftState, Fragments, msgFragment
<1>2. M \in Fragment /\ M.prev \in Nat /\ Len(log) \in Nat
  BY <1>1, LenProperties DEF Fragment, Log
<1>3. M.prev <= Len(log) /\ (M.prev > 0 => log[M.prev].term = M.prevTerm)
  BY <1>1, <1>2 DEF rejectsEntries, hasGap, hasConflict, logTerm, lastLogIndex
<1>4. M.prev = 0 => M.prevTerm = 0
  BY <1>1 DEF LogInv, Rooted
<1>5. Agree(F, M)
  BY <1>1 DEF LogInv, FragmentsAgree
<1>6. s.log = mergeEntries(log, M.prev, M.entries)
  BY <1>1
<1> HIDE DEF M, log
<1>7. /\ \A G \in Fragment : Agree(F, G) /\ Agree(M, G) => Agree(N, G)
      /\ \A q \in Indices(N) : \/ q \in Indices(F) /\ At(N, q) = At(F, q)
                               \/ q \in Indices(M) /\ At(N, q) = At(M, q)
  BY <1>1, <1>2, <1>3, <1>4, <1>5, <1>6, MergeAgrees
<1> HIDE DEF F, N
<1>8. \A G \in Fragments : Agree(N, G)
  BY <1>1, <1>7 DEF LogInv, FragmentsAgree
<1>9. \A q \in Indices(N) : \E G \in Fragments : q \in Indices(G) /\ At(N, q) = At(G, q)
  BY <1>1, <1>7
<1> QED
  BY <1>8, <1>9 DEF SoundLog, LogInv, TermsElected, LeadersHaveAll, N

\* Messages other than AppendEntries tell nothing of logs; those of a leader are cut
\* from its log.
LEMMA HeartbeatsCut ==
    ASSUME NEW i \in Node, NEW s \in RaftState, s.peers = Node \ {i},
           \A p \in Node \ {i} : s.nextIndex[p] >= 1
    PROVE  SoundOut(s, broadcastHeartbeat(i, s))
<1> SUFFICES ASSUME NEW m \in broadcastHeartbeat(i, s)
             PROVE  /\ msgFragment(m) \in Fragment /\ PartOf(msgFragment(m), logFragment(s.log))
                    /\ msgFragment(m).prev = 0 => msgFragment(m).prevTerm = 0
  BY DEF SoundOut
<1>1. PICK p \in Node \ {i} : /\ m.prevLogIndex = pred(s.nextIndex[p])
                             /\ m.prevLogTerm = logTerm(s.log, pred(s.nextIndex[p]))
                             /\ m.entries = entriesFrom(s.log, s.nextIndex[p])
  BY DEF broadcastHeartbeat
<1>2. PICK n \in Nat : n = s.nextIndex[p] /\ n >= 1
  BY DEF RaftState
<1>3. msgFragment(m) = [prev |-> n - 1, prevTerm |-> logTerm(s.log, n - 1),
                        entries |-> SubSeq(s.log, n, Len(s.log))]
  <2>1. pred(n) = n - 1 /\ entriesFrom(s.log, n) = SubSeq(s.log, n, Len(s.log))
    <3>1. n # 0
      BY <1>2
    <3> QED BY <3>1 DEF pred, entriesFrom
  <2>2. /\ m.prevLogIndex = n - 1 /\ m.prevLogTerm = logTerm(s.log, n - 1)
        /\ m.entries = SubSeq(s.log, n, Len(s.log))
    BY <1>1, <1>2, <2>1
  <2> QED BY <2>2 DEF msgFragment
<1>4. s.log \in Log
  BY DEF RaftState
<1> QED
  BY <1>2, <1>3, <1>4, Cut

LEMMA ElectionMessagesCut ==
    ASSUME NEW i \in Node, NEW r, NEW s \in RaftState, s.peers = Node \ {i},
           s.state = "Leader" => \A p \in Node \ {i} : s.nextIndex[p] >= 1
    PROVE  SoundOut(s, electionMessages(i, r, s))
<1>1. SoundOut(s, broadcastRequestVote(i, s))
  BY DEF SoundOut, broadcastRequestVote
<1>2. s.state = "Leader" => SoundOut(s, broadcastHeartbeat(i, s))
  BY HeartbeatsCut
<1> QED
  BY <1>1, <1>2 DEF electionMessages, SoundOut

\* A critical section that touches no log and wins nothing.
LEMMA QuietSection ==
    ASSUME TypeOK, TypeOK', MaxDiskErrors = 0, LogInv, NEW i \in Node, NEW s \in RaftState,
           Finish(i, s), NEW out, BagToSet(msgs') \subseteq BagToSet(msgs) \cup out,
           SoundOut(s, out), s.log = raft[i].log,
           s.state # "Follower" => s.state = raft[i].state /\ s.currentTerm = raft[i].currentTerm,
           s.state = "Leader" => \A p \in Node \ {i} : s.nextIndex[p] >= 1
    PROVE  LogInv'
<1>1. elected' = IF s.state = "Leader"
                 THEN elected \cup {[leader |-> i, term |-> s.currentTerm]} ELSE elected
  BY FinishEffect
<1>2. SoundLog(i, s)
  BY <1>1, LogKept
<1>3. SoundBooks(i, s)
  BY <1>1 DEF SoundBooks, LogInv, WonOnce
<1> QED
  BY <1>2, <1>3, FinishLog

LEMMA InitLog ==
    ASSUME Init
    PROVE  LogInv
<1> USE DEF Init
<1>1. \A i \in Node : raft[i].log = <<>> /\ raft[i].state = "Follower" /\ disk[i].log = <<>>
  BY DEF NewRaft
<1>2. Sent = {}
  BY DEF Sent, EmptyBag, SetToBag, BagToSet
<1>3. \A F \in Fragments : F = logFragment(<<>>)
  BY <1>1, <1>2 DEF Fragments
<1>4. LET F == logFragment(<<>>) IN F.prev = 0 /\ F.prevTerm = 0 /\ Indices(F) = {}
  BY DEF logFragment, Indices
<1>5. FragmentsAgree /\ Rooted /\ TermsElected
  BY <1>3, <1>4 DEF FragmentsAgree, Rooted, TermsElected, Agree
<1>6. LeadersHaveAll /\ WonOnce /\ NextIndexPositive /\ LogNotStored
  BY <1>1 DEF LeadersHaveAll, WonOnce, NextIndexPositive, LogNotStored
<1> QED
  BY <1>5, <1>6 DEF LogInv

\* The fields this proof is about.
SameLog(r, s) ==
    /\ s.log = r.log /\ s.state = r.state /\ s.currentTerm = r.currentTerm
    /\ s.nextIndex = r.nextIndex /\ s.peers = r.peers

LEMMA ApplyCommittedLog ==
    ASSUME NEW r \in RaftState
    PROVE  applyCommitted(r) \in RaftState /\ SameLog(r, applyCommitted(r))
<1>1. applyCommitted(r) \in RaftState
      /\ applyCommitted(r) = [r EXCEPT !.lastApplied = applyCommitted(r).lastApplied]
  BY ApplyCommittedType
<1>2. \A x : SameLog(r, [r EXCEPT !.lastApplied = x])
  BY DEF SameLog, RaftState
<1> QED
  BY <1>1, <1>2

LEMMA StepDownLog ==
    ASSUME NEW r \in RaftState, NEW t \in Nat, NEW l \in Node \cup {None}
    PROVE  LET s == stepDown(r, t, l)
           IN  s \in RaftState /\ s.log = r.log /\ s.peers = r.peers /\ (s = r \/ s.state = "Follower")
<1>1. stepDown(r, t, l) \in RaftState
  BY StepDownType DEF Keeps
<1> QED
  BY <1>1 DEF stepDown, becomeFollower, RaftState

LEMMA BecomeLeaderLog ==
    ASSUME NEW r \in RaftState, NEW i \in Node
    PROVE  LET s == becomeLeader(i, r)
               e == [term |-> r.currentTerm, cmd |-> NoOp]
           IN  /\ s \in RaftState /\ s.state = "Leader" /\ s.currentTerm = r.currentTerm
               /\ s.peers = r.peers /\ e \in Entry /\ s.log = Append(r.log, e)
               /\ \A p \in r.peers : s.nextIndex[p] >= 1
<1>1. becomeLeader(i, r) \in RaftState
  BY BecomeLeaderType DEF Keeps
<1>2. r.log \in Log /\ r.peers \subseteq Node /\ r.currentTerm \in Nat
  BY DEF RaftState
<1>3. Len(r.log) \in Nat
  BY <1>2, LenProperties DEF Log
<1>4. [term |-> r.currentTerm, cmd |-> NoOp] \in Entry
  BY <1>2 DEF Entry
<1> DEFINE s == becomeLeader(i, r)
           next == [n \in Node |-> IF n \in r.peers THEN Len(r.log) + 1 ELSE 0]
<1>5. s.nextIndex = next
  BY DEF becomeLeader, RaftState, lastLogIndex
<1>6. \A p \in r.peers : next[p] >= 1
  BY <1>2, <1>3
<1>7. /\ s.state = "Leader" /\ s.currentTerm = r.currentTerm /\ s.peers = r.peers
      /\ s.log = Append(r.log, [term |-> r.currentTerm, cmd |-> NoOp])
  BY DEF becomeLeader, RaftState
<1> HIDE DEF s, next
<1>8. \A p \in r.peers : s.nextIndex[p] >= 1
  BY <1>5, <1>6
<1> QED
  BY <1>1, <1>4, <1>7, <1>8 DEF s

\* A node that has just won a term.
LEMMA WinKeeps ==
    ASSUME TypeOK, TypeOK', ElectionInv, ElectionInv', MaxDiskErrors = 0, LogInv,
           NEW i \in Node, NEW s \in RaftState, Finish(i, s), s.state = "Leader",
           NEW e \in Entry, e.term = s.currentTerm, s.log = Append(raft[i].log, e),
           \/ s.currentTerm > raft[i].currentTerm
           \/ s.currentTerm = raft[i].currentTerm /\ raft[i].state = "Candidate",
           \A p \in Node \ {i} : s.nextIndex[p] >= 1,
           NEW out, BagToSet(msgs') \subseteq BagToSet(msgs) \cup out, SoundOut(s, out)
    PROVE  LogInv'
<1>1. elected' = elected \cup {[leader |-> i, term |-> s.currentTerm]}
  BY FinishEffect
<1>2. s.currentTerm \in Nat
  BY DEF RaftState
<1>3. \A x \in elected : x.term # s.currentTerm
  BY <1>1, <1>2, FirstWin
<1>4. SoundLog(i, s)
  BY <1>1, <1>3, LogExtended
<1>5. SoundBooks(i, s)
  BY DEF SoundBooks
<1> QED
  BY <1>4, <1>5, FinishLog

\* Losing a message, or doing nothing, only leaves fewer fragments.
LEMMA FewerFragments ==
    ASSUME TypeOK, LogInv, UNCHANGED <<raft, disk, elected>>,
           BagToSet(msgs') \subseteq BagToSet(msgs)
    PROVE  LogInv'
<1>1. Fragments' \subseteq Fragments
  BY DEF Fragments, Sent
<1>2. FragmentsAgree' /\ Rooted'
  BY <1>1 DEF LogInv, FragmentsAgree, Rooted
<1>3. TermsElected' /\ LeadersHaveAll'
  BY <1>1 DEF LogInv, TermsElected, LeadersHaveAll
<1>4. WonOnce' /\ NextIndexPositive' /\ LogNotStored'
  BY DEF LogInv, WonOnce, NextIndexPositive, LogNotStored
<1> QED
  BY <1>2, <1>3, <1>4 DEF LogInv
=============================================================================
