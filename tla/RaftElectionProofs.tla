------------------------- MODULE RaftElectionProofs -------------------------
(***************************************************************************)
(* At most one leader per term, for any finite set of nodes that know each *)
(* other from the start and whose stores do not fail, through any number   *)
(* of restarts.                                                            *)
(*                                                                         *)
(* LegalStep says what a critical section may do to the fields of a node   *)
(* that elections depend on.  FinishKeeps shows once that a legal step     *)
(* keeps every conjunct of ElectionInv but MessagesTrue; what is left for  *)
(* each action is that its step is legal and the messages it sends true.   *)
(***************************************************************************)
EXTENDS RaftElection, RaftTypeProofs

(* Majorities *)

\* quorumSize, which a node computes from its peers, is a majority of all nodes.
LEMMA QuorumIsMajority ==
    ASSUME NEW i \in Node, NEW r, r.peers = Node \ {i},
           NEW V \in SUBSET Node, Cardinality(V) >= quorumSize(r)
    PROVE  IsMajority(V)
<1>1. IsFiniteSet(Node) /\ Cardinality(Node) \in Nat
  BY NodeAssumption, FS_CardinalityType
<1>2. Cardinality(Node \ {i}) = Cardinality(Node) - 1
  BY <1>1, FS_RemoveElement
<1>3. Cardinality(V) \in Nat
  BY <1>1, FS_Subset, FS_CardinalityType
<1> QED
  BY <1>1, <1>2, <1>3 DEF quorumSize, IsMajority

LEMMA LargerMajority ==
    ASSUME NEW V \in SUBSET Node, IsMajority(V), NEW W \in SUBSET Node, V \subseteq W
    PROVE  IsMajority(W)
<1>1. IsFiniteSet(Node) /\ Cardinality(Node) \in Nat
  BY NodeAssumption, FS_CardinalityType
<1>2. IsFiniteSet(W) /\ Cardinality(V) <= Cardinality(W) /\ Cardinality(V) \in Nat /\ Cardinality(W) \in Nat
  BY <1>1, FS_Subset, FS_CardinalityType
<1> QED
  BY <1>1, <1>2 DEF IsMajority

LEMMA MajoritiesMeet ==
    ASSUME NEW V \in SUBSET Node, IsMajority(V), NEW W \in SUBSET Node, IsMajority(W)
    PROVE  V \cap W # {}
<1>1. IsFiniteSet(Node) /\ Cardinality(Node) \in Nat
  BY NodeAssumption, FS_CardinalityType
<1>2. /\ IsFiniteSet(V) /\ Cardinality(V) \in Nat
      /\ IsFiniteSet(W) /\ Cardinality(W) \in Nat
  BY <1>1, FS_Subset, FS_CardinalityType
<1>3. Cardinality(V) + Cardinality(W) > Cardinality(Node)
  BY <1>1, <1>2 DEF IsMajority
<1> QED
  BY <1>1, <1>3, FS_MajoritiesIntersect

-----------------------------------------------------------------------------
(* Legal steps *)

\* What node i's record may become as far as elections are concerned.
LegalStep(i, s) ==
    LET r == raft[i]
    IN  /\ s \in RaftState
        /\ s.peers = r.peers
        /\ s.currentTerm >= r.currentTerm
        /\ s.currentTerm = r.currentTerm =>
               \/ s.votedFor = r.votedFor
               \/ r.votedFor = None
               \/ /\ r.votedFor = i /\ s.votedFor = None
                  /\ [leader |-> i, term |-> s.currentTerm] \notin elected
        /\ s.state # "Follower" => s.votedFor = i
        /\ s.state = "Candidate" => s.votes \subseteq {i} \cup Voters(i, s.currentTerm)
        /\ s.state = "Leader" =>
               \/ r.state = "Leader" /\ s.currentTerm = r.currentTerm
               \/ s.votes \subseteq {i} \cup Voters(i, s.currentTerm) /\ IsMajority(s.votes)

\* The fields that elections depend on are the same in both records.
SameBallot(r, s) ==
    /\ s.state = r.state /\ s.currentTerm = r.currentTerm /\ s.votedFor = r.votedFor
    /\ s.votes = r.votes /\ s.peers = r.peers

LEMMA LegalStutter ==
    ASSUME TypeOK, ElectionInv, NEW i \in Node, NEW s \in RaftState, SameBallot(raft[i], s)
    PROVE  LegalStep(i, s)
<1>1. raft[i].currentTerm \in Nat
  BY DEF TypeOK, RaftState
<1> QED
  BY <1>1 DEF LegalStep, SameBallot, ElectionInv, CandidatesVoteForThemselves

\* Entering a new term is legal for a follower and for a node with its own votes.
LEMMA LegalNewTerm ==
    ASSUME NEW i \in Node, NEW s \in RaftState, s.peers = raft[i].peers,
           NEW t \in Nat, raft[i].currentTerm = t, NEW u \in Nat, s.currentTerm = u, u > t,
           \/ s.state = "Follower"
           \/ /\ s.votedFor = i /\ s.votes = {i}
              /\ s.state = "Leader" => IsMajority(s.votes)
    PROVE  LegalStep(i, s)
BY DEF LegalStep

\* In its term a follower may vote if it has not, and give up its vote for itself
\* unless it has won.
LEMMA LegalFollower ==
    ASSUME NEW i \in Node, NEW s \in RaftState, s.peers = raft[i].peers,
           NEW t \in Nat, raft[i].currentTerm = t, s.currentTerm = t, s.state = "Follower",
           \/ s.votedFor = raft[i].votedFor
           \/ raft[i].votedFor = None
           \/ /\ raft[i].votedFor = i /\ s.votedFor = None
              /\ [leader |-> i, term |-> t] \notin elected
    PROVE  LegalStep(i, s)
BY DEF LegalStep

\* In its term a candidate may count votes that were cast for it.
LEMMA LegalCandidate ==
    ASSUME NEW i \in Node, NEW s \in RaftState, s.peers = raft[i].peers,
           NEW t \in Nat, raft[i].currentTerm = t, s.currentTerm = t,
           raft[i].votedFor = i, s.votedFor = i, s.votes \subseteq {i} \cup Voters(i, t),
           s.state = "Leader" => IsMajority(s.votes)
    PROVE  LegalStep(i, s)
BY DEF LegalStep

LEMMA LegalThenSame ==
    ASSUME NEW i \in Node, NEW s, LegalStep(i, s), NEW t \in RaftState, SameBallot(s, t)
    PROVE  LegalStep(i, t)
BY DEF LegalStep, SameBallot

LEMMA ApplyCommittedBallot ==
    ASSUME NEW r \in RaftState
    PROVE  applyCommitted(r) \in RaftState /\ SameBallot(r, applyCommitted(r))
<1>1. applyCommitted(r) \in RaftState
      /\ applyCommitted(r) = [r EXCEPT !.lastApplied = applyCommitted(r).lastApplied]
  BY ApplyCommittedType
<1>2. \A x : SameBallot(r, [r EXCEPT !.lastApplied = x])
  BY DEF SameBallot, RaftState
<1> QED
  BY <1>1, <1>2

-----------------------------------------------------------------------------
(* A legal step keeps the invariant *)

\* What Finish does to the histories and the store.
LEMMA FinishEffect ==
    ASSUME TypeOK, MaxDiskErrors = 0, NEW i \in Node, NEW s \in RaftState, Finish(i, s)
    PROVE  /\ raft' = [raft EXCEPT ![i] = s]
           /\ raft'[i] = s /\ \A j \in Node \ {i} : raft'[j] = raft[j]
           /\ disk'[i].term = s.currentTerm /\ disk'[i].vote = s.votedFor
           /\ \A j \in Node \ {i} : disk'[j] = disk[j]
           /\ cast' = IF s.votedFor = None THEN cast
                      ELSE cast \cup {[voter |-> i, candidate |-> s.votedFor, term |-> s.currentTerm]}
           /\ elected' = IF s.state = "Leader"
                         THEN elected \cup {[leader |-> i, term |-> s.currentTerm]} ELSE elected
<1> USE DEF Finish
<1>1. raft'[i] = s /\ \A j \in Node \ {i} : raft'[j] = raft[j]
  BY DEF TypeOK
<1>2. disk' = [disk EXCEPT ![i].term = s.currentTerm, ![i].vote = s.votedFor]
  BY <1>1 DEF persistState, TypeOK
<1>3. disk'[i].term = s.currentTerm /\ disk'[i].vote = s.votedFor
  BY <1>2 DEF TypeOK, DiskState
<1>4. \A j \in Node \ {i} : disk'[j] = disk[j]
  BY <1>2 DEF TypeOK, DiskState
<1> QED
  BY <1>1, <1>3, <1>4 DEF Observe

\* Everything the invariant says but MessagesTrue.
BallotInv ==
    /\ DiskMirrors /\ PeersFixed /\ VotesHeld /\ VotesRecorded /\ OthersOnce
    /\ CandidatesVoteForThemselves /\ WinnersHaveMajorities
    /\ LeadersRecorded /\ ElectionSafety

\* What every step does to the terms and the leaders, besides keeping the invariant.
SoundStep ==
    /\ ElectionInv'
    /\ \A j \in Node : raft'[j].currentTerm >= raft[j].currentTerm
    /\ \/ elected' = elected
       \/ \E l \in Leadership : elected' = elected \cup {l}

LEMMA FinishKeeps ==
    ASSUME TypeOK, ElectionInv, MaxDiskErrors = 0,
           NEW i \in Node, NEW s, LegalStep(i, s), Finish(i, s)
    PROVE  BallotInv' /\ cast \subseteq cast' /\ elected \subseteq elected'
<1> DEFINE r == raft[i]
           t == s.currentTerm
<1>1. r \in RaftState /\ s \in RaftState /\ r.currentTerm \in Nat /\ t \in Nat /\ t >= r.currentTerm
      /\ s.votedFor \in Node \cup {None}
  BY DEF TypeOK, RaftState, LegalStep
<1>2. /\ raft'[i] = s /\ \A j \in Node \ {i} : raft'[j] = raft[j]
      /\ disk'[i].term = t /\ disk'[i].vote = s.votedFor
      /\ \A j \in Node \ {i} : disk'[j] = disk[j]
      /\ cast' = IF s.votedFor = None THEN cast
                 ELSE cast \cup {[voter |-> i, candidate |-> s.votedFor, term |-> t]}
      /\ elected' = IF s.state = "Leader"
                    THEN elected \cup {[leader |-> i, term |-> t]} ELSE elected
  BY <1>1, FinishEffect
<1>3. cast \subseteq cast' /\ elected \subseteq elected'
  BY <1>2
<1>4. cast \subseteq Vote /\ elected \subseteq Leadership /\ None \notin Node
  BY NodeAssumption DEF TypeOK
<1>5. \A x \in cast : x.voter \in Node /\ x.candidate \in Node /\ x.term \in Nat
  BY <1>4 DEF Vote
<1>6. \A c \in Node, n \in Nat : Voters(c, n) \subseteq Voters(c, n)'
  BY <1>3 DEF Voters
<1> HIDE DEF r, t
<1>7. DiskMirrors' /\ PeersFixed'
  BY <1>2 DEF ElectionInv, DiskMirrors, PeersFixed, LegalStep, t
<1>8. VotesHeld'
  <2> SUFFICES ASSUME NEW x \in cast'
               PROVE  /\ raft'[x.voter].currentTerm >= x.term
                      /\ x.candidate # x.voter /\ raft'[x.voter].currentTerm = x.term
                             => raft'[x.voter].votedFor = x.candidate
    BY DEF VotesHeld
  <2>1. CASE x \notin cast
    <3>1. s.votedFor # None /\ x = [voter |-> i, candidate |-> s.votedFor, term |-> t]
      BY <2>1, <1>2
    <3>2. x.voter = i /\ x.candidate = s.votedFor /\ x.term = t
      BY <3>1
    <3> QED BY <3>2, <1>1, <1>2 DEF t
  <2>2. CASE x \in cast /\ x.voter # i
    BY <2>2, <1>2, <1>5 DEF ElectionInv, VotesHeld
  <2>3. CASE x \in cast /\ x.voter = i
    <3>1. /\ r.currentTerm >= x.term
          /\ x.candidate # i /\ r.currentTerm = x.term => r.votedFor = x.candidate
      BY <2>3 DEF ElectionInv, VotesHeld, r
    <3>2. t >= x.term
      BY <3>1, <1>1, <1>5, <2>3
    <3>3. ASSUME x.candidate # i, t = x.term PROVE s.votedFor = x.candidate
      <4>1. r.currentTerm = t
        BY <3>1, <3>3, <1>1, <1>5, <2>3
      <4>2. r.votedFor = x.candidate /\ x.candidate \in Node
        BY <3>1, <3>3, <4>1, <1>5, <2>3
      <4> QED BY <4>1, <4>2, <3>3, <1>4 DEF LegalStep, r, t
    <3> QED BY <3>2, <3>3, <2>3, <1>2 DEF t
  <2> QED BY <2>1, <2>2, <2>3
<1>9. VotesRecorded'
  <2> SUFFICES ASSUME NEW v \in Node, raft'[v].votedFor # None
               PROVE  [voter |-> v, candidate |-> raft'[v].votedFor,
                       term |-> raft'[v].currentTerm] \in cast'
    BY DEF VotesRecorded, Voters
  <2>1. CASE v = i
    BY <2>1, <1>2 DEF t
  <2>2. CASE v # i
    BY <2>2, <1>2, <1>3 DEF ElectionInv, VotesRecorded, Voters
  <2> QED BY <2>1, <2>2
<1>10. OthersOnce'
  <2>1. ASSUME NEW x \in cast', NEW y \in cast', x.voter = y.voter, x.term = y.term,
               x.candidate # x.voter, y.candidate # y.voter, x \notin cast, y \in cast
        PROVE  x.candidate = y.candidate
    <3>1. s.votedFor # None /\ x = [voter |-> i, candidate |-> s.votedFor, term |-> t]
      BY <2>1, <1>2
    <3>2. y.voter = i /\ y.term = t /\ y.candidate # i /\ x.candidate = s.votedFor
      BY <3>1, <2>1
    <3>3. raft'[i].votedFor = y.candidate
      BY <3>2, <2>1, <1>8, <1>2 DEF VotesHeld, t
    <3> QED BY <3>2, <3>3, <1>2
  <2>2. ASSUME NEW x \in cast', NEW y \in cast', x.voter = y.voter, x.term = y.term,
               x.candidate # x.voter, y.candidate # y.voter
        PROVE  x.candidate = y.candidate
    <3>1. CASE x \in cast /\ y \in cast
      BY <3>1, <2>2 DEF ElectionInv, OthersOnce
    <3>2. CASE x \notin cast /\ y \notin cast
      BY <3>2, <2>2, <1>2
    <3> QED BY <3>1, <3>2, <2>1, <2>2
  <2> QED BY <2>2 DEF OthersOnce
<1>11. CandidatesVoteForThemselves'
  <2>1. ASSUME NEW j \in Node
        PROVE  /\ raft'[j].state # "Follower" => raft'[j].votedFor = j
               /\ raft'[j].state = "Candidate" => \A v \in raft'[j].votes : v \in Node /\
                      [voter |-> v, candidate |-> j, term |-> raft'[j].currentTerm] \in cast'
    <3>1. CASE j # i
      BY <3>1, <1>2, <1>3 DEF ElectionInv, CandidatesVoteForThemselves, Voters
    <3>2. CASE j = i
      <4>1. s.state # "Follower" => s.votedFor = i
        BY DEF LegalStep
      <4>2. ASSUME s.state = "Candidate", NEW v \in s.votes
            PROVE  v \in Node /\ [voter |-> v, candidate |-> i, term |-> t] \in cast'
        <5>1. [voter |-> i, candidate |-> i, term |-> t] \in cast'
          BY <4>1, <4>2, <1>2, <1>4
        <5>2. v = i \/ v \in Voters(i, t)
          BY <4>2 DEF LegalStep, t
        <5> QED BY <5>1, <5>2, <1>3 DEF Voters
      <4> QED BY <3>2, <4>1, <4>2, <1>2 DEF t
    <3> QED BY <3>1, <3>2
  <2> QED BY <2>1 DEF CandidatesVoteForThemselves, Voters
<1>12. LeadersRecorded'
  BY <1>2, <1>3 DEF ElectionInv, LeadersRecorded, t
<1>13. WinnersHaveMajorities'
  <2> SUFFICES ASSUME NEW e \in elected'
               PROVE  /\ IsMajority(Voters(e.leader, e.term)')
                      /\ raft'[e.leader].currentTerm >= e.term
                      /\ raft'[e.leader].currentTerm = e.term => raft'[e.leader].votedFor = e.leader
                      /\ \A d \in Node : d # e.leader => e.leader \notin Voters(d, e.term)'
    BY DEF WinnersHaveMajorities, IsMajority
  <2>1. CASE e \in elected
    <3>1. /\ e.leader \in Node /\ e.term \in Nat
          /\ IsMajority(Voters(e.leader, e.term))
          /\ raft[e.leader].currentTerm >= e.term
          /\ raft[e.leader].currentTerm = e.term => raft[e.leader].votedFor = e.leader
          /\ \A d \in Node : d # e.leader => e.leader \notin Voters(d, e.term)
      BY <2>1, <1>4 DEF ElectionInv, WinnersHaveMajorities, Leadership
    <3>2. IsMajority(Voters(e.leader, e.term)')
      <4>1. Voters(e.leader, e.term) \subseteq Node /\ Voters(e.leader, e.term)' \subseteq Node
        BY DEF Voters
      <4> QED BY <4>1, <3>1, <1>6, LargerMajority
    <3>3. /\ raft'[e.leader].currentTerm >= e.term
          /\ raft'[e.leader].currentTerm = e.term => raft'[e.leader].votedFor = e.leader
      <4>1. CASE e.leader # i
        BY <4>1, <3>1, <1>2
      <4>2. CASE e.leader = i
        <5>1. t >= e.term
          BY <4>2, <3>1, <1>1 DEF r
        <5>2. ASSUME t = e.term PROVE s.votedFor = i
          <6>1. r.currentTerm = t /\ r.votedFor = i
            BY <5>2, <4>2, <3>1, <1>1 DEF r
          <6>2. e = [leader |-> i, term |-> t]
            BY <5>2, <4>2, <2>1, <1>4 DEF Leadership
          <6> QED BY <6>1, <6>2, <2>1, <1>4 DEF LegalStep, r, t
        <5> QED BY <5>1, <5>2, <4>2, <1>2 DEF t
      <4> QED BY <4>1, <4>2
    <3>4. ASSUME NEW d \in Node, d # e.leader, e.leader \in Voters(d, e.term)' PROVE FALSE
      <4>1. [voter |-> e.leader, candidate |-> d, term |-> e.term] \in cast' \ cast
        BY <3>1, <3>4 DEF Voters
      <4>2. e.leader = i /\ d = s.votedFor /\ e.term = t
        BY <4>1, <1>2
      <4> QED BY <4>2, <3>3, <3>4, <1>2 DEF t
    <3> QED BY <3>2, <3>3, <3>4
  <2>2. CASE e \notin elected
    <3>1. s.state = "Leader" /\ e = [leader |-> i, term |-> t]
      BY <2>2, <1>2
    <3>2. e.leader = i /\ e.term = t
      BY <3>1
    <3>3. s.votedFor = i
      BY <3>1 DEF LegalStep
    <3>4. s.votes \subseteq {i} \cup Voters(i, t) /\ IsMajority(s.votes)
      <4>1. ~(r.state = "Leader" /\ t = r.currentTerm)
        BY <2>2, <3>1 DEF ElectionInv, LeadersRecorded, r
      <4> QED BY <4>1, <3>1 DEF LegalStep, r, t
    <3>5. i \in Voters(i, t)'
      BY <3>3, <1>2, <1>4 DEF Voters
    <3>6. IsMajority(Voters(i, t)')
      <4>1. s.votes \subseteq Voters(i, t)'
        BY <3>4, <3>5, <1>1, <1>6
      <4>2. s.votes \subseteq Node /\ Voters(i, t)' \subseteq Node
        BY <1>1 DEF RaftState, Voters
      <4> QED BY <4>1, <4>2, <3>4, LargerMajority
    <3>7. ASSUME NEW d \in Node, d # i, i \in Voters(d, t)' PROVE FALSE
      <4> DEFINE x == [voter |-> i, candidate |-> d, term |-> t]
      <4>1. x \in cast' /\ x.voter = i /\ x.candidate = d /\ x.term = t
        BY <3>7 DEF Voters
      <4> HIDE DEF x
      <4>2. raft'[i].votedFor = d
        BY <4>1, <3>7, <1>8, <1>2 DEF VotesHeld, t
      <4> QED BY <4>2, <3>3, <3>7, <1>2
    <3> QED BY <3>2, <3>3, <3>6, <3>7, <1>1, <1>2 DEF t
  <2> QED BY <2>1, <2>2
<1>14. ElectionSafety'
  <2>1. ASSUME NEW e \in elected', NEW f \in elected', e.term = f.term, e.leader # f.leader
        PROVE  FALSE
    <3>1. e.leader \in Node /\ f.leader \in Node
      BY <1>1, <1>2, <1>4 DEF Leadership
    <3>2. /\ IsMajority(Voters(e.leader, e.term)')
          /\ IsMajority(Voters(f.leader, e.term)')
          /\ e.leader \notin Voters(f.leader, e.term)'
          /\ f.leader \notin Voters(e.leader, e.term)'
      BY <2>1, <3>1, <1>13 DEF WinnersHaveMajorities, IsMajority
    <3>3. PICK v \in Node : v \in Voters(e.leader, e.term)' /\ v \in Voters(f.leader, e.term)'
      <4>1. Voters(e.leader, e.term)' \subseteq Node /\ Voters(f.leader, e.term)' \subseteq Node
        BY DEF Voters
      <4> QED BY <4>1, <3>2, MajoritiesMeet
    <3> DEFINE x == [voter |-> v, candidate |-> e.leader, term |-> e.term]
               y == [voter |-> v, candidate |-> f.leader, term |-> e.term]
    <3>4. x \in cast' /\ y \in cast'
      BY <3>3 DEF Voters
    <3>5. v # e.leader /\ v # f.leader
      BY <3>2, <3>3
    <3> QED BY <3>4, <3>5, <2>1, <1>10 DEF OthersOnce
  <2> QED BY <2>1 DEF ElectionSafety
<1> QED
  BY <1>3, <1>7, <1>8, <1>9, <1>10, <1>11, <1>12, <1>13, <1>14 DEF BallotInv

-----------------------------------------------------------------------------
(* Messages stay true *)

LEMMA MessagesKeep ==
    ASSUME MessagesTrue, cast \subseteq cast', elected \subseteq elected',
           NEW out, BagToSet(msgs') \subseteq BagToSet(msgs) \cup out,
           \A m \in out : Truthful(m)'
    PROVE  MessagesTrue'
<1> SUFFICES ASSUME NEW m \in BagToSet(msgs') PROVE Truthful(m)'
  BY DEF MessagesTrue
<1>1. CASE m \in out
  BY <1>1
<1>2. CASE m \in BagToSet(msgs)
  BY <1>2 DEF MessagesTrue, Truthful, Voters
<1> QED BY <1>1, <1>2

\* A leader's heartbeats and a candidate's requests are true once the histories
\* know the sender.
LEMMA HeartbeatsTrue ==
    ASSUME NEW i \in Node, NEW s, s.peers = Node \ {i},
           [leader |-> i, term |-> s.currentTerm] \in elected',
           NEW m \in broadcastHeartbeat(i, s)
    PROVE  Truthful(m)'
<1>1. /\ m.type = "AppendEntries" /\ m.from = i /\ m.to \in s.peers
      /\ m.term = s.currentTerm
  BY DEF broadcastHeartbeat
<1> QED BY <1>1 DEF Truthful

LEMMA RequestsTrue ==
    ASSUME NEW i \in Node, NEW s, s.peers = Node \ {i}, NEW m \in broadcastRequestVote(i, s)
    PROVE  Truthful(m)'
<1>1. m.type = "RequestVote" /\ m.from = i /\ m.to \in s.peers /\ ~m.isPreVote
  BY DEF broadcastRequestVote
<1> QED BY <1>1 DEF Truthful

LEMMA ElectionMessagesTrue ==
    ASSUME NEW i \in Node, NEW r, NEW s, s.peers = Node \ {i},
           s.state = "Leader" => [leader |-> i, term |-> s.currentTerm] \in elected',
           NEW m \in electionMessages(i, r, s)
    PROVE  Truthful(m)'
BY HeartbeatsTrue, RequestsTrue DEF electionMessages

\* A critical section that is legal and sends true messages keeps the invariant.
LEMMA CriticalSection ==
    ASSUME TypeOK, ElectionInv, MaxDiskErrors = 0,
           NEW i \in Node, NEW s, LegalStep(i, s), Finish(i, s),
           NEW out, BagToSet(msgs') \subseteq BagToSet(msgs) \cup out,
           \A m \in out : Truthful(m)'
    PROVE  SoundStep
<1>1. BallotInv' /\ cast \subseteq cast' /\ elected \subseteq elected'
  BY FinishKeeps
<1>2. MessagesTrue'
  BY <1>1, MessagesKeep DEF ElectionInv
<1>3. ElectionInv'
  BY <1>1, <1>2 DEF BallotInv, ElectionInv
<1>4. s \in RaftState
  BY DEF LegalStep
<1>5. /\ raft'[i] = s /\ \A j \in Node \ {i} : raft'[j] = raft[j]
      /\ elected' = IF s.state = "Leader"
                    THEN elected \cup {[leader |-> i, term |-> s.currentTerm]} ELSE elected
  BY <1>4, FinishEffect
<1>6. s.currentTerm \in Nat /\ \A j \in Node : raft[j].currentTerm \in Nat
  BY <1>4 DEF TypeOK, RaftState
<1>7. \A j \in Node : raft'[j].currentTerm >= raft[j].currentTerm
  BY <1>5, <1>6 DEF LegalStep
<1>8. [leader |-> i, term |-> s.currentTerm] \in Leadership
  BY <1>6 DEF Leadership
<1> QED
  BY <1>3, <1>5, <1>7, <1>8 DEF SoundStep

\* The same for a handler, which sends one answer.
LEMMA CriticalReply ==
    ASSUME TypeOK, ElectionInv, MaxDiskErrors = 0,
           NEW i \in Node, NEW s, LegalStep(i, s), Finish(i, s),
           NEW answer, BagToSet(msgs') \subseteq BagToSet(msgs) \cup {answer},
           Truthful(answer)'
    PROVE  SoundStep
<1> DEFINE out == {answer}
<1>1. BagToSet(msgs') \subseteq BagToSet(msgs) \cup out
  OBVIOUS
<1>2. ASSUME NEW m \in out PROVE Truthful(m)'
  <2>1. m = answer
    OBVIOUS
  <2> QED BY <2>1, Zenon
<1> HIDE DEF out
<1> QED
  BY <1>1, <1>2, CriticalSection

-----------------------------------------------------------------------------
(* The actions *)

LEMMA InitElection ==
    ASSUME StaticMesh, Init
    PROVE  ElectionInv
<1> USE DEF Init
<1>1. \A i \in Node : /\ raft[i].state = "Follower" /\ raft[i].currentTerm = 0
                      /\ raft[i].votedFor = None /\ raft[i].peers = Node \ {i}
  BY DEF NewRaft, StaticMesh
<1>2. DiskMirrors /\ PeersFixed
  BY <1>1 DEF DiskMirrors, PeersFixed
<1>3. VotesHeld /\ OthersOnce /\ WinnersHaveMajorities /\ ElectionSafety
  BY DEF VotesHeld, OthersOnce, WinnersHaveMajorities, ElectionSafety
<1>4. VotesRecorded /\ CandidatesVoteForThemselves /\ LeadersRecorded
  BY <1>1 DEF VotesRecorded, CandidatesVoteForThemselves, LeadersRecorded
<1>5. MessagesTrue
  BY DEF MessagesTrue, EmptyBag, SetToBag, BagToSet
<1> QED
  BY <1>2, <1>3, <1>4, <1>5 DEF ElectionInv

LEMMA BecomeLeaderBallot ==
    ASSUME NEW r \in RaftState, NEW i \in Node
    PROVE  LET s == becomeLeader(i, r)
           IN  /\ s.state = "Leader" /\ s.currentTerm = r.currentTerm
               /\ s.votedFor = r.votedFor /\ s.votes = r.votes /\ s.peers = r.peers
BY DEF becomeLeader, RaftState

\* A new candidate has its own vote, and leads at once only if that is a majority.
LEMMA BecomeCandidateLegal ==
    ASSUME TypeOK, ElectionInv, NEW i \in Node, NEW r \in RaftState,
           r.currentTerm = raft[i].currentTerm, r.peers = raft[i].peers
    PROVE  LegalStep(i, becomeCandidate(i, r))
<1> DEFINE c == [r EXCEPT !.state = "Candidate", !.currentTerm = @ + 1, !.votedFor = i,
                          !.leaderID = None, !.votes = {i}]
           s == becomeCandidate(i, r)
<1>1. r.currentTerm \in Nat /\ raft[i].peers = Node \ {i}
  BY DEF RaftState, ElectionInv, PeersFixed
<1>2. /\ c.state = "Candidate" /\ c.currentTerm = r.currentTerm + 1 /\ c.votedFor = i
      /\ c.votes = {i} /\ c.peers = r.peers
  BY DEF RaftState
<1>3. c \in RaftState
  <2>1. r.currentTerm + 1 \in Nat
    BY <1>1
  <2> QED BY <2>1 DEF RaftState
<1>4. s = IF quorum(c) THEN becomeLeader(i, c) ELSE c
  BY DEF becomeCandidate
<1> HIDE DEF c
<1>5. s \in RaftState
  BY BecomeCandidateType DEF Keeps
<1> HIDE DEF s
<1>6. /\ s.currentTerm = r.currentTerm + 1 /\ s.votedFor = i /\ s.votes = {i}
      /\ s.peers = r.peers /\ s.state \in {"Candidate", "Leader"}
      /\ s.state = "Leader" => quorum(c)
  BY <1>2, <1>3, <1>4, BecomeLeaderBallot
<1>7. s.state = "Leader" => IsMajority(s.votes)
  BY <1>1, <1>2, <1>6, QuorumIsMajority DEF quorum
<1>8. raft[i].currentTerm \in Nat /\ s.currentTerm \in Nat /\ s.currentTerm > raft[i].currentTerm
  BY <1>1, <1>6
<1>9. LegalStep(i, s)
  BY <1>5, <1>6, <1>7, <1>8, LegalNewTerm
<1> QED
  BY <1>9 DEF s

\* A leader that Finish leaves behind is in the history.
LEMMA LeaderElected ==
    ASSUME TypeOK, NEW i \in Node, NEW s \in RaftState, Finish(i, s), s.state = "Leader"
    PROVE  [leader |-> i, term |-> s.currentTerm] \in elected'
<1>1. raft'[i] = s
  BY DEF Finish, TypeOK
<1> QED
  BY <1>1 DEF Finish, Observe

LEMMA TickElectionKeeps ==
    ASSUME TypeOK, ElectionInv, MaxDiskErrors = 0, NEW i \in Node, TickElection(i)
    PROVE  SoundStep
<1> DEFINE r == raft[i]
           q == [r EXCEPT !.leaderActive = FALSE]
           s == becomeCandidate(i, q)
           f == applyCommitted(s)
           out == electionMessages(i, r, s)
<1>1. r \in RaftState
  BY DEF TypeOK
<1>2. q \in RaftState /\ q.currentTerm = r.currentTerm /\ q.peers = r.peers
  BY <1>1 DEF RaftState
<1>3. Finish(i, f) /\ Dispatch(out)
  BY DEF TickElection
<1> HIDE DEF q
<1>4. LegalStep(i, s)
  BY <1>2, BecomeCandidateLegal
<1>5. s \in RaftState
  BY <1>4 DEF LegalStep
<1> HIDE DEF s
<1>6. f \in RaftState /\ SameBallot(s, f)
  BY <1>5, ApplyCommittedBallot
<1> HIDE DEF f
<1>7. LegalStep(i, f)
  BY <1>4, <1>6, LegalThenSame
<1>8. ASSUME NEW m \in out PROVE Truthful(m)'
  <2>1. s.peers = Node \ {i}
    BY <1>4 DEF LegalStep, ElectionInv, PeersFixed
  <2>2. s.state = "Leader" => [leader |-> i, term |-> s.currentTerm] \in elected'
    BY <1>3, <1>6, LeaderElected DEF SameBallot
  <2> QED BY <2>1, <2>2, ElectionMessagesTrue
<1> HIDE DEF out
<1>9. BagToSet(msgs') \subseteq BagToSet(msgs) \cup out
  BY <1>3, DispatchSet DEF Dispatch
<1> QED
  BY <1>3, <1>7, <1>8, <1>9, CriticalSection

LEMMA TickHeartbeatKeeps ==
    ASSUME TypeOK, ElectionInv, MaxDiskErrors = 0, NEW i \in Node, TickHeartbeat(i)
    PROVE  SoundStep
<1> DEFINE r == raft[i]
           s == [r EXCEPT !.heartbeatAcked = 1]
           f == applyCommitted(s)
           out == broadcastHeartbeat(i, s)
<1>1. r \in RaftState /\ r.state = "Leader"
  BY DEF TypeOK, TickHeartbeat
<1>2. s \in RaftState /\ SameBallot(r, s)
  BY <1>1 DEF RaftState, SameBallot
<1>3. Finish(i, f) /\ Dispatch(out)
  BY DEF TickHeartbeat
<1> HIDE DEF s
<1>4. f \in RaftState /\ SameBallot(s, f)
  BY <1>2, ApplyCommittedBallot
<1> HIDE DEF f
<1>5. LegalStep(i, f)
  BY <1>2, <1>4, LegalStutter, LegalThenSame
<1>6. ASSUME NEW m \in out PROVE Truthful(m)'
  <2>1. s.peers = Node \ {i}
    BY <1>2 DEF SameBallot, ElectionInv, PeersFixed
  <2>2. [leader |-> i, term |-> s.currentTerm] \in elected'
    BY <1>1, <1>2, <1>3, <1>4, LeaderElected DEF SameBallot
  <2> QED BY <2>1, <2>2, HeartbeatsTrue
<1> HIDE DEF out
<1>7. BagToSet(msgs') \subseteq BagToSet(msgs) \cup out
  BY <1>3, DispatchSet DEF Dispatch
<1> QED
  BY <1>3, <1>5, <1>6, <1>7, CriticalSection

LEMMA HandleProposeKeeps ==
    ASSUME TypeOK, TypeOK', ElectionInv, MaxDiskErrors = 0,
           NEW i \in Node, NEW c \in Command, HandlePropose(i, c)
    PROVE  SoundStep
<1> DEFINE r == raft[i]
           s == [r EXCEPT !.log = Append(@, [term |-> r.currentTerm, cmd |-> c]),
                          !.matchIndex[i] = lastLogIndex(r.log) + 1]
           out == broadcastHeartbeat(i, s)
<1>1. r \in RaftState /\ r.state = "Leader"
  BY DEF TypeOK, HandlePropose
<1>2. SameBallot(r, s)
  BY <1>1 DEF RaftState, SameBallot
<1>3. Finish(i, s) /\ Dispatch(out)
  BY DEF HandlePropose
<1> HIDE DEF s
<1>4. s \in RaftState
  BY <1>3 DEF Finish, TypeOK
<1>5. LegalStep(i, s)
  BY <1>2, <1>4, LegalStutter
<1>6. ASSUME NEW m \in out PROVE Truthful(m)'
  <2>1. s.peers = Node \ {i}
    BY <1>2 DEF SameBallot, ElectionInv, PeersFixed
  <2>2. [leader |-> i, term |-> s.currentTerm] \in elected'
    BY <1>1, <1>2, <1>3, <1>4, LeaderElected DEF SameBallot
  <2> QED BY <2>1, <2>2, HeartbeatsTrue
<1> HIDE DEF out
<1>7. BagToSet(msgs') \subseteq BagToSet(msgs) \cup out
  BY <1>3, DispatchSet DEF Dispatch
<1> QED
  BY <1>3, <1>5, <1>6, <1>7, CriticalSection

\* A node that steps down has left its term or done nothing.
LEMMA StepDownBallot ==
    ASSUME NEW r \in RaftState, NEW t \in Nat, NEW l \in Node \cup {None}
    PROVE  LET s == stepDown(r, t, l)
           IN  /\ s \in RaftState /\ s.peers = r.peers
               /\ \/ t > r.currentTerm /\ s.state = "Follower" /\ s.currentTerm = t /\ s.votedFor = None
                  \/ ~(t > r.currentTerm) /\ s = r
<1>1. stepDown(r, t, l) \in RaftState /\ stepDown(r, t, l).peers = r.peers
  BY StepDownType DEF Keeps
<1> QED
  BY <1>1 DEF stepDown, becomeFollower, RaftState

\* Stepping down is legal, and so is what does not touch the ballot after it.
LEMMA StepDownLegal ==
    ASSUME TypeOK, ElectionInv, NEW i \in Node, NEW t \in Nat, NEW l \in Node \cup {None}
    PROVE  LegalStep(i, stepDown(raft[i], t, l))
<1> DEFINE s == stepDown(raft[i], t, l)
<1>1. raft[i] \in RaftState /\ raft[i].currentTerm \in Nat
  BY DEF TypeOK, RaftState
<1>2. /\ s \in RaftState /\ s.peers = raft[i].peers
      /\ \/ t > raft[i].currentTerm /\ s.state = "Follower" /\ s.currentTerm = t /\ s.votedFor = None
         \/ ~(t > raft[i].currentTerm) /\ s = raft[i]
  BY <1>1, StepDownBallot
<1> HIDE DEF s
<1>3. CASE s = raft[i]
  BY <1>1, <1>3, LegalStutter DEF SameBallot, s
<1>4. CASE t > raft[i].currentTerm /\ s.state = "Follower" /\ s.currentTerm = t
  <2>1. LegalStep(i, s)
    BY <1>1, <1>2, <1>4, LegalNewTerm
  <2> QED BY <2>1 DEF s
<1> QED
  BY <1>2, <1>3, <1>4

LEMMA HandleRequestVoteKeeps ==
    ASSUME TypeOK, TypeOK', ElectionInv, MaxDiskErrors = 0,
           NEW m \in BagToSet(msgs), m \in RequestVote, HandleRequestVote(m)
    PROVE  SoundStep
<1> DEFINE i == m.to
           r == IF m.isPreVote THEN raft[i] ELSE stepDown(raft[i], m.term, None)
           s == handleRequestVote(r, m)
           reply == [type |-> "RequestVoteResp", from |-> i, to |-> m.from, epoch |-> m.epoch,
                     term |-> r.currentTerm, reject |-> ~grantsVote(r, m),
                     isPreVote |-> m.isPreVote]
<1>1. /\ i \in Node /\ m.from \in Node /\ m.term \in Nat /\ m.type = "RequestVote"
      /\ m.from # i /\ ~m.isPreVote
  BY DEF RequestVote, ElectionInv, MessagesTrue, Truthful
<1>2. raft[i] \in RaftState /\ raft[i].currentTerm \in Nat
  BY <1>1 DEF TypeOK, RaftState
<1>3. r = stepDown(raft[i], m.term, None)
  BY <1>1
<1>4. Finish(i, s) /\ Exchange(m, {reply})
  BY DEF HandleRequestVote
<1> HIDE DEF i, r
<1>5. r \in RaftState /\ LegalStep(i, r)
  BY <1>1, <1>2, <1>3, StepDownBallot, StepDownLegal
<1>6. s \in RaftState
  BY <1>5, HandleRequestVoteType DEF Keeps
<1>7. PICK answer : answer = reply
  OBVIOUS
<1>8. PICK t : t = r.currentTerm
  OBVIOUS
<1>9. /\ answer.from = i /\ answer.to = m.from /\ answer.term = t /\ ~answer.isPreVote
      /\ answer.type = "RequestVoteResp" /\ answer.reject = ~grantsVote(r, m)
  BY <1>1, <1>7, <1>8
<1>10. BagToSet(msgs') \subseteq BagToSet(msgs) \cup {answer}
  BY <1>4, <1>7, ExchangeSet DEF Exchange
<1> HIDE DEF reply
<1>11. CASE ~grantsVote(r, m)
  <2>1. s = r
    BY <1>11 DEF handleRequestVote
  <2>2. Truthful(answer)'
    BY <1>1, <1>9, <1>11 DEF Truthful, i
  <2> HIDE DEF s
  <2> QED BY <1>1, <1>4, <1>5, <1>10, <2>1, <2>2, CriticalReply
<1>12. CASE grantsVote(r, m)
  <2>1. s = [r EXCEPT !.votedFor = m.from]
    BY <1>1, <1>12 DEF handleRequestVote
  <2>2. /\ s.votedFor = m.from /\ s.state = r.state /\ s.currentTerm = r.currentTerm
        /\ s.votes = r.votes /\ s.peers = r.peers
    BY <2>1, <1>5 DEF RaftState
  <2>3. r.votedFor \in {None, m.from}
    BY <1>1, <1>12 DEF grantsVote
  <2> HIDE DEF s
  <2>4. r.state = "Follower"
    BY <1>1, <1>5, <2>3, NodeAssumption DEF LegalStep, RaftState
  <2>5. LegalStep(i, s)
    <3>1. CASE r = raft[i]
      BY <1>1, <1>2, <1>6, <2>2, <2>3, <2>4, <3>1, LegalFollower
    <3>2. CASE r.currentTerm > raft[i].currentTerm
      <4>1. r.currentTerm \in Nat /\ r.peers = raft[i].peers
        BY <1>5 DEF LegalStep, RaftState
      <4> QED BY <1>1, <1>2, <1>6, <2>2, <2>4, <3>2, <4>1, LegalNewTerm
    <3>3. r = raft[i] \/ r.currentTerm > raft[i].currentTerm
      <4>1. None \in Node \cup {None}
        OBVIOUS
      <4> QED BY <1>1, <1>2, <1>3, <4>1, StepDownBallot
    <3> QED BY <3>1, <3>2, <3>3
  <2>6. [voter |-> i, candidate |-> m.from, term |-> t] \in cast'
    <3>1. raft'[i] = s
      BY <1>1, <1>4 DEF Finish, TypeOK
    <3> QED BY <1>1, <1>4, <1>8, <2>2, <3>1, NodeAssumption DEF Finish, Observe
  <2>7. Truthful(answer)'
    BY <1>1, <1>9, <2>6 DEF Truthful, Voters, i
  <2> QED BY <1>1, <1>4, <1>10, <2>5, <2>7, CriticalReply
<1> QED
  BY <1>11, <1>12

LEMMA HandleRequestVoteRespKeeps ==
    ASSUME TypeOK, TypeOK', ElectionInv, MaxDiskErrors = 0,
           NEW m \in BagToSet(msgs), m \in RequestVoteResp, HandleRequestVoteResp(m)
    PROVE  SoundStep
<1> DEFINE i == m.to
           r == IF m.isPreVote THEN raft[i] ELSE stepDown(raft[i], m.term, None)
           s == handleRequestVoteResp(i, r, m)
           out == electionMessages(i, r, s)
<1>1. /\ i \in Node /\ m.from \in Node /\ m.term \in Nat /\ m.type = "RequestVoteResp"
      /\ ~m.isPreVote /\ (~m.reject => m.from \in Voters(i, m.term))
  BY DEF RequestVoteResp, ElectionInv, MessagesTrue, Truthful
<1>2. raft[i] \in RaftState /\ raft[i].currentTerm \in Nat /\ raft[i].peers = Node \ {i}
  BY <1>1 DEF TypeOK, RaftState, ElectionInv, PeersFixed
<1>3. r = stepDown(raft[i], m.term, None)
  BY <1>1
<1>4. Finish(i, s) /\ Exchange(m, out)
  BY DEF HandleRequestVoteResp
<1> HIDE DEF i, r
<1>5. r \in RaftState /\ LegalStep(i, r)
  BY <1>1, <1>2, <1>3, StepDownBallot, StepDownLegal
<1>6. s \in RaftState
  BY <1>1, <1>5, HandleRequestVoteRespType DEF Keeps
<1>7. LegalStep(i, s)
  <2>1. CASE r.state = "Candidate" /\ m.term = r.currentTerm
    <3> DEFINE count == IF m.reject THEN r.votes \ {m.from} ELSE r.votes \cup {m.from}
               q == [r EXCEPT !.votes = count]
    <3>1. r = raft[i]
      BY <1>1, <1>2, <1>3, <2>1, StepDownBallot
    <3>2. count \subseteq {i} \cup Voters(i, r.currentTerm) /\ count \subseteq Node
      BY <1>1, <1>5, <2>1 DEF LegalStep, RaftState
    <3> HIDE DEF count
    <3>3. /\ q \in RaftState /\ q.state = "Candidate" /\ q.currentTerm = r.currentTerm
          /\ q.votedFor = r.votedFor /\ q.votes = count /\ q.peers = r.peers
      BY <1>5, <2>1, <3>2 DEF RaftState
    <3>4. s = IF quorum(q) THEN becomeLeader(i, q) ELSE q
      BY <1>1, <2>1 DEF handleRequestVoteResp, handleVoteResp, count
    <3> HIDE DEF q, s
    <3>5. /\ s.state \in {"Candidate", "Leader"} /\ s.currentTerm = r.currentTerm
          /\ s.votedFor = r.votedFor /\ s.votes = count /\ s.peers = r.peers
          /\ s.state = "Leader" => quorum(q)
      BY <1>1, <3>3, <3>4, BecomeLeaderBallot
    <3>6. r.votedFor = i
      BY <1>5, <2>1 DEF LegalStep
    <3>7. s.state = "Leader" => IsMajority(s.votes)
      BY <1>1, <1>2, <3>1, <3>2, <3>3, <3>5, QuorumIsMajority DEF quorum
    <3> QED BY <1>1, <1>2, <1>6, <3>1, <3>2, <3>5, <3>6, <3>7, LegalCandidate
  <2>2. CASE ~(r.state = "Candidate" /\ m.term = r.currentTerm)
    <3>1. s = r
      BY <1>1, <2>2 DEF handleRequestVoteResp
    <3> QED BY <1>5, <3>1
  <2> QED BY <2>1, <2>2
<1> HIDE DEF s
<1>8. ASSUME NEW x \in out PROVE Truthful(x)'
  <2>1. s.peers = Node \ {i}
    BY <1>2, <1>7 DEF LegalStep
  <2>2. s.state = "Leader" => [leader |-> i, term |-> s.currentTerm] \in elected'
    BY <1>1, <1>4, <1>6, LeaderElected
  <2> QED BY <1>1, <2>1, <2>2, ElectionMessagesTrue
<1> HIDE DEF out
<1>9. BagToSet(msgs') \subseteq BagToSet(msgs) \cup out
  BY <1>4, ExchangeSet DEF Exchange
<1> QED
  BY <1>1, <1>4, <1>7, <1>8, <1>9, CriticalSection

\* acceptEntries leaves the ballot alone.
LEMMA AcceptEntriesBallot ==
    ASSUME NEW r \in RaftState, NEW m
    PROVE  SameBallot(r, acceptEntries(r, m))
BY DEF acceptEntries, SameBallot, RaftState

\* A candidate that follows the leader of its own term gives up its vote for
\* itself: legal, because that leader is not the candidate.
LEMMA FollowLegal ==
    ASSUME TypeOK, ElectionInv, NEW m \in BagToSet(msgs), m \in AppendEntries,
           NEW r \in RaftState, r = stepDown(raft[m.to], m.term, m.from),
           ~(m.term < r.currentTerm)
    PROVE  LegalStep(m.to, follow(r, m))
<1> DEFINE i == m.to
           s == follow(r, m)
<1>1. /\ i \in Node /\ m.from \in Node /\ m.term \in Nat /\ m.from # i
      /\ [leader |-> m.from, term |-> m.term] \in elected
  BY DEF AppendEntries, ElectionInv, MessagesTrue, Truthful
<1>2. raft[i] \in RaftState /\ raft[i].currentTerm \in Nat
  BY <1>1 DEF TypeOK, RaftState
<1>3. s \in RaftState /\ s.peers = r.peers
  BY FollowType DEF Keeps
<1>4. LegalStep(i, r)
  BY <1>1, StepDownLegal
<1>5. CASE r.state = "Follower"
  <2>1. SameBallot(r, s)
    BY <1>5 DEF follow, SameBallot, RaftState
  <2> QED BY <1>1, <1>3, <1>4, <2>1, LegalThenSame
<1>6. CASE r.state # "Follower"
  <2>1. r = raft[i] /\ m.term = r.currentTerm
    <3>1. m.from \in Node \cup {None}
      BY <1>1
    <3>2. \/ r.state = "Follower"
          \/ ~(m.term > raft[i].currentTerm) /\ r = raft[i]
      BY <1>1, <1>2, <3>1, StepDownBallot
    <3> QED BY <1>1, <1>2, <1>6, <3>2
  <2>2. s.state = "Follower" /\ s.currentTerm = m.term /\ s.votedFor = None
    BY <1>6 DEF follow, becomeFollower, RaftState
  <2>3. r.votedFor = i
    BY <1>4, <1>6 DEF LegalStep
  <2>4. [leader |-> i, term |-> m.term] \notin elected
    BY <1>1 DEF ElectionInv, ElectionSafety
  <2> HIDE DEF s
  <2>5. LegalStep(i, s)
    BY <1>1, <1>2, <1>3, <2>1, <2>2, <2>3, <2>4, LegalFollower
  <2> QED BY <2>5 DEF s
<1> QED
  BY <1>5, <1>6

LEMMA HandleAppendEntriesKeeps ==
    ASSUME TypeOK, TypeOK', ElectionInv, MaxDiskErrors = 0,
           NEW m \in BagToSet(msgs), m \in AppendEntries, HandleAppendEntries(m)
    PROVE  SoundStep
<1> DEFINE i == m.to
           r == stepDown(raft[i], m.term, m.from)
           s == handleAppendEntries(r, m)
           f == applyCommitted(s)
           reply == [type |-> "AppendEntriesResp", from |-> i, to |-> m.from, epoch |-> m.epoch,
                     term |-> r.currentTerm,
                     reject |-> m.term < r.currentTerm \/ rejectsEntries(r, m),
                     index |-> answerIndex(r, m)]
<1>1. i \in Node /\ m.from \in Node /\ m.term \in Nat /\ m.from # i
  BY DEF AppendEntries, ElectionInv, MessagesTrue, Truthful
<1>2. raft[i] \in RaftState
  BY <1>1 DEF TypeOK
<1>3. Finish(i, f) /\ Exchange(m, {reply})
  BY DEF HandleAppendEntries
<1>4. r \in RaftState /\ LegalStep(i, r)
  BY <1>1, <1>2, StepDownBallot, StepDownLegal
<1>5. ~(m.term < r.currentTerm) => LegalStep(i, follow(r, m))
  BY <1>4, FollowLegal
<1> HIDE DEF r
<1>6. s \in RaftState
  BY <1>4, HandleAppendEntriesType DEF Keeps
<1>7. LegalStep(i, s)
  <2>1. CASE m.term < r.currentTerm
    BY <2>1, <1>4 DEF handleAppendEntries
  <2>2. CASE ~(m.term < r.currentTerm) /\ rejectsEntries(r, m)
    BY <2>2, <1>5 DEF handleAppendEntries
  <2>3. CASE ~(m.term < r.currentTerm) /\ ~rejectsEntries(r, m)
    <3>1. s = acceptEntries(follow(r, m), m)
      BY <2>3 DEF handleAppendEntries
    <3>2. follow(r, m) \in RaftState
      BY <1>4, FollowType DEF Keeps
    <3>3. SameBallot(follow(r, m), s)
      BY <3>1, <3>2, AcceptEntriesBallot
    <3> HIDE DEF s
    <3> QED BY <2>3, <1>1, <1>5, <1>6, <3>3, LegalThenSame
  <2> QED BY <2>1, <2>2, <2>3
<1> HIDE DEF s
<1>8. LegalStep(i, f)
  BY <1>1, <1>6, <1>7, ApplyCommittedBallot, LegalThenSame
<1>9. PICK answer : answer = reply
  OBVIOUS
<1>10. answer.from = i /\ answer.to = m.from /\ answer.type = "AppendEntriesResp"
  BY <1>9
<1>11. Truthful(answer)'
  BY <1>1, <1>10 DEF Truthful
<1>12. BagToSet(msgs') \subseteq BagToSet(msgs) \cup {answer}
  BY <1>3, <1>9, ExchangeSet DEF Exchange
<1> HIDE DEF i, f, reply
<1> QED
  BY <1>1, <1>3, <1>8, <1>11, <1>12, CriticalReply

\* backOff, acknowledge and maybeAdvanceCommit leave the ballot alone.
LEMMA HandleAppendEntriesRespBallot ==
    ASSUME NEW r \in RaftState, NEW m
    PROVE  SameBallot(r, handleAppendEntriesResp(r, m))
<1>1. SameBallot(r, r)
  BY DEF SameBallot
<1>2. SameBallot(r, backOff(r, m))
  BY DEF backOff, SameBallot, RaftState
<1>3. SameBallot(r, acknowledge(r, m))
  BY DEF acknowledge, maybeAdvanceCommit, SameBallot, RaftState
<1> QED
  BY <1>1, <1>2, <1>3 DEF handleAppendEntriesResp

LEMMA HandleAppendEntriesRespKeeps ==
    ASSUME TypeOK, ElectionInv, MaxDiskErrors = 0,
           NEW m \in BagToSet(msgs), m \in AppendEntriesResp, HandleAppendEntriesResp(m)
    PROVE  SoundStep
<1> DEFINE i == m.to
           r == stepDown(raft[i], m.term, None)
           s == handleAppendEntriesResp(r, m)
           f == applyCommitted(s)
<1>1. i \in Node /\ m.term \in Nat
  BY DEF AppendEntriesResp
<1>2. raft[i] \in RaftState
  BY <1>1 DEF TypeOK
<1>3. Finish(i, f) /\ Exchange(m, {})
  BY DEF HandleAppendEntriesResp
<1>4. r \in RaftState /\ LegalStep(i, r)
  BY <1>1, <1>2, StepDownBallot, StepDownLegal
<1> HIDE DEF r
<1>5. s \in RaftState /\ SameBallot(r, s)
  BY <1>4, HandleAppendEntriesRespType, HandleAppendEntriesRespBallot DEF Keeps
<1> HIDE DEF s
<1>6. LegalStep(i, f)
  BY <1>1, <1>4, <1>5, ApplyCommittedBallot, LegalThenSame
<1>7. BagToSet(msgs') \subseteq BagToSet(msgs) \cup {}
  BY <1>3, ExchangeSet DEF Exchange
<1> HIDE DEF i, f
<1> QED
  BY <1>1, <1>3, <1>6, <1>7, CriticalSection

LEMMA SendFailsKeeps ==
    ASSUME TypeOK, ElectionInv, NEW m, SendFails(m)
    PROVE  SoundStep
<1>1. BagToSet(msgs') \subseteq BagToSet(msgs)
  <2>1. msgs' = (msgs (-) SetToBag({m})) (+) SetToBag({})
    BY DEF SendFails, Exchange
  <2>2. BagToSet(msgs') \subseteq BagToSet(msgs) \cup {}
    BY <2>1, ExchangeSet
  <2> QED BY <2>2
<1>2. UNCHANGED <<raft, disk, cast, elected>>
  BY DEF SendFails, history
<1>3. MessagesTrue'
  BY <1>1, <1>2 DEF ElectionInv, MessagesTrue, Truthful, Voters
<1>4. DiskMirrors' /\ PeersFixed' /\ OthersOnce' /\ LeadersRecorded' /\ ElectionSafety'
  BY <1>2 DEF ElectionInv, DiskMirrors, PeersFixed, OthersOnce, LeadersRecorded, ElectionSafety
<1>5. VotesHeld' /\ VotesRecorded' /\ CandidatesVoteForThemselves'
  BY <1>2 DEF ElectionInv, VotesHeld, VotesRecorded, CandidatesVoteForThemselves, Voters
<1>6. WinnersHaveMajorities'
  BY <1>2 DEF ElectionInv, WinnersHaveMajorities, Voters, IsMajority
<1>7. \A j \in Node : raft'[j].currentTerm >= raft[j].currentTerm
  BY <1>2 DEF TypeOK, RaftState
<1>8. ElectionInv'
  BY <1>3, <1>4, <1>5, <1>6 DEF ElectionInv
<1> QED
  BY <1>2, <1>7, <1>8 DEF SoundStep

\* A node comes back as a follower with the term and the vote it had.
LEMMA RestartKeeps ==
    ASSUME TypeOK, ElectionInv, StaticMesh, NEW i \in Node, Restart(i)
    PROVE  SoundStep
<1>1. disk' = disk /\ msgs' = msgs /\ cast' = cast /\ elected' = elected
  BY DEF Restart, history
<1>2. \A j \in Node \ {i} : raft'[j] = raft[j]
  BY DEF Restart, TypeOK
<1>3. /\ raft'[i].state = "Follower" /\ raft'[i].currentTerm = raft[i].currentTerm
      /\ raft'[i].votedFor = raft[i].votedFor /\ raft'[i].peers = Node \ {i}
  BY DEF Restart, NewRaft, TypeOK, ElectionInv, DiskMirrors, StaticMesh
<1>4. \A j \in Node : /\ raft'[j].currentTerm = raft[j].currentTerm
                      /\ raft'[j].votedFor = raft[j].votedFor
                      /\ raft'[j].state # "Follower" => raft'[j] = raft[j]
                      /\ raft'[j].peers = Node \ {j}
  BY <1>2, <1>3 DEF ElectionInv, PeersFixed
<1>5. DiskMirrors' /\ PeersFixed'
  BY <1>1, <1>4 DEF ElectionInv, DiskMirrors, PeersFixed
<1>6. OthersOnce' /\ ElectionSafety'
  BY <1>1 DEF ElectionInv, OthersOnce, ElectionSafety
<1>7. MessagesTrue'
  BY <1>1 DEF ElectionInv, MessagesTrue, Truthful, Voters
<1>8. VotesHeld'
  <2>1. \A x \in cast : /\ raft'[x.voter].currentTerm = raft[x.voter].currentTerm
                         /\ raft'[x.voter].votedFor = raft[x.voter].votedFor
    BY <1>4 DEF TypeOK, Vote
  <2>2. VotesHeld
    BY DEF ElectionInv
  <2> QED BY <1>1, <2>1, <2>2 DEF VotesHeld
<1>9. VotesRecorded'
  BY <1>1, <1>4 DEF ElectionInv, VotesRecorded, Voters
<1>10. CandidatesVoteForThemselves' /\ LeadersRecorded'
  BY <1>1, <1>4 DEF ElectionInv, CandidatesVoteForThemselves, LeadersRecorded, Voters
<1>11. WinnersHaveMajorities'
  <2>1. \A e \in elected : e.leader \in Node
    BY DEF TypeOK, Leadership
  <2> QED BY <1>1, <1>4, <2>1 DEF ElectionInv, WinnersHaveMajorities, Voters, IsMajority
<1>12. \A j \in Node : raft'[j].currentTerm >= raft[j].currentTerm
  BY <1>4 DEF TypeOK, RaftState
<1>13. ElectionInv'
  BY <1>5, <1>6, <1>7, <1>8, <1>9, <1>10, <1>11 DEF ElectionInv
<1> QED
  BY <1>1, <1>12, <1>13 DEF SoundStep

LEMMA NextElection ==
    ASSUME StaticMesh, MaxDiskErrors = 0, TypeOK, TypeOK', ElectionInv, [Next]_vars
    PROVE  SoundStep
<1>1. ASSUME NEW i \in Node, TickElection(i) PROVE SoundStep
  BY <1>1, TickElectionKeeps
<1>2. ASSUME NEW i \in Node, TickHeartbeat(i) PROVE SoundStep
  BY <1>2, TickHeartbeatKeeps
<1>3. ASSUME NEW i \in Node, NEW c \in Command, HandlePropose(i, c) PROVE SoundStep
  BY <1>3, HandleProposeKeeps
<1>4. ASSUME NEW i \in Node, Restart(i) PROVE SoundStep
  BY <1>4, RestartKeeps
<1>5. ASSUME NEW m \in BagToSet(msgs), HandleRequestVote(m) PROVE SoundStep
  BY <1>5, MessageKinds, HandleRequestVoteKeeps DEF HandleRequestVote
<1>6. ASSUME NEW m \in BagToSet(msgs), HandleRequestVoteResp(m) PROVE SoundStep
  BY <1>6, MessageKinds, HandleRequestVoteRespKeeps DEF HandleRequestVoteResp
<1>7. ASSUME NEW m \in BagToSet(msgs), HandleAppendEntries(m) PROVE SoundStep
  BY <1>7, MessageKinds, HandleAppendEntriesKeeps DEF HandleAppendEntries
<1>8. ASSUME NEW m \in BagToSet(msgs), HandleAppendEntriesResp(m) PROVE SoundStep
  BY <1>8, MessageKinds, HandleAppendEntriesRespKeeps DEF HandleAppendEntriesResp
<1>9. ASSUME NEW m \in BagToSet(msgs), SendFails(m) PROVE SoundStep
  BY <1>9, SendFailsKeeps
<1>10. CASE UNCHANGED vars
  <2>1. ElectionInv'
    BY <1>10 DEF vars, ElectionInv, DiskMirrors, PeersFixed, VotesHeld, VotesRecorded,
       OthersOnce, CandidatesVoteForThemselves, WinnersHaveMajorities, LeadersRecorded,
       MessagesTrue, Truthful, ElectionSafety, Voters, IsMajority
  <2>2. \A j \in Node : raft'[j].currentTerm >= raft[j].currentTerm
    BY <1>10 DEF vars, TypeOK, RaftState
  <2> QED BY <1>10, <2>1, <2>2 DEF vars, SoundStep
<1> QED
  BY <1>1, <1>2, <1>3, <1>4, <1>5, <1>6, <1>7, <1>8, <1>9, <1>10 DEF Next, NodeStep

\* In a cluster of any size whose nodes all know each other, no term ever has two
\* leaders, however messages are lost, delayed or reordered and however often
\* nodes restart, as long as SaveState succeeds.
THEOREM ElectionSafe ==
    ASSUME StaticMesh, MaxDiskErrors = 0
    PROVE  Spec => []ElectionSafety
<1>1. Init => ElectionInv
  BY InitElection
<1>2. TypeOK /\ TypeOK' /\ ElectionInv /\ [Next]_vars => ElectionInv'
  BY NextElection DEF SoundStep
<1>3. ElectionInv => ElectionSafety
  BY DEF ElectionInv
<1> QED
  BY <1>1, <1>2, <1>3, TypeCorrect, PTL DEF Spec

\* Under the same assumptions no node ever goes back to an earlier term.
THEOREM TermsGrow ==
    ASSUME StaticMesh, MaxDiskErrors = 0
    PROVE  Spec => TermNeverRetreats
<1>1. Init => ElectionInv
  BY InitElection
<1>2. TypeOK /\ TypeOK' /\ ElectionInv /\ [Next]_vars
      => ElectionInv' /\ [\A i \in Node : raft'[i].currentTerm >= raft[i].currentTerm]_vars
  BY NextElection DEF SoundStep
<1> QED
  BY <1>1, <1>2, TypeCorrect, PTL DEF Spec, TermNeverRetreats

=============================================================================
