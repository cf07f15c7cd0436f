------------------------ MODULE RaftRefinementProofs ------------------------
(***************************************************************************)
(* Elections implement OneLeader, with and without gossip, for any finite  *)
(* set of nodes that know each other from the start and whose stores do    *)
(* not fail.                                                               *)
(***************************************************************************)
EXTENDS RaftRefinement, Membership, RaftElectionProofs

\* A sound step makes at most one leader, of a term that has none.
LEMMA ElectsOne ==
    ASSUME TypeOK, SoundStep
    PROVE  [Leaders!Next]_elected
<1>1. CASE elected' = elected
  BY <1>1
<1>2. ASSUME NEW l \in Leadership, elected' = elected \cup {l}, l \notin elected
      PROVE  Leaders!Next
  <2>1. l \in [leader : Node, term : Nat]
    BY DEF Leadership
  <2>2. \A k \in elected : k.term # l.term
    <3> SUFFICES ASSUME NEW k \in elected, k.term = l.term PROVE FALSE
      OBVIOUS
    <3>1. k \in [leader : Node, term : Nat]
      BY DEF TypeOK, Leadership
    <3>2. k.leader = l.leader
      BY <1>2 DEF SoundStep, ElectionInv, ElectionSafety
    <3>3. k = l
      BY <2>1, <3>1, <3>2
    <3> QED BY <1>2, <3>3
  <2> QED BY <1>2, <2>1, <2>2 DEF Leaders!Next, Leaders!Elect
<1> QED
  BY <1>1, <1>2 DEF SoundStep

\* Terms get their leaders one by one and never two, through any number of restarts and
\* lost messages, as long as SaveState succeeds and PEERS names every node
\* (becomeCandidate, handleRequestVote, becomeLeader, persistState).
THEOREM LeadersRefine ==
    ASSUME StaticMesh, MaxDiskErrors = 0
    PROVE  Spec => ImplementsOneLeader
<1>1. Init => ElectionInv /\ Leaders!Init
  BY InitElection DEF Init, Leaders!Init
<1>2. TypeOK /\ TypeOK' /\ ElectionInv /\ [Next]_vars => ElectionInv' /\ [Leaders!Next]_elected
  BY NextElection, ElectsOne DEF SoundStep
<1> QED
  BY <1>1, <1>2, TypeCorrect, PTL DEF Spec, ImplementsOneLeader, Leaders!Spec

-----------------------------------------------------------------------------
(* Gossip *)

\* The channels hold events.
EventsOK == events \in [Node -> Seq(Event)]

LEMMA StutterSound ==
    ASSUME StaticMesh, MaxDiskErrors = 0, TypeOK, TypeOK', ElectionInv, UNCHANGED vars
    PROVE  SoundStep
BY NextElection

\* When every node is a configured peer, a join adds nothing.
LEMMA NothingToAdd ==
    ASSUME TypeOK, ElectionInv, NEW i \in Node, NEW e \in Event
    PROVE  handleDiscoveryEvent(i, raft[i], e) = raft[i]
<1>1. raft[i] \in RaftState /\ raft[i].peers = Node \ {i} /\ e.node \in Node
  BY DEF TypeOK, ElectionInv, PeersFixed, Event
<1>2. e.node # i => raft[i].peers \cup {e.node} = raft[i].peers
  BY <1>1
<1>3. [raft[i] EXCEPT !.peers = raft[i].peers] = raft[i]
  BY <1>1 DEF RaftState
<1> QED
  BY <1>2, <1>3 DEF handleDiscoveryEvent, AddPeer

LEMMA DiscoveryKeeps ==
    ASSUME StaticMesh, MaxDiskErrors = 0, TypeOK, EventsOK, ElectionInv,
           NEW i \in Node, HandleDiscoveryEvent(i)
    PROVE  TypeOK' /\ EventsOK' /\ SoundStep
<1> DEFINE e == Head(events[i])
           r == raft[i]
<1>1. e \in Event /\ Tail(events[i]) \in Seq(Event)
  BY DEF EventsOK, HandleDiscoveryEvent
<1>2. EventsOK'
  BY <1>1 DEF EventsOK, HandleDiscoveryEvent
<1>3. r \in RaftState /\ handleDiscoveryEvent(i, r, e) = r
  BY <1>1, NothingToAdd DEF TypeOK
<1> HIDE DEF e, r
<1>4. CASE e.type = "NodeJoin"
  <2>1. Finish(i, r) /\ msgs' = msgs
    BY <1>3, <1>4 DEF HandleDiscoveryEvent, e, r
  <2>2. TypeOK'
    <3>1. r.lastApplied = raft[i].lastApplied
      BY DEF r
    <3>2. StateTypeOK'
      BY <1>3, <2>1, <3>1, FinishType
    <3> QED BY <2>1, <3>2 DEF StateTypeOK, TypeOK
  <2>3. LegalStep(i, r)
    BY <1>3, LegalStutter DEF SameBallot, r
  <2>4. PICK out : out = {}
    OBVIOUS
  <2>5. BagToSet(msgs') \subseteq BagToSet(msgs) \cup out /\ \A m \in out : Truthful(m)'
    BY <2>1, <2>4
  <2>6. SoundStep
    BY <2>1, <2>3, <2>5, CriticalSection
  <2> QED BY <1>2, <2>2, <2>6
<1>5. CASE e.type # "NodeJoin"
  <2>1. raft' = raft
    BY <1>3, <1>5 DEF HandleDiscoveryEvent, TypeOK, e, r
  <2>2. UNCHANGED vars
    BY <1>5, <2>1 DEF HandleDiscoveryEvent, vars, history, e
  <2>3. TypeOK'
    BY <2>2, NextType
  <2>4. SoundStep
    BY <2>2, <2>3, StutterSound
  <2> QED BY <1>2, <2>3, <2>4
<1> QED
  BY <1>4, <1>5

LEMMA MemberStep ==
    ASSUME StaticMesh, MaxDiskErrors = 0, TypeOK, EventsOK, ElectionInv, [MemberNext]_memberVars
    PROVE  TypeOK' /\ EventsOK' /\ SoundStep
<1>1. ASSUME NEW i \in Node, HandleDiscoveryEvent(i) PROVE TypeOK' /\ EventsOK' /\ SoundStep
  BY <1>1, DiscoveryKeeps
<1>2. ASSUME NEW i \in Node, NEW e \in Event, Notify(i, e)
      PROVE  TypeOK' /\ EventsOK' /\ SoundStep
  <2>1. UNCHANGED vars
    BY <1>2 DEF Notify
  <2>2. TypeOK'
    BY <2>1, NextType
  <2>3. SoundStep
    BY <2>1, <2>2, StutterSound
  <2>4. Append(events[i], e) \in Seq(Event) /\ events[i] \in Seq(Event)
    BY DEF EventsOK
  <2>5. EventsOK'
    BY <1>2, <2>4 DEF EventsOK, Notify
  <2> QED BY <2>2, <2>3, <2>5
<1>3. CASE Next /\ events' = [i \in Node |-> IF epoch'[i] = epoch[i] THEN events[i] ELSE <<>>]
  <2>1. TypeOK'
    BY <1>3, NextType
  <2>2. SoundStep
    BY <1>3, <2>1, NextElection
  <2>3. EventsOK'
    BY <1>3 DEF EventsOK
  <2> QED BY <2>1, <2>2, <2>3
<1>4. CASE UNCHANGED memberVars
  <2>1. UNCHANGED vars /\ events' = events
    BY <1>4 DEF memberVars
  <2>2. TypeOK'
    BY <2>1, NextType
  <2>3. SoundStep
    BY <2>1, <2>2, StutterSound
  <2> QED BY <2>1, <2>2, <2>3 DEF EventsOK
<1> QED
  BY <1>1, <1>2, <1>3, <1>4 DEF MemberNext

\* Gossip cannot give a term two leaders, whatever memberlist reports and however
\* events are delayed or dropped, when PEERS names every node: it can only add peers,
\* and there is none to add (handleDiscoveryEvent, AddPeer).
THEOREM MembersElectOne ==
    ASSUME StaticMesh, MaxDiskErrors = 0
    PROVE  MemberSpec => []ElectionSafety /\ ImplementsOneLeader
<1>1. MemberInit => TypeOK /\ EventsOK /\ ElectionInv /\ Leaders!Init
  BY InitElection, InitType DEF MemberInit, Init, EventsOK, Leaders!Init
<1>2. TypeOK /\ EventsOK /\ ElectionInv /\ [MemberNext]_memberVars
      => TypeOK' /\ EventsOK' /\ ElectionInv' /\ [Leaders!Next]_elected
  BY MemberStep, ElectsOne DEF SoundStep
<1>3. ElectionInv => ElectionSafety
  BY DEF ElectionInv
<1> QED
  BY <1>1, <1>2, <1>3, PTL DEF MemberSpec, ImplementsOneLeader, Leaders!Spec
=============================================================================
