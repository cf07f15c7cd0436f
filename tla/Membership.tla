----------------------------- MODULE Membership -----------------------------
(***************************************************************************)
(* Gossip discovery on top of module Raft: the event delegate of           *)
(* discovery/delegate.go puts what memberlist reports into a bounded       *)
(* channel, and the loop of Run hands each event to handleDiscoveryEvent.  *)
(*                                                                         *)
(* memberlist is external: it may report any node to any node as joined,   *)
(* left or updated, at any time and as often as it likes (its failure      *)
(* detector may be wrong).  Addresses are left out: AddPeer and the entry  *)
(* of peerAddrs are made in the same critical section.                     *)
(***************************************************************************)
EXTENDS Raft

CONSTANTS
    EventBuffer,    \* the capacity of the channel (defaultEventBuffer)
    MaxNotices      \* bound: reports of memberlist to all nodes together

ASSUME MemberAssumption == EventBuffer \in Nat /\ MaxNotices \in Nat

VARIABLES
    events,     \* events[i]: the channel between node i's delegate and its loop
    notices     \* how many reports memberlist has made

memberVars == <<vars, events, notices>>

Event == [type : {"NodeJoin", "NodeLeave", "NodeUpdate"}, node : Node]

\* NotifyJoin, NotifyLeave, NotifyUpdate: a full channel drops the event.
Notify(i, e) ==
    /\ notices < MaxNotices
    /\ notices' = notices + 1
    /\ events' = [events EXCEPT ![i] = IF Len(@) < EventBuffer THEN Append(@, e) ELSE @]
    /\ UNCHANGED vars

AddPeer(i, r, node) == IF node = i THEN r ELSE [r EXCEPT !.peers = @ \cup {node}]

\* Mutant: a node that is reported as gone no longer counts for the quorum.
dropsOnLeave(i, r, e) ==
    CASE e.type = "NodeJoin"  -> AddPeer(i, r, e.node)
      [] e.type = "NodeLeave" -> [r EXCEPT !.peers = @ \ {e.node}]
      [] OTHER                -> r

\* Only a join changes the peers.
handleDiscoveryEvent(i, r, e) ==
    IF e.type = "NodeJoin" THEN AddPeer(i, r, e.node) ELSE r

\* Run, case event := <-events.  A join also saves the state; as nothing is in the
\* outbox between critical sections, it sends nothing.
HandleDiscoveryEvent(i) ==
    /\ events[i] # <<>>
    /\ events' = [events EXCEPT ![i] = Tail(@)]
    /\ IF Head(events[i]).type = "NodeJoin"
       THEN Finish(i, handleDiscoveryEvent(i, raft[i], Head(events[i])))
       ELSE /\ raft' = [raft EXCEPT ![i] = handleDiscoveryEvent(i, @, Head(events[i]))]
            /\ UNCHANGED <<disk, epoch, diskErrors, history>>
    /\ UNCHANGED <<msgs, notices>>

MemberInit ==
    /\ Init
    /\ events = [i \in Node |-> <<>>]
    /\ notices = 0

\* A restart also empties the channel.
MemberNext ==
    \/ \E i \in Node : HandleDiscoveryEvent(i) \/ \E e \in Event : Notify(i, e)
    \/ /\ Next
       /\ events' = [i \in Node |-> IF epoch'[i] = epoch[i] THEN events[i] ELSE <<>>]
       /\ UNCHANGED notices

MemberSpec == MemberInit /\ [][MemberNext]_memberVars

-----------------------------------------------------------------------------

\* Two nodes that count each other as peers never lead in the same term
\* (handleAppendEntries takes this for granted; AddPeer bypasses the log).
PeersNeverBothLead ==
    \A i, j \in Node :
        /\ raft[i].state = "Leader" /\ raft[j].state = "Leader"
        /\ raft[i].currentTerm = raft[j].currentTerm
        /\ i \in raft[j].peers /\ j \in raft[i].peers
        => i = j
=============================================================================
