------------------------------ MODULE KVService ------------------------------
(***************************************************************************)
(* The service a cluster gives its clients: HandlePropose, HandleRead and  *)
(* applyCommitted of node.go with the KV store of fsm/kv.go, on top of     *)
(* module Raft.                                                            *)
(*                                                                         *)
(* A request is a command and is sent once.  proposals[i] maps a log index *)
(* of node i to the request whose caller waits for it; a caller that gives *)
(* up leaves its channel in the map.                                       *)
(*                                                                         *)
(* A read has two steps: the leader and lease checks under the node's      *)
(* lock, then the lookup without it.  Any number of entries may be applied *)
(* in between.                                                             *)
(***************************************************************************)
EXTENDS Raft, KVStore

CONSTANT MaxReads   \* bound: reads of a node at a time

ASSUME MaxReadsAssumption == MaxReads \in Nat

VARIABLES
    kv,         \* kv[i]: the KV store of node i
    proposals,  \* proposals[i]: index |-> the request whose channel is there
    outcome,    \* outcome[c]: what the caller of request c knows
    origin,     \* history: where and in which term a request was proposed
    reads       \* reads[i]: the reads of node i between their two steps, each
                \* with what had been applied when the lease was checked (history)

serviceVars == <<vars, kv, proposals, outcome, origin, reads>>

ASSUME CommandAssumption == Command \subseteq SetCommand \cup DeleteCommand

Origin == [node : Node, term : Nat]

\* Every variable of the client layer has the type of the Go data it stands for; a
\* channel is kept under a log index.
ServiceTypeOK ==
    /\ kv \in [Node -> KVData]
    /\ \A i \in Node : /\ DOMAIN proposals[i] \subseteq Nat \ {0}
                       /\ Range(proposals[i]) \subseteq Command
    /\ outcome \in [Command -> {"idle", "waiting", "success", "gaveUp"}]
    /\ origin \in [Command -> Origin \cup {None}]
    /\ reads \in [Node -> SUBSET Nat]

-----------------------------------------------------------------------------
(* applyCommitted *)

\* The indices of what ApplicableEntries returns to node i in this step.
fresh(i) == raft[i].lastApplied + 1 .. raft'[i].lastApplied

\* Mutant: the batch ends at a no-op.
commandsBeforeNoOp(i) ==
    LET entries == [k \in 1 .. Cardinality(fresh(i)) |-> raft'[i].log[raft[i].lastApplied + k].cmd]
    IN  SubSeq(entries, 1, Min({k - 1 : k \in {j \in DOMAIN entries : entries[j] = NoOp}}
                               \cup {Len(entries)}))

\* Their commands; the no-ops are skipped.
commands(i) ==
    LET entries == [k \in 1 .. Cardinality(fresh(i)) |-> raft'[i].log[raft[i].lastApplied + k].cmd]
    IN  SelectSeq(entries, LAMBDA c : c # NoOp)

\* The channels that are closed and taken out of the map.
signalled(i) == fresh(i) \cap DOMAIN proposals[i]

\* What the step means for the clients: new entries reach the KV store and the
\* callers that wait for them; a restarted process has neither store nor callers.
applyEntries ==
    LET gone == {i \in Node : epoch'[i] # epoch[i]}
        done == {proposals[i][k] : <<i, k>> \in
                    {x \in (Node \ gone) \X UNION {DOMAIN proposals[j] : j \in Node} :
                        x[2] \in signalled(x[1])}}
    IN  /\ kv' = [i \in Node |-> IF i \in gone THEN NewKV ELSE ApplyAll(kv[i], commands(i))]
        /\ proposals' = [i \in Node |-> IF i \in gone THEN <<>>
                                        ELSE Restrict(proposals[i], DOMAIN proposals[i] \ fresh(i))]
        /\ outcome' = [c \in Command |-> IF c \in done /\ outcome[c] = "waiting"
                                         THEN "success" ELSE outcome[c]]
        /\ reads' = [i \in Node |-> IF i \in gone THEN {} ELSE reads[i]]

-----------------------------------------------------------------------------
(* Clients *)

\* The channel of a new proposal; one left under the same index is lost.
register(i, c) == (lastLogIndex(raft'[i].log) :> c) @@ proposals[i]

Propose(i, c) ==
    /\ outcome[c] = "idle"
    /\ HandlePropose(i, c)
    /\ proposals' = [proposals EXCEPT ![i] = register(i, c)]
    /\ outcome' = [outcome EXCEPT ![c] = "waiting"]
    /\ origin' = [origin EXCEPT ![c] = [node |-> i, term |-> raft[i].currentTerm]]
    /\ UNCHANGED <<kv, reads>>

\* Five seconds are over, or the caller's context has ended.
GiveUp(c) ==
    /\ outcome[c] = "waiting"
    /\ outcome' = [outcome EXCEPT ![c] = "gaveUp"]
    /\ UNCHANGED <<vars, kv, proposals, origin, reads>>

\* The newest leader of the cluster.
Newest(i) == \A e \in elected : e.term <= raft[i].currentTerm

\* Mutant: any node may serve a read.
mayReadAnywhere(r) == TRUE

mayRead(r) == r.state = "Leader" /\ HasLeaderQuorum(r)

\* The first half of HandleRead.  The history asks nothing of a leader that has a
\* successor.
HandleRead(i) ==
    /\ Cardinality(reads[i]) < MaxReads
    /\ mayRead(raft[i])
    /\ reads' = [reads EXCEPT ![i] = @ \cup
                    {IF Newest(i) THEN Max({0} \cup {a.index : a \in applied}) ELSE 0}]
    /\ UNCHANGED <<vars, kv, proposals, outcome, origin>>

\* The second half: fsm.Get.
Get(i) ==
    /\ \E floor \in reads[i] : reads' = [reads EXCEPT ![i] = @ \ {floor}]
    /\ UNCHANGED <<vars, kv, proposals, outcome, origin>>

-----------------------------------------------------------------------------
(* The specification *)

ServiceInit ==
    /\ Init
    /\ kv = [i \in Node |-> NewKV]
    /\ proposals = [i \in Node |-> <<>>]
    /\ outcome = [c \in Command |-> "idle"]
    /\ origin = [c \in Command |-> None]
    /\ reads = [i \in Node |-> {}]

ServiceNext ==
    \/ NodeStep /\ applyEntries /\ UNCHANGED origin
    \/ \E i \in Node : HandleRead(i) \/ Get(i) \/ \E c \in Command : Propose(i, c)
    \/ \E c \in Command : GiveUp(c)

ServiceSpec == ServiceInit /\ [][ServiceNext]_serviceVars

-----------------------------------------------------------------------------
(* Properties *)

\* Nodes that have applied the same number of entries hold the same data, however
\* the entries were batched (applyCommitted, KV.Apply).
ReplicasAgree ==
    \A i, j \in Node : raft[i].lastApplied = raft[j].lastApplied => kv[i] = kv[j]

\* A caller who is told of success by a node still in the term of the proposal has
\* its command in the logs of a majority at that moment, if no node has lost its log
\* by a restart (HandlePropose, applyCommitted, maybeAdvanceCommit).
AckedOnMajority ==
    [][\A c \in Command :
           /\ \A i \in Node : epoch[i] = 0
           /\ outcome[c] = "waiting" /\ outcome'[c] = "success"
           /\ raft'[origin[c].node].currentTerm = origin[c].term
           => 2 * Cardinality({i \in Node : \E k \in DOMAIN raft'[i].log : raft'[i].log[k].cmd = c})
                  > Cardinality(Node)]_serviceVars

\* A caller who is told of success has had its own command applied.
AckedIsApplied ==
    \A c \in Command : outcome[c] = "success" => \E a \in applied : a.entry.cmd = c

\* A read that passes the lease check on the newest leader finds every entry that any
\* node had applied by then, although it looks the key up after it has let go of the
\* lock (HandleRead, HasLeaderQuorum).
ReadsFresh ==
    \A i \in Node : \A floor \in reads[i] : raft[i].lastApplied >= floor
=============================================================================
