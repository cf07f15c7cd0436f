----------------------------- MODULE NodeProcess -----------------------------
(***************************************************************************)
(* The life of one server process: main of cmd/server, NewNode, Run and    *)
(* shutdown of node.go, the server and the connection cache of             *)
(* network/grpc_transport.go, and the goroutines that run beside Run: one  *)
(* for each RPC that comes in, one for each RPC that goes out.             *)
(*                                                                         *)
(* A critical section of Node.mu, or of the transport's lock, is one step. *)
(* Of the Raft state only three things matter here: the role; ballot,      *)
(* which counts the changes of term and vote; saved, the ballot in the     *)
(* store.  Module Raft has the rest, and shows why a change of term or     *)
(* vote by a message always leaves a follower behind.                      *)
(***************************************************************************)
EXTENDS Integers, FiniteSets

CONSTANTS
    Target,     \* the addresses of the peers
    Slot,       \* bound: goroutines that send to one target at a time
    Handler,    \* bound: RPCs that are served at a time
    MaxBallot   \* bound: changes of term and vote

ASSUME ProcessAssumption == MaxBallot \in Nat

VARIABLES
    main,       \* how far main has come
    store,      \* the BadgerDB store
    server,     \* the gRPC server
    ballot,     \* version of term and vote in memory
    saved,      \* version of term and vote in the store
    role,       \* the Raft state
    conns,      \* conns[t]: which connection to t is cached, 0 for none
    dials,      \* dials[t]: how many connections to t have been made
    open,       \* the connections that are open
    sender,     \* sender[t][s]: a goroutine of sendAppendEntries or sendRequestVote
    handler,    \* handler[h]: a goroutine of the gRPC server
    signalled   \* the handlers whose proposal has been applied

raftVars == <<ballot, saved, role>>
connVars == <<conns, dials, open>>
vars == <<main, store, server, raftVars, connVars, sender, handler, signalled>>

Phase == {"start", "opened", "serving", "running",
          "stopping", "closing", "storing", "leaving", "exited"}

Idle == [pc |-> "idle", conn |-> 0]

\* Every variable has the type of what it stands for.
ProcessTypeOK ==
    /\ main \in Phase
    /\ store \in {"none", "open", "closed"}
    /\ server \in {"none", "serving", "stopping", "stopped"}
    /\ ballot \in Nat /\ saved \in Nat
    /\ role \in {"Follower", "Candidate", "Leader"}
    /\ conns \in [Target -> Nat] /\ dials \in [Target -> Nat]
    /\ open \subseteq Target \X Nat
    /\ sender \in [Target -> [Slot -> [pc : {"idle", "lookup", "lock", "calling", "answered"},
                                       conn : Nat]]]
    /\ handler \in [Handler -> {"idle", "arrived", "waiting"}]
    /\ signalled \subseteq Handler

-----------------------------------------------------------------------------
(* What the critical sections of the node are made of *)

\* A closed store refuses the transaction, and the error is only logged.
persistState == saved' = IF store = "open" THEN ballot' ELSE saved

\* A message changes term and vote, or it does not.
StepChanges ==
    /\ ballot < MaxBallot
    /\ ballot' = ballot + 1
    /\ role' = "Follower"

\* applyCommitted closes the channels of some of the proposals that wait.
applyCommitted ==
    \E some \in SUBSET {h \in Handler : handler[h] = "waiting"} :
        signalled' = signalled \cup some

\* dispatchMessages: a goroutine for each target.  (The goroutine that dispatches is
\* about to end; its slot counts as free.)
broadcast(threads) ==
    \E s \in [Target -> Slot] :
        /\ \A t \in Target : threads[t][s[t]].pc = "idle"
        /\ sender' = [t \in Target |-> [threads[t] EXCEPT ![s[t]] = [pc |-> "lookup", conn |-> 0]]]

-----------------------------------------------------------------------------
(* main, NewNode, Run *)

\* storage.New, then LoadState and LoadLog; a node that cannot load closes the store.
OpenStore ==
    /\ main = "start"
    /\ \/ main' = "opened" /\ store' = "open"
       \/ main' = "exited" /\ store' \in {"none", "closed"}
    /\ UNCHANGED <<server, raftVars, connVars, sender, handler, signalled>>

\* NewGRPCTransport, RegisterHandlers and Start.  RPCs are served from here on.
Listen ==
    /\ main = "opened"
    /\ \/ main' = "serving" /\ server' = "serving" /\ UNCHANGED store
       \/ main' = "exited" /\ store' = "closed" /\ UNCHANGED server
    /\ UNCHANGED <<raftVars, connVars, sender, handler, signalled>>

\* discovery.New and Join, where SEEDS is set; an error of New ends the process with
\* the store open.
StartDiscovery ==
    /\ main = "serving"
    /\ main' \in {"running", "exited"}
    /\ UNCHANGED <<store, server, raftVars, connVars, sender, handler, signalled>>

\* Run, case <-ticker.C, when a timer has run out.
Tick ==
    /\ main = "running"
    /\ \/ /\ role # "Leader" /\ ballot < MaxBallot
          /\ ballot' = ballot + 1
          /\ role' = IF Target = {} THEN "Leader" ELSE "Candidate"
       \/ role = "Leader" /\ UNCHANGED <<ballot, role>>
    /\ persistState
    /\ broadcast(sender)
    /\ UNCHANGED <<main, store, server, connVars, handler, signalled>>

-----------------------------------------------------------------------------
(* RPCs that come in *)

ReceiveRPC(h) ==
    /\ main # "exited" /\ server = "serving"
    /\ handler[h] = "idle"
    /\ handler' = [handler EXCEPT ![h] = "arrived"]
    /\ UNCHANGED <<main, store, server, raftVars, connVars, sender, signalled>>

\* The critical section of HandleAppendEntries or HandleRequestVote; then the answer.
HandleConsensus(h) ==
    /\ main # "exited"
    /\ handler[h] = "arrived"
    /\ StepChanges \/ UNCHANGED <<ballot, role>>
    /\ applyCommitted
    /\ persistState
    /\ handler' = [handler EXCEPT ![h] = "idle"]
    /\ UNCHANGED <<main, store, server, connVars, sender>>

\* HandlePropose on a leader, up to the wait.
HandlePropose(h) ==
    /\ main # "exited"
    /\ handler[h] = "arrived" /\ role = "Leader"
    /\ UNCHANGED <<ballot, role>>
    /\ persistState
    /\ broadcast(sender)
    /\ handler' = [handler EXCEPT ![h] = "waiting"]
    /\ UNCHANGED <<main, store, server, connVars, signalled>>

\* HandleRead, and HandlePropose on another node.
AnswerAtOnce(h) ==
    /\ main # "exited"
    /\ handler[h] = "arrived"
    /\ handler' = [handler EXCEPT ![h] = "idle"]
    /\ UNCHANGED <<main, store, server, raftVars, connVars, sender, signalled>>

answerProposal(h) ==
    /\ main # "exited"
    /\ handler' = [handler EXCEPT ![h] = "idle"]
    /\ signalled' = signalled \ {h}
    /\ UNCHANGED <<main, store, server, raftVars, connVars, sender>>

\* HandlePropose, case <-doneCh.
EndPropose(h) ==
    /\ handler[h] = "waiting" /\ h \in signalled
    /\ answerProposal(h)

\* Mutant: nothing but the commit ends the wait.
GiveUpNever(h) ==
    /\ handler[h] = "waiting" /\ h \in signalled
    /\ answerProposal(h)

\* HandlePropose, the other cases: five seconds are over, or the caller has gone.
GiveUp(h) ==
    /\ handler[h] = "waiting"
    /\ answerProposal(h)

-----------------------------------------------------------------------------
(* RPCs that go out *)

at(t, s, pc) == main # "exited" /\ sender[t][s].pc = pc

goes(t, s, pc, conn) == sender' = [sender EXCEPT ![t][s] = [pc |-> pc, conn |-> conn]]

\* getConn under the read lock.
Lookup(t, s) ==
    /\ at(t, s, "lookup")
    /\ IF conns[t] # 0 THEN goes(t, s, "calling", conns[t]) ELSE goes(t, s, "lock", 0)
    /\ UNCHANGED <<main, store, server, raftVars, connVars, handler, signalled>>

\* grpc.Dial returns without waiting for the peer.
dial(t, s) ==
    /\ dials' = [dials EXCEPT ![t] = @ + 1]
    /\ conns' = [conns EXCEPT ![t] = dials[t] + 1]
    /\ open' = open \cup {<<t, dials[t] + 1>>}
    /\ goes(t, s, "calling", dials[t] + 1)

dialFails(t, s) == sender' = [sender EXCEPT ![t][s] = Idle] /\ UNCHANGED connVars

\* Mutant: the cache is not looked at again.
DialWithoutCheck(t, s) ==
    /\ at(t, s, "lock")
    /\ dial(t, s) \/ dialFails(t, s)
    /\ UNCHANGED <<main, store, server, raftVars, handler, signalled>>

\* getConn under the write lock.
Dial(t, s) ==
    /\ at(t, s, "lock")
    /\ \/ conns[t] # 0 /\ goes(t, s, "calling", conns[t]) /\ UNCHANGED connVars
       \/ conns[t] = 0 /\ (dial(t, s) \/ dialFails(t, s))
    /\ UNCHANGED <<main, store, server, raftVars, handler, signalled>>

\* Invoke returns an answer.
Answer(t, s) ==
    /\ at(t, s, "calling")
    /\ <<t, sender[t][s].conn>> \in open
    /\ goes(t, s, "answered", sender[t][s].conn)
    /\ UNCHANGED <<main, store, server, raftVars, connVars, handler, signalled>>

\* Mutant: the call has no deadline.
CallFailsOnClose(t, s) ==
    /\ at(t, s, "calling")
    /\ <<t, sender[t][s].conn>> \notin open
    /\ sender' = [sender EXCEPT ![t][s] = Idle]
    /\ UNCHANGED <<main, store, server, raftVars, connVars, handler, signalled>>

\* Invoke returns an error: the peer or the connection fails, the connection is closed,
\* or two seconds are over.
CallFails(t, s) ==
    /\ at(t, s, "calling")
    /\ sender' = [sender EXCEPT ![t][s] = Idle]
    /\ UNCHANGED <<main, store, server, raftVars, connVars, handler, signalled>>

\* The rest of sendAppendEntries or sendRequestVote: a later term, an answer that
\* changes neither term nor vote (and may commit), or the vote that wins an election.
StepAnswer(t, s) ==
    LET rest == [sender EXCEPT ![t][s] = Idle]
    IN  /\ at(t, s, "answered")
        /\ \/ StepChanges /\ sender' = rest /\ UNCHANGED signalled
           \/ UNCHANGED <<ballot, role>> /\ sender' = rest
              /\ IF role = "Leader" THEN applyCommitted ELSE UNCHANGED signalled
           \/ role = "Candidate" /\ role' = "Leader" /\ broadcast(rest)
              /\ UNCHANGED <<ballot, signalled>>
        /\ persistState
        /\ UNCHANGED <<main, store, server, connVars, handler>>

-----------------------------------------------------------------------------
(* Shutdown *)

\* Run, case <-ctx.Done(); Close: the server takes no more RPCs.
Stop ==
    /\ main = "running"
    /\ main' = "stopping" /\ server' = "stopping"
    /\ UNCHANGED <<store, raftVars, connVars, sender, handler, signalled>>

\* Mutant: Close does not wait for the handlers.
StoppedAtOnce ==
    /\ main = "stopping"
    /\ main' = "closing" /\ server' = "stopped"
    /\ UNCHANGED <<store, raftVars, connVars, sender, handler, signalled>>

\* GracefulStop returns when every handler has.
Stopped ==
    /\ main = "stopping"
    /\ \A h \in Handler : handler[h] = "idle"
    /\ main' = "closing" /\ server' = "stopped"
    /\ UNCHANGED <<store, raftVars, connVars, sender, handler, signalled>>

\* Mutant: Close drops the map and not only what is in it.
CloseConnsAndMap ==
    /\ main = "closing"
    /\ main' = "storing"
    /\ open' = open \ {<<t, conns[t]>> : t \in Target}
    /\ conns' = <<>>
    /\ UNCHANGED <<store, server, raftVars, dials, sender, handler, signalled>>

\* The rest of Close.
CloseConns ==
    /\ main = "closing"
    /\ main' = "storing"
    /\ open' = open \ {<<t, conns[t]>> : t \in Target}
    /\ conns' = [t \in Target |-> 0]
    /\ UNCHANGED <<store, server, raftVars, dials, sender, handler, signalled>>

\* The rest of shutdown.
CloseStore ==
    /\ main = "storing"
    /\ main' = "leaving" /\ store' = "closed"
    /\ UNCHANGED <<server, raftVars, connVars, sender, handler, signalled>>

\* Run returns; main shuts discovery down and ends, and every goroutine with it.
Exit ==
    /\ main = "leaving"
    /\ main' = "exited"
    /\ UNCHANGED <<store, server, raftVars, connVars, sender, handler, signalled>>

-----------------------------------------------------------------------------
(* The specification *)

Init ==
    /\ main = "start" /\ store = "none" /\ server = "none"
    /\ ballot = 0 /\ saved = 0 /\ role = "Follower"
    /\ conns = [t \in Target |-> 0] /\ dials = [t \in Target |-> 0] /\ open = {}
    /\ sender = [t \in Target |-> [s \in Slot |-> Idle]]
    /\ handler = [h \in Handler |-> "idle"] /\ signalled = {}

MainStep ==
    OpenStore \/ Listen \/ StartDiscovery \/ Tick
        \/ Stop \/ Stopped \/ CloseConns \/ CloseStore \/ Exit

Serve(h) ==
    HandleConsensus(h) \/ HandlePropose(h) \/ AnswerAtOnce(h) \/ EndPropose(h) \/ GiveUp(h)

Proceed(t, s) == Lookup(t, s) \/ Dial(t, s) \/ CallFails(t, s) \/ StepAnswer(t, s)

Next ==
    \/ MainStep
    \/ \E h \in Handler : ReceiveRPC(h) \/ Serve(h)
    \/ \E t \in Target, s \in Slot : Proceed(t, s) \/ Answer(t, s)

Spec == Init /\ [][Next]_vars

\* The scheduler runs every goroutine that can run, timers run out, and GracefulStop
\* returns when it can.  No RPC has to arrive, and no answer.
Fairness ==
    /\ WF_vars(Stopped) /\ WF_vars(CloseConns) /\ WF_vars(CloseStore) /\ WF_vars(Exit)
    /\ \A h \in Handler : WF_vars(Serve(h))
    /\ \A t \in Target, s \in Slot : WF_vars(Proceed(t, s))

FairSpec == Spec /\ Fairness

-----------------------------------------------------------------------------
(* Properties *)

\* However many goroutines ask for the same target at once, and also while Close is
\* at work, the open connections are those in the cache: none is opened twice, and none
\* is lost (the double-checked locking of getConn, Close).
OpenAreCached ==
    open = {<<t, conns[t]>> : t \in {u \in Target : conns[u] # 0}}

\* The store is not closed under a handler: whoever is being served when the process
\* stops finds it open (shutdown closes the transport first, GracefulStop waits).
StoreOutlivesHandlers ==
    store = "closed" /\ main # "exited" => \A h \in Handler : handler[h] = "idle"

\* A handler answers (or goes on to wait), or a goroutine is made that sends.
Speaks ==
    \/ \E h \in Handler : handler[h] = "arrived" /\ handler'[h] # "arrived"
    \/ \E t \in Target, s \in Slot : sender[t][s].pc # "lookup" /\ sender'[t][s].pc = "lookup"

\* Nothing leaves the process before term and vote are saved: neither an answer nor a
\* request, not even when goroutines step the Raft state after the store is closed
\* (persistState, shutdown, sendAppendEntries, sendRequestVote).
SavedBeforeSent == [][Speaks => saved' = ballot']_vars

\* Once told to stop the process ends, whatever its handlers wait for (shutdown,
\* GracefulStop, the timer of HandlePropose).
ShutdownCompletes == main = "stopping" ~> main = "exited"

\* Every goroutine that sends ends, whether the peer answers or not: they cannot pile
\* up (the deadline of sendAppendEntries and sendRequestVote).
SendersEnd ==
    \A t \in Target, s \in Slot :
        sender[t][s].pc = "lookup" ~> sender[t][s].pc = "idle" \/ main = "exited"
=============================================================================
