-------------------------- MODULE NodeProcessProofs --------------------------
(***************************************************************************)
(* The order in which a process opens and closes its parts keeps the store *)
(* open for as long as anything it saves is told to anybody, for any       *)
(* number of peers, goroutines and RPCs; and no connection is made twice.  *)
(***************************************************************************)
EXTENDS NodeProcess, TLAPS

\* What is open in each phase of main, and when a handler can be at work.
Lifecycle ==
    /\ main = "start" => store = "none" /\ server = "none"
    /\ main = "opened" => store = "open" /\ server = "none"
    /\ main \in {"serving", "running"} => store = "open" /\ server = "serving"
    /\ main = "stopping" => store = "open" /\ server = "stopping"
    /\ main \in {"closing", "storing"} => store = "open" /\ server = "stopped"
    /\ main = "leaving" => store = "closed" /\ server = "stopped"
    /\ main # "exited" /\ server \in {"none", "stopped"} => \A h \in Handler : handler[h] = "idle"
    /\ main = "start" => \A t \in Target, s \in Slot : sender[t][s] = Idle

\* Only a step down after the store is closed goes unsaved, and it silences the node.
UnsavedIsSilent ==
    main # "exited" /\ ballot # saved => store = "closed" /\ role = "Follower"

ProcessInv == ProcessTypeOK /\ Lifecycle /\ UnsavedIsSilent /\ OpenAreCached

LEMMA InitProcess == Init => ProcessInv
BY DEF Init, ProcessInv, ProcessTypeOK, Lifecycle, UnsavedIsSilent, OpenAreCached, Phase, Idle

\* A handler that is at work finds the store open.
LEMMA HandlersFindStore ==
    ASSUME ProcessInv, main # "exited", NEW h \in Handler, handler[h] # "idle"
    PROVE  store = "open" /\ saved = ballot
BY DEF ProcessInv, ProcessTypeOK, Phase, Lifecycle, UnsavedIsSilent

\* The goroutines a broadcast makes.
LEMMA BroadcastType ==
    ASSUME NEW threads \in [Target -> [Slot -> [pc : {"idle", "lookup", "lock", "calling", "answered"},
                                                conn : Nat]]],
           broadcast(threads)
    PROVE  sender' \in [Target -> [Slot -> [pc : {"idle", "lookup", "lock", "calling", "answered"},
                                            conn : Nat]]]
BY DEF broadcast

\* What every step has to see to.
SafeStep == ProcessInv' /\ (Speaks => saved' = ballot')

USE ProcessAssumption

LEMMA MainKeeps ==
    ASSUME ProcessInv, OpenStore \/ Listen \/ StartDiscovery \/ Stop \/ Stopped \/ CloseStore \/ Exit
    PROVE  SafeStep
<1>1. UNCHANGED <<raftVars, connVars, sender, handler, signalled>>
  BY DEF OpenStore, Listen, StartDiscovery, Stop, Stopped, CloseStore, Exit
<1>2. ProcessTypeOK'
  BY <1>1 DEF ProcessInv, ProcessTypeOK, Phase, raftVars, connVars,
     OpenStore, Listen, StartDiscovery, Stop, Stopped, CloseStore, Exit
<1>3. Lifecycle'
  BY <1>1 DEF ProcessInv, ProcessTypeOK, Lifecycle,
     OpenStore, Listen, StartDiscovery, Stop, Stopped, CloseStore, Exit
<1>4. UnsavedIsSilent'
  BY <1>1 DEF ProcessInv, Lifecycle, UnsavedIsSilent, raftVars,
     OpenStore, Listen, StartDiscovery, Stop, Stopped, CloseStore, Exit
<1>5. OpenAreCached'
  BY <1>1 DEF ProcessInv, OpenAreCached, connVars
<1>6. ~Speaks
  BY <1>1 DEF Speaks
<1> QED
  BY <1>2, <1>3, <1>4, <1>5, <1>6 DEF SafeStep, ProcessInv

LEMMA CloseConnsKeeps ==
    ASSUME ProcessInv, CloseConns
    PROVE  SafeStep
<1>1. UNCHANGED <<store, server, raftVars, sender, handler, signalled>> /\ main = "closing" /\ main' = "storing"
  BY DEF CloseConns
<1>2. conns' = [t \in Target |-> 0] /\ open' = {} /\ dials' = dials
  BY DEF CloseConns, ProcessInv, OpenAreCached
<1>3. ProcessTypeOK'
  BY <1>1, <1>2 DEF ProcessInv, ProcessTypeOK, Phase, raftVars
<1>4. Lifecycle' /\ UnsavedIsSilent'
  BY <1>1 DEF ProcessInv, Lifecycle, UnsavedIsSilent, raftVars
<1>5. OpenAreCached'
  BY <1>2 DEF OpenAreCached
<1>6. ~Speaks
  BY <1>1 DEF Speaks
<1> QED
  BY <1>3, <1>4, <1>5, <1>6 DEF SafeStep, ProcessInv

LEMMA TickKeeps ==
    ASSUME ProcessInv, Tick
    PROVE  SafeStep
<1>1. UNCHANGED <<main, store, server, connVars, handler, signalled>> /\ main = "running"
  BY DEF Tick
<1>2. store = "open" /\ saved' = ballot'
  BY <1>1 DEF Tick, persistState, ProcessInv, Lifecycle
<1>3. ballot' \in Nat /\ saved' \in Nat /\ role' \in {"Follower", "Candidate", "Leader"}
  BY <1>2 DEF Tick, ProcessInv, ProcessTypeOK
<1>4. ProcessTypeOK'
  <2>1. sender' \in [Target -> [Slot -> [pc : {"idle", "lookup", "lock", "calling", "answered"},
                                         conn : Nat]]]
    BY BroadcastType DEF Tick, ProcessInv, ProcessTypeOK
  <2> QED BY <1>1, <1>3, <2>1 DEF ProcessInv, ProcessTypeOK, connVars
<1>5. Lifecycle' /\ UnsavedIsSilent'
  BY <1>1, <1>2 DEF ProcessInv, Lifecycle, UnsavedIsSilent
<1>6. OpenAreCached'
  BY <1>1 DEF ProcessInv, OpenAreCached, connVars
<1> QED
  BY <1>2, <1>4, <1>5, <1>6 DEF SafeStep, ProcessInv

LEMMA ReceiveKeeps ==
    ASSUME ProcessInv, NEW h \in Handler, ReceiveRPC(h)
    PROVE  SafeStep
<1>1. /\ UNCHANGED <<main, store, server, raftVars, connVars, sender, signalled>>
      /\ handler' = [handler EXCEPT ![h] = "arrived"] /\ server = "serving" /\ handler[h] = "idle"
  BY DEF ReceiveRPC
<1>2. ProcessTypeOK'
  BY <1>1 DEF ProcessInv, ProcessTypeOK, raftVars, connVars
<1>3. Lifecycle' /\ UnsavedIsSilent'
  BY <1>1 DEF ProcessInv, Lifecycle, UnsavedIsSilent, raftVars
<1>4. OpenAreCached'
  BY <1>1 DEF ProcessInv, OpenAreCached, connVars
<1>5. ~Speaks
  BY <1>1 DEF Speaks, ProcessInv, ProcessTypeOK
<1> QED
  BY <1>2, <1>3, <1>4, <1>5 DEF SafeStep, ProcessInv

\* Whatever a handler does, it finds the store open and leaves term and vote saved.
LEMMA ServeKeeps ==
    ASSUME ProcessInv, NEW h \in Handler, Serve(h)
    PROVE  SafeStep
<1>1. /\ UNCHANGED <<main, store, server, connVars>> /\ main # "exited" /\ handler[h] # "idle"
      /\ handler' = [handler EXCEPT ![h] = "idle"] \/ handler' = [handler EXCEPT ![h] = "waiting"]
  BY DEF Serve, HandleConsensus, HandlePropose, AnswerAtOnce, EndPropose, GiveUp, answerProposal
<1>2. store = "open" /\ saved = ballot
  BY <1>1, HandlersFindStore
<1>3. ballot' \in Nat /\ saved' = ballot' /\ role' \in {"Follower", "Candidate", "Leader"}
  BY <1>2 DEF Serve, HandleConsensus, HandlePropose, AnswerAtOnce, EndPropose, GiveUp,
     answerProposal, StepChanges, persistState, raftVars, ProcessInv, ProcessTypeOK
<1>4. signalled' \subseteq Handler
  BY DEF Serve, HandleConsensus, HandlePropose, AnswerAtOnce, EndPropose, GiveUp,
     answerProposal, applyCommitted, ProcessInv, ProcessTypeOK
<1>5. sender' \in [Target -> [Slot -> [pc : {"idle", "lookup", "lock", "calling", "answered"},
                                       conn : Nat]]]
  BY BroadcastType DEF Serve, HandleConsensus, HandlePropose, AnswerAtOnce, EndPropose, GiveUp,
     answerProposal, ProcessInv, ProcessTypeOK
<1>6. ProcessTypeOK'
  BY <1>1, <1>3, <1>4, <1>5 DEF ProcessInv, ProcessTypeOK, connVars
<1>7. Lifecycle'
  BY <1>1 DEF ProcessInv, ProcessTypeOK, Lifecycle
<1>8. UnsavedIsSilent' /\ OpenAreCached'
  BY <1>1, <1>3 DEF ProcessInv, UnsavedIsSilent, OpenAreCached, connVars
<1> QED
  BY <1>3, <1>6, <1>7, <1>8 DEF SafeStep, ProcessInv
LEMMA ProceedKeeps ==
    ASSUME ProcessInv, NEW t \in Target, NEW s \in Slot, Lookup(t, s) \/ CallFails(t, s) \/ Answer(t, s)
    PROVE  SafeStep
<1>1. /\ UNCHANGED <<main, store, server, raftVars, connVars, handler, signalled>>
      /\ main # "exited" /\ sender[t][s].pc # "idle"
  BY DEF Lookup, CallFails, Answer, at
<1>2. PICK n \in [pc : {"idle", "lock", "calling", "answered"}, conn : Nat] :
          sender' = [sender EXCEPT ![t][s] = n]
  <2>1. CASE Lookup(t, s)
    BY <2>1 DEF Lookup, goes, ProcessInv, ProcessTypeOK
  <2>2. CASE CallFails(t, s)
    BY <2>2 DEF CallFails, Idle
  <2>3. CASE Answer(t, s)
    <3>1. PICK c \in Nat : c = sender[t][s].conn
      BY DEF ProcessInv, ProcessTypeOK
    <3> QED BY <2>3, <3>1 DEF Answer, goes
  <2> QED BY <2>1, <2>2, <2>3
<1>3. ProcessTypeOK'
  BY <1>1, <1>2 DEF ProcessInv, ProcessTypeOK, raftVars, connVars
<1>4. main # "start"
  BY <1>1 DEF ProcessInv, Lifecycle, Idle
<1>5. Lifecycle' /\ UnsavedIsSilent'
  BY <1>1, <1>4 DEF ProcessInv, Lifecycle, UnsavedIsSilent, raftVars
<1>6. OpenAreCached'
  BY <1>1 DEF ProcessInv, OpenAreCached, connVars
<1>7. ~Speaks
  BY <1>1, <1>2 DEF Speaks, ProcessInv, ProcessTypeOK
<1> QED
  BY <1>3, <1>5, <1>6, <1>7 DEF SafeStep, ProcessInv

\* A connection is made only where none is cached, and the cache then has it.
LEMMA DialKeeps ==
    ASSUME ProcessInv, NEW t \in Target, NEW s \in Slot, Dial(t, s)
    PROVE  SafeStep
<1>1. /\ UNCHANGED <<main, store, server, raftVars, handler, signalled>>
      /\ main # "exited" /\ sender[t][s].pc # "idle"
  BY DEF Dial, at
<1>2. PICK n \in [pc : {"idle", "calling"}, conn : Nat] : sender' = [sender EXCEPT ![t][s] = n]
  <2>1. conns[t] \in Nat /\ dials[t] + 1 \in Nat
    BY DEF ProcessInv, ProcessTypeOK
  <2>2. \/ goes(t, s, "calling", conns[t]) \/ goes(t, s, "calling", dials[t] + 1)
        \/ sender' = [sender EXCEPT ![t][s] = Idle]
    BY DEF Dial, dial, dialFails
  <2> QED BY <2>1, <2>2 DEF goes, Idle
<1>3. \/ UNCHANGED connVars
      \/ \E k \in Nat : /\ k # 0 /\ conns[t] = 0 /\ dials' = [dials EXCEPT ![t] = k]
                        /\ conns' = [conns EXCEPT ![t] = k] /\ open' = open \cup {<<t, k>>}
  <2>1. dials[t] + 1 \in Nat /\ dials[t] + 1 # 0
    BY DEF ProcessInv, ProcessTypeOK
  <2> QED BY <2>1 DEF Dial, dial, dialFails
<1>4. ProcessTypeOK'
  BY <1>1, <1>2, <1>3 DEF ProcessInv, ProcessTypeOK, raftVars, connVars
<1>5. main # "start"
  BY <1>1 DEF ProcessInv, Lifecycle, Idle
<1>6. Lifecycle' /\ UnsavedIsSilent'
  BY <1>1, <1>5 DEF ProcessInv, Lifecycle, UnsavedIsSilent, raftVars
<1>7. OpenAreCached'
  <2>1. CASE UNCHANGED connVars
    BY <2>1 DEF ProcessInv, OpenAreCached, connVars
  <2>2. ASSUME NEW k \in Nat, k # 0, conns[t] = 0, conns' = [conns EXCEPT ![t] = k],
               open' = open \cup {<<t, k>>}
        PROVE  OpenAreCached'
    <3>1. conns'[t] = k /\ \A u \in Target \ {t} : conns'[u] = conns[u]
      BY <2>2 DEF ProcessInv, ProcessTypeOK
    <3> QED BY <2>2, <3>1 DEF ProcessInv, OpenAreCached
  <2> QED BY <1>3, <2>1, <2>2
<1>8. ~Speaks
  BY <1>1, <1>2 DEF Speaks, ProcessInv, ProcessTypeOK
<1> QED
  BY <1>4, <1>6, <1>7, <1>8 DEF SafeStep, ProcessInv

\* An answer may come when the store is closed: it can only silence the node.
LEMMA StepAnswerKeeps ==
    ASSUME ProcessInv, NEW t \in Target, NEW s \in Slot, StepAnswer(t, s)
    PROVE  SafeStep
<1> DEFINE rest == [sender EXCEPT ![t][s] = Idle]
<1>1. /\ UNCHANGED <<main, store, server, connVars, handler>>
      /\ main # "exited" /\ sender[t][s].pc # "idle"
      /\ saved' = IF store = "open" THEN ballot' ELSE saved
  BY DEF StepAnswer, at, persistState
<1>2. main # "start" /\ store \in {"open", "closed"}
  BY <1>1 DEF ProcessInv, ProcessTypeOK, Phase, Lifecycle, Idle
<1>3. rest \in [Target -> [Slot -> [pc : {"idle", "lookup", "lock", "calling", "answered"},
                                    conn : Nat]]]
  BY DEF ProcessInv, ProcessTypeOK, Idle
<1>4. \/ StepChanges /\ sender' = rest /\ UNCHANGED signalled
      \/ /\ UNCHANGED <<ballot, role>> /\ sender' = rest
         /\ applyCommitted \/ UNCHANGED signalled
      \/ /\ role = "Candidate" /\ role' = "Leader" /\ broadcast(rest)
         /\ UNCHANGED <<ballot, signalled>>
  BY DEF StepAnswer
<1>5. sender' = rest => \A u \in Target, v \in Slot :
                            sender'[u][v].pc = "lookup" => sender[u][v].pc = "lookup"
  BY DEF Idle, ProcessInv, ProcessTypeOK
<1> HIDE DEF rest
<1>6. /\ ballot' \in Nat /\ saved' \in Nat /\ role' \in {"Follower", "Candidate", "Leader"}
      /\ signalled' \subseteq Handler
  BY <1>1, <1>4 DEF StepChanges, applyCommitted, ProcessInv, ProcessTypeOK
<1>7. sender' \in [Target -> [Slot -> [pc : {"idle", "lookup", "lock", "calling", "answered"},
                                       conn : Nat]]]
  BY <1>3, <1>4, BroadcastType
<1>8. ProcessTypeOK'
  BY <1>1, <1>6, <1>7 DEF ProcessInv, ProcessTypeOK, connVars
<1>9. Lifecycle'
  BY <1>1, <1>2 DEF ProcessInv, Lifecycle
<1>10. UnsavedIsSilent'
  BY <1>1, <1>2, <1>4 DEF ProcessInv, UnsavedIsSilent, StepChanges
<1>11. OpenAreCached'
  BY <1>1 DEF ProcessInv, OpenAreCached, connVars
<1>12. Speaks => saved' = ballot'
  <2>1. CASE sender' = rest
    BY <1>1, <1>5, <2>1 DEF Speaks
  <2>2. CASE role = "Candidate" /\ UNCHANGED ballot
    BY <1>1, <2>2 DEF ProcessInv, UnsavedIsSilent
  <2> QED BY <1>4, <2>1, <2>2
<1> QED
  BY <1>8, <1>9, <1>10, <1>11, <1>12 DEF SafeStep, ProcessInv

LEMMA NextProcess ==
    ASSUME ProcessInv, [Next]_vars
    PROVE  ProcessInv' /\ [Speaks => saved' = ballot']_vars
<1>1. CASE MainStep
  BY <1>1, MainKeeps, CloseConnsKeeps, TickKeeps DEF MainStep, SafeStep
<1>2. ASSUME NEW h \in Handler, ReceiveRPC(h) \/ Serve(h)
      PROVE  SafeStep
  BY <1>2, ReceiveKeeps, ServeKeeps
<1>3. ASSUME NEW t \in Target, NEW s \in Slot, Proceed(t, s) \/ Answer(t, s)
      PROVE  SafeStep
  BY <1>3, ProceedKeeps, DialKeeps, StepAnswerKeeps DEF Proceed
<1>4. CASE UNCHANGED vars
  BY <1>4 DEF vars, raftVars, connVars, ProcessInv, ProcessTypeOK, Lifecycle, UnsavedIsSilent,
     OpenAreCached
<1> QED
  BY <1>1, <1>2, <1>3, <1>4 DEF Next, SafeStep

\* For any number of peers, goroutines and RPCs: the connections that are open are those
\* in the cache, and the store stays open while a handler is at work.
THEOREM ProcessSafe == Spec => [](OpenAreCached /\ StoreOutlivesHandlers)
<1>1. ProcessInv => OpenAreCached /\ StoreOutlivesHandlers
  BY DEF ProcessInv, ProcessTypeOK, Phase, Lifecycle, StoreOutlivesHandlers
<1> QED
  BY <1>1, InitProcess, NextProcess, PTL DEF Spec

\* Likewise nothing is said to another node before term and vote are saved, whenever the
\* process is told to stop.
THEOREM SpeaksOnlySaved == Spec => SavedBeforeSent
BY InitProcess, NextProcess, PTL DEF Spec, SavedBeforeSent
=============================================================================
