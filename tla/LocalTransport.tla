--------------------------- MODULE LocalTransport ---------------------------
(***************************************************************************)
(* The in-memory transport of the tests, network/local.go, with the entry  *)
(* pool of network/pool.go: several goroutines send, receive, cut links,   *)
(* reset and close transports at the same time.                            *)
(*                                                                         *)
(* A step is what happens under one lock, one atomic operation or one      *)
(* operation on a channel.  The steps of Send that touch only the new copy *)
(* of the entry go with the lookup of the peer.                            *)
(*                                                                         *)
(* A message carries, as a history, what its sender passed to Send.  The   *)
(* pool holds every entry nobody has leased, the ones that sync.Pool has   *)
(* yet to make included.                                                   *)
(***************************************************************************)
EXTENDS Integers, Sequences, FiniteSets

CONSTANTS
    Addr,       \* the transports
    Thread,     \* the goroutines that call Send
    Operator,   \* the goroutines that call everything else
    LogEntry,   \* bound: the pooled entries
    Data,       \* what an entry can hold
    Zero,       \* what a reset entry holds
    InboxSize   \* defaultInboxSize

ASSUME TransportAssumption == InboxSize \in Nat \ {0} /\ Zero \notin Data

VARIABLES
    inbox,        \* inbox[a]: the channel of transport a
    done,         \* done[a]: that channel has been closed
    closed,       \* closed[a]: the flag of transport a
    peers,        \* peers[a]: whom a can reach
    partitioned,  \* partitioned[a]: whom a must not reach
    send,         \* send[g]: the call of Send that goroutine g is in
    op,           \* op[o]: what goroutine o has still to do
    held,         \* the messages receivers have taken and not yet released
    pool,         \* the entries nobody has leased
    content,      \* content[e]: what entry e holds
    panicked      \* a goroutine has sent on a closed channel: the process is gone

linkVars == <<closed, peers, partitioned>>
entryVars == <<held, pool, content>>
vars == <<inbox, done, linkVars, send, op, entryVars, panicked>>

Idle == [pc |-> "idle"]

Message == [from : Addr, entry : LogEntry, sent : Data]

\* Every variable has the type of what it stands for; a channel is never overfull.
TransportTypeOK ==
    /\ \A a \in Addr : inbox[a] \in Seq(Message) /\ Len(inbox[a]) <= InboxSize
    /\ done \in [Addr -> BOOLEAN] /\ closed \in [Addr -> BOOLEAN]
    /\ peers \in [Addr -> SUBSET Addr] /\ partitioned \in [Addr -> SUBSET Addr]
    /\ \A g \in Thread : send[g].pc \in {"idle", "begun", "passed", "select"}
    /\ held \subseteq Addr \X Message
    /\ pool \subseteq LogEntry
    /\ content \in [LogEntry -> Data \cup {Zero}]
    /\ panicked \in BOOLEAN

-----------------------------------------------------------------------------
(* The pool *)

AcquireEntry(e, data) ==
    /\ e \in pool
    /\ pool' = pool \ {e}
    /\ content' = [content EXCEPT ![e] = data]

ReleaseEntry(e) ==
    /\ pool' = pool \cup {e}
    /\ content' = [content EXCEPT ![e] = Zero]

-----------------------------------------------------------------------------
(* Send *)

returns(g) == send' = [send EXCEPT ![g] = Idle]

\* Send is called and reads the closed flag; a closed transport returns an error.
BeginSend(g) ==
    /\ ~panicked /\ send[g].pc = "idle"
    /\ \E a, b \in Addr, data \in Data :
           /\ a # b /\ ~closed[a]
           /\ send' = [send EXCEPT ![g] = [pc |-> "begun", from |-> a, to |-> b, data |-> data]]
    /\ UNCHANGED <<inbox, done, linkVars, op, entryVars, panicked>>

\* The look at the partitions.
CheckPartition(g) ==
    /\ ~panicked /\ send[g].pc = "begun"
    /\ IF send[g].to \in partitioned[send[g].from] THEN returns(g)
       ELSE send' = [send EXCEPT ![g].pc = "passed"]
    /\ UNCHANGED <<inbox, done, linkVars, op, entryVars, panicked>>

\* The lookup of the peer, and the copy.
ResolvePeer(g) ==
    LET call == send[g]
    IN  /\ ~panicked /\ call.pc = "passed"
        /\ \/ /\ call.to \notin peers[call.from]
              /\ returns(g)
              /\ UNCHANGED <<pool, content>>
           \/ /\ call.to \in peers[call.from]
              /\ \E e \in LogEntry :
                     /\ AcquireEntry(e, call.data)
                     /\ send' = [send EXCEPT ![g] =
                            [pc |-> "select", from |-> call.from, to |-> call.to,
                             data |-> call.data, clone |-> e]]
        /\ UNCHANGED <<inbox, done, linkVars, op, held, panicked>>

message(call) == [from |-> call.from, entry |-> call.clone, sent |-> call.data]

\* Mutant: the copy goes back to the pool as soon as it is in the inbox.
DeliverAndRelease(g) ==
    /\ ~panicked /\ send[g].pc = "select"
    /\ ~done[send[g].to] /\ Len(inbox[send[g].to]) < InboxSize
    /\ inbox' = [inbox EXCEPT ![send[g].to] = Append(@, message(send[g]))]
    /\ ReleaseEntry(send[g].clone)
    /\ returns(g)
    /\ UNCHANGED <<done, linkVars, op, held, panicked>>

\* Mutant: the inbox is a list, and takes every message.
DeliverUnbounded(g) ==
    /\ ~panicked /\ send[g].pc = "select" /\ ~done[send[g].to]
    /\ inbox' = [inbox EXCEPT ![send[g].to] = Append(@, message(send[g]))]
    /\ returns(g)
    /\ UNCHANGED <<done, linkVars, op, entryVars, panicked>>

\* case peer.inbox <- msg, while there is room.
Deliver(g) ==
    /\ ~panicked /\ send[g].pc = "select"
    /\ ~done[send[g].to] /\ Len(inbox[send[g].to]) < InboxSize
    /\ inbox' = [inbox EXCEPT ![send[g].to] = Append(@, message(send[g]))]
    /\ returns(g)
    /\ UNCHANGED <<done, linkVars, op, entryVars, panicked>>

\* The same case on a channel its owner has closed: only the sender's own flag was read.
Panic(g) ==
    /\ ~panicked /\ send[g].pc = "select" /\ done[send[g].to]
    /\ panicked' = TRUE
    /\ UNCHANGED <<inbox, done, linkVars, send, op, entryVars>>

\* Mutant: the copy is forgotten.
CancelWithoutRelease(g) ==
    /\ ~panicked /\ send[g].pc = "select"
    /\ returns(g)
    /\ UNCHANGED <<inbox, done, linkVars, op, entryVars, panicked>>

\* Mutant: only a closed channel ends the call, not its context.
CancelNever(g) ==
    /\ ~panicked /\ send[g].pc = "select" /\ done[send[g].to]
    /\ ReleaseEntry(send[g].clone)
    /\ returns(g)
    /\ UNCHANGED <<inbox, done, linkVars, op, held, panicked>>

\* case <-ctx.Done().
Cancel(g) ==
    /\ ~panicked /\ send[g].pc = "select"
    /\ ReleaseEntry(send[g].clone)
    /\ returns(g)
    /\ UNCHANGED <<inbox, done, linkVars, op, held, panicked>>

-----------------------------------------------------------------------------
(* Receivers *)

\* <-Consume(): what was sent before Close is received after it.
Receive(a) ==
    /\ ~panicked /\ inbox[a] # <<>>
    /\ held' = held \cup {<<a, Head(inbox[a])>>}
    /\ inbox' = [inbox EXCEPT ![a] = Tail(@)]
    /\ UNCHANGED <<done, linkVars, send, op, pool, content, panicked>>

\* A receiver has done with a message.
Release(x) ==
    /\ ~panicked /\ x \in held
    /\ held' = held \ {x}
    /\ ReleaseEntry(x[2].entry)
    /\ UNCHANGED <<inbox, done, linkVars, send, op, panicked>>

-----------------------------------------------------------------------------
(* Connect, Disconnect, Partition, Heal, Close and Reset *)

free(o) == ~panicked /\ op[o].pc = "idle"

\* Connect and Disconnect change one side, then the other.
Connect(o, a, b) ==
    /\ free(o)
    /\ peers' = [peers EXCEPT ![a] = @ \cup {b}]
    /\ op' = [op EXCEPT ![o] = [pc |-> "connect", at |-> b, other |-> a]]
    /\ UNCHANGED <<inbox, done, closed, partitioned, send, entryVars, panicked>>

Disconnect(o, a, b) ==
    /\ free(o)
    /\ peers' = [peers EXCEPT ![a] = @ \ {b}]
    /\ op' = [op EXCEPT ![o] = [pc |-> "disconnect", at |-> b, other |-> a]]
    /\ UNCHANGED <<inbox, done, closed, partitioned, send, entryVars, panicked>>

OtherSide(o) ==
    /\ ~panicked /\ op[o].pc \in {"connect", "disconnect"}
    /\ peers' = [peers EXCEPT ![op[o].at] = IF op[o].pc = "connect" THEN @ \cup {op[o].other}
                                            ELSE @ \ {op[o].other}]
    /\ op' = [op EXCEPT ![o] = Idle]
    /\ UNCHANGED <<inbox, done, closed, partitioned, send, entryVars, panicked>>

Partition(o, a, b) ==
    /\ free(o)
    /\ partitioned' = [partitioned EXCEPT ![a] = @ \cup {b}]
    /\ UNCHANGED <<inbox, done, closed, peers, send, op, entryVars, panicked>>

Heal(o, a, b) ==
    /\ free(o)
    /\ partitioned' = [partitioned EXCEPT ![a] = @ \ {b}]
    /\ UNCHANGED <<inbox, done, closed, peers, send, op, entryVars, panicked>>

\* Close takes the flag, once, and then closes the channel.
Close(o, a) ==
    /\ free(o) /\ ~closed[a]
    /\ closed' = [closed EXCEPT ![a] = TRUE]
    /\ op' = [op EXCEPT ![o] = [pc |-> "close", at |-> a]]
    /\ UNCHANGED <<inbox, done, peers, partitioned, send, entryVars, panicked>>

CloseInbox(o) ==
    /\ ~panicked /\ op[o].pc = "close"
    /\ done' = [done EXCEPT ![op[o].at] = TRUE]
    /\ op' = [op EXCEPT ![o] = Idle]
    /\ UNCHANGED <<inbox, linkVars, send, entryVars, panicked>>

\* Reset forgets the peers, then the partitions, then takes from the inbox until it
\* finds it empty.
Reset(o, a) ==
    /\ free(o)
    /\ peers' = [peers EXCEPT ![a] = {}]
    /\ op' = [op EXCEPT ![o] = [pc |-> "heal", at |-> a]]
    /\ UNCHANGED <<inbox, done, closed, partitioned, send, entryVars, panicked>>

ResetPartitions(o) ==
    /\ ~panicked /\ op[o].pc = "heal"
    /\ partitioned' = [partitioned EXCEPT ![op[o].at] = {}]
    /\ op' = [op EXCEPT ![o].pc = "drain"]
    /\ UNCHANGED <<inbox, done, closed, peers, send, entryVars, panicked>>

Drain(o) ==
    LET a == op[o].at
    IN  /\ ~panicked /\ op[o].pc = "drain"
        /\ \/ /\ inbox[a] # <<>>
              /\ ReleaseEntry(Head(inbox[a]).entry)
              /\ inbox' = [inbox EXCEPT ![a] = Tail(@)]
              /\ UNCHANGED op
           \/ /\ inbox[a] = <<>>
              /\ op' = [op EXCEPT ![o] = Idle]
              /\ UNCHANGED <<inbox, pool, content>>
        /\ UNCHANGED <<done, linkVars, send, held, panicked>>

-----------------------------------------------------------------------------
(* The specification *)

Init ==
    /\ inbox = [a \in Addr |-> <<>>]
    /\ done = [a \in Addr |-> FALSE] /\ closed = [a \in Addr |-> FALSE]
    /\ peers = [a \in Addr |-> {}] /\ partitioned = [a \in Addr |-> {}]
    /\ send = [g \in Thread |-> Idle] /\ op = [o \in Operator |-> Idle]
    /\ held = {} /\ pool = LogEntry /\ content = [e \in LogEntry |-> Zero]
    /\ panicked = FALSE

SendStep(g) == CheckPartition(g) \/ ResolvePeer(g) \/ Deliver(g) \/ Panic(g) \/ Cancel(g)

Operate(o) ==
    \/ \E a \in Addr : \/ Close(o, a) \/ Reset(o, a)
                       \/ \E b \in Addr \ {a} : \/ Connect(o, a, b) \/ Disconnect(o, a, b)
                                                \/ Partition(o, a, b) \/ Heal(o, a, b)
    \/ OtherSide(o) \/ CloseInbox(o) \/ ResetPartitions(o) \/ Drain(o)

Next ==
    \/ \E g \in Thread : BeginSend(g) \/ SendStep(g)
    \/ \E a \in Addr : Receive(a)
    \/ \E x \in held : Release(x)
    \/ \E o \in Operator : Operate(o)

Spec == Init /\ [][Next]_vars

\* A goroutine inside Send goes on, and its context ends some day.  Nobody has to
\* receive.
FairSpec == Spec /\ \A g \in Thread : WF_vars(SendStep(g))

-----------------------------------------------------------------------------
(* Properties *)

\* The entries that goroutine g, the inbox of a, or a receiver has leased.
SendOwns(g) == IF send[g].pc = "select" THEN {send[g].clone} ELSE {}
InboxOwns(a) == {inbox[a][k].entry : k \in DOMAIN inbox[a]}
HeldOwns == {x[2].entry : x \in held}

\* Every pooled entry has exactly one owner at any time: the pool, a call of Send, one
\* place in one inbox, or one receiver.  So no entry is leased twice and none is lost,
\* whatever Reset, Close and an ended context do to the message it is in (Send, Reset,
\* AcquireEntry, ReleaseEntry).
OneOwner ==
    \A e \in LogEntry :
        LET places == (IF e \in pool THEN {<<"pool">>} ELSE {})
                      \cup {<<"send", g>> : g \in {h \in Thread : e \in SendOwns(h)}}
                      \cup {<<"inbox", a, k>> : <<a, k>> \in
                               {x \in Addr \X (1 .. InboxSize) :
                                   x[2] <= Len(inbox[x[1]]) /\ inbox[x[1]][x[2]].entry = e}}
                      \cup {<<"held", x>> : x \in {y \in held : y[2].entry = e}}
        IN  Cardinality(places) = 1

\* A message holds what was sent until its receiver releases it, and the pool holds
\* only reset entries (the copy in Send, ReleaseEntry).
Intact ==
    /\ \A a \in Addr : \A k \in DOMAIN inbox[a] : content[inbox[a][k].entry] = inbox[a][k].sent
    /\ \A x \in held : content[x[2].entry] = x[2].sent
    /\ \A e \in pool : content[e] = Zero

\* A call of Send that waits ends when its context does, also on an inbox that stays
\* full, unless the receiver's Close has ended the process (the select of Send).
SendEnds ==
    \A g \in Thread : send[g].pc = "select" ~> send[g].pc = "idle" \/ panicked
=============================================================================
