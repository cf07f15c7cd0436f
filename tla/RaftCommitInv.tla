---------------------------- MODULE RaftCommitInv ----------------------------
(***************************************************************************)
(* Why a committed entry is never lost while no node loses its log.        *)
(*                                                                         *)
(* The code commits on answers that may be old: when the leader counts an  *)
(* answer, the node that gave it may have left the term, voted for another *)
(* candidate and even dropped the entry.  So the invariant does not say    *)
(* who has an entry.  It orders logs as isLogUpToDate does, by last term   *)
(* and length, and says what never changes: a node's log only moves up in  *)
(* this order, and a node that has answered for (t, k) votes, later, only  *)
(* for logs that are not below (t, k).                                     *)
(***************************************************************************)
EXTENDS RaftLogInv

\* The indices whose terms F tells.
Span(F) == F.prev .. F.prev + Len(F.entries)

Ascending(F) == \A p, q \in Span(F) : p <= q => TermAt(F, p) <= TermAt(F, q)

\* The entries of one term follow one another: where F has one and G has one later,
\* all G tells of in between are of that term.
OneRun(F, G) ==
    \A p \in Indices(F), q \in Indices(G) :
        p <= q /\ At(F, p).term = At(G, q).term =>
            \A x \in Span(G) : p <= x /\ x <= q => TermAt(G, x) = At(G, q).term

\* Where a term begins in F, and the index and term of the entry before it.
StartsOf(F) ==
    {[term |-> At(F, q).term, on |-> TermAt(F, q - 1), at |-> q - 1] :
        q \in {x \in Indices(F) : TermAt(F, x - 1) < At(F, x).term}}

Starts == UNION {StartsOf(F) : F \in Fragments}

\* A log that ends in (t, n) is not below one that ends in (u, k).
AtLeast(t, n, u, k) == t > u \/ (t = u /\ n >= k)

LogReaches(log, t, k) == AtLeast(lastLogTerm(log), Len(log), t, k)

Leads(i, t) == raft[i].state = "Leader" /\ raft[i].currentTerm = t

-----------------------------------------------------------------------------
(* Votes and answers *)

\* The log with which c stands for term u, or on which it began to lead in it, is not
\* below (t, k).
StandsOn(c, u, t, k) ==
    /\ raft[c].state = "Candidate" /\ raft[c].currentTerm = u => LogReaches(raft[c].log, t, k)
    /\ [leader |-> c, term |-> u] \in elected =>
           \A b \in Starts : b.term = u => AtLeast(b.on, b.at, t, k)

\* What v's answer for (t, k) is worth for ever.
Backs(v, t, k) ==
    /\ raft[v].currentTerm >= t
    /\ LogReaches(raft[v].log, t, k)
    /\ \A x \in cast : x.voter = v /\ x.term > t => StandsOn(x.candidate, x.term, t, k)

\* The entry of term t at index k is committed, whether anybody knows it or not.
Chosen(t, k) ==
    /\ \E j \in Node : k \in DOMAIN raft[j].log /\ raft[j].log[k].term = t
    /\ \E V \in SUBSET Node : IsMajority(V) /\ \A v \in V : Backs(v, t, k)

-----------------------------------------------------------------------------
(* The invariant *)

TermsAscend == \A F \in Fragments : Ascending(F)

RunsMeet == \A F, G \in Fragments : OneRun(F, G)

\* A leader's last entry is of its term; nobody's is of a term it has not reached.
LogTails ==
    \A i \in Node :
        /\ lastLogTerm(raft[i].log) <= raft[i].currentTerm
        /\ raft[i].state = "Leader" =>
               Len(raft[i].log) >= 1 /\ lastLogTerm(raft[i].log) = raft[i].currentTerm

sentEnd(m) == m.prevLogIndex + Len(m.entries)

\* An AppendEntries goes to the end of its leader's log as it was then.
SentTails ==
    \A m \in Sent :
        /\ sentEnd(m) >= 1 /\ TermAt(msgFragment(m), sentEnd(m)) = m.term
        /\ Leads(m.from, m.term) => sentEnd(m) <= Len(raft[m.from].log)

\* Nobody votes, or is asked to vote, for a candidate in a term it has not reached.
VotesAsked ==
    /\ \A x \in cast : raft[x.candidate].currentTerm >= x.term
    /\ \A m \in BagToSet(msgs) :
           m.type = "RequestVote" =>
               /\ raft[m.from].currentTerm >= m.term
               /\ StandsOn(m.from, m.term, m.lastLogTerm, m.lastLogIndex)

\* What leader i of term t may book for node p.
Bookable(i, p, t, k) ==
    /\ Backs(p, t, k)
    /\ Leads(i, t) => k \in DOMAIN raft[i].log /\ raft[i].log[k].term = t

AnswersTrue ==
    \A m \in BagToSet(msgs) :
        m.type = "AppendEntriesResp" =>
            /\ m.index > 0 => [leader |-> m.to, term |-> m.term] \in elected
            /\ Leads(m.to, m.term) => m.index <= Len(raft[m.to].log)
            /\ ~m.reject => m.index > 0 /\ Bookable(m.to, m.from, m.term, m.index)

BooksTrue ==
    \A i \in Node : raft[i].state = "Leader" =>
        \A p \in Node \ {i} :
            raft[i].matchIndex[p] > 0 =>
                Bookable(i, p, raft[i].currentTerm, raft[i].matchIndex[p])

\* Everything up to index k of a log not below (t, n) is committed.
Covered(k, t, n) ==
    \E j \in Node : \E x \in DOMAIN raft[j].log :
        /\ k <= x /\ Chosen(raft[j].log[x].term, x)
        /\ AtLeast(t, n, raft[j].log[x].term, x)

CommitsChosen ==
    \A i \in Node :
        /\ raft[i].lastApplied <= raft[i].commitIndex
        /\ raft[i].commitIndex > 0 =>
               Covered(raft[i].commitIndex, lastLogTerm(raft[i].log), Len(raft[i].log))

SentChosen ==
    \A m \in Sent : m.leaderCommit > 0 => Covered(m.leaderCommit, m.term, sentEnd(m))

AppliedChosen ==
    \A a \in applied :
        \E i \in Node :
            /\ a.index \in DOMAIN raft[i].log /\ raft[i].log[a.index] = a.entry
            /\ Covered(a.index, lastLogTerm(raft[i].log), Len(raft[i].log))

\* The inductive invariant behind LeaderCompleteness, StateMachineSafety and what goes
\* with them, while no node restarts: votes, answers and commit indices, in the state
\* and in flight (handleRequestVote, handleAppendEntries, handleAppendEntriesResp,
\* maybeAdvanceCommit, becomeLeader).
CommitInv ==
    /\ TermsAscend /\ RunsMeet /\ LogTails /\ SentTails /\ NextIndexInRange
    /\ VotesAsked /\ AnswersTrue /\ BooksTrue
    /\ CommitsChosen /\ SentChosen /\ AppliedChosen
=============================================================================
