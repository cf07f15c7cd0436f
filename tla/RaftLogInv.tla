----------------------------- MODULE RaftLogInv -----------------------------
(***************************************************************************)
(* Why two logs with an entry of the same index and term are the same up   *)
(* to it.                                                                  *)
(*                                                                         *)
(* A fragment is what a log or an AppendEntries in flight tells of the     *)
(* entries from some index on.  A follower joins a fragment to its log     *)
(* when the term at the seam agrees, so the invariant compares fragments   *)
(* with each other, not just logs.  It does not say that a node keeps its  *)
(* log: a restart empties it, and what was said in flight stays true.      *)
(***************************************************************************)
EXTENDS RaftElection

Fragment == [prev : Nat, prevTerm : Nat, entries : Log]

logFragment(log) == [prev |-> 0, prevTerm |-> 0, entries |-> log]

msgFragment(m) ==
    [prev |-> m.prevLogIndex, prevTerm |-> m.prevLogTerm, entries |-> m.entries]

Sent == {m \in BagToSet(msgs) : m.type = "AppendEntries"}

Fragments == {logFragment(raft[i].log) : i \in Node} \cup {msgFragment(m) : m \in Sent}

\* The indices F has entries for, and the entry at one of them.
Indices(F) == F.prev + 1 .. F.prev + Len(F.entries)

At(F, q) == F.entries[q - F.prev]

\* The term F tells for index q: of an entry, or of the one before the first.
TermAt(F, q) == IF q = F.prev THEN F.prevTerm ELSE At(F, q).term

\* Where two fragments have an entry of the same term, they have the same entry, and
\* tell the same terms below it.
Agree(F, G) ==
    \A q \in Indices(F) \cap Indices(G) :
        At(F, q).term = At(G, q).term =>
            /\ At(F, q) = At(G, q)
            /\ \A p \in F.prev .. q - 1 : p >= G.prev => TermAt(F, p) = TermAt(G, p)

FragmentsAgree == \A F, G \in Fragments : Agree(F, G)

\* The sentinel has term 0.
Rooted == \A F \in Fragments : F.prev = 0 => F.prevTerm = 0

\* Only the leader of a term makes entries of it.
TermsElected ==
    \A F \in Fragments : \A q \in Indices(F) :
        \E l \in Node : [leader |-> l, term |-> At(F, q).term] \in elected

\* Nobody has an entry of a leader's term beyond the end of the leader's log.
LeadersHaveAll ==
    \A i \in Node : raft[i].state = "Leader" =>
        \A F \in Fragments : \A q \in Indices(F) :
            At(F, q).term = raft[i].currentTerm => q <= Len(raft[i].log)

\* A candidate has not yet won its term.
WonOnce ==
    \A i \in Node : raft[i].state = "Candidate" =>
        [leader |-> i, term |-> raft[i].currentTerm] \notin elected

\* A leader never sends the sentinel.
NextIndexPositive ==
    \A i \in Node : raft[i].state = "Leader" =>
        \A p \in Node \ {i} : raft[i].nextIndex[p] >= 1

\* Nothing is ever written to a store but term and vote.
LogNotStored == \A i \in Node : disk[i].log = <<>>

\* The inductive invariant behind LogMatching: logs and the entries in flight agree, and
\* the leader of a term is the only source of its entries (becomeLeader, Propose,
\* broadcastHeartbeat, handleAppendEntries).
LogInv ==
    /\ FragmentsAgree /\ Rooted /\ TermsElected /\ LeadersHaveAll
    /\ WonOnce /\ NextIndexPositive /\ LogNotStored
=============================================================================
