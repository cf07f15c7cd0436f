------------------------------- MODULE RaftLog -------------------------------
(***************************************************************************)
(* The replicated log of raft/raft.go and the pure functions over it.      *)
(*                                                                         *)
(* A log is the sequence of entries after the sentinel that NewRaft puts   *)
(* at index 0, so the Index field of an entry is its position and          *)
(* lastLogIndex is the length.  An entry keeps the two fields the protocol *)
(* tells apart: the term, and the command (NoOp for the empty Data of the  *)
(* entry becomeLeader appends).                                            *)
(***************************************************************************)
EXTENDS Integers, Sequences, FiniteSetsExt

CONSTANTS
    Command,    \* the client commands a proposal can carry
    NoOp        \* the empty command

ASSUME NoOpAssumption == NoOp \notin Command

Entry == [term : Nat, cmd : Command \cup {NoOp}]

Log == Seq(Entry)

\* r.log[0]
Sentinel == [term |-> 0, cmd |-> NoOp]

lastLogIndex(log) == Len(log)

\* 0 for the sentinel and for an index past the end.
logTerm(log, index) == IF index \in 1 .. Len(log) THEN log[index].term ELSE 0

lastLogTerm(log) == logTerm(log, Len(log))

\* Mutant: only the lengths are compared.
longerLogWins(log, lastIndex, lastTerm) == lastIndex >= lastLogIndex(log)

\* Is a log ending in (lastIndex, lastTerm) at least as up-to-date as this one?
isLogUpToDate(log, lastIndex, lastTerm) ==
    \/ lastTerm > lastLogTerm(log)
    \/ lastTerm = lastLogTerm(log) /\ lastIndex >= lastLogIndex(log)

\* The consistency check of handleAppendEntries: the entry before the new ones
\* is in the log, with the leader's term.
hasGap(log, prevIndex) == prevIndex > lastLogIndex(log)

\* Mutant: the term of the entry before the new ones is not compared.
ignoresPrevTerm(log, prevIndex, prevTerm) == FALSE

hasConflict(log, prevIndex, prevTerm) ==
    prevIndex > 0 /\ logTerm(log, prevIndex) # prevTerm

\* Mutant: the hint is one too low.
hintTooLow(log, prevIndex) ==
    Min({h \in 1 .. prevIndex :
            \A k \in h .. prevIndex : logTerm(log, k) = logTerm(log, prevIndex)}) - 2

\* The index before the run of entries, ending at prevIndex, that have the term
\* of the entry at prevIndex.
conflictHint(log, prevIndex) ==
    Min({h \in 1 .. prevIndex :
            \A k \in h .. prevIndex : logTerm(log, k) = logTerm(log, prevIndex)}) - 1

\* The positions of the new entries that the log does not have: past its end, or
\* of another term.
missing(log, prevIndex, entries) ==
    {k \in 1 .. Len(entries) :
        \/ prevIndex + k > lastLogIndex(log)
        \/ logTerm(log, prevIndex + k) # entries[k].term}

\* Mutant: the log is cut at prevIndex even when it already has the new entries.
alwaysTruncates(log, prevIndex, entries) == SubSeq(log, 1, prevIndex) \o entries

\* The loop over msg.Entries: matching entries are skipped; at the first one
\* missing the log is cut and the rest appended.  A log that already has all the
\* new entries keeps what comes after them.
mergeEntries(log, prevIndex, entries) ==
    IF missing(log, prevIndex, entries) = {}
    THEN log
    ELSE LET k == Min(missing(log, prevIndex, entries))
         IN  SubSeq(log, 1, prevIndex + k - 1) \o SubSeq(entries, k, Len(entries))

=============================================================================
