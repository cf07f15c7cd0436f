----------------------------- MODULE TotalOrder -----------------------------
(***************************************************************************)
(* What replication promises: every replica hands a growing sequence of    *)
(* entries to its state machine, nothing is ever taken back, and of any    *)
(* two replicas one has handed over a prefix of what the other has.        *)
(***************************************************************************)
EXTENDS SequencesExt

CONSTANT Replica

VARIABLE delivered    \* delivered[i]: what replica i has handed over, in order

Init == delivered = [i \in Replica |-> <<>>]

\* Replica i hands over one or more entries.
Deliver(i) ==
    /\ IsStrictPrefix(delivered[i], delivered'[i])
    /\ \A j \in Replica \ {i} :
           /\ delivered'[j] = delivered[j]
           /\ \/ IsPrefix(delivered[j], delivered'[i])
              \/ IsPrefix(delivered'[i], delivered[j])

Next == \E i \in Replica : Deliver(i)

Spec == Init /\ [][Next]_delivered
=============================================================================
