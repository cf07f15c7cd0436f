------------------------------ MODULE OneLeader ------------------------------
(***************************************************************************)
(* What elections promise: terms get leaders one by one, in any order, and *)
(* a term that has one never gets another.                                 *)
(***************************************************************************)
CONSTANTS
    Node,
    Term

VARIABLE leaders    \* every leader so far, with its term

Init == leaders = {}

Elect(l) ==
    /\ l \in [leader : Node, term : Term]
    /\ \A k \in leaders : k.term # l.term
    /\ leaders' = leaders \cup {l}

Next == \E l \in leaders' : Elect(l)

Spec == Init /\ [][Next]_leaders
=============================================================================
