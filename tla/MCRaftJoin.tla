----------------------------- MODULE MCRaftJoin -----------------------------
(***************************************************************************)
(* A small instance of module RaftJoin for TLC.                            *)
(***************************************************************************)
EXTENDS RaftJoin

FullMesh == [i \in Node |-> Node \ {i}]
=============================================================================
