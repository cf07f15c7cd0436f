---------------------------- MODULE MCRaftCatchUp ----------------------------
(***************************************************************************)
(* Small instances of module RaftCatchUp for TLC.                          *)
(***************************************************************************)
EXTENDS RaftCatchUp

FullMesh == [i \in Node |-> Node \ {i}]
=============================================================================
