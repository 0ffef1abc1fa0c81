------------------------------- MODULE MCRaft -------------------------------
(***************************************************************************)
(* Raft and its properties for TLC.                                         *)
(***************************************************************************)
EXTENDS RaftProperties

\* Nodes and requests are interchangeable: nothing orders them.
Symmetry == Permutations(Node) \union Permutations(Request)
=============================================================================
