------------------------------ MODULE MCVotes ------------------------------
(***************************************************************************)
(* Votes for TLC.                                                           *)
(***************************************************************************)
EXTENDS Votes, TLC

\* Nodes are compared, nothing else.
Symmetry == Permutations(Node)
=============================================================================
