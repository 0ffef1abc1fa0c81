-------------------------- MODULE MCSnapshotBuild --------------------------
(***************************************************************************)
(* SnapshotBuild for TLC.                                                   *)
(***************************************************************************)
EXTENDS SnapshotBuild
=============================================================================
