------------------------- MODULE MCSnapshotTransfer -------------------------
(***************************************************************************)
(* SnapshotTransfer for TLC.                                                *)
(***************************************************************************)
EXTENDS SnapshotTransfer
=============================================================================
