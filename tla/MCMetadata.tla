----------------------------- MODULE MCMetadata -----------------------------
(***************************************************************************)
(* Metadata for TLC.                                                        *)
(***************************************************************************)
EXTENDS Metadata
=============================================================================
