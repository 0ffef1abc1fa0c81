---------------------------- MODULE MCPeerThread ----------------------------
(***************************************************************************)
(* PeerThread for TLC.                                                      *)
(***************************************************************************)
EXTENDS PeerThread
=============================================================================
