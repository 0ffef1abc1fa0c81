----------------------------- MODULE MCKvServer -----------------------------
(***************************************************************************)
(* KvServer for TLC.                                                        *)
(***************************************************************************)
EXTENDS KvServer
=============================================================================
