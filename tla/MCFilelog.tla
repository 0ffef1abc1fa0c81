----------------------------- MODULE MCFilelog -----------------------------
(***************************************************************************)
(* Filelog for TLC.                                                         *)
(***************************************************************************)
EXTENDS Filelog

\* Segments of three, truncated by raft in one life; one file with rewritten
\* entries; segments of two and one stop; segments of three and one crash.
MCSettings == {
    [maxSize |-> 2, use |-> {"prefix", "suffix", "clear"}],
    [maxSize |-> 9, use |-> {"rewrite"}],
    [maxSize |-> 1, use |-> {"restart"}],
    [maxSize |-> 2, use |-> {"crash"}]}
=============================================================================
