------------------------------ MODULE EntryLog ------------------------------
(***************************************************************************)
(* What detail::filelog promises its callers: a sequence of entries with    *)
(* consecutive indexes, extended at its end, cut at either end.             *)
(***************************************************************************)
EXTENDS Integers, Sequences, SequencesExt

VARIABLE entries

Init == entries = <<>>

Follows(e) == entries = <<>> \/ e.index = entries[Len(entries)].index + 1

\* write
Write(e) == Follows(e) /\ entries' = Append(entries, e)

\* truncate_prefix drops the first n entries, truncate_suffix all behind them.
DropPrefix(n) == entries' = SubSeq(entries, n + 1, Len(entries))
DropSuffix(n) == entries' = SubSeq(entries, 1, n)

Next ==
    \/ \E e \in ToSet(entries'): Write(e)
    \/ \E n \in 0 .. Len(entries): DropPrefix(n) \/ DropSuffix(n)

Spec == Init /\ [][Next]_entries
=============================================================================
