----------------------------- MODULE SegmentLog -----------------------------
(***************************************************************************)
(* The replicated log of one node, as detail::filelog stores it while a     *)
(* single segment (current_file_) is open: the records of the data file in  *)
(* the order they were written.  Record k of the index file describes       *)
(* record k of the data file, and the code finds entry i at position        *)
(* i - log_start of the index file, whatever was written there.             *)
(*                                                                          *)
(* The module has no state: Raft applies these operators to its variable    *)
(* log.  An entry is a record with the fields index, term and data.         *)
(***************************************************************************)
EXTENDS Integers, Sequences

\* The term_ and index_ of the default-constructed log_entry that get_entry
\* returns when no segment holds the index.
NoEntry == [index |-> 0, term |-> 0]

\* get_last_index: last_index_ is the index of the record written last, which
\* after a rewrite need not be the largest one in the file.
LastIndex(log) == IF log = <<>> THEN 0 ELSE log[Len(log)].index

\* get_log_start_index: the index in the first record; 0 before a segment is
\* open.
LogStart(log) == IF log = <<>> THEN 0 ELSE log[1].index

\* get_last_log_entry_term reads the term from log_entries_cache_.  The cache
\* holds at most max_cache_size_ = 1 byte, every entry is larger, and write
\* evicts from the front until the cache fits: it is empty whenever this is
\* called, so the answer is always 0.
LastTerm(log) == 0

\* get_index_file_offset, counted in records from 1.
Slot(log, i) == i - LogStart(log) + 1

\* The test that a segment holds index i, made by get_entry and get_entries.
Holds(log, i) == log # <<>> /\ LogStart(log) <= i /\ i <= LastIndex(log)

\* get_data_file_offset throws when the slot is past the end of the index file
\* or the index stored there is another one.
Throws(log, i) ==
    /\ Holds(log, i)
    /\ \/ Slot(log, i) \notin 1..Len(log)
       \/ log[Slot(log, i)].index # i

\* get_entry, when it does not throw.
GetEntry(log, i) == IF Holds(log, i) THEN log[Slot(log, i)] ELSE NoEntry

\* get_entries, when it does not throw: it seeks to the slot of i and then
\* reads records in file order until count are read or the file ends.  The
\* parameter count is a std::size_t, so a negative argument has become huge.
GetEntries(log, i, count) ==
    LET first == Slot(log, i)
        last  == IF count < 0 \/ first + count - 1 > Len(log)
                 THEN Len(log) ELSE first + count - 1
    IN  IF count = 0 \/ ~Holds(log, i) THEN <<>> ELSE SubSeq(log, first, last)

\* write: the record goes to the end of both files; an entry without an index
\* gets last_index_ + 1.
Write(log, entry) == Append(log, entry)
WriteNew(log, term, data) ==
    Write(log, [index |-> LastIndex(log) + 1, term |-> term, data |-> data])

\* truncate_suffix looks for the index in logfiles_, the closed segments, and
\* in no case in current_file_: with one open segment it removes no record and
\* leaves last_index_ alone.
TruncateSuffix(log, i) == log
=============================================================================
