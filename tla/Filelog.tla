------------------------------ MODULE Filelog ------------------------------
(***************************************************************************)
(* detail::filelog: the log of a node as a list of segments.  A segment is  *)
(* a data file of records and an index file whose record k says which entry *)
(* is where in the data file; it is named after the index it was opened     *)
(* for.  The calls exclude one another by mtx_, so a call is one action;    *)
(* the process may die inside write.                                        *)
(*                                                                          *)
(* Records have one size, and offsets are counted in records.  Assumed of   *)
(* xutil::file_stream: a file is opened at its end, trunc leaves the stream *)
(* at the new end, and what was written survives the process.               *)
(***************************************************************************)
EXTENDS Integers, Sequences, FiniteSets, SequencesExt, FiniteSetsExt

CONSTANTS
    Settings,     \* max_log_size_, in records, and what is done besides writing
    MaxWrites,    \* bound: entries written
    MaxRestarts   \* bound: restarts, those after a crash included

\* "suffix" cuts closed segments only, "rewrite" the open one too.
ASSUME FilelogSettings ==
    \A s \in Settings:
        /\ s.maxSize \in Nat
        /\ s.use \subseteq {"prefix", "suffix", "rewrite", "clear", "restart", "crash"}
ASSUME FilelogBounds == MaxWrites \in Nat /\ MaxRestarts \in Nat

VARIABLES
    disk,       \* name of a segment -> its two files
    current,    \* current_file_
    segments,   \* logfiles_: the closed segments, one per start index
    last,       \* last_index_
    \* how the log is used, and what was done to it
    setting,    \* one of Settings: raft sets max_log_size_ once, before init
    owed,       \* index that the caller must write next; 0: the log chooses
    acked,      \* entries whose write has returned, in order
    cut,        \* names of the files truncate_prefix has cut
    loaded,     \* how many of acked there were at the last restart
    writes, restarts

state == <<disk, current, segments, last>>
history == <<owed, acked, cut, loaded, writes, restarts>>
maxSize == setting.maxSize
use == setting.use
vars == <<state, setting, history>>

-----------------------------------------------------------------------------
(* class file.  log_index_start_ and last_log_index_ are read from the disk  *)
(* when they are first needed; nothing changes them in between, so the model *)
(* reads them at open.  0 is the answer of the getters for an empty index    *)
(* file.                                                                     *)

NoFiles == [data |-> <<>>, index |-> <<>>]
MutCreated(d, n) == [m \in DOMAIN d \union {n} |-> IF m = n THEN NoFiles ELSE d[m]]
Created(d, n) == IF n \in DOMAIN d THEN d ELSE [m \in DOMAIN d \union {n} |->
                                                IF m = n THEN NoFiles ELSE d[m]]

\* name 0: not open.  at is the position in the index file.
Closed == [name |-> 0, start |-> 0, last |-> 0, at |-> 0]
IsOpen(f) == f.name # 0

Opened(d, n) ==
    LET x == d[n].index
    IN  [name |-> n, at |-> Len(x),
         start |-> IF x = <<>> THEN 0 ELSE x[1].index,
         last |-> IF x = <<>> THEN 0 ELSE x[Len(x)].index]

MutHolds(f, i) == IsOpen(f) /\ f.start <= i /\ i < f.last
Holds(f, i) == IsOpen(f) /\ f.start <= i /\ i <= f.last

MutLookup(f, i) ==
    LET k == i - f.start  x == disk[f.name].index
    IN  IF k = 0 THEN 0 ELSE x[k].pos

\* get_data_file_offset.  The first slot is not looked up.
Lookup(f, i) ==
    LET k == i - f.start + 1  x == disk[f.name].index
    IN  IF k = 1 THEN 0
        ELSE IF k \in 1..Len(x) /\ x[k].index = i THEN x[k].pos
        ELSE -1   \* throws

\* file::write, the data file and then the index file.
WithData(d, f, e) == [d EXCEPT ![f.name].data = Append(@, e)]
MutWithIndex(d, f, e) ==
    [d EXCEPT ![f.name].index =
        Append(@, [index |-> e.index, pos |-> Len(d[f.name].data)])]
WithIndex(d, f, e) ==
    LET r == [index |-> e.index, pos |-> Len(d[f.name].data) - 1]
    IN  [d EXCEPT ![f.name].index =
           IF f.at < Len(@) THEN [@ EXCEPT ![f.at + 1] = r] ELSE Append(@, r)]
AfterWrite(f, e) ==
    [f EXCEPT !.last = e.index, !.at = @ + 1,
              !.start = IF @ = 0 THEN e.index ELSE @]

\* file::truncate_prefix: both files lose their head and take a new name; the
\* offsets in the index file stay what they were.
CutHead(d, f, i) ==
    LET old == d[f.name]
        new == [data |-> SubSeq(old.data, Lookup(f, i + 1) + 1, Len(old.data)),
                index |-> SubSeq(old.index, i + 2 - f.start, Len(old.index))]
    IN  [m \in (DOMAIN d \ {f.name}) \union {i + 1} |->
           IF m = i + 1 THEN new ELSE d[m]]
AfterCutHead(f, i) ==
    [name |-> i + 1, start |-> i + 1, last |-> f.last, at |-> f.last - i]

Removed(d, names) == [m \in DOMAIN d \ names |-> d[m]]

-----------------------------------------------------------------------------
(* get_entry and get_entries.  log_entries_cache_ is empty whenever they are *)
(* called: every entry is larger than max_cache_size_ = 1 byte.              *)

ReadFile(f, r) ==
    IF r.threw \/ r.left = 0 \/ ~Holds(f, r.next) THEN r
    ELSE IF Lookup(f, r.next) = -1 THEN [r EXCEPT !.threw = TRUE]
    ELSE LET data == disk[f.name].data
             from == Lookup(f, r.next) + 1
             got  == SubSeq(data, from, Min({Len(data), from + r.left - 1}))
         IN  [next |-> r.next + Len(got), left |-> r.left - Len(got),
              entries |-> r.entries \o got, threw |-> FALSE]

\* logfiles_ in the order of its keys, then current_file_.
InOrder ==
    CHOOSE s \in [1 .. Cardinality(segments) -> segments]:
        /\ Range(s) = segments
        /\ \A j, k \in DOMAIN s: j < k => s[j].start < s[k].start
FilesInOrder == Append(InOrder, current)
Files == segments \union {current}

ReadFrom(i, count) == [next |-> i, left |-> count, entries |-> <<>>, threw |-> FALSE]

GetEntries(i, count) ==
    LET files == FilesInOrder
        after[k \in 0 .. Len(files)] ==
            IF k = 0 THEN ReadFrom(i, count) ELSE ReadFile(files[k], after[k - 1])
    IN  after[Len(files)]

\* get_entry looks into current_file_ first.
GetEntry(i) ==
    LET in == IF Holds(current, i) THEN {current} ELSE {f \in segments: Holds(f, i)}
        first == CHOOSE f \in in: \A g \in in: f.start <= g.start
        r == ReadFile(first, ReadFrom(i, 1))
    IN  IF in = {} THEN [entries |-> <<>>, threw |-> FALSE]
        ELSE [entries |-> r.entries, threw |-> r.threw \/ r.entries = <<>>]

\* get_log_start_index
LogStart == IF segments # {} THEN InOrder[1].start ELSE current.start

-----------------------------------------------------------------------------
(* filelog::init.  Of two files with the same start the map keeps the one    *)
(* listed first; files are listed by name.                                   *)

Load(d) ==
    LET starts == {Opened(d, n).start: n \in DOMAIN d}
        first(s) == Opened(d, Min({n \in DOMAIN d: Opened(d, n).start = s}))
        newest == first(Max(starts))
    IN  /\ disk' = d
        /\ IF d = <<>> THEN current' = Closed /\ segments' = {} /\ last' = 0
           ELSE \* get_last_log_index leaves the index file at its beginning
                /\ current' = [newest EXCEPT !.at = 0]
                /\ segments' = {first(s): s \in starts \ {newest.start}}
                /\ last' = newest.last

\* filelog::write of the entry i, with check_current_file_size.
Entry(i) == [index |-> i, value |-> writes + 1]
Target(i) == IF IsOpen(current) THEN current ELSE Opened(Created(disk, i), i)
DataWritten(i) == WithData(Created(disk, Target(i).name), Target(i), Entry(i))
Written(i) == WithIndex(DataWritten(i), Target(i), Entry(i))

MutEmplaced(files, f) == files
\* map::emplace keeps what it has.
Emplaced(files, f) ==
    IF \E g \in files: g.start = f.start THEN files ELSE files \union {f}

Write(i) ==
    LET f == AfterWrite(Target(i), Entry(i))
    IN  /\ last' = i
        /\ IF Len(Written(i)[f.name].data) > maxSize
           THEN /\ disk' = Created(Written(i), i + 1)
                /\ segments' = Emplaced(segments, f)
                /\ current' = Opened(disk', i + 1)
           ELSE disk' = Written(i) /\ current' = f /\ UNCHANGED segments

WriteEntry ==
    LET i == IF owed # 0 THEN owed ELSE last + 1
    IN  /\ writes < MaxWrites
        /\ Write(i)
        /\ owed' = 0
        /\ acked' = Append(acked, Entry(i))
        /\ writes' = writes + 1
        /\ UNCHANGED <<setting, cut, loaded, restarts>>

\* Reading any entry but the first of its file takes the index file to its end.
Read ==
    /\ IsOpen(current) /\ current.at < Len(disk[current.name].index)
    /\ \E i \in current.start + 1 .. current.last:
         current' = [current EXCEPT !.at = Len(disk[current.name].index)]
    /\ UNCHANGED <<disk, segments, last, setting, history>>

\* The next process loads what is on disk.
Restart ==
    /\ "restart" \in use /\ restarts < MaxRestarts
    /\ Load(disk)
    /\ owed' = 0 /\ restarts' = restarts + 1 /\ loaded' = Len(acked)
    /\ UNCHANGED <<setting, acked, cut, writes>>

\* The process dies inside write: with the file created, the data written, or
\* the index written but the next segment not yet created.
Crash ==
    LET i == IF owed # 0 THEN owed ELSE last + 1
    IN  /\ "crash" \in use /\ restarts < MaxRestarts /\ writes < MaxWrites
        /\ \/ Load(Created(disk, Target(i).name))
           \/ Load(DataWritten(i))
           \/ Load(Written(i))
        /\ owed' = 0 /\ restarts' = restarts + 1 /\ loaded' = Len(acked)
        /\ writes' = writes + 1
        /\ UNCHANGED <<setting, acked, cut>>

-----------------------------------------------------------------------------
(* truncate_prefix(i): closed segments in order, up to the first one that i   *)
(* splits, then the current one.  A failing lookup throws out of the call.    *)

Split(f, i) == Holds(f, i) /\ i < f.last
Splits(i) == {f \in segments: Split(f, i)}
Dropped(i) == {f \in segments: f.last <= i /\ \A g \in Splits(i): f.start < g.start}

Cuts(f, i) == Split(f, i) /\ Lookup(f, i + 1) # -1
WithoutHead(d, f, i) == IF Cuts(f, i) THEN CutHead(d, f, i) ELSE d
Headless(f, i) == IF Cuts(f, i) THEN AfterCutHead(f, i) ELSE f

TruncatePrefix(i) ==
    LET first == IF Splits(i) = {} THEN Closed
                 ELSE CHOOSE f \in Splits(i): \A g \in Splits(i): f.start <= g.start
        kept == segments \ (Dropped(i) \union {first})
        files == WithoutHead(Removed(disk, {f.name: f \in Dropped(i)}), first, i)
    IN  /\ segments' = IF first = Closed THEN kept ELSE Emplaced(kept, Headless(first, i))
        /\ IF Split(first, i) /\ ~Cuts(first, i)   \* threw
           THEN disk' = files /\ UNCHANGED current
           ELSE IF IsOpen(current) /\ i = current.last
           THEN disk' = Removed(files, {current.name}) /\ current' = Closed
           ELSE disk' = WithoutHead(files, current, i) /\ current' = Headless(current, i)

\* Where acked has its first entry of index i or more, or would have it.
Place(i) ==
    CHOOSE p \in 1 .. Len(acked) + 1:
        \A k \in DOMAIN acked: k < p <=> acked[k].index < i

\* Bound: a file is cut once.  A second cut goes by offsets that the first has
\* made wrong.
DropPrefix ==
    \E i \in 1..last:
        LET split == {f \in Files: Split(f, i)}
        IN  /\ "prefix" \in use /\ owed = 0
            /\ \A f \in split: f.name \notin cut
            /\ TruncatePrefix(i)
            /\ acked' = SubSeq(acked, Place(i + 1), Len(acked))
            /\ cut' = IF split # {} THEN cut \union {i + 1} ELSE cut
            /\ UNCHANGED <<last, setting, owed, loaded, writes, restarts>>

(* truncate_suffix(i): only closed segments are searched for i.  The one that *)
(* holds it becomes the current one; its last_log_index_ is not reset, and    *)
(* last_index_ is taken from there.                                           *)
TruncateSuffix(i) ==
    LET holding == {f \in segments: Holds(f, i)}
        later == {f \in segments: f.start > i}
        Names(files) == {f.name: f \in files}
    IN  \/ /\ holding = {}
           /\ disk' = Removed(disk, Names(later))
           /\ segments' = segments \ later
           /\ UNCHANGED <<current, last>>
        \/ \E f \in holding:
           /\ Lookup(f, i) # -1
           /\ disk' = [Removed(disk, Names(later \union {current})) EXCEPT
                         ![f.name].data = SubSeq(@, 1, Lookup(f, i)),
                         ![f.name].index = SubSeq(@, 1, i - f.start)]
           /\ segments' = segments \ (later \union {f})
           /\ current' = [f EXCEPT !.at = i - f.start]
           /\ last' = f.last

\* raft truncates at an entry it holds and then writes another one there.
DropSuffix ==
    \E i \in 1..last:
        /\ owed = 0 /\ LogStart <= i
        /\ \/ "rewrite" \in use
           \/ "suffix" \in use /\ \E f \in segments: Holds(f, i) /\ f.name \notin cut
        /\ TruncateSuffix(i)
        /\ owed' = i
        /\ acked' = SubSeq(acked, 1, Place(i) - 1)
        /\ UNCHANGED <<setting, cut, loaded, writes, restarts>>

\* clear forgets the segments but not last_index_.  load_snapshot calls it; what
\* a leader sends next is the entry after the snapshot, which may be any.
Clear ==
    /\ "clear" \in use /\ owed = 0
    /\ disk' = Removed(disk, {f.name: f \in Files})
    /\ current' = Closed /\ segments' = {}
    /\ acked' = <<>> /\ owed' \in 1..last + 2
    /\ UNCHANGED <<last, setting, cut, loaded, writes, restarts>>

-----------------------------------------------------------------------------
Init ==
    /\ disk = <<>> /\ current = Closed /\ segments = {} /\ last = 0
    /\ setting \in Settings
    /\ owed = 0 /\ acked = <<>> /\ cut = {} /\ loaded = 0 /\ writes = 0 /\ restarts = 0

Next == WriteEntry \/ Read \/ Restart \/ Crash \/ DropPrefix \/ DropSuffix \/ Clear

Spec == Init /\ [][Next]_vars

-----------------------------------------------------------------------------
\* The fields of a file and the counters have their types; every open file is
\* on disk.
TypeOK ==
    /\ \A n \in DOMAIN disk: n \in Nat \ {0} /\ DOMAIN disk[n] = {"data", "index"}
    /\ \A f \in Files: DOMAIN f = {"name", "start", "last", "at"}
    /\ \A f \in Files: IsOpen(f) => f.name \in DOMAIN disk
    /\ last \in Nat /\ owed \in Nat /\ writes \in Nat /\ restarts \in Nat

\* All that get_entries reads, from the first entry there is.
Starts == {f.start: f \in Files} \ {0}
Entries == IF Starts = {} THEN <<>> ELSE GetEntries(Min(Starts), writes + 1).entries

\* Over segments, roll-over, truncation at either end and clear, filelog is a
\* sequence of consecutive entries that write extends at its end.  (Not when
\* entries of the open segment are rewritten, see AgreesWithSegmentLog.)
OneLife == use \intersect {"restart", "crash"} = {}
Exact == OneLife /\ "rewrite" \notin use
View == IF Exact THEN Entries ELSE <<>>
Promise == INSTANCE EntryLog WITH entries <- View
ImplementsEntryLog == Promise!Spec

\* An entry can be read by its index, and so can those behind it, in any
\* number, unless truncate_prefix has cut its file.
UncutIsReadable ==
    Exact => \A k \in DOMAIN acked:
        LET i == acked[k].index
        IN  (\A f \in Files: Holds(f, i) => f.name \notin cut) =>
                /\ GetEntry(i) = [entries |-> <<acked[k]>>, threw |-> FALSE]
                /\ \A n \in 1 .. Len(acked) + 1 - k:
                     GetEntries(i, n).entries = SubSeq(acked, k, k + n - 1)

\* One stop and restart between two calls lose no entry, neither those written
\* before it nor those written after it, and give no index a second time.
AckedAreFound ==
    use = {"restart"} /\ restarts <= 1 =>
        /\ ToSet(acked) \subseteq ToSet(Entries)
        /\ \A j, k \in DOMAIN acked: j < k => acked[j].index < acked[k].index

\* What had been written when the process died inside write, once, is found when
\* it has started again, and stays.
AckedSurvive ==
    use = {"crash"} /\ restarts <= 1 =>
        ToSet(SubSeq(acked, 1, loaded)) \subseteq ToSet(Entries)

\* While one file is open this is the log that Raft uses: SegmentLog.
Records == IF IsOpen(current) THEN disk[current.name].data ELSE <<>>
OneFile == INSTANCE SegmentLog
AgreesWithSegmentLog ==
    use = {"rewrite"} /\ writes <= maxSize =>
        /\ last = OneFile!LastIndex(Records) /\ LogStart = OneFile!LogStart(Records)
        /\ \A i \in 1 .. last + 1, n \in 1 .. 3:
             /\ OneFile!Throws(Records, i) <=> GetEntries(i, n).threw
             /\ OneFile!Throws(Records, i) <=> GetEntry(i).threw
             /\ ~OneFile!Throws(Records, i) =>
                  /\ GetEntries(i, n).entries = OneFile!GetEntries(Records, i, n)
                  /\ IF GetEntry(i).entries = <<>>
                     THEN OneFile!GetEntry(Records, i) = OneFile!NoEntry
                     ELSE GetEntry(i).entries[1] = OneFile!GetEntry(Records, i)
=============================================================================
