------------------------------ MODULE Metadata ------------------------------
(***************************************************************************)
(* detail::metadata: two maps in memory, and on disk, per generation i, a   *)
(* snapshot i.data, a log i.Log of the updates since, and a marker          *)
(* i.metadata.  Calls are split at every change of the disk, so that the    *)
(* process can die there; calls exclude one another by mtx_.                *)
(*                                                                          *)
(* A record is a slot and its new value, None for e_del.  What write has    *)
(* returned from survives the process, and a file opened for writing is     *)
(* positioned at its end: both are assumed of xutil::file_stream.           *)
(***************************************************************************)
EXTENDS Integers, Sequences, FiniteSets, SequencesExt, FiniteSetsExt

CONSTANTS
    Key, Value, None,
    MaxLog,       \* how many records max_log_file_ bytes are
    Start,        \* the first generation: 1 for a new directory
    MaxIndex,     \* bound: generations
    MaxCrashes    \* bound: how often the process dies

ASSUME MetadataNone == None \notin Value
ASSUME MetadataBounds ==
    /\ MaxLog \in Nat \ {0} /\ Start \in Nat \ {0}
    /\ MaxIndex \in Nat /\ MaxCrashes \in Nat

\* string_map_ and integral_map_ are one map here, over the keys of each.
Type == {"string", "integral"}
Slot == Type \X Key
Empty == [s \in Slot |-> None]
SlotsOf(k) == {<<t, k>> : t \in Type}

VARIABLES
    \* memory
    map,        \* string_map_ and integral_map_
    index,      \* index_
    logOpen,    \* is log_ open?
    pc,         \* what the call under way does next
    call,       \* that call
    records,    \* the records it has still to write
    \* disk
    snaps,      \* the .data files: generation -> contents
    logs,       \* the .Log files: generation -> records
    torn,       \* generations whose log ends in a length without its record
    marks,      \* the .metadata files
    \* history
    rolled,     \* has this call started a generation?
    doubt,      \* slots whose value is in memory only
    crashes

memory == <<map, index, logOpen>>
control == <<pc, call, records, rolled>>
disk == <<snaps, logs, torn, marks>>
vars == <<memory, control, disk, doubt, crashes>>

NoCall == [op |-> "none", slots |-> {}]
Files == DOMAIN snaps \union DOMAIN logs \union marks

\* A new directory, or what a clean shutdown leaves behind.
Init ==
    /\ map = Empty /\ index = 1 /\ logOpen = FALSE
    /\ pc = "down" /\ call = NoCall /\ records = <<>> /\ rolled = FALSE
    /\ marks = IF Start = 1 THEN {} ELSE {Start}
    /\ snaps = [i \in marks |-> Empty]
    /\ logs = [i \in marks |-> <<>>]
    /\ torn = {} /\ doubt = {} /\ crashes = 0

\* Opening with OPEN_TRUNC, and unlinking.
Truncated(files, i, content) ==
    [j \in DOMAIN files \union {i} |-> IF j = i THEN content ELSE files[j]]
Without(files, i) == [j \in DOMAIN files \ {i} |-> files[j]]

-----------------------------------------------------------------------------
(* init: load every generation that has a marker, the largest name first.   *)

\* The order of std::greater on the file names, for numbers of two digits.
NameOrder(i) == IF i < 10 THEN 11 * i ELSE 11 * (i \div 10) + (i % 10) + 1
Marked ==
    CHOOSE order \in [1 .. Cardinality(marks) -> marks] :
        \A j, k \in DOMAIN order : j < k => NameOrder(order[j]) > NameOrder(order[k])

\* load_file of the log throws when it is missing or ends early.
Opens == marks \subseteq DOMAIN logs /\ marks \intersect torn = {}

\* load_fstream, of a snapshot (a failure is ignored) and then of a log
LoadSnap(m, snap) == [s \in Slot |-> IF snap[s] # None THEN snap[s] ELSE m[s]]
RecordsOf(log, s) == {k \in DOMAIN log : log[k].slot = s}
MutReplay(m, log) ==
    [s \in Slot |->
        LET sets == {k \in RecordsOf(log, s) : log[k].value # None}
        IN  IF sets = {} THEN m[s] ELSE log[Max(sets)].value]
\* The records are applied in turn: the last one of a slot remains.
Replay(m, log) ==
    [s \in Slot |-> IF RecordsOf(log, s) = {} THEN m[s]
                    ELSE log[Max(RecordsOf(log, s))].value]
MutLoadGeneration(m, i) == Replay(m, logs[i])
LoadGeneration(m, i) ==
    Replay(IF i \in DOMAIN snaps THEN LoadSnap(m, snaps[i]) ELSE m, logs[i])
Recovered == FoldLeft(LoadGeneration, Empty, Marked)

\* The slots whose value comes from another generation than the one that will
\* be written to.
Elsewhere ==
    IF marks = {} THEN {}
    ELSE {s \in Slot : Recovered[s] # LoadGeneration(Empty, Last(Marked))[s]}

\* The last generation loaded is the one whose log is opened.  Without a marker
\* nothing is loaded, and log_ is opened in an empty directory only.
Open ==
    /\ pc = "down" /\ Opens
    /\ map' = Recovered
    /\ index' = IF marks = {} THEN 1 ELSE Last(Marked)
    /\ logOpen' = (marks # {} \/ Files = {})
    /\ IF Files = {}
       THEN /\ pc' = "touch"
            /\ logs' = Truncated(logs, 1, <<>>)
            /\ torn' = torn \ {1}
       ELSE pc' = "idle" /\ UNCHANGED <<logs, torn>>
    /\ doubt' = Elsewhere
    /\ UNCHANGED <<call, records, rolled, snaps, marks, crashes>>

\* reopen_log touches the marker of a new directory.
TouchFirst ==
    /\ pc = "touch"
    /\ pc' = "idle"
    /\ marks' = marks \union {index}
    /\ UNCHANGED <<memory, call, records, rolled, snaps, logs, torn, doubt, crashes>>

-----------------------------------------------------------------------------
(* set and del, and write_log for each of their records.                    *)

Update(s, v) == [slot |-> s, value |-> v]

Set(s, v) ==
    /\ pc = "idle" /\ logOpen
    /\ call' = [op |-> "set", slots |-> {s}, value |-> v]
    /\ records' = <<Update(s, v)>>
    /\ pc' = "length" /\ rolled' = FALSE
    /\ UNCHANGED <<memory, disk, doubt, crashes>>

\* del erases the key from both maps first, then writes a record for each.
Found(k) == \E s \in SlotsOf(k) : map[s] # None
Erased(k) == [s \in Slot |-> IF s[2] = k THEN None ELSE map[s]]

Del(k) ==
    /\ pc = "idle" /\ logOpen /\ Found(k)
    /\ map' = Erased(k)
    /\ call' = [op |-> "del", slots |-> SlotsOf(k)]
    /\ records' = <<Update(<<"string", k>>, None), Update(<<"integral", k>>, None)>>
    /\ pc' = "length" /\ rolled' = FALSE
    /\ UNCHANGED <<index, logOpen, disk, doubt, crashes>>

\* Without an open log write_log throws: a set has no effect, a del has erased
\* the key from memory.
DelThrows(k) ==
    /\ pc = "idle" /\ ~logOpen /\ Found(k)
    /\ map' = Erased(k)
    /\ doubt' = doubt \union SlotsOf(k)
    /\ UNCHANGED <<index, logOpen, control, disk, crashes>>

\* write_log writes the length,
WriteLength ==
    /\ pc = "length"
    /\ pc' = "record"
    /\ torn' = torn \union {index}
    /\ UNCHANGED <<memory, call, records, rolled, snaps, logs, marks, doubt, crashes>>

\* then the record, and asks for a snapshot once the log is full.
WriteRecord ==
    /\ pc = "record"
    /\ torn' = torn \ {index}
    /\ logs' = [logs EXCEPT ![index] = Append(@, Head(records))]
    /\ records' = Tail(records)
    /\ pc' = IF Len(logs'[index]) >= MaxLog THEN "snapshot"
             ELSE IF records' = <<>> THEN "return" ELSE "length"
    /\ UNCHANGED <<memory, call, rolled, snaps, marks, doubt, crashes>>

\* The call returns; set changes the map only now.
Return ==
    /\ pc = "return"
    /\ pc' = "idle"
    /\ map' = IF call.op = "set" THEN [s \in Slot |-> IF s \in call.slots
                                                      THEN call.value ELSE map[s]]
              ELSE map
    /\ doubt' = IF ~rolled THEN doubt \ call.slots
                ELSE IF call.op = "set" THEN call.slots ELSE {}
    /\ call' = NoCall /\ rolled' = FALSE
    /\ UNCHANGED <<index, logOpen, records, disk, crashes>>

-----------------------------------------------------------------------------
(* make_snapshot.                                                           *)

StartSnapshot ==
    /\ pc = "snapshot" /\ index < MaxIndex
    /\ pc' = "contents"
    /\ index' = index + 1
    /\ snaps' = Truncated(snaps, index + 1, Empty)
    /\ UNCHANGED <<map, logOpen, call, records, rolled, logs, torn, marks, doubt, crashes>>

\* write, of one entry of either map
WriteSnapshot(s) ==
    /\ pc = "contents"
    /\ snaps[index][s] # map[s]
    /\ snaps' = [snaps EXCEPT ![index][s] = map[s]]
    /\ UNCHANGED <<memory, control, logs, torn, marks, doubt, crashes>>

\* reopen_log of make_snapshot and of clear opens the log of the generation,
NewLog ==
    /\ \/ pc = "contents" /\ snaps[index] = map
       \/ pc = "unlink" /\ Files = {}
    /\ pc' = "touchNew"
    /\ logs' = Truncated(logs, index, <<>>)
    /\ torn' = torn \ {index}
    /\ logOpen' = TRUE
    /\ UNCHANGED <<map, index, call, records, rolled, snaps, marks, doubt, crashes>>

\* and touches its marker.
TouchNew ==
    /\ pc = "touchNew"
    /\ pc' = IF call.op = "clear" THEN "return" ELSE "rmLog"
    /\ marks' = marks \union {index}
    /\ UNCHANGED <<memory, call, records, rolled, snaps, logs, torn, doubt, crashes>>

\* rm_old_files
RemoveLog ==
    /\ pc = "rmLog"
    /\ pc' = "rmData"
    /\ logs' = Without(logs, index - 1)
    /\ torn' = torn \ {index - 1}
    /\ UNCHANGED <<memory, call, records, rolled, snaps, marks, doubt, crashes>>

RemoveData ==
    /\ pc = "rmData"
    /\ pc' = "rmMark"
    /\ snaps' = Without(snaps, index - 1)
    /\ UNCHANGED <<memory, call, records, rolled, logs, torn, marks, doubt, crashes>>

MutRemoveMark ==
    /\ pc = "rmMark"
    /\ pc' = IF call.op = "close" THEN "closed"
             ELSE IF records = <<>> THEN "return" ELSE "length"
    /\ rolled' = TRUE
    /\ UNCHANGED <<memory, call, records, disk, doubt, crashes>>
RemoveMark ==
    /\ pc = "rmMark"
    /\ pc' = IF call.op = "close" THEN "closed"
             ELSE IF records = <<>> THEN "return" ELSE "length"
    /\ marks' = marks \ {index - 1}
    /\ rolled' = TRUE
    /\ UNCHANGED <<memory, call, records, snaps, logs, torn, doubt, crashes>>

-----------------------------------------------------------------------------
(* The destructor, clear, load_snapshot, and the end of the process.         *)

\* The destructor always makes a snapshot.
BeginClose ==
    /\ pc = "idle"
    /\ pc' = "snapshot"
    /\ call' = [op |-> "close", slots |-> {}]
    /\ UNCHANGED <<memory, records, rolled, disk, doubt, crashes>>

\* The memory of a process that is gone
Forget ==
    /\ map' = Empty /\ index' = 1 /\ logOpen' = FALSE
    /\ pc' = "down" /\ call' = NoCall /\ records' = <<>> /\ rolled' = FALSE
    /\ doubt' = {}
    /\ UNCHANGED disk

Closed == pc = "closed" /\ Forget /\ UNCHANGED crashes

Crash ==
    /\ pc # "down"
    /\ crashes < MaxCrashes
    /\ crashes' = crashes + 1
    /\ Forget

\* clear forgets both maps, and unlinks file after file in the order of the
\* directory.
BeginClear ==
    /\ pc = "idle"
    /\ pc' = "unlink"
    /\ map' = Empty /\ logOpen' = FALSE
    /\ call' = [op |-> "clear", slots |-> Slot]
    /\ UNCHANGED <<index, records, rolled, disk, doubt, crashes>>

Unlink(i) ==
    /\ pc = "unlink"
    /\ \/ i \in DOMAIN snaps /\ snaps' = Without(snaps, i) /\ UNCHANGED <<logs, torn, marks>>
       \/ /\ i \in DOMAIN logs /\ logs' = Without(logs, i) /\ torn' = torn \ {i}
          /\ UNCHANGED <<snaps, marks>>
       \/ i \in marks /\ marks' = marks \ {i} /\ UNCHANGED <<snaps, logs, torn>>
    /\ UNCHANGED <<memory, control, doubt, crashes>>

\* load_snapshot takes what write_snapshot wrote elsewhere, the strings of a
\* map, into memory and writes no record of it.
LoadSnapshot(snap) ==
    /\ pc = "idle"
    /\ map' = LoadSnap(map, snap)
    /\ doubt' = doubt \union {s \in Slot : snap[s] # None}
    /\ UNCHANGED <<index, logOpen, control, disk, crashes>>

Next ==
    \/ Open \/ TouchFirst
    \/ \E s \in Slot, v \in Value : Set(s, v)
    \/ \E k \in Key : Del(k) \/ DelThrows(k)
    \/ WriteLength \/ WriteRecord \/ Return
    \/ StartSnapshot \/ NewLog \/ TouchNew
    \/ \E s \in Slot : WriteSnapshot(s)
    \/ RemoveLog \/ RemoveData \/ RemoveMark
    \/ BeginClose \/ Closed \/ Crash
    \/ BeginClear \/ \E i \in Files : Unlink(i)
    \/ \E k \in Key, v \in Value :
           LoadSnapshot([s \in Slot |-> IF s = <<"string", k>> THEN v ELSE None])

Spec == Init /\ [][Next]_vars

-----------------------------------------------------------------------------
(* The promise.                                                             *)

Inside == pc \notin {"down", "touch", "idle"}

Promise == INSTANCE DurableMap WITH
    store <- IF pc \in {"down", "touch"} /\ Opens THEN Recovered ELSE map,
    status <- IF pc \in {"down", "touch"}
              THEN (IF Opens THEN "down" ELSE "lost")
              ELSE (IF Inside THEN "busy" ELSE "idle"),
    busy <- IF Inside THEN call.slots ELSE {},
    doubt <- IF pc = "down" /\ Opens THEN Elsewhere ELSE doubt

\* Whatever is set or deleted is found again after a shutdown, and after a
\* crash at any point, with the exceptions DurableMap makes (make_snapshot,
\* rm_old_files, load).
KeepsPromise == Promise!Spec

\* Between calls the files on disk can always be loaded: every generation with
\* a marker has a log without half a record.  (Inside a call they cannot: see
\* Opens between RemoveLog and RemoveMark.)
IdleStoreOpens == pc = "idle" => Opens
=============================================================================
