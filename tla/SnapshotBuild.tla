--------------------------- MODULE SnapshotBuild ---------------------------
(***************************************************************************)
(* How a node makes a snapshot of its own: the trigger that filelog calls   *)
(* when the log has too many files, the task on the committer thread, the   *)
(* builder, and the cut of the log.  Entries are written, acknowledged and   *)
(* applied meanwhile.                                                        *)
(*                                                                          *)
(* write calls the trigger under the mutex of the log, pushing the task      *)
(* first and clearing the trigger then; whatever the committer thread does   *)
(* with the log takes that mutex.                                            *)
(***************************************************************************)
EXTENDS Integers, Sequences, FiniteSets, FiniteSetsExt

CONSTANTS
    FileSize,   \* entries in a file of the log
    MaxCount,   \* max_log_count_
    MaxLast     \* bound: entries

ASSUME BuildBounds ==
    /\ FileSize \in Nat \ {0} /\ MaxCount \in Nat /\ MaxLast \in Nat

VARIABLES
    leading,    \* check_leader()
    last,       \* last_index_ of the log
    closed,     \* the last index of every closed file of the log
    filled,     \* the entries in the current file
    cut,        \* the log holds the entries behind this one
    trigger,    \* make_snapshot_trigger_
    writing,    \* is write between calling the trigger and clearing it?
    acked,      \* entries acknowledged: committed_index_
    applied,    \* entries applied: what a snapshot would hold
    tasks,      \* the queue of the committer thread
    doing,      \* where the committer thread is
    head,       \* last_included_index_ of the snapshot that is being made
    upTo,       \* where the log will be cut
    snapshot,   \* last_snapshot_index_
    \* history
    idled,      \* has the trigger been called on a node that did not lead?
    failed      \* has a build failed?

logVars == <<last, closed, filled, cut>>
buildVars == <<doing, head, upTo, snapshot>>
vars == <<leading, logVars, trigger, writing, acked, applied, tasks, buildVars,
          idled, failed>>

Init ==
    /\ leading = FALSE /\ last = 0 /\ closed = {} /\ filled = 0 /\ cut = 0
    /\ trigger = "first" /\ writing = FALSE
    /\ acked = 0 /\ applied = 0 /\ tasks = <<>>
    /\ doing = "idle" /\ head = 0 /\ upTo = 0 /\ snapshot = 0
    /\ idled = FALSE /\ failed = FALSE

ChangeRole ==
    /\ leading' = ~leading
    /\ UNCHANGED <<logVars, trigger, writing, acked, applied, tasks, buildVars, idled, failed>>

\* filelog::write: when the file is full the next one is opened, and with too
\* many closed files the trigger is called.  The one that init sets asks
\* check_leader, the later ones do not.
Full == filled + 1 = FileSize
Calls == Full /\ Cardinality(closed) + 1 > MaxCount /\ trigger # "none"
Pushes == Calls /\ (trigger = "again" \/ leading)
Write ==
    /\ last < MaxLast /\ ~writing
    /\ last' = last + 1
    /\ closed' = IF Full THEN closed \union {last + 1} ELSE closed
    /\ filled' = IF Full THEN 0 ELSE filled + 1
    /\ tasks' = IF Pushes THEN Append(tasks, "snapshot") ELSE tasks
    /\ writing' = Calls
    /\ idled' = (idled \/ (Calls /\ ~Pushes))
    /\ UNCHANGED <<leading, cut, trigger, acked, applied, buildVars, failed>>

Cleared == "none"
ClearTrigger ==
    /\ writing /\ writing' = FALSE
    /\ trigger' = Cleared
    /\ UNCHANGED <<leading, logVars, acked, applied, tasks, buildVars, idled, failed>>

\* An entry is committed, and its application queued.
Acknowledge ==
    /\ acked < last
    /\ acked' = acked + 1
    /\ tasks' = Append(tasks, "apply")
    /\ UNCHANGED <<leading, logVars, trigger, writing, applied, buildVars, idled, failed>>

-----------------------------------------------------------------------------
(* The committer thread.                                                     *)

MutLogFree == TRUE
LogFree == ~writing

Apply ==
    /\ doing = "idle" /\ tasks # <<>> /\ Head(tasks) = "apply"
    /\ tasks' = Tail(tasks)
    /\ applied' = applied + 1
    /\ UNCHANGED <<leading, logVars, trigger, writing, acked, buildVars, idled, failed>>

\* do_make_snapshot: the head takes what get_last_commit_index_ returns, which is
\* the last index of the log.
LastIncluded == last
Begin ==
    /\ doing = "idle" /\ tasks # <<>> /\ Head(tasks) = "snapshot" /\ LogFree
    /\ tasks' = Tail(tasks)
    /\ doing' = "build" /\ head' = LastIncluded
    /\ UNCHANGED <<leading, logVars, trigger, writing, acked, applied, upTo, snapshot, idled, failed>>

\* The callback writes what is applied, then the index is read again.
MutReread == snapshot
Reread == last
Build ==
    /\ doing = "build" /\ LogFree
    /\ doing' = "done" /\ upTo' = Reread
    /\ UNCHANGED <<leading, logVars, trigger, writing, acked, applied, tasks, head, snapshot, idled, failed>>

\* The callback throws: the file is discarded.
BuildFails ==
    /\ doing = "build" /\ ~failed
    /\ doing' = "idle" /\ failed' = TRUE
    /\ UNCHANGED <<leading, logVars, trigger, writing, acked, applied, tasks, head, upTo, snapshot, idled>>

\* make_snapshot_done_callback: the head is recorded and the trigger set again,
Rearm ==
    /\ doing = "done" /\ LogFree
    /\ snapshot' = head /\ trigger' = "again" /\ doing' = "cut"
    /\ UNCHANGED <<leading, logVars, writing, acked, applied, tasks, head, upTo, idled, failed>>

\* then the log is cut.
Cut ==
    /\ doing = "cut" /\ LogFree
    /\ closed' = {l \in closed: l > upTo} /\ filled' = Min({filled, last - upTo}) /\ cut' = upTo
    /\ doing' = "idle"
    /\ UNCHANGED <<leading, last, trigger, writing, acked, applied, tasks, head, upTo, snapshot, idled, failed>>

Committer == Apply \/ Begin \/ Build \/ BuildFails \/ Rearm \/ Cut

Next == ChangeRole \/ Write \/ ClearTrigger \/ Acknowledge \/ Committer

Spec == Init /\ [][Next]_vars

\* write returns, and the committer thread runs.
FairSpec == Spec /\ WF_vars(ClearTrigger) /\ WF_vars(Committer)

-----------------------------------------------------------------------------
Pending == {i \in DOMAIN tasks: tasks[i] = "snapshot"}

\* The state is typed, and no second snapshot is queued before the first is done.
TypeOK ==
    /\ last \in 0 .. MaxLast /\ cut \in 0 .. last /\ filled \in 0 .. FileSize - 1
    /\ applied \in 0 .. acked /\ acked \in 0 .. last
    /\ closed \subseteq 1 .. last
    /\ trigger \in {"first", "again", "none"} /\ tasks \in Seq({"apply", "snapshot"})
    /\ doing \in {"idle", "build", "done", "cut"}
    /\ Cardinality(Pending) <= 1 /\ (Pending # {} => doing \in {"idle", "cut"})

\* The trigger is never lost between the thread that calls and clears it and the
\* thread that makes the snapshot and sets it again: as long as it has not been
\* called on a follower and no build has failed, either it is set or a snapshot
\* is on its way that will set it.
TriggerNotLost ==
    idled \/ failed \/ trigger # "none" \/ Pending # {} \/ doing \in {"build", "done"}

\* Every snapshot that is asked for leads to a shorter log, unless it fails.
LogIsCut ==
    \A n \in 0 .. MaxLast: (Pending # {} /\ cut = n) ~> (cut > n \/ failed)
=============================================================================
