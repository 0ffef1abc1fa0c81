------------------------------ MODULE KvServer ------------------------------
(***************************************************************************)
(* The key-value server over raft, from the election of its leader until    *)
(* the next one: the handlers of set, get and del, the callbacks that the    *)
(* committer thread runs for them, and a follower that applies the entries   *)
(* through commit_entry_callback.                                            *)
(*                                                                          *)
(* Of raft there is what the server sees: the order of the log, the          *)
(* acknowledgements in that order, the append timeout, step_down, and the    *)
(* gap between the write of an entry and insert_callback.  With two servers, *)
(* as in main, one acknowledgement is a majority.                            *)
(***************************************************************************)
EXTENDS Integers, Sequences, FiniteSets

CONSTANTS
    Client, Key, Value, NoValue,
    MaxLog      \* bound: entries

ASSUME KvNoValue == NoValue \notin Value
ASSUME KvMaxLog == MaxLog \in Nat
\* "none" stands for an answer that is not there yet.
ASSUME KvAnswers == "none" \notin Value \union {NoValue}

VARIABLES
    leading,     \* state_ is e_leader
    log,         \* the entries: who asked, and what
    sent,        \* how many were written while leading
    acked,       \* how many the follower has acknowledged
    committed,   \* committed_index_ of the leader
    waiting,     \* append_log_callbacks_: the indexes
    tasks,       \* the queue of the committer thread
    running,     \* the callback it is in the middle of, or NoTask
    store,       \* metadata_ of the server that leads
    replica,     \* metadata_ of the follower
    replicated,  \* committed_index_ of the follower
    call,        \* per client, what it has asked
    pc,          \* per client, where its handler is
    index,       \* the index of its entry, until insert_callback has it
    status,      \* raft_status of set, result of del
    existed,     \* del_ok_
    called,      \* replicate_callback_
    \* history
    applied      \* the indexes whose callback has changed the store

raftVars == <<leading, log, sent, acked, committed, waiting>>
handlerVars == <<call, pc, index, status, existed, called>>
replicaVars == <<replica, replicated>>
vars == <<raftVars, tasks, running, store, replicaVars, handlerVars, applied>>

Nothing == [op |-> "none"]
Sets == [op: {"set"}, key: Key, value: Value]
Dels == [op: {"del"}, key: Key]
Gets == [op: {"get"}, key: Key]
NoTask == [index |-> 0, ok |-> FALSE]
Updated(s, q) == [s EXCEPT ![q.key] = IF q.op = "set" THEN q.value ELSE NoValue]

Init ==
    /\ leading = TRUE /\ log = <<>> /\ sent = 0 /\ acked = 0 /\ committed = 0
    /\ waiting = {} /\ tasks = <<>> /\ running = NoTask
    /\ store = [k \in Key |-> NoValue]
    /\ replica = [k \in Key |-> NoValue] /\ replicated = 0
    /\ call = [c \in Client |-> Nothing] /\ pc = [c \in Client |-> "idle"]
    /\ index = [c \in Client |-> 0]
    /\ status = [c \in Client |-> FALSE] /\ existed = [c \in Client |-> FALSE]
    /\ called = [c \in Client |-> FALSE]
    /\ applied = {}

-----------------------------------------------------------------------------
(* The handlers, each on a thread of the rpc server.                         *)

\* A call arrives.
Call(c, q) ==
    /\ pc[c] = "idle"
    /\ call' = [call EXCEPT ![c] = q]
    /\ pc' = [pc EXCEPT ![c] = "check"]
    /\ status' = [status EXCEPT ![c] = FALSE]
    /\ existed' = [existed EXCEPT ![c] = FALSE]
    /\ called' = [called EXCEPT ![c] = FALSE]
    /\ UNCHANGED <<raftVars, tasks, running, store, replicaVars, index, applied>>

\* check_leader: only a leader goes on.
Check(c) ==
    /\ pc[c] = "check"
    /\ pc' = [pc EXCEPT ![c] =
                IF ~leading THEN "refused"
                ELSE IF call[c].op = "get" THEN "read" ELSE "write"]
    /\ UNCHANGED <<raftVars, tasks, running, store, replicaVars, call, index,
                   status, existed, called, applied>>

\* replicate writes the entry, whether this node still leads or not.
Write(c) ==
    /\ pc[c] = "write" /\ Len(log) < MaxLog
    /\ log' = Append(log, [client |-> c, q |-> call[c]])
    /\ sent' = IF leading THEN Len(log) + 1 ELSE sent
    /\ index' = [index EXCEPT ![c] = Len(log) + 1]
    /\ pc' = [pc EXCEPT ![c] = "insert"]
    /\ UNCHANGED <<leading, acked, committed, waiting, tasks, running, store,
                   replicaVars, call, status, existed, called, applied>>

\* insert_callback, after which the handler waits.
Insert(c) ==
    /\ pc[c] = "insert"
    /\ waiting' = waiting \union {index[c]}
    /\ index' = [index EXCEPT ![c] = 0]
    /\ pc' = [pc EXCEPT ![c] = "wait"]
    /\ UNCHANGED <<leading, log, sent, acked, committed, tasks, running, store,
                   replicaVars, call, status, existed, called, applied>>

\* The callback holds the mutex of the handler's sync item.
MutLocked(c) == FALSE
Locked(c) == running # NoTask /\ log[running.index].client = c

\* set waits for raft_status, del for replicate_callback_.
MutWokenUp(c) == status[c]
WokenUp(c) == IF call[c].op = "set" THEN status[c] ELSE called[c]
Answers(c) == pc[c] \in {"refused", "done"}

\* The wait is over and the answer is made.
Woken(c) ==
    /\ pc[c] = "wait" /\ ~Locked(c) /\ WokenUp(c)
    /\ pc' = [pc EXCEPT ![c] = "done"]
    /\ UNCHANGED <<raftVars, tasks, running, store, replicaVars, call, index,
                   status, existed, called, applied>>

Read(c) ==
    /\ pc[c] = "read"
    /\ pc' = [pc EXCEPT ![c] = "done"]
    /\ call' = [call EXCEPT ![c] = [op |-> "got", key |-> @.key, value |-> store[@.key]]]
    /\ UNCHANGED <<raftVars, tasks, running, store, replicaVars, index, status,
                   existed, called, applied>>

Return(c) ==
    /\ Answers(c)
    /\ pc' = [pc EXCEPT ![c] = "idle"]
    /\ call' = [call EXCEPT ![c] = Nothing]
    /\ UNCHANGED <<raftVars, tasks, running, store, replicaVars, index, status,
                   existed, called, applied>>

-----------------------------------------------------------------------------
(* raft, as the server sees it.                                              *)

\* append_entries_callback for the next entry: an entry without a callback, which
\* is not inserted yet or has been answered, is passed over.
MutQueued(t) == <<t>> \o tasks
Queued(t) == Append(tasks, t)
Acknowledge ==
    /\ acked < sent
    /\ acked' = acked + 1
    /\ IF acked + 1 \in waiting
       THEN /\ committed' = acked + 1
            /\ waiting' = waiting \ {acked + 1}
            /\ tasks' = Queued([index |-> acked + 1, ok |-> TRUE])
       ELSE UNCHANGED <<committed, waiting, tasks>>
    /\ UNCHANGED <<leading, log, sent, running, store, replicaVars, handlerVars, applied>>

\* The append timeout of an entry.
Erased(i) == waiting \ {i}
Timeout(i) ==
    /\ waiting' = Erased(i)
    /\ tasks' = Append(tasks, [index |-> i, ok |-> FALSE])
    /\ UNCHANGED <<leading, log, sent, acked, committed, running, store,
                   replicaVars, handlerVars, applied>>

\* step_down: notify_noleader_error answers every callback, in the order of the map.
StepDown ==
    /\ leading /\ leading' = FALSE
    /\ \E s \in [1 .. Cardinality(waiting) -> waiting]:
          /\ \A m, n \in DOMAIN s: m < n => s[m] < s[n]
          /\ tasks' = tasks \o [n \in DOMAIN s |-> [index |-> s[n], ok |-> FALSE]]
    /\ waiting' = {}
    /\ UNCHANGED <<log, sent, acked, committed, running, store, replicaVars,
                   handlerVars, applied>>

\* The follower's committer thread: commit_entry_callback for the next entry.
Replicate ==
    /\ replicated < committed
    /\ replicated' = replicated + 1
    /\ replica' = Updated(replica, log[replicated + 1].q)
    /\ UNCHANGED <<raftVars, tasks, running, store, handlerVars, applied>>

-----------------------------------------------------------------------------
(* The committer thread of the leader.                                       *)

\* A callback starts: it locks, and takes the status.
Begin ==
    /\ running = NoTask /\ tasks # <<>>
    /\ running' = Head(tasks) /\ tasks' = Tail(tasks)
    /\ status' = [status EXCEPT ![log[Head(tasks).index].client] = Head(tasks).ok]
    /\ UNCHANGED <<raftVars, store, replicaVars, call, pc, index, existed, called, applied>>

\* It updates the store, notifies and unlocks.
Finish ==
    /\ running # NoTask
    /\ LET e == log[running.index] IN
         /\ store' = IF running.ok THEN Updated(store, e.q) ELSE store
         /\ existed' = [existed EXCEPT ![e.client] =
                          e.q.op = "del" /\ running.ok /\ store[e.q.key] # NoValue]
         /\ called' = [called EXCEPT ![e.client] = TRUE]
    /\ applied' = IF running.ok THEN applied \union {running.index} ELSE applied
    /\ running' = NoTask
    /\ UNCHANGED <<raftVars, tasks, replicaVars, call, pc, index, status>>

Handler(c) ==
    Check(c) \/ Write(c) \/ Insert(c) \/ Woken(c) \/ Read(c) \/ Return(c)

Next ==
    \/ \E c \in Client:
          \/ \E q \in Sets \union Dels \union Gets: Call(c, q)
          \/ Handler(c)
    \/ Acknowledge \/ StepDown \/ Replicate \/ Begin \/ Finish
    \/ \E i \in waiting: Timeout(i)

Spec == Init /\ [][Next]_vars

\* The handlers and the committer thread run, and the timer fires.
FairSpec ==
    /\ Spec
    /\ \A c \in Client: WF_vars(Handler(c))
    /\ WF_vars(Begin \/ Finish)
    /\ \A i \in 1 .. MaxLog: WF_vars(i \in waiting /\ Timeout(i))

-----------------------------------------------------------------------------
\* The state is typed; only a handler that waits has a callback or a task, and no
\* more than one of them.
TypeOK ==
    /\ leading \in BOOLEAN /\ waiting \subseteq 1 .. Len(log)
    /\ sent \in 0 .. Len(log) /\ acked \in 0 .. sent /\ committed \in 0 .. acked
    /\ replicated \in 0 .. committed
    /\ store \in [Key -> Value \union {NoValue}]
    /\ replica \in [Key -> Value \union {NoValue}]
    /\ pc \in [Client -> {"idle", "check", "refused", "read", "write", "insert", "wait", "done"}]
    /\ \A i \in waiting \union {tasks[j].index: j \in DOMAIN tasks}:
          pc[log[i].client] = "wait"
    /\ Cardinality(waiting) + Len(tasks) + (IF running = NoTask THEN 0 ELSE 1)
          <= Cardinality({c \in Client: pc[c] = "wait"})

\* The follower ends with the store of the leader once both have applied the same
\* entries, although one applies them from the log and the other from its callbacks.
StoresAgree == applied = 1 .. replicated => store = replica

\* A del returns, whatever becomes of its entry, and a set returns if the
\* acknowledgement of its entry finds its callback.  (If the callback is told that
\* it failed, the set never returns.)
Succeeds(c) == \E j \in DOMAIN tasks: tasks[j].ok /\ log[tasks[j].index].client = c
MustReturn(c) ==
    CASE call[c].op = "set" -> Succeeds(c)
      [] call[c].op = "del" -> pc[c] = "insert"
      [] OTHER -> FALSE
CallsReturn == \A c \in Client: MustReturn(c) ~> pc[c] = "idle"

\* The server is the store it promises: an answer is given after the change it
\* tells of, and no other call sees half of it.
Answer(c) ==
    CASE pc[c] = "refused" -> "refused"
      [] pc[c] = "done" /\ call[c].op = "got" -> call[c].value
      [] pc[c] \in {"wait", "done"} /\ call[c].op = "set" /\ called[c] /\ status[c] -> "ok"
      [] pc[c] \in {"wait", "done"} /\ call[c].op = "del" /\ called[c] ->
            IF ~status[c] THEN "refused" ELSE IF existed[c] THEN "ok" ELSE "noexist"
      [] OTHER -> "none"
Asked(c) == IF call[c].op = "got" THEN [op |-> "get", key |-> call[c].key] ELSE call[c]
Store == INSTANCE KvStore WITH
    call <- [c \in Client |-> Asked(c)],
    answer <- [c \in Client |-> Answer(c)]
ImplementsKvStore == Store!Spec
=============================================================================
