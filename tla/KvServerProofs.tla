--------------------------- MODULE KvServerProofs ---------------------------
(***************************************************************************)
(* For any number of clients, keys, values and entries: the stores of the    *)
(* leader and of its follower agree, and the server implements KvStore.      *)
(***************************************************************************)
EXTENDS KvServer, FiniteSetTheorems, TLAPS

Updates == Sets \union Dels
Entry == [client: Client, q: Updates]
Task == [index: Nat, ok: BOOLEAN]
Written(q) == IF q.op = "set" THEN q.value ELSE NoValue

\* s is what the entries with the indexes I make of the empty store, in order.
LastOf(I, k, i) ==
    i \in I /\ log[i].q.key = k /\ \A j \in I: log[j].q.key = k => j <= i
Reflects(s, I) ==
    \A k \in Key:
        \/ \E i \in I: LastOf(I, k, i) /\ s[k] = Written(log[i].q)
        \/ s[k] = NoValue /\ \A i \in I: log[i].q.key # k

\* The handlers that are about to write have an update to write.
CallsTyped ==
    /\ call \in [Client -> Updates \union Gets \union {Nothing}
                             \union [op: {"got"}, key: Key, value: Value \union {NoValue}]]
    /\ pc \in [Client -> {"idle", "check", "refused", "read", "write", "insert", "wait", "done"}]
    /\ \A c \in Client: pc[c] = "check" => call[c] \in Updates \union Gets
    /\ \A c \in Client: pc[c] = "read" => call[c] \in Gets
    /\ \A c \in Client: pc[c] \in {"write", "insert"} => call[c] \in Updates
    /\ index \in [Client -> 0 .. Len(log)]
    /\ \A c \in Client: pc[c] = "insert" => index[c] # 0

RaftTyped ==
    /\ log \in Seq(Entry)
    /\ sent \in 0 .. Len(log) /\ acked \in 0 .. sent /\ committed \in 0 .. acked
    /\ replicated \in 0 .. committed
    /\ waiting \subseteq 1 .. Len(log)
    /\ tasks \in Seq(Task) /\ running \in Task
    /\ store \in [Key -> Value \union {NoValue}]
    /\ replica \in [Key -> Value \union {NoValue}]
    /\ applied \subseteq 1 .. acked

\* What will be applied is acknowledged, behind what is applied, and in order.
Ok(j) == j \in 1 .. Len(tasks) /\ tasks[j].ok
InOrder ==
    /\ \A j, k \in 1 .. Len(tasks): Ok(j) /\ Ok(k) /\ j < k => tasks[j].index < tasks[k].index
    /\ \A j \in 1 .. Len(tasks): Ok(j) =>
          /\ tasks[j].index \in 1 .. acked
          /\ \A i \in applied: i < tasks[j].index
          /\ running.ok => running.index < tasks[j].index
    /\ running.ok => running.index \in 1 .. acked /\ \A i \in applied: i < running.index

StoresReflect == Reflects(store, applied) /\ Reflects(replica, 1 .. replicated)

IInv == CallsTyped /\ RaftTyped /\ InOrder /\ StoresReflect

LEMMA IInvInit == Init => IInv
<1> SUFFICES ASSUME Init  PROVE IInv
    OBVIOUS
<1>1. CallsTyped
      BY DEF Init, CallsTyped
<1>2. RaftTyped
      BY DEF Init, RaftTyped, NoTask, Task
<1>3. InOrder
      BY DEF Init, InOrder, Ok, NoTask
<1>4. StoresReflect
      BY DEF Init, StoresReflect, Reflects
<1> QED  BY <1>1, <1>2, <1>3, <1>4 DEF IInv

\* An update that comes after all that is reflected is reflected with them.
LEMMA UpdateReflected ==
    ASSUME log \in Seq(Entry), NEW s \in [Key -> Value \union {NoValue}],
           NEW I \in SUBSET (1 .. Len(log)), Reflects(s, I),
           NEW n \in 1 .. Len(log), \A i \in I: i < n
    PROVE  /\ Reflects(Updated(s, log[n].q), I \union {n})
           /\ Updated(s, log[n].q) \in [Key -> Value \union {NoValue}]
<1> DEFINE q == log[n].q
           t == Updated(s, q)
<1>1. q \in Updates /\ q.key \in Key /\ Written(q) \in Value \union {NoValue}
  <2>1. log[n] \in Entry
        OBVIOUS
  <2>2. q \in Sets \/ q \in Dels
        BY <2>1 DEF Entry, Updates
  <2>3. CASE q \in Sets
        BY <2>3 DEF Sets, Updates, Written
  <2>4. CASE q \in Dels
        BY <2>4 DEF Dels, Updates, Written
  <2> QED  BY <2>2, <2>3, <2>4
<1>2. /\ t = [s EXCEPT ![q.key] = Written(q)]
      BY DEF Updated, Written
<1>3. t \in [Key -> Value \union {NoValue}]
      BY <1>1, <1>2
<1>4. ASSUME NEW k \in Key, k = q.key
      PROVE  LastOf(I \union {n}, k, n) /\ t[k] = Written(log[n].q)
      BY <1>1, <1>2, <1>4 DEF LastOf
<1>5. ASSUME NEW k \in Key, k # q.key
      PROVE  \/ \E i \in I \union {n}: LastOf(I \union {n}, k, i) /\ t[k] = Written(log[i].q)
             \/ t[k] = NoValue /\ \A i \in I \union {n}: log[i].q.key # k
  <2>1. t[k] = s[k]
        BY <1>1, <1>2, <1>5
  <2>2. ASSUME NEW i \in I, LastOf(I, k, i)  PROVE LastOf(I \union {n}, k, i)
        BY <1>5, <2>2 DEF LastOf
  <2> QED  BY <1>5, <2>1, <2>2 DEF Reflects
<1>6. Reflects(t, I \union {n})
      BY <1>4, <1>5 DEF Reflects
<1> QED  BY <1>3, <1>6

\* Two stores that reflect the same entries are the same.
LEMMA ReflectedOnce ==
    ASSUME log \in Seq(Entry), NEW I \in SUBSET (1 .. Len(log)),
           NEW s \in [Key -> Value \union {NoValue}], Reflects(s, I),
           NEW t \in [Key -> Value \union {NoValue}], Reflects(t, I)
    PROVE  s = t
<1>1. ASSUME NEW k \in Key  PROVE s[k] = t[k]
  <2>1. \A i, j \in I: LastOf(I, k, i) /\ LastOf(I, k, j) => i = j
        BY DEF LastOf
  <2>2. \A i \in I: LastOf(I, k, i) => log[i].q.key = k
        BY DEF LastOf
  <2> QED  BY <2>1, <2>2 DEF Reflects
<1> QED  BY <1>1

-----------------------------------------------------------------------------
(* The actions: what each conjunct of the invariant depends on.              *)

LEMMA HandlerKeepsIInv ==
    ASSUME IInv, NEW c \in Client,
           \/ \E q \in Sets \union Dels \union Gets: Call(c, q)
           \/ Check(c) \/ Woken(c) \/ Read(c) \/ Return(c)
    PROVE  IInv'
<1>1. /\ UNCHANGED <<raftVars, tasks, running, store, replicaVars, applied, index>>
      BY DEF Call, Check, Woken, Read, Return
<1>2. RaftTyped' /\ InOrder' /\ StoresReflect'
      BY <1>1 DEF IInv, RaftTyped, InOrder, Ok, StoresReflect, Reflects, LastOf,
                  raftVars, replicaVars
<1>3. CallsTyped'
  <2> USE DEF IInv, CallsTyped
  <2>1. log' = log
        BY <1>1 DEF raftVars
  <2>2. ASSUME NEW q \in Sets \union Dels \union Gets, Call(c, q)  PROVE CallsTyped'
        BY <1>1, <2>1, <2>2 DEF Call, Updates
  <2>3. CASE Check(c)
    <3>1. call[c].op # "get" => call[c] \in Updates
          BY <2>3 DEF Check, Gets, Updates
    <3>2. call[c].op = "get" => call[c] \in Gets
          BY <2>3 DEF Check, Updates, Sets, Dels
    <3> QED  BY <1>1, <2>1, <2>3, <3>1, <3>2 DEF Check
  <2>4. CASE Woken(c)
        BY <1>1, <2>1, <2>4 DEF Woken
  <2>5. CASE Read(c)
    <3>1. call[c].key \in Key
          BY <2>5 DEF Read, Gets
    <3>2. [op |-> "got", key |-> call[c].key, value |-> store[call[c].key]]
             \in [op: {"got"}, key: Key, value: Value \union {NoValue}]
          BY <3>1 DEF RaftTyped
    <3> QED  BY <1>1, <2>1, <2>5, <3>2 DEF Read
  <2>6. CASE Return(c)
        BY <1>1, <2>1, <2>6 DEF Return
  <2> QED  BY <2>2, <2>3, <2>4, <2>5, <2>6
<1> QED  BY <1>2, <1>3 DEF IInv

LEMMA WriteKeepsIInv ==
    ASSUME IInv, NEW c \in Client, Write(c)
    PROVE  IInv'
<1> DEFINE e == [client |-> c, q |-> call[c]]
<1>1. e \in Entry /\ log \in Seq(Entry) /\ log' = Append(log, e)
      BY DEF IInv, CallsTyped, RaftTyped, Write, Entry
<1>2. Len(log') = Len(log) + 1 /\ log' \in Seq(Entry)
      BY <1>1
<1>3. /\ UNCHANGED <<acked, committed, waiting, tasks, running, store,
                     replica, replicated, call, applied>>
      /\ sent' \in {sent, Len(log) + 1}
      BY DEF Write, replicaVars
<1>4. RaftTyped'
      BY <1>2, <1>3 DEF IInv, RaftTyped
<1>5. CallsTyped'
      BY <1>2, <1>3 DEF IInv, CallsTyped, RaftTyped, Write
<1>6. InOrder'
      BY <1>3 DEF IInv, InOrder, Ok
<1>7. /\ applied \subseteq 1 .. Len(log) /\ 1 .. replicated \subseteq 1 .. Len(log)
      BY DEF IInv, RaftTyped
<1>8. \A i \in 1 .. Len(log): log'[i] = log[i]
      BY <1>1
<1>9. StoresReflect'
  <2>1. Reflects(store, applied) /\ Reflects(replica, 1 .. replicated)
        BY DEF IInv, StoresReflect
  <2>2. Reflects(store, applied)'
        BY <1>3, <1>7, <1>8, <2>1 DEF Reflects, LastOf
  <2>3. Reflects(replica, 1 .. replicated)'
        BY <1>3, <1>7, <1>8, <2>1 DEF Reflects, LastOf
  <2> QED  BY <2>2, <2>3 DEF StoresReflect
<1> QED  BY <1>4, <1>5, <1>6, <1>9 DEF IInv

LEMMA InsertKeepsIInv ==
    ASSUME IInv, NEW c \in Client, Insert(c)
    PROVE  IInv'
<1>1. /\ UNCHANGED <<log, sent, acked, committed, tasks, running, store,
                     replica, replicated, call, applied>>
      BY DEF Insert, replicaVars
<1>2. index[c] \in 1 .. Len(log)
      BY DEF IInv, CallsTyped, RaftTyped, Insert
<1>3. RaftTyped'
      BY <1>1, <1>2 DEF IInv, RaftTyped, Insert
<1>4. CallsTyped'
      BY <1>1 DEF IInv, CallsTyped, RaftTyped, Insert
<1>5. InOrder' /\ StoresReflect'
      BY <1>1 DEF IInv, InOrder, Ok, StoresReflect, Reflects, LastOf
<1> QED  BY <1>3, <1>4, <1>5 DEF IInv

LEMMA AcknowledgeKeepsIInv ==
    ASSUME IInv, Acknowledge
    PROVE  IInv'
<1> DEFINE t == [index |-> acked + 1, ok |-> TRUE]
<1>1. /\ UNCHANGED <<log, sent, running, store, replica, replicated, call, pc,
                     index, applied>>
      /\ acked' = acked + 1 /\ acked < sent
      BY DEF Acknowledge, replicaVars, handlerVars
<1>2. \/ tasks' = tasks /\ committed' = committed /\ waiting' = waiting
      \/ tasks' = Append(tasks, t) /\ committed' = acked + 1 /\ waiting' = waiting \ {acked + 1}
      BY DEF Acknowledge, Queued
<1>3. /\ acked \in Nat /\ sent \in 0 .. Len(log) /\ committed \in 0 .. acked
      /\ replicated \in 0 .. committed /\ tasks \in Seq(Task)
      /\ log \in Seq(Entry) /\ applied \subseteq 1 .. acked
      /\ running \in Task /\ Len(log) \in Nat
      BY DEF IInv, RaftTyped
<1>4. /\ t \in Task
      /\ t.ok = TRUE /\ t.index = acked + 1
      BY <1>3 DEF Task
<1> HIDE DEF t
<1>8. tasks' \in Seq(Task)
      BY <1>2, <1>3, <1>4
<1>9. committed' \in 0 .. acked' /\ replicated' \in 0 .. committed'
      BY <1>1, <1>2, <1>3
<1>10. waiting' \subseteq 1 .. Len(log)
      BY <1>2 DEF IInv, RaftTyped
<1>5. RaftTyped'
      BY <1>1, <1>3, <1>8, <1>9, <1>10 DEF IInv, RaftTyped
<1>6. CallsTyped' /\ StoresReflect'
      BY <1>1 DEF IInv, CallsTyped, StoresReflect, Reflects, LastOf
<1>7. InOrder'
  <2>1. CASE tasks' = tasks
        BY <1>1, <1>3, <2>1 DEF IInv, InOrder, Ok
  <2>2. CASE tasks' = Append(tasks, t)
    <3>1. /\ Len(tasks') = Len(tasks) + 1 /\ tasks'[Len(tasks) + 1] = t
          /\ \A j \in 1 .. Len(tasks): tasks'[j] = tasks[j]
          BY <1>3, <2>2
    <3>2. \A j \in 1 .. Len(tasks): Ok(j) => tasks[j].index \in 1 .. acked
          BY DEF IInv, InOrder
    <3>3. running.ok => running.index \in 1 .. acked
          BY DEF IInv, InOrder
    <3>4. \A j: Ok(j)' => (Ok(j) /\ tasks'[j] = tasks[j]) \/ j = Len(tasks) + 1
          BY <1>3, <3>1 DEF Ok
    <3>5. \A i \in applied: i < acked + 1
          BY <1>3
    <3>6. ASSUME NEW j, NEW k, Ok(j)', Ok(k)', j < k
          PROVE  tasks'[j].index < tasks'[k].index
      <4>1. j \in 1 .. Len(tasks) + 1 /\ k \in 1 .. Len(tasks) + 1
            BY <3>1, <3>6 DEF Ok
      <4>2. Ok(j) /\ tasks'[j] = tasks[j]
            BY <1>3, <3>4, <3>6, <4>1
      <4>3. CASE Ok(k) /\ tasks'[k] = tasks[k]
            BY <3>6, <4>2, <4>3 DEF IInv, InOrder, Ok
      <4>4. CASE k = Len(tasks) + 1
            BY <1>3, <1>4, <3>1, <3>2, <4>2, <4>4 DEF Ok
      <4> QED  BY <3>4, <3>6, <4>3, <4>4
    <3>7. ASSUME NEW j, Ok(j)'
          PROVE  /\ tasks'[j].index \in 1 .. acked + 1
                 /\ \A i \in applied: i < tasks'[j].index
                 /\ running.ok => running.index < tasks'[j].index
      <4>1. CASE Ok(j) /\ tasks'[j] = tasks[j]
            BY <1>3, <4>1 DEF IInv, InOrder, Ok
      <4>2. CASE j = Len(tasks) + 1
            BY <1>3, <1>4, <3>1, <3>3, <3>5, <4>2
      <4> QED  BY <3>4, <3>7, <4>1, <4>2
    <3>8. running.ok => running.index \in 1 .. acked + 1
          BY <1>3, <3>3
    <3> QED  BY <1>1, <3>6, <3>7, <3>8 DEF IInv, InOrder
  <2> QED  BY <1>2, <2>1, <2>2
<1> QED  BY <1>5, <1>6, <1>7 DEF IInv

\* Tasks that report a failure may be queued at any time.
LEMMA FailuresKeepIInv ==
    ASSUME IInv, NEW u \in Seq(Task), \A j \in 1 .. Len(u): u[j].ok = FALSE, tasks' = tasks \o u,
           waiting' \subseteq waiting,
           UNCHANGED <<log, sent, acked, committed, running, store, replica,
                       replicated, call, pc, index, applied>>
    PROVE  IInv'
<1>1. tasks \in Seq(Task)
      BY DEF IInv, RaftTyped
<1>2. tasks' \in Seq(Task)
      BY <1>1
<1>3. CallsTyped' /\ StoresReflect'
      BY DEF IInv, CallsTyped, StoresReflect, Reflects, LastOf
<1>4. RaftTyped'
      BY <1>2 DEF IInv, RaftTyped
<1>5. \A j: Ok(j)' => Ok(j) /\ tasks'[j] = tasks[j]
  <2>2. /\ Len(tasks') = Len(tasks) + Len(u)
        /\ Len(tasks) \in Nat /\ Len(u) \in Nat
        BY <1>1
  <2>3. \A j \in 1 .. Len(tasks'):
            tasks'[j] = IF j <= Len(tasks) THEN tasks[j] ELSE u[j - Len(tasks)]
        BY <1>1, <2>2
  <2> QED  BY <2>2, <2>3 DEF Ok
<1>6. InOrder'
      BY <1>5 DEF IInv, InOrder, Ok
<1> QED  BY <1>3, <1>4, <1>6 DEF IInv

LEMMA TimeoutKeepsIInv ==
    ASSUME IInv, NEW i \in waiting, Timeout(i)
    PROVE  IInv'
<1> DEFINE t == [index |-> i, ok |-> FALSE]
<1>1. tasks \in Seq(Task) /\ i \in Nat
      BY DEF IInv, RaftTyped
<1>2. /\ UNCHANGED <<log, sent, acked, committed, running, store, replica,
                     replicated, call, pc, index, applied>>
      /\ waiting' \subseteq waiting /\ tasks' = Append(tasks, t)
      BY DEF Timeout, Erased, replicaVars, handlerVars
<1>3. t \in Task /\ t.ok = FALSE
      BY <1>1 DEF Task
<1> HIDE DEF t
<1>4. /\ <<t>> \in Seq(Task) /\ Append(tasks, t) = tasks \o <<t>>
      /\ \A j \in 1 .. Len(<<t>>): <<t>>[j].ok = FALSE
      BY <1>1, <1>3
<1> QED  BY <1>2, <1>4, FailuresKeepIInv

LEMMA StepDownKeepsIInv ==
    ASSUME IInv, StepDown
    PROVE  IInv'
<1> DEFINE fail(s) == [n \in DOMAIN s |-> [index |-> s[n], ok |-> FALSE]]
<1>1. /\ UNCHANGED <<log, sent, acked, committed, running, store, replica,
                     replicated, call, pc, index, applied>>
      /\ waiting' \subseteq waiting
      BY DEF StepDown, replicaVars, handlerVars
<1>2. PICK s \in [1 .. Cardinality(waiting) -> waiting]: tasks' = tasks \o fail(s)
      BY DEF StepDown
<1>3. waiting \subseteq 1 .. Len(log) /\ Len(log) \in Nat
      BY DEF IInv, RaftTyped
<1>4. Cardinality(waiting) \in Nat
  <2>1. IsFiniteSet(1 .. Len(log))
        BY <1>3, FS_Interval
  <2>2. IsFiniteSet(waiting)
        BY <1>3, <2>1, FS_Subset
  <2> QED  BY <2>2, FS_CardinalityType
<1>5. \A n \in 1 .. Cardinality(waiting): fail(s)[n] \in Task /\ fail(s)[n].ok = FALSE
  <2>1. \A n \in 1 .. Cardinality(waiting): s[n] \in waiting
        OBVIOUS
  <2>2. waiting \subseteq Nat
        BY <1>3
  <2> QED  BY <2>1, <2>2 DEF Task
<1>6. fail(s) = [n \in 1 .. Cardinality(waiting) |-> fail(s)[n]]
      BY <1>2
<1>7. fail(s) \in Seq(Task) /\ Len(fail(s)) = Cardinality(waiting)
      BY <1>4, <1>5, <1>6
<1> HIDE DEF fail
<1> QED  BY <1>1, <1>2, <1>5, <1>7, FailuresKeepIInv

LEMMA ReplicateKeepsIInv ==
    ASSUME IInv, Replicate
    PROVE  IInv'
<1>1. /\ UNCHANGED <<log, sent, acked, committed, waiting, tasks, running, store,
                     call, pc, index, applied>>
      /\ replicated < committed /\ replicated' = replicated + 1
      /\ replica' = Updated(replica, log[replicated + 1].q)
      BY DEF Replicate, raftVars, handlerVars
<1>2. /\ replicated \in Nat /\ replicated + 1 \in 1 .. Len(log)
      /\ replicated + 1 \in 0 .. committed
      /\ log \in Seq(Entry) /\ replica \in [Key -> Value \union {NoValue}]
      BY <1>1 DEF IInv, RaftTyped
<1>3. Reflects(replica, 1 .. replicated) /\ 1 .. replicated \in SUBSET (1 .. Len(log))
      BY <1>2 DEF IInv, StoresReflect
<1>4. (1 .. replicated) \union {replicated + 1} = 1 .. (replicated + 1)
      BY <1>2
<1>5. \A i \in 1 .. replicated: i < replicated + 1
      BY <1>2
<1> DEFINE t == Updated(replica, log[replicated + 1].q)
<1>6. Reflects(t, 1 .. (replicated + 1)) /\ t \in [Key -> Value \union {NoValue}]
  <2>1. Reflects(t, (1 .. replicated) \union {replicated + 1})
        /\ t \in [Key -> Value \union {NoValue}]
        BY <1>2, <1>3, <1>5, UpdateReflected
  <2> QED  BY <1>4, <2>1
<1> HIDE DEF t
<1>7. StoresReflect'
      BY <1>1, <1>6 DEF IInv, StoresReflect, Reflects, LastOf, t
<1>8. RaftTyped'
      BY <1>1, <1>2, <1>6 DEF IInv, RaftTyped, t
<1>9. CallsTyped' /\ InOrder'
      BY <1>1 DEF IInv, CallsTyped, InOrder, Ok
<1> QED  BY <1>7, <1>8, <1>9 DEF IInv

LEMMA BeginKeepsIInv ==
    ASSUME IInv, Begin
    PROVE  IInv'
<1>1. /\ UNCHANGED <<log, sent, acked, committed, waiting, store, replica,
                     replicated, call, pc, index, applied>>
      /\ running' = Head(tasks) /\ tasks' = Tail(tasks) /\ tasks # <<>>
      BY DEF Begin, raftVars, replicaVars
<1>2. /\ tasks \in Seq(Task) /\ Len(tasks) \in Nat \ {0}
      BY <1>1 DEF IInv, RaftTyped
<1>3. /\ tasks' \in Seq(Task)
      /\ running' \in Task /\ running' = tasks[1]
      /\ Len(tasks') = Len(tasks) - 1
      /\ \A j \in 1 .. Len(tasks) - 1: tasks'[j] = tasks[j + 1]
      BY <1>1, <1>2
<1>4. RaftTyped'
      BY <1>1, <1>3 DEF IInv, RaftTyped
<1>5. CallsTyped' /\ StoresReflect'
      BY <1>1 DEF IInv, CallsTyped, StoresReflect, Reflects, LastOf
<1>6. InOrder'
  <2>1. \A j: Ok(j)' => /\ j \in Nat /\ j >= 1 /\ j + 1 \in 1 .. Len(tasks)
                       /\ Ok(j + 1) /\ tasks'[j] = tasks[j + 1]
        BY <1>2, <1>3 DEF Ok
  <2>2. running'.ok => Ok(1) /\ running' = tasks[1]
        BY <1>2, <1>3 DEF Ok
  <2>3. ASSUME NEW j, NEW k, Ok(j)', Ok(k)', j < k
        PROVE  tasks'[j].index < tasks'[k].index
    <3>1. Ok(j + 1) /\ Ok(k + 1) /\ j + 1 < k + 1
          BY <2>1, <2>3
    <3> QED  BY <2>1, <2>3, <3>1 DEF IInv, InOrder, Ok
  <2>4. ASSUME NEW j, Ok(j)'
        PROVE  /\ tasks'[j].index \in 1 .. acked
               /\ \A i \in applied: i < tasks'[j].index
               /\ running'.ok => running'.index < tasks'[j].index
    <3>1. Ok(j + 1) /\ 1 < j + 1 /\ tasks'[j] = tasks[j + 1] /\ j + 1 \in 1 .. Len(tasks)
          BY <2>1, <2>4
    <3> QED  BY <1>2, <2>2, <3>1 DEF IInv, InOrder
  <2>5. running'.ok => /\ running'.index \in 1 .. acked
                      /\ \A i \in applied: i < running'.index
        BY <1>2, <2>2 DEF IInv, InOrder
  <2> QED  BY <1>1, <2>3, <2>4, <2>5 DEF InOrder
<1> QED  BY <1>4, <1>5, <1>6 DEF IInv

LEMMA FinishKeepsIInv ==
    ASSUME IInv, Finish
    PROVE  IInv'
<1> DEFINE n == running.index
           t == Updated(store, log[n].q)
<1>1. /\ UNCHANGED <<log, sent, acked, committed, waiting, tasks, replica,
                     replicated, call, pc, index>>
      /\ running' = NoTask
      /\ store' = IF running.ok THEN t ELSE store
      /\ applied' = IF running.ok THEN applied \union {n} ELSE applied
      BY DEF Finish, raftVars, replicaVars
<1>2. NoTask \in Task /\ NoTask.ok = FALSE
      BY DEF NoTask, Task
<1>3. CallsTyped'
      BY <1>1 DEF IInv, CallsTyped
<1>4. CASE ~running.ok
      BY <1>1, <1>2, <1>3, <1>4
         DEF IInv, RaftTyped, InOrder, Ok, StoresReflect, Reflects, LastOf
<1>5. CASE running.ok
  <2>1. /\ n \in 1 .. acked /\ \A i \in applied: i < n
        /\ \A j \in 1 .. Len(tasks): Ok(j) => n < tasks[j].index
        BY <1>5 DEF IInv, InOrder
  <2>2. /\ log \in Seq(Entry) /\ store \in [Key -> Value \union {NoValue}]
        /\ acked \in 0 .. Len(log) /\ applied \subseteq 1 .. acked
        BY DEF IInv, RaftTyped
  <2>3. n \in 1 .. Len(log) /\ applied \in SUBSET (1 .. Len(log))
        BY <2>1, <2>2
  <2>4. Reflects(store, applied)
        BY DEF IInv, StoresReflect
  <2>5. Reflects(t, applied \union {n}) /\ t \in [Key -> Value \union {NoValue}]
        BY <2>1, <2>2, <2>3, <2>4, UpdateReflected
  <2>6. store' = t /\ applied' = applied \union {n}
        BY <1>1, <1>5
  <2> HIDE DEF n, t
  <2>7. StoresReflect'
        BY <1>1, <2>5, <2>6 DEF IInv, StoresReflect, Reflects, LastOf
  <2>8. RaftTyped'
        BY <1>1, <1>2, <2>1, <2>5, <2>6 DEF IInv, RaftTyped
  <2>9. InOrder'
        BY <1>1, <1>2, <2>1, <2>6 DEF IInv, InOrder, Ok
  <2> QED  BY <1>3, <2>7, <2>8, <2>9 DEF IInv
<1> QED  BY <1>4, <1>5

LEMMA IInvNext == IInv /\ [Next]_vars => IInv'
<1> SUFFICES ASSUME IInv, [Next]_vars  PROVE IInv'
    OBVIOUS
<1>1. CASE UNCHANGED vars
      BY <1>1 DEF IInv, CallsTyped, RaftTyped, InOrder, Ok, StoresReflect, Reflects,
                  LastOf, vars, raftVars, replicaVars, handlerVars
<1>2. ASSUME NEW c \in Client,
             (\E q \in Sets \union Dels \union Gets: Call(c, q)) \/ Handler(c)
      PROVE  IInv'
      BY <1>2, HandlerKeepsIInv, WriteKeepsIInv, InsertKeepsIInv DEF Handler
<1>3. ASSUME NEW i \in waiting, Timeout(i)  PROVE IInv'
      BY <1>3, TimeoutKeepsIInv
<1>4. CASE Acknowledge \/ StepDown \/ Replicate
      BY <1>4, AcknowledgeKeepsIInv, StepDownKeepsIInv, ReplicateKeepsIInv
<1>5. CASE Begin \/ Finish
      BY <1>5, BeginKeepsIInv, FinishKeepsIInv
<1> QED  BY <1>1, <1>2, <1>3, <1>4, <1>5 DEF Next

-----------------------------------------------------------------------------
\* What the invariant says of the stores: each is what its entries make of the empty
\* store, so that the same entries make the same store.
LEMMA IInvAgree == IInv => StoresAgree
<1> SUFFICES ASSUME IInv, applied = 1 .. replicated  PROVE store = replica
    BY DEF StoresAgree
<1>1. /\ log \in Seq(Entry) /\ 1 .. replicated \in SUBSET (1 .. Len(log))
      /\ store \in [Key -> Value \union {NoValue}]
      /\ replica \in [Key -> Value \union {NoValue}]
      BY DEF IInv, RaftTyped
<1>2. Reflects(store, 1 .. replicated) /\ Reflects(replica, 1 .. replicated)
      BY DEF IInv, StoresReflect
<1> QED  BY <1>1, <1>2, ReflectedOnce

\* Whatever the number of clients, keys and values, a follower that has applied from
\* its log what the leader has applied from its callbacks has the leader's store.
THEOREM StoresAlwaysAgree == Spec => []StoresAgree
<1>1. Init => IInv
      BY IInvInit
<1>2. IInv /\ [Next]_vars => IInv'
      BY IInvNext
<1>3. IInv => StoresAgree
      BY IInvAgree
<1> QED  BY <1>1, <1>2, <1>3, PTL DEF Spec

-----------------------------------------------------------------------------
(* The server is a KvStore.  A call takes effect when its callback ends with  *)
(* success, and is refused by check_leader or, a del, when the callback is    *)
(* told of a failure.                                                        *)

Got == [op: {"got"}, key: Key, value: Value \union {NoValue}]

FlagsTyped ==
    /\ status \in [Client -> BOOLEAN] /\ existed \in [Client -> BOOLEAN]
    /\ called \in [Client -> BOOLEAN]

\* What a client has asked fits where its handler is, and the flags of the handler
\* are those of this call: a callback has set them, or nobody.
HandlersKnown ==
    \A c \in Client:
        /\ pc[c] = "idle" => call[c] = Nothing
        /\ pc[c] = "refused" => call[c] \in Updates \union Gets
        /\ pc[c] = "wait" => call[c] \in Updates
        /\ pc[c] = "done" => call[c] \in Updates \union Got
        /\ pc[c] = "done" /\ call[c] \in Updates =>
               called[c] /\ (call[c].op = "set" => status[c])
        /\ pc[c] \in {"check", "read", "write", "insert"} => ~called[c] /\ ~status[c]
        /\ pc[c] = "wait" /\ status[c] /\ ~called[c] => Locked(c)

\* The entry of a handler that is yet to insert its callback.
WrittenKnown ==
    \A c \in Client:
        pc[c] = "insert" => log[index[c]] = [client |-> c, q |-> call[c]]

\* A callback that is yet to run, or to end, is for a handler that waits.
Awaited(i) ==
    /\ i \in 1 .. Len(log)
    /\ LET c == log[i].client
       IN  pc[c] = "wait" /\ ~called[c] /\ call[c] = log[i].q
CallbacksAwaited ==
    /\ \A i \in waiting: Awaited(i)
    /\ \A j \in 1 .. Len(tasks): Awaited(tasks[j].index)
    /\ running # NoTask => /\ Awaited(running.index)
                           /\ status[log[running.index].client] = running.ok

\* No handler has two of them.
Apart(i, j) == log[i].client # log[j].client
CallbacksApart ==
    /\ \A i, j \in waiting: i # j => Apart(i, j)
    /\ \A j, k \in 1 .. Len(tasks): j # k => Apart(tasks[j].index, tasks[k].index)
    /\ \A i \in waiting: \A j \in 1 .. Len(tasks): Apart(i, tasks[j].index)
    /\ running # NoTask =>
          /\ \A i \in waiting: Apart(i, running.index)
          /\ \A j \in 1 .. Len(tasks): Apart(tasks[j].index, running.index)

ServerInv == FlagsTyped /\ HandlersKnown /\ WrittenKnown /\ CallbacksAwaited /\ CallbacksApart

LEMMA ServerInvInit == Init => ServerInv
<1> SUFFICES ASSUME Init  PROVE ServerInv
    OBVIOUS
<1>1. FlagsTyped
      BY DEF Init, FlagsTyped
<1>2. HandlersKnown /\ WrittenKnown
      BY DEF Init, HandlersKnown, WrittenKnown
<1>3. CallbacksAwaited /\ CallbacksApart
      BY DEF Init, CallbacksAwaited, CallbacksApart
<1> QED  BY <1>1, <1>2, <1>3 DEF ServerInv

\* Only a handler that waits, and is not called yet, has a callback.
LEMMA NotAwaited ==
    ASSUME NEW c \in Client, pc[c] # "wait" \/ called[c], NEW i, Awaited(i)
    PROVE  log[i].client # c
BY DEF Awaited

LEMMA ClientTyped ==
    ASSUME RaftTyped, NEW i \in 1 .. Len(log)
    PROVE  log[i] \in Entry /\ log[i].client \in Client /\ log[i].q \in Updates
<1>1. log[i] \in Entry
      BY DEF RaftTyped
<1> QED  BY <1>1 DEF Entry

\* A handler without a callback moves on: the callbacks stay.
LEMMA OthersKept ==
    ASSUME RaftTyped, CallbacksAwaited, CallbacksApart, NEW c \in Client,
           pc[c] # "wait" \/ called[c],
           \A d \in Client: d # c =>
               /\ pc'[d] = pc[d] /\ call'[d] = call[d]
               /\ status'[d] = status[d] /\ called'[d] = called[d],
           UNCHANGED <<log, waiting, tasks, running>>
    PROVE  CallbacksAwaited' /\ CallbacksApart'
<1>1. ASSUME NEW i, Awaited(i)
      PROVE  Awaited(i)' /\ status'[log[i].client] = status[log[i].client]
  <2>1. log[i].client # c /\ log[i].client \in Client
        BY <1>1, NotAwaited, ClientTyped DEF Awaited
  <2> QED  BY <1>1, <2>1 DEF Awaited
<1>2. CallbacksAwaited'
      BY <1>1 DEF CallbacksAwaited
<1>3. CallbacksApart'
      BY DEF CallbacksApart, Apart
<1> QED  BY <1>2, <1>3

\* The steps of a handler but write and insert.
LEMMA HandlerKeepsServerInv ==
    ASSUME IInv, ServerInv, NEW c \in Client,
           \/ \E q \in Sets \union Dels \union Gets: Call(c, q)
           \/ Check(c) \/ Woken(c) \/ Read(c) \/ Return(c)
    PROVE  ServerInv'
<1>1. UNCHANGED <<log, waiting, tasks, running, index>>
      BY DEF Call, Check, Woken, Read, Return, raftVars
<1>2. /\ pc[c] # "wait" \/ called[c]
      /\ \A d \in Client: d # c =>
             /\ pc'[d] = pc[d] /\ call'[d] = call[d] /\ status'[d] = status[d]
             /\ existed'[d] = existed[d] /\ called'[d] = called[d]
      /\ FlagsTyped'
      /\ pc'[c] # "insert"
      /\ pc'[c] = "idle" => call'[c] = Nothing
      /\ pc'[c] = "refused" => call'[c] \in Updates \union Gets
      /\ pc'[c] # "wait"
      /\ pc'[c] = "done" => call'[c] \in Updates \union Got
      /\ pc'[c] = "done" /\ call'[c] \in Updates =>
             called'[c] /\ (call'[c].op = "set" => status'[c])
      /\ pc'[c] \in {"check", "read", "write"} => ~called'[c] /\ ~status'[c]
  <2> USE DEF IInv, CallsTyped, ServerInv, FlagsTyped
  <2>1. CASE \E q \in Sets \union Dels \union Gets: Call(c, q)
        BY <2>1 DEF Call
  <2>2. CASE Check(c)
        BY <2>2 DEF Check, HandlersKnown
  <2>3. CASE Woken(c)
    <3>1. call[c] \in Updates /\ pc[c] = "wait"
          BY <2>3 DEF Woken, HandlersKnown
    <3>2. called[c] /\ (call[c].op = "set" => status[c])
          BY <2>3, <3>1 DEF Woken, WokenUp, HandlersKnown
    <3> QED  BY <2>3, <3>1, <3>2 DEF Woken
  <2>4. CASE Read(c)
    <3>1. call[c].key \in Key
          BY <2>4 DEF Read, Gets
    <3>2. [op |-> "got", key |-> call[c].key, value |-> store[call[c].key]] \in Got
          BY <3>1 DEF RaftTyped, Got
    <3>3. \A g \in Got: g \notin Updates
          BY DEF Got, Updates, Sets, Dels
    <3> QED  BY <2>4, <3>2, <3>3 DEF Read
  <2>5. CASE Return(c)
        BY <2>5 DEF Return, Answers
  <2> QED  BY <2>1, <2>2, <2>3, <2>4, <2>5
<1>3. CallbacksAwaited' /\ CallbacksApart'
      BY <1>1, <1>2, OthersKept DEF IInv, ServerInv
<1>4. HandlersKnown'
      BY <1>1, <1>2 DEF ServerInv, HandlersKnown, Locked
<1>5. WrittenKnown'
      BY <1>1, <1>2 DEF ServerInv, WrittenKnown
<1> QED  BY <1>2, <1>3, <1>4, <1>5 DEF ServerInv

LEMMA WriteKeepsServerInv ==
    ASSUME IInv, ServerInv, NEW c \in Client, Write(c)
    PROVE  ServerInv'
<1> DEFINE e == [client |-> c, q |-> call[c]]
<1>1. /\ log \in Seq(Entry) /\ log' = Append(log, e) /\ pc[c] = "write"
      /\ pc' = [pc EXCEPT ![c] = "insert"] /\ index' = [index EXCEPT ![c] = Len(log) + 1]
      /\ UNCHANGED <<waiting, tasks, running, call, status, existed, called>>
      BY DEF Write, IInv, RaftTyped
<1>2. /\ Len(log') = Len(log) + 1 /\ Len(log) \in Nat /\ log'[Len(log) + 1] = e
      /\ \A i \in 1 .. Len(log): log'[i] = log[i]
  <2> HIDE DEF e
  <2> QED  BY <1>1
<1>3. /\ pc'[c] = "insert" /\ index'[c] = Len(log) + 1
      /\ \A d \in Client: d # c => pc'[d] = pc[d] /\ index'[d] = index[d]
      BY <1>1 DEF IInv, CallsTyped
<1> HIDE DEF e
<1>4. ASSUME NEW i, Awaited(i)  PROVE Awaited(i)' /\ log'[i] = log[i]
  <2>1. log[i].client # c /\ log[i].client \in Client /\ i \in 1 .. Len(log)
        BY <1>1, <1>4, NotAwaited, ClientTyped DEF Awaited, IInv
  <2> QED  BY <1>1, <1>2, <1>3, <1>4, <2>1 DEF Awaited
<1>5. CallbacksAwaited'
      BY <1>1, <1>4 DEF ServerInv, CallbacksAwaited
<1>6. CallbacksApart'
  <2>1. \A i, j: Awaited(i) /\ Awaited(j) => (Apart(i, j)' <=> Apart(i, j))
        BY <1>4 DEF Apart
  <2>2. /\ \A i \in waiting: Awaited(i)
        /\ \A j \in 1 .. Len(tasks): Awaited(tasks[j].index)
        /\ running # NoTask => Awaited(running.index)
        BY DEF ServerInv, CallbacksAwaited
  <2>3. UNCHANGED <<waiting, tasks, running>>
        BY <1>1
  <2> QED  BY <2>1, <2>2, <2>3 DEF ServerInv, CallbacksApart
<1>7. \A d \in Client: Locked(d) => Locked(d)'
      BY <1>1, <1>4 DEF ServerInv, CallbacksAwaited, Locked
<1>8. HandlersKnown'
      BY <1>1, <1>3, <1>7 DEF ServerInv, HandlersKnown
<1>9. WrittenKnown'
  <2> SUFFICES ASSUME NEW d \in Client, pc'[d] = "insert"
               PROVE  log'[index'[d]] = [client |-> d, q |-> call[d]]
      BY <1>1 DEF WrittenKnown
  <2>1. CASE d = c
        BY <1>2, <1>3, <2>1 DEF e
  <2>2. CASE d # c
    <3>1. pc[d] = "insert" /\ index'[d] = index[d]
          BY <1>3, <2>2
    <3>2. index[d] \in 1 .. Len(log)
          BY <1>2, <3>1 DEF IInv, CallsTyped
    <3> QED  BY <1>2, <3>1, <3>2 DEF ServerInv, WrittenKnown
  <2> QED  BY <2>1, <2>2
<1> QED  BY <1>1, <1>5, <1>6, <1>8, <1>9 DEF ServerInv, FlagsTyped

LEMMA InsertKeepsServerInv ==
    ASSUME IInv, ServerInv, NEW c \in Client, Insert(c)
    PROVE  ServerInv'
<1> PICK n: n = index[c]
    OBVIOUS
<1>1. /\ pc[c] = "insert" /\ waiting' = waiting \union {n}
      /\ pc' = [pc EXCEPT ![c] = "wait"] /\ index' = [index EXCEPT ![c] = 0]
      /\ UNCHANGED <<log, tasks, running, call, status, existed, called>>
      BY DEF Insert
<1>2. /\ pc'[c] = "wait" /\ \A d \in Client: d # c => pc'[d] = pc[d] /\ index'[d] = index[d]
      BY <1>1 DEF IInv, CallsTyped
<1>3. n \in 1 .. Len(log) /\ call[c] \in Updates
      BY <1>1 DEF IInv, CallsTyped, RaftTyped
<1>4. log[n].client = c /\ log[n].q = call[c] /\ ~called[c] /\ ~status[c]
  <2>1. log[n] = [client |-> c, q |-> call[c]]
        BY <1>1 DEF ServerInv, WrittenKnown
  <2>2. ~called[c] /\ ~status[c]
        BY <1>1 DEF ServerInv, HandlersKnown
  <2> QED  BY <2>1, <2>2
<1>5. ASSUME NEW i, Awaited(i)  PROVE Awaited(i)' /\ Apart(i, n) /\ Apart(n, i)
  <2>1. log[i].client # c /\ log[i].client \in Client
        BY <1>1, <1>5, NotAwaited, ClientTyped DEF Awaited, IInv
  <2> QED  BY <1>1, <1>2, <1>4, <1>5, <2>1 DEF Awaited, Apart
<1>6. Awaited(n)'
      BY <1>1, <1>2, <1>3, <1>4 DEF Awaited
<1>7. CallbacksAwaited'
      BY <1>1, <1>5, <1>6 DEF ServerInv, CallbacksAwaited
<1>8. CallbacksApart'
  <2>1. \A i, j: Apart(i, j)' <=> Apart(i, j)
        BY <1>1 DEF Apart
  <2>2. /\ \A i \in waiting: Apart(i, n) /\ Apart(n, i)
        /\ \A j \in 1 .. Len(tasks): Apart(n, tasks[j].index)
        /\ running # NoTask => Apart(n, running.index)
        BY <1>5 DEF ServerInv, CallbacksAwaited
  <2> QED  BY <1>1, <2>1, <2>2 DEF ServerInv, CallbacksApart
<1>9. HandlersKnown'
      BY <1>1, <1>2, <1>3, <1>4 DEF ServerInv, HandlersKnown, Locked
<1>10. WrittenKnown'
      BY <1>1, <1>2 DEF ServerInv, WrittenKnown
<1> QED  BY <1>1, <1>7, <1>8, <1>9, <1>10 DEF ServerInv, FlagsTyped

\* Callbacks leave the map for the queue.
LEMMA MovedKeepServerInv ==
    ASSUME IInv, ServerInv, NEW u \in Seq(Task), tasks' = tasks \o u,
           waiting' \subseteq waiting,
           \A k \in 1 .. Len(u): u[k].index \in waiting \ waiting',
           \A j, k \in 1 .. Len(u): j # k => u[j].index # u[k].index,
           UNCHANGED <<log, running, pc, index, call, status, existed, called>>
    PROVE  ServerInv'
<1>1. /\ FlagsTyped' /\ WrittenKnown' /\ HandlersKnown'
      BY DEF ServerInv, FlagsTyped, WrittenKnown, HandlersKnown, Locked
<1>2. \A i, j: (Apart(i, j)' <=> Apart(i, j)) /\ (Awaited(i)' <=> Awaited(i))
      BY DEF Apart, Awaited
<1>3. tasks \in Seq(Task)
      BY DEF IInv, RaftTyped
<1>4. /\ Len(tasks) \in Nat /\ Len(u) \in Nat /\ Len(tasks') = Len(tasks) + Len(u)
      /\ \A j \in 1 .. Len(tasks): tasks'[j] = tasks[j]
      /\ \A j \in 1 .. Len(tasks'): j > Len(tasks) =>
            /\ j - Len(tasks) \in 1 .. Len(u) /\ tasks'[j] = u[j - Len(tasks)]
      BY <1>3
<1>5. ASSUME NEW j \in 1 .. Len(tasks')
      PROVE  \/ j \in 1 .. Len(tasks) /\ tasks'[j] = tasks[j]
             \/ /\ j > Len(tasks) /\ j - Len(tasks) \in 1 .. Len(u)
                /\ tasks'[j] = u[j - Len(tasks)]
                /\ tasks'[j].index \in waiting \ waiting'
      BY <1>4
<1>6. CallbacksAwaited'
      BY <1>2, <1>5 DEF ServerInv, CallbacksAwaited
<1>7. ASSUME NEW j \in 1 .. Len(tasks'), NEW k \in 1 .. Len(tasks'), j # k
      PROVE  Apart(tasks'[j].index, tasks'[k].index)
  <2>1. CASE j \in 1 .. Len(tasks) /\ k \in 1 .. Len(tasks)
        BY <1>4, <1>7, <2>1 DEF ServerInv, CallbacksApart
  <2>2. CASE j > Len(tasks) /\ k > Len(tasks)
    <3>1. u[j - Len(tasks)].index # u[k - Len(tasks)].index
          BY <1>4, <1>7, <2>2
    <3>2. /\ tasks'[j].index \in waiting /\ tasks'[k].index \in waiting
          /\ tasks'[j].index # tasks'[k].index
          BY <1>4, <1>5, <2>2, <3>1
    <3> QED  BY <3>2 DEF ServerInv, CallbacksApart
  <2>3. CASE j \in 1 .. Len(tasks) /\ k > Len(tasks)
        BY <1>4, <1>5, <2>3 DEF ServerInv, CallbacksApart, Apart
  <2>4. CASE j > Len(tasks) /\ k \in 1 .. Len(tasks)
        BY <1>4, <1>5, <2>4 DEF ServerInv, CallbacksApart, Apart
  <2> QED  BY <1>4, <2>1, <2>2, <2>3, <2>4
<1>8. ASSUME NEW i \in waiting', NEW j \in 1 .. Len(tasks')
      PROVE  Apart(i, tasks'[j].index)
  <2>1. CASE j \in 1 .. Len(tasks) /\ tasks'[j] = tasks[j]
        BY <2>1 DEF ServerInv, CallbacksApart
  <2>2. CASE tasks'[j].index \in waiting \ waiting'
        BY <2>2 DEF ServerInv, CallbacksApart
  <2> QED  BY <1>5, <2>1, <2>2
<1>9. ASSUME running # NoTask, NEW j \in 1 .. Len(tasks')
      PROVE  Apart(tasks'[j].index, running.index)
      BY <1>5, <1>9 DEF ServerInv, CallbacksApart
<1>10. CallbacksApart'
      BY <1>2, <1>7, <1>8, <1>9 DEF ServerInv, CallbacksApart
<1> QED  BY <1>1, <1>6, <1>10 DEF ServerInv

LEMMA RaftKeepsServerInv ==
    ASSUME IInv, ServerInv,
           Acknowledge \/ StepDown \/ Replicate \/ \E i \in waiting: Timeout(i)
    PROVE  ServerInv'
<1>1. UNCHANGED <<log, running, pc, index, call, status, existed, called>>
      BY DEF Acknowledge, StepDown, Replicate, Timeout, handlerVars, raftVars
<1>2. /\ tasks \in Seq(Task) /\ waiting \subseteq 1 .. Len(log) /\ Len(log) \in Nat
      /\ acked \in Nat
      BY DEF IInv, RaftTyped
<1>3. ASSUME UNCHANGED <<waiting, tasks>>  PROVE ServerInv'
      BY <1>1, <1>3 DEF ServerInv, FlagsTyped, HandlersKnown, Locked, WrittenKnown,
         CallbacksAwaited, Awaited, CallbacksApart, Apart
<1>4. ASSUME NEW i \in waiting, NEW t \in Task, t.index = i, waiting' = waiting \ {i},
             tasks' = Append(tasks, t)
      PROVE  ServerInv'
  <2>1. /\ <<t>> \in Seq(Task) /\ tasks' = tasks \o <<t>> /\ Len(<<t>>) = 1 /\ <<t>>[1] = t
        BY <1>2, <1>4
  <2>2. /\ \A k \in 1 .. Len(<<t>>): <<t>>[k].index \in waiting \ waiting'
        /\ \A j, k \in 1 .. Len(<<t>>): j # k => <<t>>[j].index # <<t>>[k].index
        /\ waiting' \subseteq waiting
        BY <1>4, <2>1
  <2> QED  BY <1>1, <2>1, <2>2, MovedKeepServerInv
<1>5. CASE Replicate
      BY <1>3, <1>5 DEF Replicate, raftVars
<1>6. CASE Acknowledge
  <2>1. CASE acked + 1 \in waiting
    <3>1. [index |-> acked + 1, ok |-> TRUE] \in Task
          BY <1>2 DEF Task
    <3> QED  BY <1>4, <1>6, <2>1, <3>1 DEF Acknowledge, Queued
  <2>2. CASE acked + 1 \notin waiting
        BY <1>3, <1>6, <2>2 DEF Acknowledge
  <2> QED  BY <2>1, <2>2
<1>7. ASSUME NEW i \in waiting, Timeout(i)  PROVE ServerInv'
  <2>1. [index |-> i, ok |-> FALSE] \in Task
        BY <1>2 DEF Task
  <2> QED  BY <1>4, <1>7, <2>1 DEF Timeout, Erased
<1>8. CASE StepDown
  <2> DEFINE N == Cardinality(waiting)
             fail(s) == [n \in DOMAIN s |-> [index |-> s[n], ok |-> FALSE]]
  <2>1. PICK s \in [1 .. N -> waiting]:
            /\ \A m, n \in DOMAIN s: m < n => s[m] < s[n]
            /\ tasks' = tasks \o fail(s)
        BY <1>8 DEF StepDown
  <2>2. waiting' = {}
        BY <1>8 DEF StepDown
  <2>3. N \in Nat
    <3>1. IsFiniteSet(1 .. Len(log))
          BY <1>2, FS_Interval
    <3>2. IsFiniteSet(waiting)
          BY <1>2, <3>1, FS_Subset
    <3> QED  BY <3>2, FS_CardinalityType
  <2>4. waiting \subseteq Nat
        BY <1>2
  <2> HIDE DEF N
  <2>5. /\ fail(s) = [n \in 1 .. N |-> fail(s)[n]]
        /\ \A n \in 1 .. N: /\ fail(s)[n] \in Task /\ fail(s)[n].index = s[n]
                            /\ s[n] \in waiting
    <3>1. \A i \in Nat: [index |-> i, ok |-> FALSE] \in Task
          BY DEF Task
    <3> QED  BY <2>1, <2>4, <3>1
  <2>6. \A j, k \in 1 .. N: j # k => s[j] # s[k]
    <3> SUFFICES ASSUME NEW j \in 1 .. N, NEW k \in 1 .. N, j < k  PROVE s[j] # s[k]
        BY <2>3
    <3>1. s[j] < s[k] /\ s[j] \in Nat /\ s[k] \in Nat
          BY <2>1, <2>4
    <3> QED  BY <3>1
  <2> HIDE DEF fail
  <2>7. fail(s) \in Seq(Task) /\ Len(fail(s)) = N
        BY <2>3, <2>5
  <2>8. /\ \A k \in 1 .. Len(fail(s)): fail(s)[k].index \in waiting \ waiting'
        /\ \A j, k \in 1 .. Len(fail(s)): j # k => fail(s)[j].index # fail(s)[k].index
        /\ waiting' \subseteq waiting
    <3>1. \A k \in 1 .. N: fail(s)[k].index = s[k] /\ s[k] \in waiting
          BY <2>5
    <3>2. \A j, k \in 1 .. N: j # k => fail(s)[j].index # fail(s)[k].index
          BY <2>6, <3>1
    <3> QED  BY <2>2, <2>7, <3>1, <3>2
  <2> QED  BY <1>1, <2>1, <2>7, <2>8, MovedKeepServerInv
<1> QED  BY <1>5, <1>6, <1>7, <1>8

\* What both steps of the committer thread know of the handler of a callback.
LEMMA AwaitedTyped ==
    ASSUME RaftTyped, NEW i, Awaited(i)
    PROVE  /\ i \in 1 .. Len(log) /\ i # 0
           /\ log[i].client \in Client /\ log[i].q \in Updates
           /\ pc[log[i].client] = "wait" /\ ~called[log[i].client]
           /\ call[log[i].client] = log[i].q
<1>1. i \in 1 .. Len(log) /\ Len(log) \in Nat
      BY DEF Awaited, RaftTyped
<1>2. i # 0
      BY <1>1
<1> QED  BY <1>1, <1>2, ClientTyped DEF Awaited

LEMMA BeginKeepsServerInv ==
    ASSUME IInv, ServerInv, Begin
    PROVE  ServerInv'
<1> PICK t: t = Head(tasks)
    OBVIOUS
<1> PICK x: x = log[t.index].client
    OBVIOUS
<1>1. /\ running = NoTask /\ running' = t /\ tasks' = Tail(tasks) /\ tasks # <<>>
      /\ status' = [status EXCEPT ![x] = t.ok]
      /\ UNCHANGED <<log, waiting, call, pc, index, existed, called>>
      BY DEF Begin, raftVars
<1>2. /\ tasks \in Seq(Task) /\ t = tasks[1] /\ t \in Task
      /\ Len(tasks') = Len(tasks) - 1 /\ Len(tasks) \in Nat \ {0}
      /\ \A j \in 1 .. Len(tasks'): tasks'[j] = tasks[j + 1] /\ j + 1 \in 2 .. Len(tasks)
  <2>1. tasks \in Seq(Task)
        BY DEF IInv, RaftTyped
  <2> QED  BY <1>1, <2>1
<1>3. Awaited(t.index)
      BY <1>2 DEF ServerInv, CallbacksAwaited
<1>4. /\ x \in Client /\ pc[x] = "wait" /\ ~called[x] /\ t.index # 0
      BY <1>3, AwaitedTyped DEF IInv
<1>5. t # NoTask /\ t.ok \in BOOLEAN
      BY <1>2, <1>4 DEF NoTask, Task
<1>6. status' \in [Client -> BOOLEAN] /\ status'[x] = t.ok
      /\ \A d \in Client: d # x => status'[d] = status[d]
      BY <1>1, <1>4, <1>5 DEF ServerInv, FlagsTyped
<1>7. HandlersKnown'
  <2>1. Locked(x)'
        BY <1>1, <1>5 DEF Locked
  <2>2. \A d \in Client: ~Locked(d)
        BY <1>1 DEF Locked
  <2> QED  BY <1>1, <1>4, <1>6, <2>1, <2>2 DEF ServerInv, HandlersKnown
<1>8. \A i, j: (Awaited(i)' <=> Awaited(i)) /\ (Apart(i, j)' <=> Apart(i, j))
      BY <1>1 DEF Awaited, Apart
<1>9. CallbacksAwaited'
  <2>1. \A j \in 1 .. Len(tasks'): Awaited(tasks'[j].index)
        BY <1>2 DEF ServerInv, CallbacksAwaited
  <2>2. running'.ok = status'[log'[running'.index].client] /\ Awaited(running'.index)
        BY <1>1, <1>3, <1>6
  <2> QED  BY <1>1, <1>8, <2>1, <2>2 DEF ServerInv, CallbacksAwaited
<1>10. CallbacksApart'
  <2>1. \A j \in 1 .. Len(tasks): j # 1 => Apart(tasks[j].index, t.index)
        BY <1>2 DEF ServerInv, CallbacksApart
  <2>2. \A j \in 1 .. Len(tasks'): Apart(tasks'[j].index, t.index)
        BY <1>2, <2>1
  <2>3. \A i \in waiting: Apart(i, t.index)
        BY <1>2 DEF ServerInv, CallbacksApart
  <2>4. ASSUME NEW j \in 1 .. Len(tasks'), NEW k \in 1 .. Len(tasks'), j # k
        PROVE  Apart(tasks'[j].index, tasks'[k].index)
    <3>1. /\ j + 1 \in 1 .. Len(tasks) /\ k + 1 \in 1 .. Len(tasks) /\ j + 1 # k + 1
          /\ tasks'[j] = tasks[j + 1] /\ tasks'[k] = tasks[k + 1]
          BY <1>2, <2>4
    <3> QED  BY <3>1 DEF ServerInv, CallbacksApart
  <2>5. \A i \in waiting: \A j \in 1 .. Len(tasks'): Apart(i, tasks'[j].index)
        BY <1>2 DEF ServerInv, CallbacksApart
  <2> QED  BY <1>1, <1>8, <2>2, <2>3, <2>4, <2>5 DEF ServerInv, CallbacksApart
<1> QED  BY <1>1, <1>6, <1>7, <1>9, <1>10 DEF ServerInv, FlagsTyped, WrittenKnown

LEMMA FinishKeepsServerInv ==
    ASSUME IInv, ServerInv, Finish
    PROVE  ServerInv'
<1> PICK n: n = running.index
    OBVIOUS
<1> PICK x: x = log[n].client
    OBVIOUS
<1>1. /\ running # NoTask /\ running' = NoTask
      /\ existed' = [existed EXCEPT ![x] =
                       log[n].q.op = "del" /\ running.ok /\ store[log[n].q.key] # NoValue]
      /\ called' = [called EXCEPT ![x] = TRUE]
      /\ UNCHANGED <<log, waiting, tasks, call, pc, index, status>>
      BY DEF Finish, raftVars
<1>2. Awaited(n) /\ running \in Task
      BY <1>1 DEF IInv, RaftTyped, ServerInv, CallbacksAwaited
<1>3. x \in Client /\ pc[x] = "wait"
      BY <1>2, AwaitedTyped DEF IInv
<1>4. /\ existed' \in [Client -> BOOLEAN] /\ called' \in [Client -> BOOLEAN]
      /\ called'[x] /\ \A d \in Client: d # x => called'[d] = called[d]
      BY <1>1, <1>2, <1>3 DEF ServerInv, FlagsTyped, Task
<1>5. HandlersKnown'
  <2>1. \A d \in Client: Locked(d) => d = x
        BY DEF Locked
  <2> QED  BY <1>1, <1>3, <1>4, <2>1 DEF ServerInv, HandlersKnown
<1>6. ASSUME NEW i, Awaited(i), Apart(i, n)  PROVE Awaited(i)'
  <2>1. log[i].client # x /\ log[i].client \in Client
        BY <1>6, AwaitedTyped DEF Apart, IInv
  <2> QED  BY <1>1, <1>4, <1>6, <2>1 DEF Awaited
<1>7. CallbacksAwaited'
      BY <1>1, <1>6 DEF ServerInv, CallbacksAwaited, CallbacksApart
<1>8. CallbacksApart'
      BY <1>1 DEF ServerInv, CallbacksApart, Apart
<1> QED  BY <1>1, <1>4, <1>5, <1>7, <1>8 DEF ServerInv, FlagsTyped, WrittenKnown

LEMMA ServerInvNext == IInv /\ ServerInv /\ [Next]_vars => ServerInv'
<1> SUFFICES ASSUME IInv, ServerInv, [Next]_vars  PROVE ServerInv'
    OBVIOUS
<1>1. CASE UNCHANGED vars
      BY <1>1 DEF ServerInv, FlagsTyped, HandlersKnown, Locked, WrittenKnown,
                  CallbacksAwaited, Awaited, CallbacksApart, Apart,
                  vars, raftVars, replicaVars, handlerVars
<1>2. ASSUME NEW c \in Client,
             (\E q \in Sets \union Dels \union Gets: Call(c, q)) \/ Handler(c)
      PROVE  ServerInv'
      BY <1>2, HandlerKeepsServerInv, WriteKeepsServerInv, InsertKeepsServerInv DEF Handler
<1>3. CASE Acknowledge \/ StepDown \/ Replicate \/ \E i \in waiting: Timeout(i)
      BY <1>3, RaftKeepsServerInv
<1>4. CASE Begin \/ Finish
      BY <1>4, BeginKeepsServerInv, FinishKeepsServerInv
<1> QED  BY <1>1, <1>2, <1>3, <1>4 DEF Next

-----------------------------------------------------------------------------
(* The refinement: every step is a step of the store, or none.               *)

Requests == [c \in Client |-> Asked(c)]
Replies == [c \in Client |-> Answer(c)]
StoreStep == [Store!Next]_<<store, Requests, Replies>>

\* Only what the store knows of one client changes.
OthersStay(c) ==
    \A d \in Client: d # c =>
        /\ pc'[d] = pc[d] /\ call'[d] = call[d] /\ status'[d] = status[d]
        /\ existed'[d] = existed[d] /\ called'[d] = called[d]

LEMMA OneReply ==
    ASSUME NEW c \in Client, OthersStay(c)
    PROVE  /\ Requests' = [Requests EXCEPT ![c] = Asked(c)']
           /\ Replies' = [Replies EXCEPT ![c] = Answer(c)']
<1>1. \A d \in Client: d # c => Asked(d)' = Asked(d) /\ Answer(d)' = Answer(d)
      BY DEF OthersStay, Asked, Answer
<1> QED  BY <1>1 DEF Requests, Replies

\* Nothing that the store knows of changes.
LEMMA NoReply ==
    ASSUME NEW c \in Client, OthersStay(c), Asked(c)' = Asked(c), Answer(c)' = Answer(c),
           UNCHANGED store
    PROVE  StoreStep
<1>1. \A d \in Client: Asked(d)' = Asked(d) /\ Answer(d)' = Answer(d)
      BY DEF OthersStay, Asked, Answer
<1> QED  BY <1>1 DEF StoreStep, Requests, Replies

LEMMA UpdateTyped ==
    ASSUME NEW q \in Updates
    PROVE  /\ q.op \in {"set", "del"} /\ q.key \in Key
           /\ q \in Sets <=> q.op = "set"
           /\ q \in Dels <=> q.op = "del"
           /\ q # Nothing
BY DEF Updates, Sets, Dels, Nothing

LEMMA GetTyped ==
    ASSUME NEW q \in Gets
    PROVE  /\ q.op = "get" /\ q.key \in Key /\ q # Nothing
           /\ q = [op |-> "get", key |-> q.key]
BY DEF Gets, Nothing

LEMMA GotTyped ==
    ASSUME NEW q \in Got
    PROVE  /\ q.op = "got" /\ q.key \in Key /\ q.value \in Value \union {NoValue}
BY DEF Got

\* Until its callback has run, or check_leader has refused it, a call has no reply.
LEMMA NotReplied ==
    ASSUME NEW c \in Client,
           \/ pc[c] \in {"idle", "check", "read", "write", "insert"}
           \/ pc[c] = "wait" /\ ~called[c]
           \/ pc[c] = "wait" /\ call[c].op = "set" /\ ~status[c]
    PROVE  Answer(c) = "none"
BY DEF Answer

LEMMA RequestAsked ==
    ASSUME NEW c \in Client, call[c] \in Updates \union Gets
    PROVE  Asked(c) = call[c] /\ Asked(c) # Nothing
BY UpdateTyped, GetTyped DEF Asked

LEMMA CallImplements ==
    ASSUME IInv, ServerInv, NEW c \in Client,
           NEW q \in Sets \union Dels \union Gets, Call(c, q)
    PROVE  StoreStep
<1>1. /\ pc[c] = "idle" /\ call[c] = Nothing /\ pc'[c] = "check" /\ call'[c] = q
      /\ UNCHANGED store
      BY DEF Call, IInv, CallsTyped, ServerInv, HandlersKnown
<1>2. OthersStay(c)
      BY DEF Call, OthersStay, IInv, CallsTyped, ServerInv, FlagsTyped
<1>3. Asked(c) = Nothing /\ Asked(c)' = q
  <2>1. q.op # "got"
        BY UpdateTyped, GetTyped DEF Updates
  <2> QED  BY <1>1, <2>1 DEF Asked, Nothing
<1>4. Answer(c)' = Answer(c)
      BY <1>1 DEF Answer
<1>5. /\ Requests' = [Requests EXCEPT ![c] = q] /\ Replies' = Replies
      /\ Requests[c] = Nothing
      BY <1>2, <1>3, <1>4, OneReply DEF Requests, Replies
<1>6. Store!Call(c, q)
      BY <1>1, <1>5 DEF Store!Call, Store!Nothing, Nothing, Requests, Replies
<1>7. q \in Store!Calls
      BY DEF Store!Calls, Store!Sets, Store!Dels, Store!Gets, Sets, Dels, Gets
<1> QED  BY <1>6, <1>7 DEF StoreStep, Store!Next

LEMMA CheckImplements ==
    ASSUME IInv, ServerInv, NEW c \in Client, Check(c)
    PROVE  StoreStep
<1>1. /\ pc[c] = "check" /\ call' = call /\ UNCHANGED store
      /\ pc'[c] \in {"refused", "read", "write"}
      BY DEF Check, IInv, CallsTyped
<1>2. OthersStay(c)
      BY DEF Check, OthersStay, IInv, CallsTyped
<1>3. Asked(c) # Nothing /\ Asked(c)' = Asked(c)
      BY <1>1, RequestAsked DEF IInv, CallsTyped, Asked
<1>4. Answer(c) = "none"
      BY <1>1, NotReplied
<1>5. CASE pc'[c] \in {"read", "write"}
  <2>1. Answer(c)' = "none"
        BY <1>5 DEF Answer
  <2> QED  BY <1>1, <1>2, <1>3, <1>4, <2>1, NoReply
<1>6. CASE pc'[c] = "refused"
  <2>1. Answer(c)' = "refused"
        BY <1>6 DEF Answer
  <2>2. /\ Requests' = Requests /\ Replies' = [Replies EXCEPT ![c] = "refused"]
        /\ Requests[c] # Nothing /\ Replies[c] = "none"
        BY <1>2, <1>3, <1>4, <2>1, OneReply DEF Requests, Replies
  <2>3. Store!Refuse(c)
        BY <1>1, <2>2
           DEF Store!Refuse, Store!Asked, Store!Nothing, Nothing, Requests, Replies
  <2> QED  BY <2>3 DEF StoreStep, Store!Next
<1> QED  BY <1>1, <1>5, <1>6

LEMMA ReadImplements ==
    ASSUME IInv, ServerInv, NEW c \in Client, Read(c)
    PROVE  StoreStep
<1> PICK q: q = call[c]
    OBVIOUS
<1>1. /\ pc[c] = "read" /\ pc'[c] = "done" /\ q \in Gets
      /\ call'[c] = [op |-> "got", key |-> q.key, value |-> store[q.key]]
      /\ UNCHANGED store
      BY DEF Read, IInv, CallsTyped
<1>2. OthersStay(c)
      BY DEF Read, OthersStay, IInv, CallsTyped
<1>3. Asked(c) = q /\ q # Nothing /\ Asked(c)' = q
  <2>1. Asked(c)' = [op |-> "get", key |-> q.key]
        BY <1>1 DEF Asked
  <2> QED  BY <1>1, <2>1, RequestAsked, GetTyped
<1>4. Answer(c) = "none" /\ Answer(c)' = store[q.key]
      BY <1>1, NotReplied DEF Answer
<1>5. /\ Requests' = Requests /\ Replies' = [Replies EXCEPT ![c] = store[q.key]]
      /\ Requests[c] = q /\ Replies[c] = "none"
      BY <1>2, <1>3, <1>4, OneReply DEF Requests, Replies
<1>6. Store!Effect(store, q) = store /\ Store!Said(store, q) = store[q.key]
      BY <1>1, GetTyped DEF Store!Effect, Store!Said
<1>7. Store!Perform(c)
      BY <1>1, <1>3, <1>5, <1>6
         DEF Store!Perform, Store!Asked, Store!Nothing, Nothing, Requests, Replies
<1> QED  BY <1>7 DEF StoreStep, Store!Next

LEMMA ReturnImplements ==
    ASSUME IInv, ServerInv, NEW c \in Client, Return(c)
    PROVE  StoreStep
<1>1. /\ pc[c] \in {"refused", "done"} /\ pc'[c] = "idle" /\ call'[c] = Nothing
      /\ UNCHANGED store
      BY DEF Return, Answers, IInv, CallsTyped
<1>2. OthersStay(c)
      BY DEF Return, OthersStay, IInv, CallsTyped
<1>3. Asked(c)' = Nothing /\ Answer(c)' = "none"
      BY <1>1 DEF Asked, Answer, Nothing
<1>4. Answer(c) # "none"
  <2>1. CASE pc[c] = "refused"
        BY <2>1 DEF Answer
  <2>2. CASE pc[c] = "done" /\ call[c] \in Got
    <3>1. Answer(c) = call[c].value
          BY <2>2, GotTyped DEF Answer
    <3> QED  BY <2>2, <3>1, GotTyped, KvAnswers
  <2>3. CASE pc[c] = "done" /\ call[c] \in Updates
    <3>1. called[c] /\ call[c].op \in {"set", "del"} /\ (call[c].op = "set" => status[c])
          BY <2>3, UpdateTyped DEF ServerInv, HandlersKnown
    <3> QED  BY <2>3, <3>1 DEF Answer
  <2> QED  BY <1>1, <2>1, <2>2, <2>3 DEF ServerInv, HandlersKnown
<1>5. /\ Requests' = [Requests EXCEPT ![c] = Nothing]
      /\ Replies' = [Replies EXCEPT ![c] = "none"] /\ Replies[c] # "none"
      BY <1>2, <1>3, <1>4, OneReply DEF Requests, Replies
<1>6. Store!Return(c)
      BY <1>1, <1>5 DEF Store!Return, Store!Nothing, Nothing, Requests, Replies
<1> QED  BY <1>6 DEF StoreStep, Store!Next

\* Nobody sees the entry written, the callback inserted or the handler woken.
LEMMA WaitImplements ==
    ASSUME IInv, ServerInv, NEW c \in Client, Write(c) \/ Insert(c) \/ Woken(c)
    PROVE  StoreStep
<1>1. /\ UNCHANGED <<store, call, status, existed, called>>
      BY DEF Write, Insert, Woken
<1>2. OthersStay(c)
      BY DEF Write, Insert, Woken, OthersStay, IInv, CallsTyped
<1>3. Asked(c)' = Asked(c)
      BY <1>1 DEF Asked
<1>4. CASE Write(c) \/ Insert(c)
  <2>1. /\ pc[c] \in {"write", "insert"} /\ ~called[c]
        /\ pc'[c] \in {"insert", "wait"}
        BY <1>4 DEF Write, Insert, IInv, CallsTyped, ServerInv, HandlersKnown
  <2>2. Answer(c) = "none" /\ Answer(c)' = "none"
        BY <1>1, <2>1 DEF Answer
  <2> QED  BY <1>1, <1>2, <1>3, <2>2, NoReply
<1>5. CASE Woken(c)
  <2>1. pc[c] = "wait" /\ pc'[c] = "done" /\ call[c] \in Updates
        BY <1>5 DEF Woken, IInv, CallsTyped, ServerInv, HandlersKnown
  <2>2. Answer(c)' = Answer(c)
        BY <1>1, <2>1, UpdateTyped DEF Answer
  <2> QED  BY <1>1, <1>2, <1>3, <2>2, NoReply
<1> QED  BY <1>4, <1>5

\* A callback that has begun has not told anything yet.
LEMMA BeginImplements ==
    ASSUME IInv, ServerInv, Begin
    PROVE  StoreStep
<1> PICK t: t = Head(tasks)
    OBVIOUS
<1> PICK x: x = log[t.index].client
    OBVIOUS
<1>1. /\ tasks # <<>> /\ status' = [status EXCEPT ![x] = t.ok]
      /\ UNCHANGED <<store, call, pc, existed, called>>
      BY DEF Begin
<1>2. tasks \in Seq(Task) /\ t = tasks[1] /\ Len(tasks) \in Nat \ {0}
  <2>1. tasks \in Seq(Task)
        BY DEF IInv, RaftTyped
  <2> QED  BY <1>1, <2>1
<1>3. x \in Client /\ pc[x] = "wait" /\ ~called[x]
      BY <1>2, AwaitedTyped DEF IInv, ServerInv, CallbacksAwaited
<1>4. OthersStay(x)
      BY <1>1 DEF OthersStay, ServerInv, FlagsTyped
<1>5. Asked(x)' = Asked(x)
      BY <1>1 DEF Asked
<1>6. Answer(x) = "none" /\ Answer(x)' = "none"
      BY <1>1, <1>3 DEF Answer
<1> QED  BY <1>1, <1>3, <1>4, <1>5, <1>6, NoReply

\* The end of a callback is where the call takes effect, or is refused.
LEMMA FinishImplements ==
    ASSUME IInv, ServerInv, Finish
    PROVE  StoreStep
<1> PICK n: n = running.index
    OBVIOUS
<1> PICK x: x = log[n].client
    OBVIOUS
<1> PICK q: q = log[n].q
    OBVIOUS
<1>1. /\ running # NoTask
      /\ store' = IF running.ok THEN Updated(store, q) ELSE store
      /\ existed' = [existed EXCEPT ![x] =
                       q.op = "del" /\ running.ok /\ store[q.key] # NoValue]
      /\ called' = [called EXCEPT ![x] = TRUE]
      /\ UNCHANGED <<call, pc, status>>
      BY DEF Finish
<1>2. Awaited(n) /\ status[x] = running.ok /\ running.ok \in BOOLEAN
      BY <1>1 DEF IInv, RaftTyped, Task, ServerInv, CallbacksAwaited
<1>3. x \in Client /\ pc[x] = "wait" /\ ~called[x] /\ call[x] = q /\ q \in Updates
      BY <1>2, AwaitedTyped DEF IInv
<1>4. OthersStay(x)
      BY <1>1 DEF OthersStay, ServerInv, FlagsTyped
<1>5. Asked(x) = q /\ q # Nothing /\ Asked(x)' = q
      BY <1>1, <1>3, RequestAsked DEF Asked
<1>6. /\ Answer(x) = "none" /\ pc'[x] = "wait" /\ call'[x] = q /\ called'[x]
      /\ status'[x] = running.ok
      /\ existed'[x] <=> q.op = "del" /\ running.ok /\ store[q.key] # NoValue
      BY <1>1, <1>2, <1>3, NotReplied DEF ServerInv, FlagsTyped
<1>7. q.op \in {"set", "del"}
      BY <1>3, UpdateTyped
<1>8. /\ Requests' = Requests /\ Replies' = [Replies EXCEPT ![x] = Answer(x)']
      /\ Requests[x] = q /\ Replies[x] = "none"
  <2>1. /\ Requests' = [Requests EXCEPT ![x] = Asked(x)']
        /\ Replies' = [Replies EXCEPT ![x] = Answer(x)']
        BY <1>3, <1>4, OneReply
  <2>2. Requests[x] = q /\ Replies[x] = "none"
        BY <1>3, <1>5, <1>6 DEF Requests, Replies
  <2>3. Requests' = Requests
        BY <1>5, <2>1, <2>2 DEF Requests
  <2> QED  BY <2>1, <2>2, <2>3
<1>9. CASE running.ok
  <2>1. Store!Effect(store, q) = Updated(store, q)
        BY <1>7 DEF Store!Effect, Updated
  <2>2. Answer(x)' = Store!Said(store, q)
        BY <1>6, <1>7, <1>9 DEF Answer, Store!Said
  <2>3. Store!Perform(x)
        BY <1>1, <1>5, <1>8, <1>9, <2>1, <2>2
           DEF Store!Perform, Store!Asked, Store!Nothing, Nothing, Requests, Replies
  <2> QED  BY <1>3, <2>3 DEF StoreStep, Store!Next
<1>10. CASE ~running.ok /\ q.op = "del"
  <2>1. Answer(x)' = "refused"
        BY <1>6, <1>10 DEF Answer
  <2>2. Store!Refuse(x)
        BY <1>1, <1>5, <1>8, <1>10, <2>1
           DEF Store!Refuse, Store!Asked, Store!Nothing, Nothing, Requests, Replies
  <2> QED  BY <1>3, <2>2 DEF StoreStep, Store!Next
<1>11. CASE ~running.ok /\ q.op = "set"
  <2>1. Answer(x)' = "none"
        BY <1>6, <1>11 DEF Answer
  <2> QED  BY <1>1, <1>3, <1>4, <1>5, <1>6, <1>11, <2>1, NoReply
<1> QED  BY <1>2, <1>7, <1>9, <1>10, <1>11

LEMMA RestImplements ==
    ASSUME UNCHANGED <<store, call, pc, status, existed, called>>
    PROVE  StoreStep
BY DEF StoreStep, Requests, Replies, Asked, Answer

LEMMA NextImplements == IInv /\ ServerInv /\ [Next]_vars => StoreStep
<1> SUFFICES ASSUME IInv, ServerInv, [Next]_vars  PROVE StoreStep
    OBVIOUS
<1>1. CASE UNCHANGED vars
      BY <1>1, RestImplements DEF vars, handlerVars
<1>2. ASSUME NEW c \in Client,
             (\E q \in Sets \union Dels \union Gets: Call(c, q)) \/ Handler(c)
      PROVE  StoreStep
      BY <1>2, CallImplements, CheckImplements, ReadImplements, ReturnImplements,
         WaitImplements DEF Handler
<1>3. CASE Acknowledge \/ StepDown \/ Replicate \/ \E i \in waiting: Timeout(i)
      BY <1>3, RestImplements DEF Acknowledge, StepDown, Replicate, Timeout, handlerVars
<1>4. CASE Begin \/ Finish
      BY <1>4, BeginImplements, FinishImplements
<1> QED  BY <1>1, <1>2, <1>3, <1>4 DEF Next

LEMMA InitImplements == Init => Store!Init
BY DEF Init, Store!Init, Store!Nothing, Nothing, Asked, Answer

\* Whatever the clients, keys, values and entries: the server is a store in which a
\* call takes effect at one moment between its beginning and its end, its answer
\* is what the store said at that moment, and a refused call has no effect.
THEOREM ServerImplementsStore == Spec => ImplementsKvStore
<1>1. Init => IInv /\ ServerInv
      BY IInvInit, ServerInvInit
<1>2. IInv /\ ServerInv /\ [Next]_vars => (IInv /\ ServerInv)'
      BY IInvNext, ServerInvNext
<1>3. Init => Store!Init
      BY InitImplements
<1>4. IInv /\ ServerInv /\ [Next]_vars
          => [Store!Next]_<<store, [c \in Client |-> Asked(c)], [c \in Client |-> Answer(c)]>>
      BY NextImplements DEF StoreStep, Requests, Replies
<1> QED  BY <1>1, <1>2, <1>3, <1>4, PTL DEF Spec, ImplementsKvStore, Store!Spec
=============================================================================
