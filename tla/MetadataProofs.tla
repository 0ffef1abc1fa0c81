--------------------------- MODULE MetadataProofs ---------------------------
(***************************************************************************)
(* A process that dies between calls leaves files that init can load, and   *)
(* what init loads is what DurableMap promises, whenever the process dies.  *)
(***************************************************************************)
EXTENDS Metadata, FiniteSetTheorems, WellFoundedInduction, TLAPS

\* What the disk holds at each step of a call: Opens, except while a record is
\* half written, while the old generation is half removed, and in clear.
DiskInv ==
    /\ pc \in {"idle", "length", "snapshot", "contents", "touchNew", "rmLog",
               "return", "closed"} => Opens
    /\ pc = "record" =>
           marks \subseteq DOMAIN logs /\ marks \intersect torn \subseteq {index}
    /\ pc \in {"rmData", "rmMark"} =>
           marks \ {index - 1} \subseteq DOMAIN logs /\ marks \intersect torn = {}
    /\ pc = "touchNew" => index \in DOMAIN logs /\ index \notin torn
    /\ pc = "touch" =>
           marks = {} /\ index = 1 /\ 1 \in DOMAIN logs /\ 1 \notin torn

\* Opening with OPEN_TRUNC creates the file if need be; unlinking removes it.
LEMMA FileNames ==
    ASSUME NEW files, NEW i, NEW content
    PROVE  /\ DOMAIN Truncated(files, i, content) = DOMAIN files \union {i}
           /\ DOMAIN Without(files, i) = DOMAIN files \ {i}
BY DEF Truncated, Without

\* A new directory, and one left by a clean shutdown, can be loaded.
LEMMA DiskInvInit == Init => DiskInv
BY DEF Init, DiskInv, Opens

\* The steps inside set, del, clear and the destructor.
LEMMA DiskInvCalls ==
    ASSUME DiskInv,
           \/ WriteLength \/ WriteRecord \/ Return
           \/ StartSnapshot \/ NewLog \/ TouchNew
           \/ RemoveLog \/ RemoveData \/ RemoveMark
    PROVE  DiskInv'
<1>1. CASE WriteLength
      BY <1>1 DEF WriteLength, memory, DiskInv, Opens
<1>2. CASE WriteRecord
  <2>1. DOMAIN logs' = DOMAIN logs
        BY <1>2 DEF WriteRecord
  <2> QED  BY <1>2, <2>1 DEF WriteRecord, memory, DiskInv, Opens
<1>3. CASE Return
      BY <1>3 DEF Return, disk, DiskInv, Opens
<1>4. CASE StartSnapshot
      BY <1>4 DEF StartSnapshot, DiskInv, Opens
<1>5. CASE NewLog
  <2>1. DOMAIN logs' = DOMAIN logs \union {index}
        BY <1>5, FileNames DEF NewLog
  <2>2. marks' \subseteq DOMAIN logs /\ marks' \intersect torn = {}
        BY <1>5 DEF NewLog, Files, DiskInv, Opens
  <2> QED  BY <1>5, <2>1, <2>2 DEF NewLog, DiskInv, Opens
<1>6. CASE TouchNew
      BY <1>6 DEF TouchNew, memory, DiskInv, Opens
<1>7. CASE RemoveLog
  <2>1. DOMAIN logs' = DOMAIN logs \ {index - 1}
        BY <1>7, FileNames DEF RemoveLog
  <2> QED  BY <1>7, <2>1 DEF RemoveLog, memory, DiskInv, Opens
<1>8. CASE RemoveData
      BY <1>8 DEF RemoveData, memory, DiskInv, Opens
<1>9. CASE RemoveMark
      BY <1>9 DEF RemoveMark, memory, DiskInv, Opens
<1> QED  BY <1>1, <1>2, <1>3, <1>4, <1>5, <1>6, <1>7, <1>8, <1>9

\* Starting a call, and the life of the process.
LEMMA DiskInvNext == DiskInv /\ [Next]_vars => DiskInv'
<1> SUFFICES ASSUME DiskInv, [Next]_vars PROVE DiskInv'
    OBVIOUS
<1>1. CASE Open
  <2>1. CASE Files = {}
    <3>1. marks = {}
          BY <2>1 DEF Files
    <3>2. logs' = Truncated(logs, 1, <<>>)
          BY <1>1, <2>1 DEF Open
    <3>3. 1 \in DOMAIN logs'
          BY <3>2 DEF Truncated
    <3>4. index' = 1 /\ pc' = "touch" /\ torn' = torn \ {1} /\ marks' = marks
          BY <1>1, <2>1, <3>1 DEF Open
    <3> QED  BY <3>1, <3>3, <3>4 DEF DiskInv
  <2>2. CASE Files # {}
        BY <1>1, <2>2 DEF Open, DiskInv, Opens
  <2> QED  BY <2>1, <2>2
<1>2. CASE TouchFirst
      BY <1>2 DEF TouchFirst, memory, DiskInv, Opens
<1>3. ASSUME NEW s \in Slot, NEW v \in Value, Set(s, v)
      PROVE  DiskInv'
      BY <1>3 DEF Set, memory, disk, DiskInv, Opens
<1>4. ASSUME NEW k \in Key, Del(k) \/ DelThrows(k)
      PROVE  DiskInv'
      BY <1>4 DEF Del, DelThrows, control, disk, DiskInv, Opens
<1>5. CASE \/ WriteLength \/ WriteRecord \/ Return
           \/ StartSnapshot \/ NewLog \/ TouchNew
           \/ RemoveLog \/ RemoveData \/ RemoveMark
      BY <1>5, DiskInvCalls
<1>6. ASSUME NEW s \in Slot, WriteSnapshot(s)
      PROVE  DiskInv'
      BY <1>6 DEF WriteSnapshot, memory, control, DiskInv, Opens
<1>7. CASE BeginClose \/ BeginClear
      BY <1>7 DEF BeginClose, BeginClear, memory, disk, DiskInv, Opens
<1>8. CASE Closed \/ Crash
      BY <1>8 DEF Closed, Crash, Forget, disk, DiskInv, Opens
<1>9. ASSUME NEW i \in Files, Unlink(i)
      PROVE  DiskInv'
      BY <1>9 DEF Unlink, memory, control, DiskInv, Opens
<1>10. ASSUME NEW snap, LoadSnapshot(snap)
       PROVE  DiskInv'
       BY <1>10 DEF LoadSnapshot, control, disk, DiskInv, Opens
<1>11. CASE UNCHANGED vars
       BY <1>11 DEF vars, memory, control, disk, DiskInv, Opens
<1> QED
    BY <1>1, <1>2, <1>3, <1>4, <1>5, <1>6, <1>7, <1>8, <1>9, <1>10, <1>11 DEF Next

\* Between calls the files on disk can be loaded, for any keys, values, size
\* of the log and number of crashes.
THEOREM IdleStoresOpen == Spec => []IdleStoreOpens
<1>1. DiskInv => IdleStoreOpens
      BY DEF DiskInv, IdleStoreOpens
<1> QED  BY <1>1, DiskInvInit, DiskInvNext, PTL DEF Spec

Values == Value \union {None}
Records == [slot : Slot, value : Values]

\* A generation loaded into empty maps.
Alone(i) == LoadGeneration(Empty, i)

-----------------------------------------------------------------------------
(* What is loaded.                                                           *)

\* A set of positions has a last one.
LEMMA LastOfSome ==
    ASSUME NEW n \in Nat, NEW S \in SUBSET (1..n), S # {}
    PROVE  Max(S) \in S /\ \A k \in S : k <= Max(S)
<1> DEFINE T == {k \in Nat : n - k \in S}
<1>1. T # {} /\ T \subseteq Nat
  <2>1. PICK k \in S : TRUE
        OBVIOUS
  <2>2. n - k \in Nat /\ n - (n - k) = k
        OBVIOUS
  <2> QED  BY <2>2
<1>2. PICK k \in T : \A j \in T : ~(<<j, k>> \in OpToRel(<, Nat))
  <2> HIDE DEF T
  <2> QED  BY <1>1, NatLessThanWellFounded, WFMin
<1>3. \A j \in T : ~(j < k)
      BY <1>2 DEF OpToRel
<1>4. \A j \in S : j <= n - k
  <2> TAKE j \in S
  <2>1. j \in 1..n /\ n - j \in Nat /\ n - (n - j) = j
        OBVIOUS
  <2>2. n - j \in T
        BY <2>1
  <2>3. ~(n - j < k) /\ k \in Nat
        BY <1>3, <2>2
  <2> QED  BY <2>1, <2>3
<1>5. n - k \in S
      BY <1>2
<1> QED  BY <1>4, <1>5 DEF Max

\* A slot is decided by a generation with a record of it or a value in its snapshot.
Decides(i, s) ==
    \/ RecordsOf(logs[i], s) # {}
    \/ i \in DOMAIN snaps /\ snaps[i][s] # None

\* Loading a generation sets the slots it decides, and keeps the others.
LEMMA LoadedValue ==
    \A i, m : \A s \in Slot :
        /\ LoadGeneration(m, i)[s] = IF Decides(i, s) THEN Alone(i)[s] ELSE m[s]
        /\ ~Decides(i, s) => Alone(i)[s] = None
<1> SUFFICES ASSUME NEW i, NEW m, NEW s \in Slot
             PROVE  /\ LoadGeneration(m, i)[s] = IF Decides(i, s) THEN Alone(i)[s] ELSE m[s]
                    /\ ~Decides(i, s) => Alone(i)[s] = None
    OBVIOUS
<1>1. Empty[s] = None
      BY DEF Empty
<1> QED  BY <1>1 DEF LoadGeneration, Alone, Decides, Replay, LoadSnap

\* A new record takes effect on its slot, and on no other.
TakesEffect(log, r, s) ==
    /\ RecordsOf(Append(log, r), s) =
           IF r.slot = s THEN RecordsOf(log, s) \union {Len(log) + 1} ELSE RecordsOf(log, s)
    /\ r.slot = s => Append(log, r)[Max(RecordsOf(Append(log, r), s))] = r
    /\ r.slot # s /\ RecordsOf(log, s) # {} =>
           Append(log, r)[Max(RecordsOf(log, s))] = log[Max(RecordsOf(log, s))]

LEMMA RecordAppended ==
    ASSUME NEW log \in Seq(Records), NEW r \in Records, NEW s \in Slot
    PROVE  TakesEffect(log, r, s)
<1> DEFINE n == Len(log)
           longer == Append(log, r)
<1>1. /\ n \in Nat /\ DOMAIN log = 1..n /\ DOMAIN longer = 1..n + 1
      /\ longer[n + 1] = r /\ \A k \in 1..n : longer[k] = log[k]
      OBVIOUS
<1>2. RecordsOf(log, s) \subseteq 1..n
      BY <1>1 DEF RecordsOf
<1> HIDE DEF longer, n
<1>3. RecordsOf(longer, s) = IF r.slot = s THEN RecordsOf(log, s) \union {n + 1}
                             ELSE RecordsOf(log, s)
      BY <1>1 DEF RecordsOf
<1>4. ASSUME r.slot = s PROVE longer[Max(RecordsOf(longer, s))] = r
  <2>1. RecordsOf(longer, s) \subseteq 1..n + 1 /\ n + 1 \in RecordsOf(longer, s)
        BY <1>1, <1>2, <1>3, <1>4
  <2>2. /\ Max(RecordsOf(longer, s)) \in RecordsOf(longer, s)
        /\ \A k \in RecordsOf(longer, s) : k <= Max(RecordsOf(longer, s))
        BY <1>1, <2>1, LastOfSome
  <2>3. Max(RecordsOf(longer, s)) = n + 1
        BY <1>1, <2>1, <2>2
  <2> QED  BY <1>1, <2>3
<1>5. RecordsOf(log, s) # {} => Max(RecordsOf(log, s)) \in 1..n
      BY <1>1, <1>2, LastOfSome
<1> QED  BY <1>1, <1>3, <1>4, <1>5 DEF n, longer, TakesEffect

\* A sequence over two values is given by its two elements.
LEMMA Pair ==
    ASSUME NEW a, NEW b, NEW o \in [1..2 -> {a, b}]
    PROVE  /\ DOMAIN o = 1..2 /\ 1 \in DOMAIN o /\ 2 \in DOMAIN o
           /\ o[1] \in {a, b} /\ o[2] \in {a, b}
           /\ o[1] = b /\ o[2] = a => o = <<b, a>>
OBVIOUS

\* No generation, one, or the two that make_snapshot leaves when it is interrupted:
\* the older one is loaded last.
LEMMA MarkedOrder ==
    /\ marks = {} => Marked = <<>>
    /\ \A i \in 1..9 : marks = {i} => Marked = <<i>>
    /\ \A i \in 1..8 : marks = {i, i + 1} => Marked = <<i + 1, i>>
<1> DEFINE Ordered(o) == \A j, k \in DOMAIN o : j < k => NameOrder(o[j]) > NameOrder(o[k])
<1>1. Marked = CHOOSE o \in [1 .. Cardinality(marks) -> marks] : Ordered(o)
      BY DEF Marked
<1>2. ASSUME marks = {} PROVE Marked = <<>>
  <2>1. Cardinality(marks) = 0
        BY <1>2, FS_EmptySet
  <2>2. [1 .. Cardinality(marks) -> marks] = {<<>>}
    <3>1. 1 .. 0 = {} /\ <<>> \in [{} -> {}] /\ \A f \in [{} -> {}] : f = <<>>
          OBVIOUS
    <3> QED  BY <1>2, <2>1, <3>1
  <2>3. Ordered(<<>>)
        OBVIOUS
  <2> HIDE DEF Ordered
  <2> QED  BY <1>1, <2>2, <2>3
<1>3. ASSUME NEW i \in 1..9, marks = {i} PROVE Marked = <<i>>
  <2>1. Cardinality(marks) = 1
        BY <1>3, FS_Singleton
  <2>2. <<i>> \in [1 .. Cardinality(marks) -> marks] /\ Ordered(<<i>>)
        BY <1>3, <2>1
  <2>3. \A o \in [1 .. Cardinality(marks) -> marks] : o = <<i>>
        BY <1>3, <2>1
  <2> HIDE DEF Ordered
  <2> QED  BY <1>1, <2>2, <2>3
<1>4. ASSUME NEW i \in 1..8, marks = {i, i + 1} PROVE Marked = <<i + 1, i>>
  <2>1. Cardinality(marks) = 2
    <3>1. Cardinality({i}) = 1 /\ IsFiniteSet({i})
          BY FS_Singleton
    <3>2. marks = {i} \union {i + 1} /\ i + 1 \notin {i}
          BY <1>4
    <3> QED  BY <3>1, <3>2, FS_AddElement
  <2>2. NameOrder(i + 1) > NameOrder(i) /\ ~(NameOrder(i) > NameOrder(i))
        /\ ~(NameOrder(i + 1) > NameOrder(i + 1)) /\ ~(NameOrder(i) > NameOrder(i + 1))
        BY DEF NameOrder
  <2>3. <<i + 1, i>> \in [1 .. Cardinality(marks) -> marks] /\ Ordered(<<i + 1, i>>)
    <3> DEFINE o == <<i + 1, i>>
    <3>1. o \in [1..2 -> marks] /\ DOMAIN o = 1..2 /\ o[1] = i + 1 /\ o[2] = i
          BY <1>4
    <3> HIDE DEF o
    <3>2. \A j, k \in DOMAIN o : j < k => NameOrder(o[j]) > NameOrder(o[k])
      <4> TAKE j, k \in DOMAIN o
      <4> HAVE j < k
      <4>1. j = 1 /\ k = 2
            BY <3>1
      <4> QED  BY <2>2, <3>1, <4>1
    <3> QED  BY <2>1, <3>1, <3>2 DEF o
  <2>4. ASSUME NEW o \in [1 .. Cardinality(marks) -> marks], Ordered(o)
        PROVE  o = <<i + 1, i>>
    <3>1. o \in [1..2 -> {i, i + 1}]
          BY <1>4, <2>1
    <3>2. NameOrder(o[1]) > NameOrder(o[2])
      <4>1. 1 \in DOMAIN o /\ 2 \in DOMAIN o
            BY <3>1, Pair
      <4>2. 1 < 2
            OBVIOUS
      <4> QED  BY <2>4, <4>1, <4>2, Zenon
    <3>3. o[1] = i + 1 /\ o[2] = i
          BY <2>2, <3>1, <3>2, Pair
    <3> QED  BY <3>1, <3>3, Pair
  <2> HIDE DEF Ordered
  <2> QED  BY <1>1, <2>3, <2>4
<1> QED  BY <1>2, <1>3, <1>4

\* The fold over at most two generations.
LEMMA FoldNone == FoldLeft(LoadGeneration, Empty, <<>>) = Empty
<1> DEFINE D == DOMAIN <<>>
           Loop(g) == g = [s \in SUBSET D |->
                              IF s = {} THEN Empty
                              ELSE LoadGeneration(g[s \ {Max(s)}], <<>>[Max(s)])]
           iter == CHOOSE g : Loop(g)
           h == [s \in SUBSET D |-> Empty]
<1>1. D = {} /\ SUBSET D = {{}}
      OBVIOUS
<1>2. Loop(h)
      BY <1>1
<1>3. Loop(iter)
  <2> HIDE DEF Loop, h
  <2> QED  BY <1>2
<1>4. iter[{}] = Empty
      BY <1>1, <1>3
<1>5. FoldLeft(LoadGeneration, Empty, <<>>) = iter[D]
      BY DEF FoldLeft, MapThenFoldSet
<1> HIDE DEF iter, D
<1> QED  BY <1>1, <1>4, <1>5

\* One generation.
LEMMA FoldOne ==
    ASSUME NEW i
    PROVE  FoldLeft(LoadGeneration, Empty, <<i>>) = Alone(i)
<1> DEFINE seq == <<i>>
           D == DOMAIN seq
           Loop(g) == g = [s \in SUBSET D |->
                              IF s = {} THEN Empty
                              ELSE LoadGeneration(g[s \ {Max(s)}], seq[Max(s)])]
           iter == CHOOSE g : Loop(g)
           h == [s \in SUBSET D |-> IF s = {} THEN Empty ELSE Alone(i)]
<1>1. D = {1} /\ SUBSET D = {{}, {1}} /\ seq[1] = i
      OBVIOUS
<1>2. Max({1}) = 1
      BY DEF Max
<1>3. Loop(h)
  <2>1. ASSUME NEW s \in SUBSET D
        PROVE  h[s] = IF s = {} THEN Empty
                      ELSE LoadGeneration(h[s \ {Max(s)}], seq[Max(s)])
    <3>1. CASE s = {}
          BY <3>1
    <3>2. CASE s = {1}
      <4>1. s \ {Max(s)} = {} /\ {} \in SUBSET D
            BY <3>2, <1>2
      <4>2. h[{}] = Empty /\ h[{1}] = Alone(i)
            BY <1>1
      <4>3. s # {} /\ seq[Max(s)] = i
            BY <3>2, <1>1, <1>2
      <4> HIDE DEF h, seq, D
      <4> QED  BY <3>2, <4>1, <4>2, <4>3 DEF Alone
    <3> HIDE DEF h, D
    <3> QED  BY <3>1, <3>2, <1>1
  <2> QED  BY <2>1
<1>4. Loop(iter)
  <2> HIDE DEF Loop, h
  <2> QED  BY <1>3
<1>5. FoldLeft(LoadGeneration, Empty, seq) = iter[D]
      BY DEF FoldLeft, MapThenFoldSet
<1> HIDE DEF iter, D, seq
<1>6. iter[{}] = Empty
      BY <1>1, <1>4
<1>7. iter[{1}] = LoadGeneration(iter[{1} \ {Max({1})}], seq[Max({1})])
  <2>1. {1} # {}
        OBVIOUS
  <2> QED  BY <1>1, <1>4, <2>1
<1>8. {1} \ {1} = {}
      OBVIOUS
<1>9. iter[{1}] = Alone(i)
      BY <1>1, <1>2, <1>6, <1>7, <1>8, Zenon DEF Alone
<1> QED  BY <1>1, <1>5, <1>9, Zenon DEF seq

\* Two generations: the first one is loaded, and the second one over it.
LEMMA FoldTwo ==
    ASSUME NEW i, NEW j
    PROVE  FoldLeft(LoadGeneration, Empty, <<j, i>>) = LoadGeneration(Alone(j), i)
<1> DEFINE seq == <<j, i>>
           D == DOMAIN seq
           Loop(g) == g = [s \in SUBSET D |->
                              IF s = {} THEN Empty
                              ELSE LoadGeneration(g[s \ {Max(s)}], seq[Max(s)])]
           iter == CHOOSE g : Loop(g)
           h == [s \in SUBSET D |-> IF s = {} THEN Empty
                                    ELSE IF s = {1} THEN Alone(j)
                                    ELSE IF s = {2} THEN Alone(i)
                                    ELSE LoadGeneration(Alone(j), i)]
<1>1. D = {1, 2} /\ SUBSET D = {{}, {1}, {2}, {1, 2}} /\ seq[1] = j /\ seq[2] = i
  <2>1. D = {1, 2} /\ seq[1] = j /\ seq[2] = i
        OBVIOUS
  <2>2. SUBSET {1, 2} = {{}, {1}, {2}, {1, 2}}
        OBVIOUS
  <2> HIDE DEF D, seq
  <2> QED  BY <2>1, <2>2
<1>2. /\ Max({1}) = 1 /\ Max({2}) = 2 /\ Max({1, 2}) = 2
      /\ {1} \ {1} = {} /\ {2} \ {2} = {} /\ {1, 2} \ {2} = {1}
      BY DEF Max
<1>a. {1} # {} /\ {2} # {} /\ {2} # {1} /\ {1, 2} # {} /\ {1, 2} # {1} /\ {1, 2} # {2}
      OBVIOUS
<1>b. h[{}] = Empty /\ h[{1}] = Alone(j) /\ h[{2}] = Alone(i)
      /\ h[{1, 2}] = LoadGeneration(Alone(j), i)
  <2> HIDE DEF D
  <2> QED  BY <1>1, <1>a
<1>3. Loop(h)
  <2>1. ASSUME NEW s \in SUBSET D
        PROVE  h[s] = IF s = {} THEN Empty
                      ELSE LoadGeneration(h[s \ {Max(s)}], seq[Max(s)])
    <3> HIDE DEF h, seq, D
    <3>1. CASE s = {}
          BY <3>1, <1>b
    <3>2. CASE s = {1}
      <4>1. Max(s) = 1 /\ s \ {Max(s)} = {} /\ s # {}
            BY <3>2, <1>2, <1>a, Zenon
      <4>2. LoadGeneration(h[s \ {Max(s)}], seq[Max(s)]) = Alone(j)
            BY <4>1, <1>1, <1>b, Zenon DEF Alone
      <4> QED  BY <3>2, <4>1, <4>2, <1>b, Zenon
    <3>3. CASE s = {2}
      <4>1. Max(s) = 2 /\ s \ {Max(s)} = {} /\ s # {}
            BY <3>3, <1>2, <1>a, Zenon
      <4>2. LoadGeneration(h[s \ {Max(s)}], seq[Max(s)]) = Alone(i)
            BY <4>1, <1>1, <1>b, Zenon DEF Alone
      <4> QED  BY <3>3, <4>1, <4>2, <1>b, Zenon
    <3>4. CASE s = {1, 2}
      <4>1. Max(s) = 2 /\ s \ {Max(s)} = {1} /\ s # {}
            BY <3>4, <1>2, <1>a, Zenon
      <4>2. LoadGeneration(h[s \ {Max(s)}], seq[Max(s)]) = LoadGeneration(Alone(j), i)
            BY <4>1, <1>1, <1>b, Zenon
      <4> QED  BY <3>4, <4>1, <4>2, <1>b, Zenon
    <3> QED  BY <3>1, <3>2, <3>3, <3>4, <1>1
  <2> QED  BY <2>1
<1>4. Loop(iter)
  <2> HIDE DEF Loop, h
  <2> QED  BY <1>3
<1>5. FoldLeft(LoadGeneration, Empty, seq) = iter[D]
      BY DEF FoldLeft, MapThenFoldSet
<1> HIDE DEF iter, D, seq
<1>6. iter[{}] = Empty
      BY <1>1, <1>4
<1>7. iter[{1}] = LoadGeneration(iter[{1} \ {Max({1})}], seq[Max({1})])
      BY <1>1, <1>4, <1>a
<1>8. iter[{1, 2}] = LoadGeneration(iter[{1, 2} \ {Max({1, 2})}], seq[Max({1, 2})])
      BY <1>1, <1>4, <1>a
<1>9. iter[{1}] = Alone(j)
      BY <1>1, <1>2, <1>6, <1>7, Zenon DEF Alone
<1>10. iter[{1, 2}] = LoadGeneration(Alone(j), i)
  <2>1. {1, 2} \ {Max({1, 2})} = {1} /\ seq[Max({1, 2})] = i
        BY <1>1, <1>2, Zenon
  <2> QED  BY <1>8, <1>9, <2>1, Zenon
<1> QED  BY <1>1, <1>5, <1>10, Zenon DEF seq

\* What init loads, and which generation's log it opens.
LEMMA RecoveredFrom ==
    /\ marks = {} => Recovered = Empty
    /\ \A i \in 1..9 : marks = {i} => Recovered = Alone(i) /\ Last(Marked) = i
    /\ \A i \in 1..8 : marks = {i, i + 1} =>
           Recovered = LoadGeneration(Alone(i + 1), i) /\ Last(Marked) = i
<1>1. ASSUME marks = {} PROVE Recovered = Empty
      BY <1>1, MarkedOrder, FoldNone DEF Recovered
<1>2. ASSUME NEW i \in 1..9, marks = {i} PROVE Recovered = Alone(i) /\ Last(Marked) = i
  <2>1. Marked = <<i>>
        BY <1>2, MarkedOrder
  <2> QED  BY <2>1, FoldOne DEF Recovered, Last
<1>3. ASSUME NEW i \in 1..8, marks = {i, i + 1}
      PROVE  Recovered = LoadGeneration(Alone(i + 1), i) /\ Last(Marked) = i
  <2>1. Marked = <<i + 1, i>>
        BY <1>3, MarkedOrder
  <2>2. Last(<<i + 1, i>>) = i
        BY DEF Last
  <2> QED  BY <2>1, <2>2, FoldTwo DEF Recovered
<1> QED  BY <1>1, <1>2, <1>3

-----------------------------------------------------------------------------
(* The invariant.                                                            *)

Typed ==
    /\ map \in [Slot -> Values] /\ doubt \subseteq Slot
    /\ index \in 1..9 /\ marks \subseteq 1..9
    /\ logOpen \in BOOLEAN /\ rolled \in BOOLEAN
    /\ \A i \in DOMAIN snaps : snaps[i] \in [Slot -> Values]
    /\ \A i \in DOMAIN logs : logs[i] \in Seq(Records)

Writing == {"length", "record"}
Removing == {"rmLog", "rmData", "rmMark"}
Snapshotting == {"contents", "touchNew"} \union Removing

\* A set writes one record and returns.
SetUnderWay ==
    \E s \in Slot, v \in Value :
        /\ call = [op |-> "set", slots |-> {s}, value |-> v]
        /\ IF pc \in Writing THEN records = <<Update(s, v)>> /\ ~rolled ELSE records = <<>>

\* A del has erased the key, and writes two records.
DelUnderWay ==
    \E k \in Key :
        LET first == Update(<<"string", k>>, None)
            second == Update(<<"integral", k>>, None)
        IN  /\ call = [op |-> "del", slots |-> SlotsOf(k)]
            /\ records \in {<<>>, <<second>>, <<first, second>>}
            /\ pc \in Writing => records # <<>>
            /\ pc = "return" => records = <<>>
            /\ \A s \in SlotsOf(k) : map[s] = None

\* Which call can be where.
CallFits ==
    /\ pc \in Writing \union Snapshotting \union
             {"down", "touch", "idle", "snapshot", "return", "closed", "unlink"}
    /\ pc \in {"down", "touch", "idle"} => call = NoCall /\ records = <<>> /\ ~rolled
    /\ pc = "unlink" => call.op = "clear"
    /\ pc = "closed" => call.op = "close" /\ rolled
    /\ pc \in Writing => call.op \in {"set", "del"}
    /\ pc = "return" => call.op \in {"set", "del", "clear"}
    /\ pc \in {"snapshot", "contents"} \union Removing => call.op \in {"set", "del", "close"}
    /\ call.op \in {"none", "set", "del", "close", "clear"}
    /\ call.op = "none" => pc \in {"down", "touch", "idle"}
    /\ call.op = "set" => SetUnderWay
    /\ call.op = "del" => DelUnderWay
    /\ call.op = "close" => call.slots = {} /\ records = <<>>
    /\ call.op = "clear" => call.slots = Slot /\ records = <<>> /\ ~rolled /\ map = Empty

\* Which generations have a marker: the one that is written to, or was before the
\* snapshot, and the one of a snapshot, under way or interrupted.
MarksFit ==
    /\ \E i \in 1..8 : marks \subseteq {i, i + 1}
    /\ pc \in Writing \union {"return"} \union (Snapshotting \ {"contents"}) => logOpen
    /\ pc \in Writing \union {"idle", "snapshot", "return"} =>
          /\ marks \subseteq {index, index + 1}
          /\ IF logOpen THEN index \in marks ELSE marks = {}
    /\ pc \in Snapshotting /\ call.op # "clear" =>
          /\ index - 1 \in 1..8
          /\ marks \subseteq {index - 1, index}
          /\ pc \notin Removing /\ index \in marks => index - 1 \in marks
          /\ pc \in Removing => index \in marks
    /\ pc = "touchNew" /\ call.op = "clear" => marks = {}
    /\ pc = "touch" => marks = {} /\ index = 1 /\ logOpen

\* What set and del write is a record.
LEMMA RecordTyped ==
    ASSUME NEW s \in Slot, NEW v \in Values
    PROVE  Update(s, v) \in Records
BY DEF Update, Records

\* The slots of a call are slots.
LEMMA CallSlots == CallFits => call.slots \subseteq Slot
<1> SUFFICES ASSUME CallFits PROVE call.slots \subseteq Slot
    OBVIOUS
<1>1. CASE call.op = "none"
      BY <1>1 DEF CallFits, NoCall
<1>2. CASE call.op = "set"
      BY <1>2 DEF CallFits, SetUnderWay
<1>3. CASE call.op = "del"
  <2>1. DelUnderWay
        BY <1>3 DEF CallFits
  <2>2. PICK k \in Key : call = [op |-> "del", slots |-> SlotsOf(k)]
        BY <2>1 DEF DelUnderWay
  <2> QED  BY <2>2 DEF SlotsOf, Slot
<1>4. CASE call.op = "close"
      BY <1>4 DEF CallFits
<1>5. CASE call.op = "clear"
      BY <1>5 DEF CallFits
<1> QED  BY <1>1, <1>2, <1>3, <1>4, <1>5 DEF CallFits

\* The record that write_log is about to write is one of the call's.
LEMMA RecordsTyped ==
    ASSUME CallFits, pc \in Writing
    PROVE  Head(records) \in Records /\ Head(records).slot \in call.slots
<1>1. CASE call.op = "set"
  <2>1. PICK s \in Slot, v \in Value :
            /\ call = [op |-> "set", slots |-> {s}, value |-> v]
            /\ records = <<Update(s, v)>>
        BY <1>1 DEF CallFits, SetUnderWay
  <2> QED  BY <2>1, RecordTyped DEF Update, Values
<1>2. CASE call.op = "del"
  <2>1. PICK k \in Key :
            /\ call.slots = SlotsOf(k)
            /\ records \in {<<Update(<<"integral", k>>, None)>>,
                            <<Update(<<"string", k>>, None), Update(<<"integral", k>>, None)>>}
    <3>1. DelUnderWay /\ pc \in Writing
          BY <1>2 DEF CallFits
    <3>2. PICK k \in Key :
              /\ call = [op |-> "del", slots |-> SlotsOf(k)]
              /\ records \in {<<>>, <<Update(<<"integral", k>>, None)>>,
                              <<Update(<<"string", k>>, None), Update(<<"integral", k>>, None)>>}
              /\ pc \in Writing => records # <<>>
          BY <3>1 DEF DelUnderWay
    <3>3. call.slots = SlotsOf(k)
          BY <3>2
    <3> QED  BY <3>1, <3>2, <3>3
  <2>2. <<"string", k>> \in Slot /\ <<"integral", k>> \in Slot /\ None \in Values
        /\ <<"string", k>> \in SlotsOf(k) /\ <<"integral", k>> \in SlotsOf(k)
        BY DEF Slot, Type, Values, SlotsOf
  <2>3. Head(records) \in {Update(<<"integral", k>>, None), Update(<<"string", k>>, None)}
        BY <2>1
  <2> QED  BY <2>1, <2>2, <2>3, RecordTyped DEF Update
<1> QED  BY <1>1, <1>2 DEF CallFits

\* Loading a generation gives a map.
LEMMA GenerationTyped ==
    Typed => \A i \in DOMAIN logs, m \in [Slot -> Values] : LoadGeneration(m, i) \in [Slot -> Values]
<1> SUFFICES ASSUME Typed, NEW i \in DOMAIN logs, NEW m \in [Slot -> Values]
             PROVE  LoadGeneration(m, i) \in [Slot -> Values]
    OBVIOUS
<1> DEFINE base == IF i \in DOMAIN snaps THEN LoadSnap(m, snaps[i]) ELSE m
<1>1. base \in [Slot -> Values]
      BY DEF Typed, LoadSnap
<1>2. logs[i] \in Seq(Records) /\ Len(logs[i]) \in Nat /\ DOMAIN logs[i] = 1..Len(logs[i])
      BY DEF Typed
<1>3. ASSUME NEW s \in Slot, RecordsOf(logs[i], s) # {}
      PROVE  logs[i][Max(RecordsOf(logs[i], s))].value \in Values
  <2>1. RecordsOf(logs[i], s) \subseteq 1..Len(logs[i])
        BY <1>2 DEF RecordsOf
  <2>2. Max(RecordsOf(logs[i], s)) \in 1..Len(logs[i])
        BY <1>2, <1>3, <2>1, LastOfSome
  <2>3. logs[i][Max(RecordsOf(logs[i], s))] \in Records
        BY <1>2, <2>2
  <2> QED  BY <2>3 DEF Records
<1> HIDE DEF base
<1>4. Replay(base, logs[i]) \in [Slot -> Values]
      BY <1>1, <1>3 DEF Replay
<1> QED  BY <1>4 DEF LoadGeneration, base

\* Empty maps hold nothing.
LEMMA EmptyTyped == Empty \in [Slot -> Values] /\ \A s \in Slot : Empty[s] = None
BY DEF Empty, Values

\* So does init, and it ends with the older of at most two neighbours.
LEMMA RecoveredTyped ==
    Typed /\ (\E i \in 1..8 : marks \subseteq {i, i + 1}) /\ marks \subseteq DOMAIN logs =>
        /\ Recovered \in [Slot -> Values]
        /\ marks # {} => /\ Last(Marked) \in marks
                         /\ marks \subseteq {Last(Marked), Last(Marked) + 1}
<1> SUFFICES ASSUME Typed, NEW i \in 1..8, marks \subseteq {i, i + 1}, marks \subseteq DOMAIN logs
             PROVE  /\ Recovered \in [Slot -> Values]
                    /\ marks # {} => /\ Last(Marked) \in marks
                                     /\ marks \subseteq {Last(Marked), Last(Marked) + 1}
    OBVIOUS
<1>1. \/ marks = {} \/ marks = {i} \/ marks = {i + 1} \/ marks = {i, i + 1}
      OBVIOUS
<1>2. i \in 1..9 /\ i + 1 \in 1..9
      OBVIOUS
<1>3. \A j \in marks : Alone(j) \in [Slot -> Values]
      BY GenerationTyped, EmptyTyped DEF Alone
<1>4. CASE marks = {}
      BY <1>4, RecoveredFrom, EmptyTyped
<1>5. CASE marks = {i}
      BY <1>2, <1>3, <1>5, RecoveredFrom
<1>6. CASE marks = {i + 1}
      BY <1>2, <1>3, <1>6, RecoveredFrom
<1>7. CASE marks = {i, i + 1}
  <2>1. Recovered = LoadGeneration(Alone(i + 1), i) /\ Last(Marked) = i
        BY <1>7, RecoveredFrom
  <2>2. i \in DOMAIN logs /\ Alone(i + 1) \in [Slot -> Values]
        BY <1>3, <1>7
  <2> QED  BY <1>7, <2>1, <2>2, GenerationTyped
<1> QED  BY <1>1, <1>4, <1>5, <1>6, <1>7

\* Every step keeps the types; generations stay of one digit.
LEMMA TypedNext ==
    ASSUME MaxIndex <= 9, Typed, CallFits, MarksFit, [Next]_vars
    PROVE  Typed'
<1> USE FileNames, MetadataBounds
<1>1. CASE Open
  <2>1. /\ map' = Recovered /\ doubt' = Elsewhere /\ logOpen' = (marks # {} \/ Files = {})
        /\ index' = IF marks = {} THEN 1 ELSE Last(Marked)
        /\ UNCHANGED <<rolled, snaps, marks>> /\ marks \subseteq DOMAIN logs
        /\ logs' = logs \/ logs' = Truncated(logs, 1, <<>>)
        BY <1>1 DEF Open, Opens
  <2>2. Recovered \in [Slot -> Values] /\ (marks # {} => Last(Marked) \in marks)
        BY <2>1, RecoveredTyped DEF MarksFit
  <2>3. \A i \in DOMAIN logs' : logs'[i] \in Seq(Records)
    <3>1. CASE logs' = logs
          BY <3>1 DEF Typed
    <3>2. CASE logs' = Truncated(logs, 1, <<>>)
      <4>1. \A i \in DOMAIN logs' : logs'[i] = <<>> \/ (i \in DOMAIN logs /\ logs'[i] = logs[i])
            BY <3>2 DEF Truncated
      <4>2. <<>> \in Seq(Records)
            OBVIOUS
      <4> QED  BY <4>1, <4>2 DEF Typed
    <3> QED  BY <2>1, <3>1, <3>2
  <2>4. Elsewhere \subseteq Slot
        BY DEF Elsewhere
  <2>5. index' \in 1..9 /\ logOpen' \in BOOLEAN
        BY <2>1, <2>2 DEF Typed
  <2> QED  BY <2>1, <2>2, <2>3, <2>4, <2>5 DEF Typed
<1>2. CASE TouchFirst
      BY <1>2 DEF TouchFirst, Typed, memory
<1>3. ASSUME NEW s \in Slot, NEW v \in Value, Set(s, v) PROVE Typed'
      BY <1>3 DEF Set, Typed, memory, disk
<1>4. ASSUME NEW k \in Key, Del(k) PROVE Typed'
      BY <1>4 DEF Del, Typed, disk, Erased, Values
<1>5. ASSUME NEW k \in Key, DelThrows(k) PROVE Typed'
      BY <1>5 DEF DelThrows, Typed, disk, control, Erased, Values, SlotsOf, Slot
<1>6. CASE WriteLength
      BY <1>6 DEF WriteLength, Typed, memory
<1>7. CASE WriteRecord
  <2>1. Head(records) \in Records
        BY <1>7, RecordsTyped DEF WriteRecord, Writing
  <2>2. /\ logs' = [logs EXCEPT ![index] = Append(@, Head(records))]
        /\ UNCHANGED <<map, doubt, index, marks, logOpen, rolled, snaps>>
        BY <1>7 DEF WriteRecord, memory
  <2>3. \A i \in DOMAIN logs' : logs'[i] \in Seq(Records)
        BY <2>1, <2>2 DEF Typed
  <2> QED  BY <2>2, <2>3 DEF Typed
<1>8. CASE Return
  <2>1. /\ map' = IF call.op = "set" THEN [s \in Slot |-> IF s \in call.slots
                                                      THEN call.value ELSE map[s]]
                  ELSE map
        /\ doubt' = IF ~rolled THEN doubt \ call.slots
                    ELSE IF call.op = "set" THEN call.slots ELSE {}
        /\ rolled' = FALSE /\ UNCHANGED <<index, logOpen, snaps, logs, marks>>
        BY <1>8 DEF Return, disk
  <2>2. call.op = "set" => call.value \in Values
        BY DEF CallFits, SetUnderWay, Values
  <2>3. map' \in [Slot -> Values]
        BY <2>1, <2>2 DEF Typed
  <2>4. doubt' \subseteq Slot
        BY <2>1, CallSlots DEF Typed
  <2> QED  BY <2>1, <2>3, <2>4 DEF Typed
<1>9. CASE StartSnapshot
  <2>1. /\ index' = index + 1 /\ snaps' = Truncated(snaps, index + 1, Empty) /\ index < MaxIndex
        /\ UNCHANGED <<map, doubt, logs, marks, logOpen, rolled>>
        BY <1>9 DEF StartSnapshot
  <2>2. \A i \in DOMAIN snaps' : snaps'[i] \in [Slot -> Values]
        BY <2>1, EmptyTyped DEF Truncated, Typed
  <2>3. index' \in 1..9
        BY <2>1 DEF Typed
  <2> QED  BY <2>1, <2>2, <2>3 DEF Typed
<1>10. ASSUME NEW s \in Slot, WriteSnapshot(s) PROVE Typed'
  <2>1. /\ snaps' = [snaps EXCEPT ![index][s] = map[s]]
        /\ UNCHANGED <<map, doubt, index, logs, marks, logOpen, rolled>>
        BY <1>10 DEF WriteSnapshot, memory, control
  <2>2. \A i \in DOMAIN snaps' : snaps'[i] \in [Slot -> Values]
        BY <2>1 DEF Typed
  <2> QED  BY <2>1, <2>2 DEF Typed
<1>11. CASE NewLog
  <2>1. /\ logs' = Truncated(logs, index, <<>>) /\ logOpen' = TRUE
        /\ UNCHANGED <<map, doubt, index, snaps, marks, rolled>>
        BY <1>11 DEF NewLog
  <2>2. \A i \in DOMAIN logs' : logs'[i] \in Seq(Records)
        BY <2>1 DEF Truncated, Typed
  <2> QED  BY <2>1, <2>2 DEF Typed
<1>12. CASE TouchNew
      BY <1>12 DEF TouchNew, Typed, memory
<1>13. CASE RemoveLog
      BY <1>13 DEF RemoveLog, Typed, memory, Without
<1>14. CASE RemoveData
      BY <1>14 DEF RemoveData, Typed, memory, Without
<1>15. CASE RemoveMark
      BY <1>15 DEF RemoveMark, Typed, memory
<1>16. CASE BeginClose \/ BeginClear
      BY <1>16, EmptyTyped DEF BeginClose, BeginClear, Typed, memory, disk
<1>17. CASE Closed \/ Crash
  <2>1. /\ map' = Empty /\ index' = 1 /\ logOpen' = FALSE /\ doubt' = {} /\ rolled' = FALSE
        /\ UNCHANGED <<snaps, logs, marks>>
        BY <1>17 DEF Closed, Crash, Forget, disk
  <2>2. map' \in [Slot -> Values] /\ doubt' \subseteq Slot /\ index' \in 1..9
        BY <2>1, EmptyTyped
  <2>3. /\ \A i \in DOMAIN snaps' : snaps'[i] \in [Slot -> Values]
        /\ \A i \in DOMAIN logs' : logs'[i] \in Seq(Records)
        /\ marks' \subseteq 1..9
        BY <2>1 DEF Typed
  <2> QED  BY <2>1, <2>2, <2>3 DEF Typed
<1>18. ASSUME NEW i \in Files, Unlink(i) PROVE Typed'
      BY <1>18 DEF Unlink, Typed, memory, control, Without
<1>19. ASSUME NEW k \in Key, NEW v \in Value,
              LoadSnapshot([s \in Slot |-> IF s = <<"string", k>> THEN v ELSE None])
       PROVE  Typed'
  <2> DEFINE snap == [s \in Slot |-> IF s = <<"string", k>> THEN v ELSE None]
  <2>1. snap \in [Slot -> Values]
        BY DEF Values
  <2> HIDE DEF snap
  <2>2. LoadSnapshot(snap)
        BY <1>19 DEF snap
  <2>3. /\ map' = LoadSnap(map, snap) /\ doubt' \subseteq doubt \union Slot
        /\ UNCHANGED <<index, marks, logOpen, rolled, snaps, logs>>
        BY <2>2 DEF LoadSnapshot, control, disk
  <2>4. LoadSnap(map, snap) \in [Slot -> Values]
        BY <2>1 DEF LoadSnap, Typed
  <2> QED  BY <2>3, <2>4 DEF Typed
<1>20. CASE UNCHANGED vars
      BY <1>20 DEF vars, memory, control, disk, Typed
<1> QED  BY <1>1, <1>2, <1>3, <1>4, <1>5, <1>6, <1>7, <1>8, <1>9, <1>10, <1>11, <1>12, <1>13,
            <1>14, <1>15, <1>16, <1>17, <1>18, <1>19, <1>20 DEF Next

\* The call, the record and the value of a set belong together.
LEMMA SetFits ==
    ASSUME CallFits, call.op = "set"
    PROVE  \E s \in Slot, v \in Value :
              /\ call = [op |-> "set", slots |-> {s}, value |-> v]
              /\ IF pc \in Writing THEN records = <<Update(s, v)>> /\ ~rolled ELSE records = <<>>
BY DEF CallFits, SetUnderWay

\* Inside write_log a record is left to write.
LEMMA RecordsLeft ==
    ASSUME CallFits, call.op \in {"set", "del"}, pc \in Writing
    PROVE  records # <<>>
<1>1. CASE call.op = "set"
      BY <1>1, SetFits
<1>2. CASE call.op = "del"
      BY <1>2 DEF CallFits, DelUnderWay
<1> QED  BY <1>1, <1>2

\* A step that leaves the call, its records and the map alone keeps what is known
\* of a set and of a del, unless it leads to a record or to the end.
LEMMA UnderWayKept ==
    ASSUME CallFits, UNCHANGED <<call, records, map>>,
           pc' \in Writing <=> pc \in Writing, pc' # "return",
           pc \in Writing => rolled' = rolled
    PROVE  /\ call.op = "set" => SetUnderWay'
           /\ call.op = "del" => DelUnderWay'
<1>1. ASSUME call.op = "set" PROVE SetUnderWay'
  <2>1. PICK s \in Slot, v \in Value :
            /\ call = [op |-> "set", slots |-> {s}, value |-> v]
            /\ IF pc \in Writing THEN records = <<Update(s, v)>> /\ ~rolled ELSE records = <<>>
        BY <1>1, SetFits
  <2>2. /\ call' = [op |-> "set", slots |-> {s}, value |-> v]
        /\ IF pc' \in Writing THEN records' = <<Update(s, v)>> /\ ~rolled' ELSE records' = <<>>
        BY <1>1, <2>1
  <2> QED  BY <2>2 DEF SetUnderWay, Update
<1>2. ASSUME call.op = "del" PROVE DelUnderWay'
  <2>1. DelUnderWay
        BY <1>2 DEF CallFits
  <2>2. PICK k \in Key :
            /\ call = [op |-> "del", slots |-> SlotsOf(k)]
            /\ records \in {<<>>, <<Update(<<"integral", k>>, None)>>,
                            <<Update(<<"string", k>>, None), Update(<<"integral", k>>, None)>>}
            /\ pc \in Writing => records # <<>>
            /\ \A s \in SlotsOf(k) : map[s] = None
        BY <2>1 DEF DelUnderWay
  <2>3. /\ call' = [op |-> "del", slots |-> SlotsOf(k)]
        /\ records' \in {<<>>, <<Update(<<"integral", k>>, None)>>,
                        <<Update(<<"string", k>>, None), Update(<<"integral", k>>, None)>>}
        /\ \A s \in SlotsOf(k) : map'[s] = None
        /\ pc' \in Writing => records' # <<>>
        /\ pc' = "return" => records' = <<>>
        BY <2>2
  <2> QED  BY <2>3, Zenon DEF DelUnderWay, SlotsOf, Update
<1> QED  BY <1>1, <1>2

\* A record written is taken off.
LEMMA UnderWayWritten ==
    ASSUME CallFits, WriteRecord
    PROVE  /\ call.op = "set" => SetUnderWay'
           /\ call.op = "del" => DelUnderWay'
<1>1. /\ pc = "record" /\ records' = Tail(records) /\ UNCHANGED <<map, call, rolled>>
      /\ pc' \in {"snapshot", "return", "length"}
      /\ pc' = "return" => records' = <<>>
      /\ pc' = "length" => records' # <<>>
      BY DEF WriteRecord, memory
<1>2. ASSUME call.op = "set" PROVE SetUnderWay'
  <2>1. PICK s \in Slot, v \in Value :
            /\ call = [op |-> "set", slots |-> {s}, value |-> v]
            /\ records = <<Update(s, v)>>
        BY <1>1, <1>2, SetFits DEF Writing
  <2>2. records' = <<>>
        BY <1>1, <2>1
  <2>3. /\ call' = [op |-> "set", slots |-> {s}, value |-> v]
        /\ pc' \notin Writing
        BY <1>1, <2>1, <2>2 DEF Writing
  <2> QED  BY <2>2, <2>3 DEF SetUnderWay
<1>3. ASSUME call.op = "del" PROVE DelUnderWay'
  <2>1. DelUnderWay
        BY <1>3 DEF CallFits
  <2>2. PICK k \in Key :
            /\ call = [op |-> "del", slots |-> SlotsOf(k)]
            /\ records \in {<<>>, <<Update(<<"integral", k>>, None)>>,
                            <<Update(<<"string", k>>, None), Update(<<"integral", k>>, None)>>}
            /\ pc \in Writing => records # <<>>
            /\ \A s \in SlotsOf(k) : map[s] = None
        BY <2>1 DEF DelUnderWay
  <2>3. records' \in {<<>>, <<Update(<<"integral", k>>, None)>>}
    <3> DEFINE one == Update(<<"string", k>>, None)
               two == Update(<<"integral", k>>, None)
    <3>1. records = <<two>> \/ records = <<one, two>>
          BY <1>1, <2>2 DEF Writing
    <3> HIDE DEF one, two
    <3>2. Tail(<<two>>) = <<>> /\ Tail(<<one, two>>) = <<two>>
          OBVIOUS
    <3> QED  BY <1>1, <3>1, <3>2, Zenon DEF two
  <2>4. /\ call' = [op |-> "del", slots |-> SlotsOf(k)]
        /\ \A s \in SlotsOf(k) : map'[s] = None
        /\ pc' \in Writing => records' # <<>>
        /\ pc' = "return" => records' = <<>>
        BY <1>1, <2>2 DEF Writing
  <2>5. records' \in {<<>>, <<Update(<<"integral", k>>, None)>>,
                        <<Update(<<"string", k>>, None), Update(<<"integral", k>>, None)>>}
        BY <2>3
  <2> QED  BY <2>4, <2>5, Zenon DEF DelUnderWay, SlotsOf, Update
<1> QED  BY <1>2, <1>3

\* Every step keeps call and place together.
LEMMA CallFitsNext ==
    ASSUME CallFits, [Next]_vars
    PROVE  CallFits'
<1> USE DEF Writing, Snapshotting, Removing
<1>1. CASE Open
  <2>1. UNCHANGED <<call, records, rolled>> /\ pc = "down" /\ pc' \in {"touch", "idle"}
        BY <1>1 DEF Open
  <2> QED  BY <2>1 DEF CallFits, NoCall
<1>2. CASE TouchFirst
      BY <1>2 DEF TouchFirst, CallFits, NoCall
<1>3. ASSUME NEW s \in Slot, NEW v \in Value, Set(s, v) PROVE CallFits'
  <2>1. /\ call' = [op |-> "set", slots |-> {s}, value |-> v]
        /\ records' = <<Update(s, v)>> /\ pc' = "length" /\ rolled' = FALSE
        BY <1>3 DEF Set
  <2>2. SetUnderWay'
        BY <2>1 DEF SetUnderWay, Update
  <2> QED  BY <2>1, <2>2 DEF CallFits
<1>4. ASSUME NEW k \in Key, Del(k) PROVE CallFits'
  <2>1. /\ call' = [op |-> "del", slots |-> SlotsOf(k)]
        /\ records' = <<Update(<<"string", k>>, None), Update(<<"integral", k>>, None)>>
        /\ pc' = "length" /\ rolled' = FALSE /\ map' = Erased(k)
        BY <1>4 DEF Del
  <2>2. \A s \in SlotsOf(k) : map'[s] = None
        BY <2>1 DEF Erased, SlotsOf, Slot
  <2>3. records' # <<>> /\ pc' # "return"
        BY <2>1
  <2>4. DelUnderWay'
    <3>1. records' \in {<<>>, <<Update(<<"integral", k>>, None)>>,
                        <<Update(<<"string", k>>, None), Update(<<"integral", k>>, None)>>}
          BY <2>1
    <3> QED  BY <2>1, <2>2, <2>3, <3>1, Zenon DEF DelUnderWay, SlotsOf, Update
  <2> QED  BY <2>1, <2>4 DEF CallFits
<1>5. ASSUME NEW k \in Key, DelThrows(k) PROVE CallFits'
      BY <1>5 DEF DelThrows, control, CallFits, NoCall
<1>6. CASE WriteLength
  <2>1. pc = "length" /\ pc' = "record" /\ UNCHANGED <<map, call, records, rolled>>
        BY <1>6 DEF WriteLength, memory
  <2>2. records # <<>>
    <3>1. call.op \in {"set", "del"}
          BY <2>1 DEF CallFits
    <3> QED  BY <2>1, <3>1, RecordsLeft
  <2>3. /\ call.op = "set" => SetUnderWay'
        /\ call.op = "del" => DelUnderWay'
        BY <2>1, <2>2, UnderWayKept
  <2> QED  BY <2>1, <2>3 DEF CallFits
<1>7. CASE WriteRecord
  <2>1. pc = "record" /\ pc' \in {"snapshot", "return", "length"} /\ UNCHANGED <<map, call, rolled>>
        BY <1>7 DEF WriteRecord, memory
  <2>2. /\ call.op = "set" => SetUnderWay'
        /\ call.op = "del" => DelUnderWay'
        BY <1>7, UnderWayWritten
  <2>3. call.op \in {"set", "del"}
        BY <2>1 DEF CallFits
  <2> QED  BY <2>1, <2>2, <2>3 DEF CallFits
<1>8. CASE Return
  <2>1. /\ pc = "return" /\ pc' = "idle" /\ call' = NoCall /\ rolled' = FALSE
        /\ records' = records
        BY <1>8 DEF Return
  <2>2. records = <<>>
    <3>1. call.op \in {"set", "del", "clear"}
          BY <2>1 DEF CallFits
    <3> QED  BY <2>1, <3>1 DEF CallFits, SetUnderWay, DelUnderWay
  <2> QED  BY <2>1, <2>2 DEF CallFits, NoCall
<1>9. CASE StartSnapshot
  <2>1. pc = "snapshot" /\ pc' = "contents" /\ UNCHANGED <<map, call, records, rolled>>
        BY <1>9 DEF StartSnapshot
  <2>2. /\ call.op = "set" => SetUnderWay'
        /\ call.op = "del" => DelUnderWay'
        BY <2>1, UnderWayKept
  <2> QED  BY <2>1, <2>2 DEF CallFits
<1>10. ASSUME NEW s \in Slot, WriteSnapshot(s) PROVE CallFits'
  <2>1. pc = "contents" /\ UNCHANGED <<map, pc, call, records, rolled>>
        BY <1>10 DEF WriteSnapshot, memory, control
  <2>2. /\ call.op = "set" => SetUnderWay'
        /\ call.op = "del" => DelUnderWay'
        BY <2>1, UnderWayKept
  <2> QED  BY <2>1, <2>2 DEF CallFits
<1>11. CASE NewLog
  <2>1. pc \in {"contents", "unlink"} /\ pc' = "touchNew" /\ UNCHANGED <<map, call, records, rolled>>
        BY <1>11 DEF NewLog
  <2>2. /\ call.op = "set" => SetUnderWay'
        /\ call.op = "del" => DelUnderWay'
        BY <2>1, UnderWayKept
  <2> QED  BY <2>1, <2>2 DEF CallFits
<1>12. CASE TouchNew
  <2>1. /\ pc = "touchNew" /\ pc' = IF call.op = "clear" THEN "return" ELSE "rmLog"
        /\ UNCHANGED <<map, call, records, rolled>>
        BY <1>12 DEF TouchNew, memory
  <2>2. call.op \in {"set", "del", "close", "clear"}
        BY <2>1 DEF CallFits
  <2>3. call.op # "clear" =>
        /\ call.op = "set" => SetUnderWay'
        /\ call.op = "del" => DelUnderWay'
        BY <2>1, UnderWayKept
  <2> QED  BY <2>1, <2>2, <2>3 DEF CallFits
<1>13. CASE RemoveLog \/ RemoveData
  <2>1. /\ pc \in {"rmLog", "rmData"} /\ pc' \in {"rmData", "rmMark"}
        /\ UNCHANGED <<map, call, records, rolled>>
        BY <1>13 DEF RemoveLog, RemoveData, memory
  <2>2. /\ call.op = "set" => SetUnderWay'
        /\ call.op = "del" => DelUnderWay'
        BY <2>1, UnderWayKept
  <2> QED  BY <2>1, <2>2 DEF CallFits
<1>15. CASE RemoveMark
  <2>1. /\ pc = "rmMark" /\ rolled' = TRUE /\ UNCHANGED <<map, call, records>>
        /\ pc' = IF call.op = "close" THEN "closed"
             ELSE IF records = <<>> THEN "return" ELSE "length"
        BY <1>15 DEF RemoveMark, memory
  <2>2. call.op \in {"set", "del", "close"}
        BY <2>1 DEF CallFits
  <2>3. ASSUME call.op = "set" PROVE SetUnderWay' /\ pc' = "return"
    <3>1. PICK s \in Slot, v \in Value :
              call = [op |-> "set", slots |-> {s}, value |-> v] /\ records = <<>>
          BY <2>1, <2>3, SetFits
    <3>2. call' = [op |-> "set", slots |-> {s}, value |-> v] /\ records' = <<>> /\ pc' = "return"
          BY <2>1, <2>3, <3>1
    <3> QED  BY <3>2 DEF SetUnderWay
  <2>4. ASSUME call.op = "del" PROVE DelUnderWay' /\ pc' \in {"return", "length"}
    <3>1. DelUnderWay
          BY <2>4 DEF CallFits
    <3>2. PICK k \in Key :
            /\ call = [op |-> "del", slots |-> SlotsOf(k)]
            /\ records \in {<<>>, <<Update(<<"integral", k>>, None)>>,
                            <<Update(<<"string", k>>, None), Update(<<"integral", k>>, None)>>}
            /\ \A s \in SlotsOf(k) : map[s] = None
          BY <3>1 DEF DelUnderWay
    <3>3. /\ call' = [op |-> "del", slots |-> SlotsOf(k)]
          /\ records' \in {<<>>, <<Update(<<"integral", k>>, None)>>,
                          <<Update(<<"string", k>>, None), Update(<<"integral", k>>, None)>>}
          /\ \A s \in SlotsOf(k) : map'[s] = None
          /\ pc' \in Writing => records' # <<>>
          /\ pc' = "return" => records' = <<>>
          BY <2>1, <2>4, <3>2
    <3>4. pc' \in {"return", "length"}
          BY <2>1, <2>4
    <3> QED  BY <3>3, <3>4, Zenon DEF DelUnderWay, SlotsOf, Update
  <2> QED  BY <2>1, <2>2, <2>3, <2>4 DEF CallFits
<1>16. CASE BeginClose \/ BeginClear
      BY <1>16 DEF BeginClose, BeginClear, memory, CallFits
<1>17. CASE Closed \/ Crash
      BY <1>17 DEF Closed, Crash, Forget, CallFits, NoCall
<1>18. ASSUME NEW i \in Files, Unlink(i) PROVE CallFits'
  <2>1. pc = "unlink" /\ UNCHANGED <<map, pc, call, records, rolled>>
        BY <1>18 DEF Unlink, memory, control
  <2> QED  BY <2>1 DEF CallFits
<1>19. ASSUME NEW snap, LoadSnapshot(snap) PROVE CallFits'
      BY <1>19 DEF LoadSnapshot, control, CallFits, NoCall
<1>20. CASE UNCHANGED vars
  <2>1. UNCHANGED <<map, pc, call, records, rolled>>
        BY <1>20 DEF vars, memory, control
  <2>2. CASE pc = "return" /\ call.op \in {"set", "del"}
    <3>1. call.op = "set" => SetUnderWay'
      <4> SUFFICES ASSUME call.op = "set" PROVE SetUnderWay'
          OBVIOUS
      <4>1. PICK s \in Slot, v \in Value :
                call = [op |-> "set", slots |-> {s}, value |-> v] /\ records = <<>>
            BY <2>2, SetFits
      <4>2. call' = [op |-> "set", slots |-> {s}, value |-> v] /\ records' = <<>> /\ pc' = "return"
            BY <2>1, <2>2, <4>1
      <4> QED  BY <4>2 DEF SetUnderWay
    <3>2. call.op = "del" => DelUnderWay'
      <4>1. ASSUME DelUnderWay PROVE DelUnderWay'
        <5>1. PICK k \in Key :
            /\ call = [op |-> "del", slots |-> SlotsOf(k)]
            /\ records = <<>>
            /\ \A s \in SlotsOf(k) : map[s] = None
              BY <2>2, <4>1 DEF DelUnderWay
        <5>2. /\ call' = [op |-> "del", slots |-> SlotsOf(k)]
              /\ records' = <<>> /\ pc' = "return"
              /\ \A s \in SlotsOf(k) : map'[s] = None
              BY <2>1, <2>2, <5>1
        <5> QED  BY <5>2 DEF DelUnderWay, SlotsOf
      <4> QED  BY <4>1 DEF CallFits
    <3> QED  BY <2>1, <2>2, <3>1, <3>2 DEF CallFits
  <2>3. CASE pc # "return" \/ call.op \notin {"set", "del"}
    <3>1. pc # "return" =>
          /\ call.op = "set" => SetUnderWay'
          /\ call.op = "del" => DelUnderWay'
          BY <2>1, UnderWayKept
    <3> QED  BY <2>1, <2>3, <3>1 DEF CallFits
  <2> QED  BY <2>2, <2>3
<1> QED  BY <1>1, <1>2, <1>3, <1>4, <1>5, <1>6, <1>7, <1>8, <1>9, <1>10, <1>11, <1>12, <1>13,
            <1>15, <1>16, <1>17, <1>18, <1>19, <1>20 DEF Next

\* Every step keeps the markers where they may be.
LEMMA MarksFitNext ==
    ASSUME MaxIndex <= 9, Typed, CallFits, MarksFit, [Next]_vars
    PROVE  MarksFit'
<1> USE MetadataBounds DEF Writing, Snapshotting, Removing
<1>0. /\ index \in 1..9 /\ marks \subseteq 1..9 /\ logOpen \in BOOLEAN
      /\ \E i \in 1..8 : marks \subseteq {i, i + 1}
      BY DEF Typed, MarksFit
<1>1. CASE Open
  <2>1. /\ logOpen' = (marks # {} \/ Files = {}) /\ UNCHANGED <<call, marks>>
        /\ index' = IF marks = {} THEN 1 ELSE Last(Marked)
        /\ pc' = IF Files = {} THEN "touch" ELSE "idle"
        /\ marks \subseteq DOMAIN logs /\ pc = "down"
        BY <1>1 DEF Open, Opens
  <2>2. marks # {} => /\ Last(Marked) \in marks
                      /\ marks \subseteq {Last(Marked), Last(Marked) + 1}
        BY <1>0, <2>1, RecoveredTyped
  <2>3. Files = {} => marks = {}
        BY DEF Files
  <2> QED  BY <1>0, <2>1, <2>2, <2>3 DEF MarksFit
<1>2. CASE TouchFirst
  <2>1. /\ pc = "touch" /\ pc' = "idle" /\ marks' = marks \union {index}
        /\ UNCHANGED <<index, logOpen, call>>
        BY <1>2 DEF TouchFirst, memory
  <2>2. marks' = {1} /\ index' = 1 /\ logOpen'
        BY <2>1 DEF MarksFit
  <2>3. 1 \in 1..8 /\ marks' \subseteq {1, 1 + 1}
        BY <2>2
  <2> QED  BY <2>1, <2>2, <2>3 DEF MarksFit
<1>3. CASE \/ \E s \in Slot, v \in Value : Set(s, v)
           \/ \E k \in Key : Del(k)
  <2>1. pc = "idle" /\ logOpen /\ pc' = "length" /\ UNCHANGED <<index, logOpen, marks>>
        BY <1>3 DEF Set, Del, memory, disk
  <2> QED  BY <1>0, <2>1 DEF MarksFit
<1>4. CASE \/ \E k \in Key : DelThrows(k)
           \/ \E snap : LoadSnapshot(snap)
  <2>1. pc = "idle" /\ pc' = "idle" /\ UNCHANGED <<index, logOpen, marks, call>>
        BY <1>4 DEF DelThrows, LoadSnapshot, control, disk
  <2> QED  BY <1>0, <2>1 DEF MarksFit
<1>5. CASE WriteLength \/ WriteRecord
  <2>1. /\ pc \in {"length", "record"} /\ pc' \in {"record", "snapshot", "return", "length"}
        /\ UNCHANGED <<index, logOpen, marks, call>>
        BY <1>5 DEF WriteLength, WriteRecord, memory
  <2> QED  BY <1>0, <2>1 DEF MarksFit
<1>6. CASE Return
  <2>1. pc = "return" /\ pc' = "idle" /\ UNCHANGED <<index, logOpen, marks>>
        BY <1>6 DEF Return, disk
  <2> QED  BY <1>0, <2>1 DEF MarksFit
<1>7. CASE StartSnapshot
  <2>1. /\ pc = "snapshot" /\ pc' = "contents" /\ index' = index + 1 /\ index < MaxIndex
        /\ UNCHANGED <<logOpen, marks, call>>
        BY <1>7 DEF StartSnapshot
  <2>2. /\ marks \subseteq {index, index + 1}
        /\ IF logOpen THEN index \in marks ELSE marks = {}
        BY <2>1 DEF MarksFit
  <2>3. index' - 1 = index /\ index \in 1..8
        BY <1>0, <2>1
  <2> QED  BY <1>0, <2>1, <2>2, <2>3 DEF MarksFit
<1>8. ASSUME NEW s \in Slot, WriteSnapshot(s) PROVE MarksFit'
  <2>1. pc = "contents" /\ UNCHANGED <<pc, index, logOpen, marks, call>>
        BY <1>8 DEF WriteSnapshot, memory, control
  <2> QED  BY <1>0, <2>1 DEF MarksFit
<1>9. CASE NewLog
  <2>1. /\ pc \in {"contents", "unlink"} /\ pc' = "touchNew" /\ logOpen'
        /\ pc = "unlink" => marks = {}
        /\ UNCHANGED <<index, marks, call>>
        BY <1>9 DEF NewLog, Files
  <2>2. IF pc = "unlink" THEN call.op = "clear" ELSE call.op \in {"set", "del", "close"}
        BY <2>1 DEF CallFits
  <2> QED  BY <1>0, <2>1, <2>2 DEF MarksFit
<1>10. CASE TouchNew
  <2>1. /\ pc = "touchNew" /\ pc' = IF call.op = "clear" THEN "return" ELSE "rmLog"
        /\ marks' = marks \union {index} /\ UNCHANGED <<index, logOpen, call>>
        BY <1>10 DEF TouchNew, memory
  <2>2. logOpen
        BY <2>1 DEF MarksFit
  <2>3. CASE call.op = "clear"
    <3>1. marks' = {index}
          BY <2>1, <2>3 DEF MarksFit
    <3>2. \E i \in 1..8 : marks' \subseteq {i, i + 1}
      <4>1. CASE index = 9
            BY <3>1, <4>1
      <4>2. CASE index \in 1..8
            BY <3>1, <4>2
      <4> QED  BY <1>0, <4>1, <4>2
    <3> QED  BY <1>0, <2>1, <2>2, <2>3, <3>1, <3>2 DEF MarksFit
  <2>4. CASE call.op # "clear"
    <3>1. index - 1 \in 1..8 /\ marks' \subseteq {index - 1, index} /\ index \in marks'
          BY <2>1, <2>4 DEF MarksFit
    <3>2. \E i \in 1..8 : marks' \subseteq {i, i + 1}
          BY <1>0, <3>1
    <3> QED  BY <2>1, <2>2, <2>4, <3>1, <3>2 DEF MarksFit
  <2> QED  BY <2>3, <2>4
<1>11. CASE RemoveLog \/ RemoveData
  <2>1. /\ pc \in {"rmLog", "rmData"} /\ pc' \in {"rmData", "rmMark"}
        /\ UNCHANGED <<index, logOpen, marks, call>>
        BY <1>11 DEF RemoveLog, RemoveData, memory
  <2> QED  BY <1>0, <2>1 DEF MarksFit
<1>12. CASE RemoveMark
  <2>1. /\ pc = "rmMark" /\ pc' \in {"closed", "return", "length"}
        /\ marks' = marks \ {index - 1} /\ UNCHANGED <<index, logOpen, call>>
        BY <1>12 DEF RemoveMark, memory
  <2>2. call.op # "clear"
        BY <2>1 DEF CallFits
  <2>3. index - 1 \in 1..8 /\ marks \subseteq {index - 1, index} /\ index \in marks /\ logOpen
        BY <2>1, <2>2 DEF MarksFit
  <2>4. marks' = {index}
    <3>1. index # index - 1
          BY <1>0
    <3> QED  BY <2>1, <2>3, <3>1
  <2>5. \E i \in 1..8 : marks' \subseteq {i, i + 1}
        BY <1>0, <2>3, <2>4
  <2> QED  BY <1>0, <2>1, <2>3, <2>4, <2>5 DEF MarksFit
<1>13. CASE BeginClose \/ BeginClear
  <2>1. CASE BeginClose
    <3>1. pc = "idle" /\ pc' = "snapshot" /\ UNCHANGED <<marks, index, logOpen>>
          BY <2>1 DEF BeginClose, memory, disk
    <3> QED  BY <1>0, <3>1 DEF MarksFit
  <2>2. CASE BeginClear
    <3>1. pc' = "unlink" /\ marks' = marks
          BY <2>2 DEF BeginClear, disk
    <3> QED  BY <1>0, <3>1 DEF MarksFit
  <2> QED  BY <1>13, <2>1, <2>2
<1>14. CASE Closed \/ Crash
  <2>1. pc' = "down" /\ marks' = marks
        BY <1>14 DEF Closed, Crash, Forget, disk
  <2> QED  BY <1>0, <2>1 DEF MarksFit
<1>15. ASSUME NEW i \in Files, Unlink(i) PROVE MarksFit'
  <2>1. pc = "unlink" /\ pc' = "unlink" /\ marks' \subseteq marks
        BY <1>15 DEF Unlink, memory, control
  <2> QED  BY <1>0, <2>1 DEF MarksFit
<1>16. CASE UNCHANGED vars
  <2>1. UNCHANGED <<pc, index, logOpen, marks, call>>
        BY <1>16 DEF vars, memory, control, disk
  <2> QED  BY <2>1 DEF MarksFit
<1> QED  BY <1>1, <1>2, <1>3, <1>4, <1>5, <1>6, <1>7, <1>8, <1>9, <1>10, <1>11, <1>12, <1>13,
            <1>14, <1>15, <1>16 DEF Next

\* What the snapshot under way has written, and what is left of the old generation.
SnapshotFits ==
    /\ pc = "contents" =>
          index \in DOMAIN snaps /\ \A s \in Slot : snaps[index][s] \in {None, map[s]}
    /\ pc \in {"touchNew"} \union Removing /\ call.op # "clear" =>
          /\ index \in DOMAIN snaps /\ snaps[index] = map
          /\ index \in DOMAIN logs /\ logs[index] = <<>>
    /\ pc \in {"rmData", "rmMark"} => index - 1 \notin DOMAIN logs
    /\ pc = "touchNew" /\ call.op = "clear" =>
          DOMAIN snaps = {} /\ index \in DOMAIN logs /\ logs[index] = <<>>
    /\ pc = "touch" =>
          DOMAIN snaps = {} /\ map = Empty /\ doubt = {} /\ 1 \in DOMAIN logs /\ logs[1] = <<>>

\* After make_snapshot and clear there is one generation, which holds what memory
\* holds; a del that has a record to write keeps it so.
RolledFits ==
    pc \in Writing \union {"snapshot", "return", "closed"} /\ (rolled \/ call.op = "clear") =>
        marks = {index} /\ Alone(index) = map

\* Before, a slot of the call has its record in the log, or one that is to be written.
RecordsFit ==
    pc \in Writing \union {"return"} /\ ~rolled /\ call.op \in {"set", "del"} =>
        \A s \in call.slots :
            \/ \E k \in DOMAIN records : records[k].slot = s
            \/ /\ RecordsOf(logs[index], s) # {}
               /\ Alone(index)[s] = IF call.op = "set" THEN call.value ELSE None

\* A generation whose files do not change holds what it held.
LEMMA GenerationKept ==
    ASSUME NEW i, logs'[i] = logs[i],
           i \in DOMAIN snaps' <=> i \in DOMAIN snaps,
           i \in DOMAIN snaps => snaps'[i] = snaps[i]
    PROVE  Alone(i)' = Alone(i) /\ \A s \in Slot : Decides(i, s)' <=> Decides(i, s)
<1>1. Alone(i)' = Alone(i)
  <2>1. CASE i \in DOMAIN snaps
        BY <2>1 DEF Alone, LoadGeneration, Replay, LoadSnap, RecordsOf
  <2>2. CASE i \notin DOMAIN snaps
        BY <2>2 DEF Alone, LoadGeneration, Replay, RecordsOf
  <2> QED  BY <2>1, <2>2
<1>2. \A s \in Slot : Decides(i, s)' <=> Decides(i, s)
      BY DEF Decides, RecordsOf
<1> QED  BY <1>1, <1>2

\* With an empty log a generation is its snapshot.
LEMMA EmptyLog ==
    \A i : logs[i] = <<>> =>
        \A s \in Slot : Alone(i)[s] = IF i \in DOMAIN snaps THEN snaps[i][s] ELSE None
<1> TAKE i
<1> HAVE logs[i] = <<>>
<1> TAKE s \in Slot
<1>1. RecordsOf(<<>>, s) = {}
      BY DEF RecordsOf
<1>2. Empty[s] = None
      BY DEF Empty
<1> QED  BY <1>1, <1>2 DEF Alone, LoadGeneration, Replay, LoadSnap

\* A generation is a map over the slots.
LEMMA AloneFunction ==
    \A i : Alone(i) = [s \in Slot |-> Alone(i)[s]]
BY DEF Alone, LoadGeneration, Replay

\* A generation that has only a snapshot, and one that has nothing.
LEMMA SnapshotAlone ==
    /\ \A i \in DOMAIN snaps : logs[i] = <<>> /\ snaps[i] \in [Slot -> Values] => Alone(i) = snaps[i]
    /\ \A i : i \notin DOMAIN snaps /\ logs[i] = <<>> => Alone(i) = Empty
<1>1. ASSUME NEW i \in DOMAIN snaps, logs[i] = <<>>, snaps[i] \in [Slot -> Values]
      PROVE  Alone(i) = snaps[i]
  <2>1. \A s \in Slot : Alone(i)[s] = snaps[i][s]
        BY <1>1, EmptyLog
  <2>2. snaps[i] = [s \in Slot |-> snaps[i][s]]
        BY <1>1
  <2> QED  BY <2>1, <2>2, AloneFunction
<1>2. ASSUME NEW i, i \notin DOMAIN snaps, logs[i] = <<>> PROVE Alone(i) = Empty
  <2>1. \A s \in Slot : Alone(i)[s] = None
        BY <1>2, EmptyLog
  <2> QED  BY <2>1, AloneFunction DEF Empty
<1> QED  BY <1>1, <1>2

\* What a record does to its slot, and to the others.
LEMMA ReplayAppended ==
    ASSUME NEW base, NEW log \in Seq(Records), NEW r \in Records, NEW s \in Slot
    PROVE  /\ RecordsOf(Append(log, r), s) # {} <=> (RecordsOf(log, s) # {} \/ r.slot = s)
           /\ Replay(base, Append(log, r))[s] = IF r.slot = s THEN r.value ELSE Replay(base, log)[s]
<1>0. TakesEffect(log, r, s)
      BY RecordAppended
<1>1. RecordsOf(Append(log, r), s) =
          IF r.slot = s THEN RecordsOf(log, s) \union {Len(log) + 1} ELSE RecordsOf(log, s)
      BY <1>0 DEF TakesEffect
<1>a. r.slot = s => Append(log, r)[Max(RecordsOf(Append(log, r), s))] = r
      BY <1>0, Zenon DEF TakesEffect
<1>b. r.slot # s /\ RecordsOf(log, s) # {} =>
          Append(log, r)[Max(RecordsOf(log, s))] = log[Max(RecordsOf(log, s))]
      BY <1>0, Zenon DEF TakesEffect
<1>2. RecordsOf(Append(log, r), s) # {} <=> (RecordsOf(log, s) # {} \/ r.slot = s)
      BY <1>1
<1> QED  BY <1>1, <1>a, <1>b, <1>2 DEF Replay

\* What a record does to the generation it is appended to.
LEMMA RecordLoaded ==
    ASSUME Typed, NEW i \in DOMAIN logs, NEW r \in Records, UNCHANGED snaps,
           logs'[i] = Append(logs[i], r), NEW s \in Slot
    PROVE  /\ RecordsOf(logs'[i], s) # {} <=> (RecordsOf(logs[i], s) # {} \/ r.slot = s)
           /\ (Alone(i)')[s] = IF r.slot = s THEN r.value ELSE Alone(i)[s]
           /\ r.slot # s => (Decides(i, s)' <=> Decides(i, s))
<1> DEFINE base == IF i \in DOMAIN snaps THEN LoadSnap(Empty, snaps[i]) ELSE Empty
<1>1. logs[i] \in Seq(Records)
      BY DEF Typed
<1>2. Alone(i) = Replay(base, logs[i])
      BY DEF Alone, LoadGeneration
<1>3. Alone(i)' = Replay(base, Append(logs[i], r))
      BY DEF Alone, LoadGeneration, Replay, RecordsOf, LoadSnap, Empty
<1> HIDE DEF base
<1>4. /\ RecordsOf(logs'[i], s) # {} <=> (RecordsOf(logs[i], s) # {} \/ r.slot = s)
      /\ (Alone(i)')[s] = IF r.slot = s THEN r.value ELSE Alone(i)[s]
      BY <1>1, <1>2, <1>3, ReplayAppended
<1>5. Decides(i, s)' <=> RecordsOf(logs'[i], s) # {} \/ (i \in DOMAIN snaps /\ snaps[i][s] # None)
      BY DEF Decides, RecordsOf
<1>6. r.slot # s => (Decides(i, s)' <=> Decides(i, s))
      BY <1>4, <1>5 DEF Decides
<1> QED  BY <1>4, <1>6

\* Every step keeps what is known of the snapshot and the old generation.
LEMMA SnapshotFitsNext ==
    ASSUME MaxIndex <= 9, Typed, CallFits, MarksFit, SnapshotFits, [Next]_vars
    PROVE  SnapshotFits'
<1> USE FileNames, MetadataBounds DEF Writing, Snapshotting, Removing
<1>0. index \in 1..9
      BY DEF Typed
<1>1. CASE Open
  <2>1. CASE Files = {}
    <3>1. pc' = "touch" /\ logs' = Truncated(logs, 1, <<>>) /\ map' = Recovered
          /\ doubt' = Elsewhere /\ snaps' = snaps
          BY <1>1, <2>1 DEF Open
    <3>2. marks = {} /\ DOMAIN snaps = {}
          BY <2>1 DEF Files
    <3>3. 1 \in DOMAIN logs' /\ logs'[1] = <<>>
          BY <3>1 DEF Truncated
    <3>4. Recovered = Empty /\ Elsewhere = {}
          BY <3>2, RecoveredFrom DEF Elsewhere
    <3> QED  BY <3>1, <3>2, <3>3, <3>4 DEF SnapshotFits, Empty
  <2>2. CASE Files # {}
    <3>1. pc' = "idle"
          BY <1>1, <2>2 DEF Open
    <3> QED  BY <3>1 DEF SnapshotFits
  <2> QED  BY <2>1, <2>2
<1>2. ASSUME pc' \in Writing \union {"down", "idle", "snapshot", "return", "closed", "unlink"}
      PROVE  SnapshotFits'
      BY <1>2 DEF SnapshotFits
<1>3. CASE StartSnapshot
  <2>1. /\ pc' = "contents" /\ index' = index + 1 /\ snaps' = Truncated(snaps, index + 1, Empty)
        /\ map' = map
        BY <1>3 DEF StartSnapshot
  <2>2. index' \in DOMAIN snaps' /\ snaps'[index'] = Empty
        BY <2>1 DEF Truncated
  <2> QED  BY <2>1, <2>2, EmptyTyped DEF SnapshotFits
<1>4. ASSUME NEW s \in Slot, WriteSnapshot(s) PROVE SnapshotFits'
  <2>1. /\ pc = "contents" /\ snaps' = [snaps EXCEPT ![index][s] = map[s]]
        /\ UNCHANGED <<pc, map, index>>
        BY <1>4 DEF WriteSnapshot, memory, control
  <2>2. index \in DOMAIN snaps /\ \A t \in Slot : snaps[index][t] \in {None, map[t]}
        BY <2>1 DEF SnapshotFits
  <2>3. snaps[index] \in [Slot -> Values]
        BY <2>2 DEF Typed
  <2>4. snaps'[index] = [snaps[index] EXCEPT ![s] = map[s]] /\ index' \in DOMAIN snaps'
        BY <2>1, <2>2
  <2>5. \A t \in Slot : snaps'[index'][t] \in {None, map'[t]}
        BY <2>1, <2>2, <2>3, <2>4
  <2> QED  BY <2>1, <2>4, <2>5 DEF SnapshotFits
<1>5. CASE NewLog
  <2>1. /\ pc' = "touchNew" /\ logs' = Truncated(logs, index, <<>>)
        /\ \/ pc = "contents" /\ snaps[index] = map
           \/ pc = "unlink" /\ Files = {}
        /\ UNCHANGED <<map, index, snaps, call>>
        BY <1>5 DEF NewLog
  <2>2. index' \in DOMAIN logs' /\ logs'[index'] = <<>>
        BY <2>1 DEF Truncated
  <2>3. pc = "unlink" => call.op = "clear" /\ DOMAIN snaps = {}
        BY <2>1 DEF CallFits, Files
  <2>4. pc = "contents" => call.op # "clear" /\ index \in DOMAIN snaps
        BY DEF CallFits, SnapshotFits
  <2> QED  BY <2>1, <2>2, <2>3, <2>4 DEF SnapshotFits
<1>6. CASE TouchNew
      BY <1>6 DEF TouchNew, memory, SnapshotFits
<1>7. CASE RemoveLog
  <2>1. /\ pc = "rmLog" /\ pc' = "rmData" /\ logs' = Without(logs, index - 1)
        /\ UNCHANGED <<map, index, snaps, call>>
        BY <1>7 DEF RemoveLog, memory
  <2>2. call.op # "clear"
        BY <2>1 DEF CallFits
  <2>3. index # index - 1
        BY <1>0
  <2>4. /\ index \in DOMAIN snaps /\ snaps[index] = map
        /\ index \in DOMAIN logs /\ logs[index] = <<>>
        BY <2>1, <2>2 DEF SnapshotFits
  <2>5. index \in DOMAIN logs' /\ logs'[index] = <<>> /\ index - 1 \notin DOMAIN logs'
        BY <2>1, <2>3, <2>4 DEF Without
  <2> QED  BY <2>1, <2>4, <2>5 DEF SnapshotFits
<1>8. CASE RemoveData
  <2>1. /\ pc = "rmData" /\ pc' = "rmMark" /\ snaps' = Without(snaps, index - 1)
        /\ UNCHANGED <<map, index, logs, call>>
        BY <1>8 DEF RemoveData, memory
  <2>2. call.op # "clear"
        BY <2>1 DEF CallFits
  <2>3. index # index - 1
        BY <1>0
  <2>4. /\ index \in DOMAIN snaps /\ snaps[index] = map
        /\ index \in DOMAIN logs /\ logs[index] = <<>> /\ index - 1 \notin DOMAIN logs
        BY <2>1, <2>2 DEF SnapshotFits
  <2>5. index \in DOMAIN snaps' /\ snaps'[index] = map
        BY <2>1, <2>3, <2>4 DEF Without
  <2> QED  BY <2>1, <2>4, <2>5 DEF SnapshotFits
<1>9. ASSUME NEW i \in Files, Unlink(i) PROVE SnapshotFits'
      BY <1>9 DEF Unlink, control, SnapshotFits
<1>10. CASE UNCHANGED vars
  <2>1. UNCHANGED <<map, index, snaps, call, logs, pc, doubt>>
        BY <1>10 DEF vars, memory, control, disk
  <2> QED  BY <2>1 DEF SnapshotFits, Empty
<1>11. CASE \/ TouchFirst \/ \E s \in Slot, v \in Value : Set(s, v)
            \/ \E k \in Key : Del(k)
            \/ WriteLength \/ WriteRecord \/ Return \/ RemoveMark
            \/ BeginClose \/ Closed \/ Crash \/ BeginClear
  <2>1. pc' \in Writing \union {"down", "idle", "snapshot", "return", "closed", "unlink"}
        BY <1>11 DEF TouchFirst, Set, Del, WriteLength, WriteRecord, Return, RemoveMark,
                     BeginClose, Closed, Crash, Forget, BeginClear
  <2> QED  BY <1>2, <2>1
<1>12. CASE \/ \E k \in Key : DelThrows(k)
            \/ \E snap : LoadSnapshot(snap)
  <2>1. pc' = "idle"
        BY <1>12 DEF DelThrows, LoadSnapshot, control
  <2> QED  BY <1>2, <2>1
<1> QED  BY <1>1, <1>3, <1>4, <1>5, <1>6, <1>7, <1>8, <1>9, <1>10, <1>11, <1>12 DEF Next

\* A record is written to a generation with a marker and a log, and is one of the
\* call's.
LEMMA WritesRecord ==
    ASSUME Typed, CallFits, MarksFit, DiskInv, WriteRecord
    PROVE  /\ index \in DOMAIN logs /\ index \in marks /\ call.op \in {"set", "del"}
           /\ Head(records) \in Records /\ Head(records).slot \in call.slots
           /\ Head(records).value = IF call.op = "set" THEN call.value ELSE None
           /\ logs' = [logs EXCEPT ![index] = Append(@, Head(records))]
           /\ logs'[index] = Append(logs[index], Head(records))
           /\ \A i : i # index => logs'[i] = logs[i]
<1>1. pc = "record" /\ logs' = [logs EXCEPT ![index] = Append(@, Head(records))]
      BY DEF WriteRecord
<1>2. call.op \in {"set", "del"} /\ logOpen
      BY <1>1 DEF CallFits, MarksFit, Writing
<1>3. index \in DOMAIN logs /\ index \in marks
      BY <1>1, <1>2 DEF MarksFit, DiskInv, Writing
<1>4. Head(records) \in Records /\ Head(records).slot \in call.slots
      BY <1>1, RecordsTyped DEF Writing
<1>5. Head(records).value = IF call.op = "set" THEN call.value ELSE None
  <2>1. CASE call.op = "set"
    <3>1. PICK s \in Slot, v \in Value :
              call = [op |-> "set", slots |-> {s}, value |-> v] /\ records = <<Update(s, v)>>
          BY <1>1, <2>1, SetFits DEF Writing
    <3> QED  BY <2>1, <3>1 DEF Update
  <2>2. CASE call.op = "del"
    <3>1. PICK k \in Key :
              records \in {<<Update(<<"integral", k>>, None)>>,
                           <<Update(<<"string", k>>, None), Update(<<"integral", k>>, None)>>}
      <4>1. DelUnderWay
            BY <2>2 DEF CallFits
      <4>2. records # <<>>
            BY <1>1, <2>2, RecordsLeft DEF Writing
      <4> QED  BY <4>1, <4>2 DEF DelUnderWay
    <3> QED  BY <2>2, <3>1 DEF Update
  <2> QED  BY <1>2, <2>1, <2>2
<1>6. logs'[index] = Append(logs[index], Head(records))
      BY <1>1, <1>3
<1>7. ASSUME NEW i, i # index PROVE logs'[i] = logs[i]
  <2>1. CASE i \in DOMAIN logs
        BY <1>1, <1>7, <2>1
  <2>2. CASE i \notin DOMAIN logs
        BY <1>1, <1>7, <2>2
  <2> QED  BY <2>1, <2>2
<1> QED  BY <1>1, <1>2, <1>3, <1>4, <1>5, <1>6, <1>7

\* Every step keeps memory and the only generation equal, after a snapshot.
LEMMA RolledFitsNext ==
    ASSUME MaxIndex <= 9, Typed, CallFits, MarksFit, SnapshotFits, RolledFits, DiskInv, [Next]_vars
    PROVE  RolledFits'
<1> USE DEF Writing, Removing, Snapshotting
<1>1. ASSUME ~rolled', call.op # "clear", call'.op # "clear" PROVE RolledFits'
      BY <1>1 DEF RolledFits
<1>2. ASSUME pc' \notin Writing \union {"snapshot", "return", "closed"} PROVE RolledFits'
      BY <1>2 DEF RolledFits
<1>3. CASE \/ \E s \in Slot, v \in Value : Set(s, v)
           \/ \E k \in Key : Del(k)
           \/ BeginClose
  <2>1. pc = "idle" /\ call'.op \in {"set", "del", "close"} /\ (rolled' = FALSE \/ rolled' = rolled)
    <3>1. ASSUME NEW s \in Slot, NEW v \in Value, Set(s, v)
          PROVE  pc = "idle" /\ call'.op = "set" /\ rolled' = FALSE
          BY <3>1 DEF Set
    <3>2. ASSUME NEW k \in Key, Del(k)
          PROVE  pc = "idle" /\ call'.op = "del" /\ rolled' = FALSE
          BY <3>2 DEF Del
    <3>3. ASSUME BeginClose
          PROVE  pc = "idle" /\ call'.op = "close" /\ rolled' = rolled
          BY <3>3 DEF BeginClose
    <3> QED  BY <1>3, <3>1, <3>2, <3>3
  <2>2. call = NoCall /\ ~rolled
        BY <2>1 DEF CallFits
  <2> QED  BY <1>1, <2>1, <2>2 DEF NoCall
<1>4. CASE WriteLength
  <2>1. pc = "length" /\ UNCHANGED <<map, call, rolled, snaps, logs, marks, index>>
        BY <1>4 DEF WriteLength, memory
  <2>2. Alone(index)' = Alone(index)
        BY <2>1, GenerationKept
  <2> QED  BY <2>1, <2>2 DEF RolledFits
<1>5. CASE WriteRecord
  <2>1. pc = "record" /\ UNCHANGED <<map, call, rolled, snaps, marks, index>>
        BY <1>5 DEF WriteRecord, memory
  <2>2. /\ index \in DOMAIN logs /\ index \in marks /\ call.op \in {"set", "del"}
        /\ Head(records) \in Records /\ Head(records).slot \in call.slots
        /\ Head(records).value = IF call.op = "set" THEN call.value ELSE None
        /\ logs'[index] = Append(logs[index], Head(records))
        BY <1>5, WritesRecord
  <2>3. CASE rolled
    <3>1. call.op = "del" /\ marks = {index} /\ Alone(index) = map
          BY <2>1, <2>2, <2>3, SetFits DEF RolledFits
    <3>2. \A s \in call.slots : map[s] = None
      <4>1. DelUnderWay
            BY <3>1 DEF CallFits
      <4>2. PICK k \in Key : /\ call = [op |-> "del", slots |-> SlotsOf(k)]
                             /\ \A s \in SlotsOf(k) : map[s] = None
            BY <4>1 DEF DelUnderWay
      <4> QED  BY <4>2
    <3>3. \A s \in Slot : (Alone(index)')[s] = map[s]
          BY <2>1, <2>2, <3>1, <3>2, RecordLoaded
    <3>4. Alone(index)' = [s \in Slot |-> (Alone(index)')[s]]
          BY DEF Alone, LoadGeneration, Replay
    <3>5. map = [s \in Slot |-> map[s]]
          BY DEF Typed
    <3>6. Alone(index)' = map
          BY <3>3, <3>4, <3>5
    <3> QED  BY <2>1, <3>1, <3>6 DEF RolledFits
  <2>4. CASE ~rolled
        BY <1>1, <2>1, <2>2, <2>4
  <2> QED  BY <2>3, <2>4
<1>6. CASE TouchNew
  <2>1. /\ pc = "touchNew" /\ pc' = IF call.op = "clear" THEN "return" ELSE "rmLog"
        /\ marks' = marks \union {index} /\ UNCHANGED <<map, index, snaps, logs, call, rolled>>
        BY <1>6 DEF TouchNew, memory
  <2>2. CASE call.op = "clear"
    <3>1. marks = {} /\ DOMAIN snaps = {} /\ logs[index] = <<>> /\ map = Empty
          BY <2>1, <2>2 DEF MarksFit, SnapshotFits, CallFits
    <3>2. Alone(index) = Empty
          BY <3>1, SnapshotAlone
    <3>3. Alone(index)' = Alone(index)
          BY <2>1, GenerationKept
    <3> QED  BY <2>1, <3>1, <3>2, <3>3 DEF RolledFits
  <2>3. CASE call.op # "clear"
        BY <1>2, <2>1, <2>3
  <2> QED  BY <2>2, <2>3
<1>7. CASE RemoveMark
  <2>1. /\ pc = "rmMark" /\ marks' = marks \ {index - 1}
        /\ UNCHANGED <<map, call, index, snaps, logs>>
        BY <1>7 DEF RemoveMark, memory
  <2>2. call.op # "clear"
        BY <2>1 DEF CallFits
  <2>3. /\ marks \subseteq {index - 1, index} /\ index \in marks
        /\ index \in DOMAIN snaps /\ snaps[index] = map /\ logs[index] = <<>>
        /\ snaps[index] \in [Slot -> Values] /\ index # index - 1
        BY <2>1, <2>2 DEF MarksFit, SnapshotFits, Typed
  <2>4. marks' = {index} /\ Alone(index) = map
        BY <2>1, <2>3, SnapshotAlone
  <2>5. Alone(index)' = Alone(index)
        BY <2>1, GenerationKept
  <2> QED  BY <2>1, <2>4, <2>5 DEF RolledFits
<1>8. CASE \/ Open \/ TouchFirst \/ Return \/ StartSnapshot \/ NewLog
           \/ RemoveLog \/ RemoveData \/ Closed \/ Crash \/ BeginClear
           \/ \E s \in Slot : WriteSnapshot(s)
           \/ \E k \in Key : DelThrows(k)
           \/ \E i \in Files : Unlink(i)
           \/ \E snap : LoadSnapshot(snap)
  <2>1. pc' \notin Writing \union {"snapshot", "return", "closed"}
        BY <1>8 DEF Open, TouchFirst, Return, StartSnapshot, NewLog, RemoveLog, RemoveData, Closed,
              Crash, Forget, BeginClear, WriteSnapshot, DelThrows, Unlink, LoadSnapshot, control
  <2> QED  BY <1>2, <2>1
<1>9. CASE UNCHANGED vars
  <2>1. UNCHANGED <<map, call, rolled, snaps, logs, marks, index, pc>>
        BY <1>9 DEF vars, memory, control, disk
  <2>2. Alone(index)' = Alone(index)
        BY <2>1, GenerationKept
  <2> QED  BY <2>1, <2>2 DEF RolledFits
<1> QED  BY <1>3, <1>4, <1>5, <1>6, <1>7, <1>8, <1>9 DEF Next

\* Every step keeps track of the records of a call, before a snapshot.
LEMMA RecordsFitNext ==
    ASSUME Typed, CallFits, MarksFit, RecordsFit, DiskInv, [Next]_vars
    PROVE  RecordsFit'
<1> USE DEF Writing, Removing, Snapshotting
<1>1. ASSUME \/ pc' \notin Writing \union {"return"} \/ rolled'
             \/ call'.op \notin {"set", "del"}
      PROVE  RecordsFit'
      BY <1>1 DEF RecordsFit
<1>2. ASSUME NEW s \in Slot, NEW v \in Value, Set(s, v) PROVE RecordsFit'
  <2>1. call'.slots = {s} /\ records' = <<Update(s, v)>>
        BY <1>2 DEF Set
  <2>2. 1 \in DOMAIN records' /\ records'[1].slot = s
        BY <2>1 DEF Update
  <2> QED  BY <2>1, <2>2 DEF RecordsFit
<1>3. ASSUME NEW k \in Key, Del(k) PROVE RecordsFit'
  <2>1. call'.slots = SlotsOf(k)
        /\ records' = <<Update(<<"string", k>>, None), Update(<<"integral", k>>, None)>>
        BY <1>3 DEF Del
  <2>2. /\ 1 \in DOMAIN records' /\ records'[1].slot = <<"string", k>>
        /\ 2 \in DOMAIN records' /\ records'[2].slot = <<"integral", k>>
        BY <2>1 DEF Update
  <2>3. call'.slots = {<<"string", k>>, <<"integral", k>>}
        BY <2>1 DEF SlotsOf, Type
  <2> QED  BY <2>2, <2>3 DEF RecordsFit
<1>4. CASE WriteLength
  <2>1. pc = "length" /\ UNCHANGED <<call, rolled, records, snaps, logs, index>>
        BY <1>4 DEF WriteLength, memory
  <2>2. Alone(index)' = Alone(index)
        BY <2>1, GenerationKept
  <2> QED  BY <2>1, <2>2 DEF RecordsFit, RecordsOf
<1>5. CASE WriteRecord
  <2>1. /\ pc = "record" /\ records' = Tail(records)
        /\ UNCHANGED <<call, rolled, snaps, index>>
        BY <1>5 DEF WriteRecord, memory
  <2>2. /\ index \in DOMAIN logs /\ call.op \in {"set", "del"}
        /\ Head(records) \in Records
        /\ Head(records).value = IF call.op = "set" THEN call.value ELSE None
        /\ logs'[index] = Append(logs[index], Head(records))
        BY <1>5, WritesRecord
  <2>3. ASSUME ~rolled, NEW s \in call.slots
        PROVE  \/ \E k \in DOMAIN records' : records'[k].slot = s
               \/ /\ RecordsOf(logs'[index], s) # {}
                  /\ (Alone(index)')[s] = IF call.op = "set" THEN call.value ELSE None
    <3>0. s \in Slot
          BY CallSlots
    <3>1. /\ RecordsOf(logs'[index], s) # {} <=> (RecordsOf(logs[index], s) # {} \/ Head(records).slot = s)
          /\ (Alone(index)')[s] = IF Head(records).slot = s THEN Head(records).value ELSE Alone(index)[s]
          BY <2>1, <2>2, <3>0, RecordLoaded
    <3>2. CASE Head(records).slot = s
          BY <2>2, <3>1, <3>2
    <3>3. CASE Head(records).slot # s /\ \E k \in DOMAIN records : records[k].slot = s
      <4>1. \/ \E t \in Slot, v \in Value : records = <<Update(t, v)>>
            \/ \E k \in Key : \/ records = <<Update(<<"integral", k>>, None)>>
                              \/ records = <<Update(<<"string", k>>, None), Update(<<"integral", k>>, None)>>
        <5>1. CASE call.op = "set"
              BY <2>1, <5>1, SetFits
        <5>2. CASE call.op = "del"
          <6>1. DelUnderWay /\ records # <<>>
                BY <2>1, <5>2, RecordsLeft DEF CallFits
          <6> QED  BY <6>1 DEF DelUnderWay
        <5> QED  BY <2>2, <5>1, <5>2
      <4>2. ASSUME NEW r, records = <<r>> PROVE FALSE
            BY <3>3, <4>2
      <4>3. ASSUME NEW r, NEW q, records = <<r, q>> PROVE \E k \in DOMAIN records' : records'[k].slot = s
        <5>1. records' = <<q>> /\ Head(records) = r /\ DOMAIN records = {1, 2}
              /\ records[1] = r /\ records[2] = q
              BY <2>1, <4>3
        <5>2. q.slot = s
              BY <3>3, <5>1
        <5>3. 1 \in DOMAIN records' /\ records'[1] = q
              BY <5>1
        <5> QED  BY <5>2, <5>3
      <4> QED  BY <4>1, <4>2, <4>3
    <3>4. CASE Head(records).slot # s /\ RecordsOf(logs[index], s) # {}
               /\ Alone(index)[s] = IF call.op = "set" THEN call.value ELSE None
          BY <3>1, <3>4
    <3> QED  BY <2>1, <2>2, <2>3, <3>2, <3>3, <3>4 DEF RecordsFit
  <2>4. \A s : RecordsOf(logs[index], s)' = RecordsOf(logs'[index], s)
        BY <2>1 DEF RecordsOf
  <2> QED  BY <2>1, <2>3, <2>4 DEF RecordsFit
<1>6. CASE RemoveMark
      BY <1>1, <1>6 DEF RemoveMark
<1>7. CASE TouchNew
  <2>1. pc = "touchNew" /\ (pc' = "return" => call.op = "clear") /\ call' = call
        /\ pc' \in {"return", "rmLog"}
        BY <1>7 DEF TouchNew
  <2> QED  BY <1>1, <2>1
<1>8. CASE \/ Open \/ TouchFirst \/ Return \/ StartSnapshot \/ NewLog \/ BeginClose
           \/ RemoveLog \/ RemoveData \/ Closed \/ Crash \/ BeginClear
           \/ \E s \in Slot : WriteSnapshot(s)
           \/ \E k \in Key : DelThrows(k)
           \/ \E i \in Files : Unlink(i)
           \/ \E snap : LoadSnapshot(snap)
  <2>1. pc' \notin Writing \union {"return"}
        BY <1>8 DEF Open, TouchFirst, Return, StartSnapshot, NewLog, RemoveLog, RemoveData, Closed,
              Crash, Forget, BeginClear, BeginClose, WriteSnapshot, DelThrows, Unlink, LoadSnapshot,
              control
  <2> QED  BY <1>1, <2>1
<1>9. CASE UNCHANGED vars
  <2>1. UNCHANGED <<call, rolled, records, snaps, logs, index, pc>>
        BY <1>9 DEF vars, memory, control, disk
  <2>2. Alone(index)' = Alone(index)
        BY <2>1, GenerationKept
  <2> QED  BY <2>1, <2>2 DEF RecordsFit, RecordsOf
<1> QED  BY <1>2, <1>3, <1>4, <1>5, <1>6, <1>7, <1>8, <1>9 DEF Next

\* What the disk holds of a slot is what memory holds: init will load it from the
\* older generation, or from the newer one if that is silent, and it is in the
\* generation that will be written to.
Right(s) ==
    /\ marks = {} => map[s] = None
    /\ \A i \in marks : i - 1 \notin marks =>
          /\ Alone(i)[s] = map[s]
          /\ i + 1 \in marks /\ ~Decides(i, s) => Alone(i + 1)[s] = map[s]

\* It holds whenever the files can be loaded, but for what the call changes and what is
\* in doubt.
Agrees ==
    pc # "down" /\ marks \subseteq DOMAIN logs =>
        \A s \in Slot \ (call.slots \union doubt) : Right(s)

\* Right says what init would load, and what its generation would hold.
LEMMA RightIs ==
    (\E i \in 1..8 : marks \subseteq {i, i + 1}) =>
        \A s \in Slot :
            Right(s) <=> /\ Recovered[s] = map[s]
                         /\ marks # {} => Alone(Last(Marked))[s] = map[s]
<1> SUFFICES ASSUME NEW i \in 1..8, marks \subseteq {i, i + 1}, NEW s \in Slot
             PROVE  Right(s) <=> /\ Recovered[s] = map[s]
                                 /\ marks # {} => Alone(Last(Marked))[s] = map[s]
    OBVIOUS
<1>1. \/ marks = {} \/ marks = {i} \/ marks = {i + 1} \/ marks = {i, i + 1}
      OBVIOUS
<1>2. i \in 1..9 /\ i + 1 \in 1..9
      OBVIOUS
<1>3. CASE marks = {}
  <2>1. Recovered[s] = None
        BY <1>3, RecoveredFrom, EmptyTyped
  <2> QED  BY <1>3, <2>1 DEF Right
<1>4. ASSUME NEW j \in 1..9, marks = {j}
      PROVE  Right(s) <=> /\ Recovered[s] = map[s]
                          /\ marks # {} => Alone(Last(Marked))[s] = map[s]
  <2>1. Recovered = Alone(j) /\ Last(Marked) = j
        BY <1>4, RecoveredFrom
  <2>2. j - 1 \notin marks /\ j + 1 \notin marks
        BY <1>4
  <2> QED  BY <1>4, <2>1, <2>2 DEF Right
<1>5. CASE marks = {i, i + 1}
  <2>1. Recovered = LoadGeneration(Alone(i + 1), i) /\ Last(Marked) = i
        BY <1>5, RecoveredFrom
  <2>2. i - 1 \notin marks /\ i + 1 \in marks /\ i \in marks /\ (i + 1) - 1 \in marks
        BY <1>5
  <2>3. Right(s) <=> /\ Alone(i)[s] = map[s]
                     /\ ~Decides(i, s) => Alone(i + 1)[s] = map[s]
        BY <1>5, <2>2 DEF Right
  <2>4. Recovered[s] = IF Decides(i, s) THEN Alone(i)[s] ELSE Alone(i + 1)[s]
        BY <2>1, LoadedValue
  <2> QED  BY <2>1, <2>2, <2>3, <2>4
<1> QED  BY <1>1, <1>2, <1>3, <1>4, <1>5

\* Right stays if neither memory nor a marked generation changes at the slot.
LEMMA RightKept ==
    ASSUME NEW s \in Slot, marks' = marks, map'[s] = map[s], Right(s),
           \A i \in marks : (Alone(i)')[s] = Alone(i)[s] /\ (Decides(i, s)' <=> Decides(i, s))
    PROVE  Right(s)'
BY DEF Right

\* Right stays if the files do not change.
LEMMA RightUnchanged ==
    ASSUME NEW s \in Slot, UNCHANGED <<marks, logs, snaps>>, map'[s] = map[s], Right(s)
    PROVE  Right(s)'
<1>1. \A i \in marks : (Alone(i)')[s] = Alone(i)[s] /\ (Decides(i, s)' <=> Decides(i, s))
      BY GenerationKept
<1> QED  BY <1>1, RightKept

\* A single generation.
LEMMA RightAlone ==
    \A i \in 1..9, s \in Slot : marks = {i} => (Right(s) <=> Alone(i)[s] = map[s])
<1> SUFFICES ASSUME NEW i \in 1..9, NEW s \in Slot, marks = {i}
             PROVE  Right(s) <=> Alone(i)[s] = map[s]
    OBVIOUS
<1>1. i - 1 \notin marks /\ i + 1 \notin marks
      OBVIOUS
<1> QED  BY <1>1 DEF Right

\* Two of them: the newer one matters where the older one is silent.
LEMMA RightPair ==
    \A i \in 1..8, s \in Slot : marks = {i, i + 1} =>
        (Right(s) <=> /\ Alone(i)[s] = map[s]
                      /\ ~Decides(i, s) => Alone(i + 1)[s] = map[s])
<1> SUFFICES ASSUME NEW i \in 1..8, NEW s \in Slot, marks = {i, i + 1}
             PROVE  Right(s) <=> /\ Alone(i)[s] = map[s]
                                 /\ ~Decides(i, s) => Alone(i + 1)[s] = map[s]
    OBVIOUS
<1>1. i - 1 \notin marks /\ i + 1 \in marks /\ i \in marks /\ (i + 1) - 1 \in marks
      OBVIOUS
<1> QED  BY <1>1 DEF Right

\* RecoveredFrom of the next state.
LEMMA RecoveredFromPrimed ==
    /\ marks' = {} => Recovered' = Empty
    /\ \A i \in 1..9 : marks' = {i} => Recovered' = Alone(i)' /\ Last(Marked)' = i
    /\ \A i \in 1..8 : marks' = {i, i + 1} =>
           Recovered' = LoadGeneration(Alone(i + 1), i)' /\ Last(Marked)' = i
<1>1. (/\ marks = {} => Recovered = Empty
       /\ \A i \in 1..9 : marks = {i} => Recovered = Alone(i) /\ Last(Marked) = i
       /\ \A i \in 1..8 : marks = {i, i + 1} =>
              Recovered = LoadGeneration(Alone(i + 1), i) /\ Last(Marked) = i)'
      BY RecoveredFrom, PTL
<1>2. Empty' = Empty
      BY DEF Empty
<1> QED  BY <1>1, <1>2

\* What init would load depends on the files only.
LEMMA RecoveredKept ==
    ASSUME \E i \in 1..8 : marks \subseteq {i, i + 1}, UNCHANGED <<snaps, logs, marks>>
    PROVE  Recovered' = Recovered /\ (marks # {} => Last(Marked)' = Last(Marked))
<1>0. PICK n \in 1..8 : marks \subseteq {n, n + 1}
      OBVIOUS
<1>1. \/ marks = {} \/ marks = {n} \/ marks = {n + 1} \/ marks = {n, n + 1}
      BY <1>0
<1>3. \A j : Alone(j)' = Alone(j)
      BY GenerationKept
<1>4. LoadGeneration(Alone(n + 1), n)' = LoadGeneration(Alone(n + 1), n)
      BY DEF Alone, LoadGeneration, Replay, RecordsOf, LoadSnap, Empty
<1>5. n + 1 \in 1..9 /\ n \in 1..9
      OBVIOUS
<1>6. CASE marks = {}
      BY <1>6, RecoveredFrom, RecoveredFromPrimed
<1>7. ASSUME NEW j \in 1..9, marks = {j}
      PROVE  Recovered' = Recovered /\ Last(Marked)' = Last(Marked)
  <2>1. Recovered = Alone(j) /\ Last(Marked) = j
        BY <1>7, RecoveredFrom
  <2>2. Recovered' = Alone(j)' /\ Last(Marked)' = j
        BY <1>7, RecoveredFromPrimed
  <2> QED  BY <1>3, <2>1, <2>2
<1>8. CASE marks = {n, n + 1}
  <2>1. Recovered = LoadGeneration(Alone(n + 1), n) /\ Last(Marked) = n
        BY <1>8, RecoveredFrom
  <2>2. Recovered' = LoadGeneration(Alone(n + 1), n)' /\ Last(Marked)' = n
        BY <1>8, RecoveredFromPrimed
  <2> QED  BY <1>4, <2>1, <2>2
<1> QED  BY <1>1, <1>5, <1>6, <1>7, <1>8

\* RightAlone and RightPair of the next state.
LEMMA RightPrimed ==
    /\ \A i \in 1..9, s \in Slot : marks' = {i} => (Right(s)' <=> (Alone(i)')[s] = map'[s])
    /\ \A i \in 1..8, s \in Slot : marks' = {i, i + 1} =>
          (Right(s)' <=> /\ (Alone(i)')[s] = map'[s]
                         /\ ~Decides(i, s)' => (Alone(i + 1)')[s] = map'[s])
<1>1. (\A i \in 1..9, s \in Slot : marks = {i} => (Right(s) <=> Alone(i)[s] = map[s]))'
      BY RightAlone, PTL
<1>2. (\A i \in 1..8, s \in Slot : marks = {i, i + 1} =>
        (Right(s) <=> /\ Alone(i)[s] = map[s]
                      /\ ~Decides(i, s) => Alone(i + 1)[s] = map[s]))'
      BY RightPair, PTL
<1> QED  BY <1>1, <1>2

\* RightIs of the next state.
LEMMA RightIsPrimed ==
    (\E i \in 1..8 : marks' \subseteq {i, i + 1}) =>
        \A s \in Slot :
            Right(s)' <=> /\ Recovered'[s] = map'[s]
                          /\ marks' # {} => (Alone(Last(Marked))')[s] = map'[s]
<1>1. ((\E i \in 1..8 : marks \subseteq {i, i + 1}) =>
          \A s \in Slot :
            Right(s) <=> /\ Recovered[s] = map[s]
                         /\ marks # {} => Alone(Last(Marked))[s] = map[s])'
      BY RightIs, PTL
<1> QED  BY <1>1

\* A generation that does not decide a slot holds nothing there.
LEMMA SilentAlone ==
    \A i : \A s \in Slot : ~Decides(i, s) => Alone(i)[s] = None
BY LoadedValue

\* init finds what is in neither doubt.
LEMMA OpenAgrees ==
    ASSUME Typed, CallFits, MarksFit, Open, NEW s \in Slot \ doubt'
    PROVE  Right(s)'
<1>1. /\ map' = Recovered /\ doubt' = Elsewhere /\ UNCHANGED <<snaps, marks>>
      BY DEF Open
<1>2. \E i \in 1..8 : marks \subseteq {i, i + 1}
      BY DEF MarksFit
<1>3. CASE Files = {}
  <2>1. marks = {}
        BY <1>3 DEF Files
  <2>2. map'[s] = None
        BY <1>1, <2>1, RecoveredFrom, EmptyTyped
  <2> QED  BY <1>1, <2>1, <2>2 DEF Right
<1>4. CASE Files # {}
  <2>1. UNCHANGED logs
        BY <1>4 DEF Open
  <2>2. Recovered' = Recovered /\ (marks # {} => Last(Marked)' = Last(Marked))
        BY <1>1, <1>2, <2>1, RecoveredKept
  <2>5. Right(s)' <=> /\ Recovered'[s] = map'[s]
                      /\ marks' # {} => (Alone(Last(Marked))')[s] = map'[s]
        BY <1>1, <1>2, RightIsPrimed
  <2>6. \A i : Alone(i)' = Alone(i)
        BY <1>1, <2>1, GenerationKept
  <2>7. marks # {} => Alone(Last(Marked))' = Alone(Last(Marked))
        BY <2>2, <2>6
  <2>8. marks # {} => Recovered[s] = Alone(Last(Marked))[s]
        BY <1>1 DEF Elsewhere, Alone
  <2> QED  BY <1>1, <2>2, <2>5, <2>7, <2>8
<1> QED  BY <1>3, <1>4

\* A record changes the slots of its call only.
LEMMA WriteRecordAgrees ==
    ASSUME Typed, CallFits, MarksFit, DiskInv, WriteRecord, NEW s \in Slot \ call.slots, Right(s)
    PROVE  Right(s)'
<1>1. UNCHANGED <<map, marks, snaps, index>>
      BY DEF WriteRecord, memory
<1>2. /\ index \in DOMAIN logs /\ Head(records) \in Records /\ Head(records).slot \in call.slots
      /\ logs'[index] = Append(logs[index], Head(records))
      /\ \A i : i # index => logs'[i] = logs[i]
      BY WritesRecord
<1>3. ASSUME NEW i \in marks
      PROVE  (Alone(i)')[s] = Alone(i)[s] /\ (Decides(i, s)' <=> Decides(i, s))
  <2>1. CASE i = index
    <3>1. Head(records).slot # s
          BY <1>2
    <3> QED  BY <1>1, <1>2, <2>1, <3>1, RecordLoaded
  <2>2. CASE i # index
        BY <1>1, <1>2, <2>2, GenerationKept
  <2> QED  BY <2>1, <2>2
<1> QED  BY <1>1, <1>3, RightKept

\* When a call returns, what it wrote is in the older generation, or in the only one.
LEMMA ReturnAgrees ==
    ASSUME Typed, CallFits, MarksFit, RolledFits, RecordsFit, DiskInv, Agrees, Return,
           NEW s \in Slot \ doubt'
    PROVE  Right(s)'
<1> USE DEF Writing
<1>1. /\ pc = "return" /\ UNCHANGED <<snaps, logs, marks, index>>
      /\ map' = IF call.op = "set" THEN [t \in Slot |-> IF t \in call.slots
                                                      THEN call.value ELSE map[t]]
                ELSE map
      /\ doubt' = IF ~rolled THEN doubt \ call.slots
                  ELSE IF call.op = "set" THEN call.slots ELSE {}
      BY DEF Return, disk
<1>2. /\ call.op \in {"set", "del", "clear"} /\ index \in marks
      /\ marks \subseteq {index, index + 1} /\ index \in 1..9 /\ marks \subseteq 1..9
      BY <1>1 DEF CallFits, MarksFit, Typed
<1>3. \A i : Alone(i)' = Alone(i) /\ (Decides(i, s)' <=> Decides(i, s))
      BY <1>1, GenerationKept
<1>4. CASE rolled \/ call.op = "clear"
  <2>1. marks = {index} /\ Alone(index) = map
        BY <1>1, <1>4 DEF RolledFits
  <2>2. map'[s] = map[s]
        BY <1>1, <1>4 DEF CallFits
  <2>3. Right(s)' <=> (Alone(index)')[s] = map'[s]
    <3>1. \A i \in 1..9 : marks' = {i} => (Right(s)' <=> (Alone(i)')[s] = map'[s])
          BY RightPrimed
    <3>2. \A i \in 1..9 : marks' = {i} => (Right(s)' <=> Alone(i)[s] = map'[s])
          BY <1>3, <3>1
    <3>3. Alone(index)' = Alone(index)
          BY <1>1, GenerationKept
    <3> QED  BY <1>1, <1>2, <2>1, <3>2, <3>3
  <2>4. Alone(index)' = Alone(index)
        BY <1>1, GenerationKept
  <2> QED  BY <2>1, <2>2, <2>3, <2>4
<1>5. CASE ~rolled /\ call.op \in {"set", "del"}
  <2>1. CASE s \in call.slots
    <3>1. records = <<>> /\ map'[s] = IF call.op = "set" THEN call.value ELSE None
      <4>1. CASE call.op = "set"
            BY <1>1, <2>1, <4>1, SetFits
      <4>2. CASE call.op = "del"
        <5>1. DelUnderWay
              BY <4>2 DEF CallFits
        <5>2. PICK k \in Key : /\ call = [op |-> "del", slots |-> SlotsOf(k)]
                               /\ \A t \in SlotsOf(k) : map[t] = None
                               /\ pc = "return" => records = <<>>
              BY <5>1 DEF DelUnderWay
        <5> QED  BY <1>1, <2>1, <4>2, <5>2
      <4> QED  BY <1>5, <4>1, <4>2
    <3>2. /\ RecordsOf(logs[index], s) # {}
          /\ Alone(index)[s] = IF call.op = "set" THEN call.value ELSE None
          BY <1>1, <1>5, <2>1, <3>1 DEF RecordsFit
    <3>3. Decides(index, s) /\ Alone(index)[s] = map'[s]
          BY <3>1, <3>2 DEF Decides
    <3>4. CASE marks = {index}
      <4>1. \A i \in 1..9 : marks' = {i} => (Right(s)' <=> Alone(i)[s] = map'[s])
            BY <1>3, RightPrimed
      <4> QED  BY <1>1, <1>2, <3>3, <3>4, <4>1
    <3>5. CASE marks = {index, index + 1}
      <4>1. index \in 1..8
            BY <1>2, <3>5
      <4>2. \A i \in 1..8 : marks' = {i, i + 1} =>
              (Right(s)' <=> /\ (Alone(i)')[s] = map'[s]
                             /\ ~Decides(i, s)' => (Alone(i + 1)')[s] = map'[s])
            BY RightPrimed
      <4>3. \A i \in 1..8 : marks' = {i, i + 1} =>
              (Right(s)' <=> /\ Alone(i)[s] = map'[s]
                             /\ ~Decides(i, s) => Alone(i + 1)[s] = map'[s])
            BY <1>3, <4>2
      <4> QED  BY <1>1, <3>3, <3>5, <4>1, <4>3
    <3> QED  BY <1>2, <3>4, <3>5
  <2>2. CASE s \notin call.slots
    <3>1. s \notin doubt /\ map'[s] = map[s]
          BY <1>1, <1>5, <2>2
    <3>2. marks \subseteq DOMAIN logs
          BY <1>1 DEF DiskInv, Opens
    <3>3. Right(s)
          BY <1>1, <2>2, <3>1, <3>2 DEF Agrees
    <3> QED  BY <1>1, <3>1, <3>3, RightUnchanged
  <2> QED  BY <2>1, <2>2
<1> QED  BY <1>2, <1>4, <1>5

\* The markers while a snapshot is made.
LEMMA SnapshotMarks ==
    ASSUME Typed, MarksFit, pc \in Snapshotting, call.op # "clear"
    PROVE  /\ index - 1 \in 1..8 /\ index \in 1..9 /\ (index - 1) + 1 = index /\ index - 1 # index
           /\ pc \notin Removing =>
                  marks = {} \/ marks = {index - 1} \/ marks = {index - 1, index}
           /\ pc \in Removing => marks = {index} \/ marks = {index - 1, index}
<1>1. /\ index - 1 \in 1..8 /\ marks \subseteq {index - 1, index}
      /\ pc \notin Removing /\ index \in marks => index - 1 \in marks
      /\ pc \in Removing => index \in marks
      BY DEF MarksFit
<1>2. index \in 1..9
      BY DEF Typed
<1>3. (index - 1) + 1 = index /\ index - 1 # index
      BY <1>2
<1> HIDE DEF Removing
<1> QED  BY <1>1, <1>2, <1>3

\* A snapshot that is opened again, after one was interrupted, is silent.
LEMMA SnapshotEmptied ==
    ASSUME NEW i, NEW s \in Slot, logs' = logs, i \in DOMAIN snaps', snaps'[i] = Empty,
           Alone(i)[s] = None
    PROVE  (Alone(i)')[s] = None
<1>1. (Alone(i)')[s] = IF RecordsOf(logs[i], s) # {}
                       THEN logs[i][Max(RecordsOf(logs[i], s))].value ELSE None
      BY DEF Alone, LoadGeneration, Replay, RecordsOf, LoadSnap, Empty
<1>2. RecordsOf(logs[i], s) # {} => Alone(i)[s] = logs[i][Max(RecordsOf(logs[i], s))].value
      BY DEF Alone, LoadGeneration, Replay
<1> QED  BY <1>1, <1>2

\* A snapshot that was interrupted is opened again: where it spoke, the older
\* generation decides.
LEMMA StartSnapshotAgrees ==
    ASSUME Typed, CallFits, MarksFit, StartSnapshot, NEW s \in Slot, Right(s)
    PROVE  Right(s)'
<1>0. PICK n \in 1..9 : n = index
      BY DEF Typed
<1>1. /\ pc = "snapshot" /\ UNCHANGED <<map, logs, marks>>
      /\ snaps' = Truncated(snaps, n + 1, Empty)
      BY <1>0 DEF StartSnapshot
<1>2. /\ marks \subseteq {n, n + 1} /\ marks \subseteq 1..9
      /\ IF logOpen THEN n \in marks ELSE marks = {}
      BY <1>0, <1>1 DEF MarksFit, Typed
<1>3. \A i : i # n + 1 => (Alone(i)' = Alone(i) /\ (Decides(i, s)' <=> Decides(i, s)))
  <2> TAKE i
  <2> HAVE i # n + 1
  <2>1. /\ i \in DOMAIN snaps' <=> i \in DOMAIN snaps
        /\ i \in DOMAIN snaps => snaps'[i] = snaps[i]
        BY <1>1 DEF Truncated
  <2> QED  BY <1>1, <2>1, GenerationKept
<1>4. CASE n + 1 \notin marks
  <2>1. \A i \in marks : (Alone(i)')[s] = Alone(i)[s] /\ (Decides(i, s)' <=> Decides(i, s))
        BY <1>3, <1>4
  <2> QED  BY <1>1, <2>1, RightKept
<1>5. CASE n + 1 \in marks
  <2>1. marks = {n, n + 1} /\ n \in 1..8
    <3>1. n \in marks
          BY <1>2, <1>5
    <3>2. marks = {n, n + 1}
          BY <1>2, <1>5, <3>1
    <3>3. n + 1 \in 1..9
          BY <1>2, <1>5
    <3> QED  BY <3>2, <3>3
  <2>2. /\ Alone(n)[s] = map[s]
        /\ ~Decides(n, s) => Alone(n + 1)[s] = map[s]
        BY <2>1, RightPair
  <2>3. n # n + 1
        BY <2>1
  <2>4. ASSUME ~Decides(n, s) PROVE (Alone(n + 1)')[s] = map'[s]
    <3>1. map[s] = None /\ Alone(n + 1)[s] = None
          BY <2>2, <2>4, SilentAlone
    <3>2. n + 1 \in DOMAIN snaps' /\ snaps'[n + 1] = Empty
          BY <1>1 DEF Truncated
    <3>3. (Alone(n + 1)')[s] = None
          BY <1>1, <3>1, <3>2, SnapshotEmptied
    <3> QED  BY <1>1, <3>1, <3>3
  <2>5. (Alone(n)')[s] = Alone(n)[s] /\ (Decides(n, s)' <=> Decides(n, s))
        BY <1>3, <2>3
  <2>6. \A i \in 1..8 : marks' = {i, i + 1} =>
              (Right(s)' <=> /\ (Alone(i)')[s] = map'[s]
                             /\ ~Decides(i, s)' => (Alone(i + 1)')[s] = map'[s])
        BY RightPrimed
  <2> QED  BY <1>1, <2>1, <2>2, <2>4, <2>5, <2>6
<1> QED  BY <1>4, <1>5

\* What the snapshot gets a value of is decided by the older generation.
LEMMA WriteSnapshotAgrees ==
    ASSUME Typed, CallFits, MarksFit, SnapshotFits, NEW t \in Slot, WriteSnapshot(t),
           NEW s \in Slot, Right(s)
    PROVE  Right(s)'
<1> USE DEF Snapshotting, Removing
<1>0. PICK n : n = index
      OBVIOUS
<1>1. /\ pc = "contents" /\ UNCHANGED <<map, logs, marks, index>>
      /\ snaps' = [snaps EXCEPT ![n][t] = map[t]] /\ snaps[n][t] # map[t]
      BY <1>0 DEF WriteSnapshot, memory
<1>2. /\ call.op # "clear" /\ n \in DOMAIN snaps /\ snaps[n] \in [Slot -> Values]
      /\ \A u \in Slot : snaps[n][u] \in {None, map[u]}
      BY <1>0, <1>1 DEF CallFits, SnapshotFits, Typed
<1>3. /\ n - 1 \in 1..8 /\ n \in 1..9 /\ (n - 1) + 1 = n /\ n - 1 # n
      /\ marks = {} \/ marks = {n - 1} \/ marks = {n - 1, n}
      BY <1>0, <1>1, <1>2, SnapshotMarks
<1>4. \A i : i # n => (Alone(i)' = Alone(i) /\ (Decides(i, s)' <=> Decides(i, s)))
  <2> TAKE i
  <2> HAVE i # n
  <2>1. /\ i \in DOMAIN snaps' <=> i \in DOMAIN snaps
        /\ i \in DOMAIN snaps => snaps'[i] = snaps[i]
        BY <1>1
  <2> QED  BY <1>1, <2>1, GenerationKept
<1>5. CASE n \notin marks
  <2>1. \A i \in marks : (Alone(i)')[s] = Alone(i)[s] /\ (Decides(i, s)' <=> Decides(i, s))
        BY <1>4, <1>5
  <2> QED  BY <1>1, <2>1, RightKept
<1>6. CASE n \in marks
  <2>1. marks = {n - 1, (n - 1) + 1}
        BY <1>3, <1>6
  <2>2. /\ Alone(n - 1)[s] = map[s]
        /\ ~Decides(n - 1, s) => Alone(n)[s] = map[s]
        BY <1>3, <2>1, RightPair
  <2>3. ASSUME ~Decides(n - 1, s) PROVE (Alone(n)')[s] = map'[s]
    <3>1. map[s] = None /\ Alone(n)[s] = None
          BY <2>2, <2>3, SilentAlone
    <3>2. s # t
      <4>1. snaps[n][t] = None
            BY <1>1, <1>2
      <4> QED  BY <1>1, <3>1, <4>1
    <3>3. n \in DOMAIN snaps' /\ snaps'[n][s] = snaps[n][s]
          BY <1>1, <1>2, <3>2
    <3>4. (Alone(n)')[s] = Alone(n)[s]
          BY <1>1, <1>2, <3>3 DEF Alone, LoadGeneration, Replay, LoadSnap, RecordsOf
    <3> QED  BY <1>1, <3>1, <3>4
  <2>4. (Alone(n - 1)')[s] = Alone(n - 1)[s] /\ (Decides(n - 1, s)' <=> Decides(n - 1, s))
        BY <1>3, <1>4
  <2>5. \A i \in 1..8 : marks' = {i, i + 1} =>
              (Right(s)' <=> /\ (Alone(i)')[s] = map'[s]
                             /\ ~Decides(i, s)' => (Alone(i + 1)')[s] = map'[s])
        BY RightPrimed
  <2> QED  BY <1>1, <1>3, <2>1, <2>2, <2>3, <2>4, <2>5
<1> QED  BY <1>5, <1>6

\* EmptyLog of the next state.
LEMMA EmptyLogPrimed ==
    \A i : logs'[i] = <<>> =>
        \A s \in Slot : (Alone(i)')[s] = IF i \in DOMAIN snaps' THEN snaps'[i][s] ELSE None
<1>1. (\A i : logs[i] = <<>> =>
        \A s \in Slot : Alone(i)[s] = IF i \in DOMAIN snaps THEN snaps[i][s] ELSE None)'
      BY EmptyLog, PTL
<1> QED  BY <1>1

\* A new log takes nothing away that the older generation does not decide.
LEMMA NewLogAgrees ==
    ASSUME Typed, CallFits, MarksFit, SnapshotFits, DiskInv, NewLog, pc = "contents",
           NEW s \in Slot, Right(s)
    PROVE  Right(s)'
<1> USE DEF Snapshotting, Removing
<1>0. PICK n : n = index
      OBVIOUS
<1>1. /\ snaps[n] = map /\ UNCHANGED <<map, snaps, marks, index>>
      /\ logs' = Truncated(logs, n, <<>>)
      BY <1>0 DEF NewLog
<1>2. call.op # "clear" /\ n \in DOMAIN snaps /\ marks \subseteq DOMAIN logs
      BY <1>0 DEF CallFits, SnapshotFits, DiskInv, Opens
<1>3. /\ n - 1 \in 1..8 /\ n \in 1..9 /\ (n - 1) + 1 = n /\ n - 1 # n
      /\ marks = {} \/ marks = {n - 1} \/ marks = {n - 1, n}
      BY <1>0, <1>2, SnapshotMarks
<1>4. \A i \in marks : i # n => (Alone(i)' = Alone(i) /\ (Decides(i, s)' <=> Decides(i, s)))
  <2> TAKE i \in marks
  <2> HAVE i # n
  <2>1. logs'[i] = logs[i]
        BY <1>1, <1>2 DEF Truncated
  <2> QED  BY <1>1, <2>1, GenerationKept
<1>5. CASE n \notin marks
  <2>1. \A i \in marks : (Alone(i)')[s] = Alone(i)[s] /\ (Decides(i, s)' <=> Decides(i, s))
        BY <1>4, <1>5
  <2> QED  BY <1>1, <2>1, RightKept
<1>6. CASE n \in marks
  <2>1. marks = {n - 1, (n - 1) + 1}
        BY <1>3, <1>6
  <2>2. Alone(n - 1)[s] = map[s]
        BY <1>3, <2>1, RightPair
  <2>3. (Alone(n)')[s] = map'[s]
    <3>1. logs'[n] = <<>> /\ n \in DOMAIN snaps' /\ snaps'[n] = map'
          BY <1>1, <1>2 DEF Truncated
    <3> QED  BY <3>1, EmptyLogPrimed
  <2>4. (Alone(n - 1)')[s] = Alone(n - 1)[s] /\ (Decides(n - 1, s)' <=> Decides(n - 1, s))
        BY <1>3, <1>4, <2>1
  <2>5. \A i \in 1..8 : marks' = {i, i + 1} =>
              (Right(s)' <=> /\ (Alone(i)')[s] = map'[s]
                             /\ ~Decides(i, s)' => (Alone(i + 1)')[s] = map'[s])
        BY RightPrimed
  <2> QED  BY <1>1, <1>3, <2>1, <2>2, <2>3, <2>4, <2>5
<1> QED  BY <1>5, <1>6

\* From the marker of the new generation on, memory is in it.
LEMMA NewGeneration ==
    ASSUME Typed, CallFits, MarksFit, SnapshotFits,
           pc \in {"touchNew"} \union Removing, call.op # "clear"
    PROVE  Alone(index) = map
<1>1. index \in DOMAIN snaps /\ snaps[index] = map /\ logs[index] = <<>>
      BY DEF SnapshotFits
<1>2. snaps[index] \in [Slot -> Values]
      BY <1>1 DEF Typed
<1> QED  BY <1>1, <1>2, SnapshotAlone

\* The marker of the new generation adds what memory holds.
LEMMA TouchNewAgrees ==
    ASSUME Typed, CallFits, MarksFit, SnapshotFits, TouchNew, call.op # "clear",
           NEW s \in Slot, Right(s)
    PROVE  Right(s)'
<1> USE DEF Snapshotting, Removing
<1>0. PICK n : n = index
      OBVIOUS
<1>1. /\ pc = "touchNew" /\ marks' = marks \union {n} /\ UNCHANGED <<map, snaps, logs, index>>
      BY <1>0 DEF TouchNew, memory
<1>3. /\ n - 1 \in 1..8 /\ n \in 1..9 /\ (n - 1) + 1 = n /\ n - 1 # n
      /\ marks = {} \/ marks = {n - 1} \/ marks = {n - 1, n}
      BY <1>0, <1>1, SnapshotMarks
<1>4. \A i : Alone(i)' = Alone(i) /\ (Decides(i, s)' <=> Decides(i, s))
      BY <1>1, GenerationKept
<1>5. Alone(n) = map
      BY <1>0, <1>1, NewGeneration
<1>6. CASE marks = {}
  <2>1. marks' = {n}
        BY <1>1, <1>6
  <2>2. Right(s)' <=> (Alone(n)')[s] = map'[s]
        BY <1>3, <2>1, RightPrimed
  <2> QED  BY <1>1, <1>4, <1>5, <2>2
<1>7. CASE n - 1 \in marks
  <2>1. marks' = {n - 1, (n - 1) + 1}
        BY <1>1, <1>3, <1>7
  <2>2. Alone(n - 1)[s] = map[s]
    <3>1. CASE marks = {n - 1}
          BY <1>3, <3>1, RightAlone
    <3>2. CASE marks = {n - 1, (n - 1) + 1}
          BY <1>3, <3>2, RightPair
    <3> QED  BY <1>3, <1>7, <3>1, <3>2
  <2>3. \A i \in 1..8 : marks' = {i, i + 1} =>
              (Right(s)' <=> /\ (Alone(i)')[s] = map'[s]
                             /\ ~Decides(i, s)' => (Alone(i + 1)')[s] = map'[s])
        BY RightPrimed
  <2>4. (Alone(n)')[s] = map'[s] /\ (Alone(n - 1)')[s] = map'[s]
        BY <1>1, <1>4, <1>5, <2>2
  <2> QED  BY <1>3, <2>1, <2>3, <2>4
<1> QED  BY <1>3, <1>6, <1>7

\* The older generation cannot be loaded while it is removed, and then it is gone.
LEMMA RemoveAgrees ==
    ASSUME Typed, CallFits, MarksFit, SnapshotFits, RemoveLog \/ RemoveData \/ RemoveMark,
           marks' \subseteq DOMAIN logs', NEW s \in Slot
    PROVE  Right(s)'
<1> USE DEF Snapshotting, Removing
<1>0. PICK n : n = index
      OBVIOUS
<1>1. pc \in Removing /\ UNCHANGED <<map, index>>
      BY DEF RemoveLog, RemoveData, RemoveMark, memory
<1>2. call.op # "clear"
      BY <1>1 DEF CallFits
<1>3. /\ n - 1 \in 1..8 /\ n \in 1..9 /\ (n - 1) + 1 = n /\ n - 1 # n
      /\ marks = {n} \/ marks = {n - 1, n}
      BY <1>0, <1>1, <1>2, SnapshotMarks
<1>4. Alone(n) = map /\ n \in DOMAIN logs /\ n \in DOMAIN snaps
      BY <1>0, <1>1, <1>2, NewGeneration DEF SnapshotFits
<1>5. marks' = {n}
  <2>1. CASE RemoveLog
    <3>1. marks' = marks /\ n - 1 \notin DOMAIN logs'
          BY <1>0, <2>1 DEF RemoveLog, Without
    <3> QED  BY <1>3, <3>1
  <2>2. CASE RemoveData
    <3>1. marks' = marks /\ n - 1 \notin DOMAIN logs'
          BY <1>0, <2>2 DEF RemoveData, SnapshotFits
    <3> QED  BY <1>3, <3>1
  <2>3. CASE RemoveMark
        BY <1>0, <1>3, <2>3 DEF RemoveMark
  <2> QED  BY <2>1, <2>2, <2>3
<1>6. logs'[n] = logs[n] /\ n \in DOMAIN snaps' /\ snaps'[n] = snaps[n]
      BY <1>0, <1>3, <1>4 DEF RemoveLog, RemoveData, RemoveMark, Without
<1>7. Alone(n)' = Alone(n)
      BY <1>4, <1>6, GenerationKept
<1>8. Right(s)' <=> (Alone(n)')[s] = map'[s]
      BY <1>3, <1>5, RightPrimed
<1> QED  BY <1>1, <1>4, <1>7, <1>8

\* The marker of a new directory adds nothing.
LEMMA TouchFirstAgrees ==
    ASSUME Typed, MarksFit, SnapshotFits, TouchFirst, NEW s \in Slot
    PROVE  Right(s)'
<1>1. /\ pc = "touch" /\ marks' = marks \union {index} /\ UNCHANGED <<map, snaps, logs>>
      BY DEF TouchFirst, memory
<1>2. marks' = {1} /\ DOMAIN snaps = {} /\ logs[1] = <<>> /\ map[s] = None
      BY <1>1, EmptyTyped DEF MarksFit, SnapshotFits
<1>3. Alone(1)[s] = None
      BY <1>2, SnapshotAlone, EmptyTyped
<1>4. Alone(1)' = Alone(1)
      BY <1>1, GenerationKept
<1>5. Right(s)' <=> (Alone(1)')[s] = map'[s]
      BY <1>2, RightPrimed
<1> QED  BY <1>1, <1>2, <1>3, <1>4, <1>5

\* Every step keeps disk and memory in agreement.
LEMMA AgreesNext ==
    ASSUME MaxIndex <= 9, Typed, CallFits, MarksFit, SnapshotFits, RolledFits, RecordsFit,
           DiskInv, Agrees, [Next]_vars
    PROVE  Agrees'
<1> SUFFICES ASSUME pc' # "down", marks' \subseteq DOMAIN logs',
                    NEW s \in Slot \ (call'.slots \union doubt')
             PROVE  Right(s)'
    BY DEF Agrees
<1>1. CASE Open
      BY <1>1, OpenAgrees
<1>2. CASE TouchFirst
      BY <1>2, TouchFirstAgrees
<1>3. ASSUME NEW t \in Slot, NEW v \in Value, Set(t, v) PROVE Right(s)'
  <2>1. pc = "idle" /\ call'.slots = {t} /\ UNCHANGED <<map, marks, snaps, logs, doubt>>
        BY <1>3 DEF Set, memory, disk
  <2>2. call.slots = {}
        BY <2>1 DEF CallFits, NoCall
  <2>3. Right(s)
        BY <2>1, <2>2 DEF Agrees
  <2> QED  BY <2>1, <2>3, RightUnchanged
<1>4. ASSUME NEW k \in Key, Del(k) PROVE Right(s)'
  <2>1. pc = "idle" /\ call'.slots = SlotsOf(k) /\ map' = Erased(k)
        /\ UNCHANGED <<marks, snaps, logs, doubt>>
        BY <1>4 DEF Del, disk
  <2>2. call.slots = {}
        BY <2>1 DEF CallFits, NoCall
  <2>3. Right(s)
        BY <2>1, <2>2 DEF Agrees
  <2>4. map'[s] = map[s]
        BY <2>1 DEF Erased, SlotsOf, Slot
  <2> QED  BY <2>1, <2>3, <2>4, RightUnchanged
<1>5. ASSUME NEW k \in Key, DelThrows(k) PROVE Right(s)'
  <2>1. pc = "idle" /\ doubt' = doubt \union SlotsOf(k) /\ map' = Erased(k)
        /\ UNCHANGED <<marks, snaps, logs, call>>
        BY <1>5 DEF DelThrows, control, disk
  <2>2. Right(s)
        BY <2>1 DEF Agrees
  <2>3. map'[s] = map[s]
        BY <2>1 DEF Erased, SlotsOf, Slot
  <2> QED  BY <2>1, <2>2, <2>3, RightUnchanged
<1>6. CASE WriteLength
  <2>1. pc = "length" /\ UNCHANGED <<map, marks, snaps, logs, doubt, call>>
        BY <1>6 DEF WriteLength, memory
  <2>2. Right(s)
        BY <2>1 DEF Agrees
  <2> QED  BY <2>1, <2>2, RightUnchanged
<1>7. CASE WriteRecord
  <2>1. pc = "record" /\ UNCHANGED <<doubt, call>> /\ marks \subseteq DOMAIN logs
        BY <1>7 DEF WriteRecord, DiskInv
  <2>2. Right(s)
        BY <2>1 DEF Agrees
  <2> QED  BY <1>7, <2>1, <2>2, WriteRecordAgrees
<1>8. CASE Return
      BY <1>8, ReturnAgrees
<1>9. CASE StartSnapshot
  <2>1. pc = "snapshot" /\ UNCHANGED <<doubt, call, marks, logs>>
        BY <1>9 DEF StartSnapshot
  <2>2. Right(s)
        BY <2>1 DEF Agrees
  <2> QED  BY <1>9, <2>2, StartSnapshotAgrees
<1>10. ASSUME NEW t \in Slot, WriteSnapshot(t) PROVE Right(s)'
  <2>1. pc = "contents" /\ UNCHANGED <<doubt, call, marks, logs>>
        BY <1>10 DEF WriteSnapshot, control
  <2>2. Right(s)
        BY <2>1 DEF Agrees
  <2> QED  BY <1>10, <2>2, WriteSnapshotAgrees
<1>11. CASE NewLog
  <2>1. UNCHANGED <<doubt, call>> /\ pc \in {"contents", "unlink"}
        BY <1>11 DEF NewLog
  <2>2. pc = "unlink" => call.slots = Slot
        BY DEF CallFits
  <2>3. pc = "contents"
        BY <2>1, <2>2
  <2>4. Right(s)
        BY <2>1, <2>3 DEF Agrees, DiskInv, Opens
  <2> QED  BY <1>11, <2>3, <2>4, NewLogAgrees
<1>12. CASE TouchNew
  <2>1. UNCHANGED <<doubt, call>> /\ pc = "touchNew"
        BY <1>12 DEF TouchNew
  <2>2. call.op = "clear" => call.slots = Slot
        BY DEF CallFits
  <2>3. call.op # "clear"
        BY <2>1, <2>2
  <2>4. Right(s)
        BY <2>1 DEF Agrees, DiskInv, Opens
  <2> QED  BY <1>12, <2>3, <2>4, TouchNewAgrees
<1>13. CASE RemoveLog \/ RemoveData \/ RemoveMark
      BY <1>13, RemoveAgrees
<1>14. CASE BeginClose
  <2>1. pc = "idle" /\ UNCHANGED <<doubt, map, marks, snaps, logs>>
        BY <1>14 DEF BeginClose, memory, disk
  <2>2. call.slots = {}
        BY <2>1 DEF CallFits, NoCall
  <2>3. Right(s)
        BY <2>1, <2>2 DEF Agrees
  <2> QED  BY <2>1, <2>3, RightUnchanged
<1>15. CASE Closed \/ Crash
      BY <1>15 DEF Closed, Crash, Forget
<1>16. CASE BeginClear \/ \E i \in Files : Unlink(i)
  <2>1. CASE BeginClear
        BY <2>1 DEF BeginClear
  <2>2. ASSUME NEW i \in Files, Unlink(i) PROVE FALSE
        BY <2>2 DEF Unlink, control, CallFits
  <2> QED  BY <1>16, <2>1, <2>2
<1>17. ASSUME NEW snap, LoadSnapshot(snap) PROVE Right(s)'
  <2>1. pc = "idle" /\ doubt' = doubt \union {t \in Slot : snap[t] # None}
        /\ map' = LoadSnap(map, snap) /\ UNCHANGED <<marks, snaps, logs, call>>
        BY <1>17 DEF LoadSnapshot, control, disk
  <2>2. Right(s)
        BY <2>1 DEF Agrees
  <2>3. map'[s] = map[s]
        BY <2>1 DEF LoadSnap
  <2> QED  BY <2>1, <2>2, <2>3, RightUnchanged
<1>18. CASE UNCHANGED vars
  <2>1. UNCHANGED <<map, marks, snaps, logs, doubt, call, pc>>
        BY <1>18 DEF vars, memory, control, disk
  <2>2. Right(s)
        BY <2>1 DEF Agrees
  <2> QED  BY <2>1, <2>2, RightUnchanged
<1> QED  BY <1>1, <1>2, <1>3, <1>4, <1>5, <1>6, <1>7, <1>8, <1>9, <1>10, <1>11, <1>12, <1>13,
            <1>14, <1>15, <1>16, <1>17, <1>18 DEF Next

IInv ==
    /\ Typed /\ CallFits /\ MarksFit /\ DiskInv
    /\ SnapshotFits /\ RolledFits /\ RecordsFit /\ Agrees

\* The invariant holds initially,
LEMMA IInvInit == Start <= 9 /\ Init => IInv
<1> SUFFICES ASSUME Start <= 9, Init PROVE IInv
    OBVIOUS
<1> USE MetadataBounds
<1>1. /\ map = Empty /\ index = 1 /\ logOpen = FALSE /\ pc = "down" /\ call = NoCall
      /\ records = <<>> /\ rolled = FALSE /\ doubt = {}
      /\ marks = {} \/ (marks = {Start} /\ Start \in 1..9)
      /\ snaps = [i \in marks |-> Empty] /\ logs = [i \in marks |-> <<>>]
      BY DEF Init
<1>2. Typed
  <2>1. marks \subseteq 1..9 /\ DOMAIN snaps = marks /\ DOMAIN logs = marks
        BY <1>1
  <2>2. \A i \in DOMAIN snaps : snaps[i] \in [Slot -> Values]
        BY <1>1, EmptyTyped
  <2>3. \A i \in DOMAIN logs : logs[i] \in Seq(Records)
        BY <1>1
  <2>4. map \in [Slot -> Values]
        BY <1>1, EmptyTyped
  <2>5. doubt \subseteq Slot /\ index \in 1..9
        BY <1>1
  <2>6. logOpen \in BOOLEAN /\ rolled \in BOOLEAN
        BY <1>1, Zenon
  <2> QED  BY <2>1, <2>2, <2>3, <2>4, <2>5, <2>6 DEF Typed
<1>3. CallFits
      BY <1>1 DEF CallFits, NoCall, Writing, Snapshotting, Removing
<1>4. MarksFit
  <2>1. \E i \in 1..8 : marks \subseteq {i, i + 1}
    <3>1. CASE Start \in 1..8
          BY <1>1, <3>1
    <3>2. CASE Start = 9
          BY <1>1, <3>2
    <3>3. 1 \in 1..8
          OBVIOUS
    <3> QED  BY <1>1, <3>1, <3>2, <3>3
  <2> QED  BY <1>1, <2>1 DEF MarksFit, Writing, Snapshotting, Removing
<1>5. SnapshotFits /\ RolledFits /\ RecordsFit /\ Agrees
      BY <1>1 DEF SnapshotFits, RolledFits, RecordsFit, Agrees, Writing, Removing
<1> QED  BY <1>2, <1>3, <1>4, <1>5, DiskInvInit DEF IInv

\* and every step keeps it.
LEMMA IInvNext ==
    ASSUME MaxIndex <= 9, IInv, [Next]_vars
    PROVE  IInv'
<1> USE DEF IInv
<1>1. Typed' /\ CallFits' /\ MarksFit' /\ DiskInv'
      BY TypedNext, CallFitsNext, MarksFitNext, DiskInvNext
<1>2. SnapshotFits' /\ RolledFits' /\ RecordsFit'
      BY SnapshotFitsNext, RolledFitsNext, RecordsFitNext
<1>3. Agrees'
      BY AgreesNext
<1> QED  BY <1>1, <1>2, <1>3

-----------------------------------------------------------------------------
(* The promise, step by step.                                                *)

Store == IF pc \in {"down", "touch"} /\ Opens THEN Recovered ELSE map
Status == IF pc \in {"down", "touch"}
          THEN (IF Opens THEN "down" ELSE "lost")
          ELSE (IF Inside THEN "busy" ELSE "idle")
Busy == IF Inside THEN call.slots ELSE {}
Doubtful == IF pc = "down" /\ Opens THEN Elsewhere ELSE doubt

\* Begin of DurableMap, from what it says of store, status, busy and doubt.
LEMMA IsBegin ==
    ASSUME NEW T \in SUBSET Slot, Status = "idle", Status' = "busy", Busy' = T,
           Store' \in [Slot -> Values], \A s \in Slot \ T : Store'[s] = Store[s],
           Doubtful' = Doubtful
    PROVE  Promise!Next
<1>1. Promise!Begin(T)
      BY DEF Promise!Begin, Promise!Changed, Store, Status, Busy, Doubtful, Values
<1> QED  BY <1>1 DEF Promise!Next

\* Load, the same.
LEMMA IsLoad ==
    ASSUME NEW T \in SUBSET Slot, Status = "idle", Status' = "idle", Busy' = Busy,
           Store' \in [Slot -> Values], \A s \in Slot \ T : Store'[s] = Store[s],
           Doubtful' = Doubtful \union T
    PROVE  Promise!Next
<1>1. Promise!Load(T)
      BY DEF Promise!Load, Promise!Changed, Store, Status, Busy, Doubtful, Values
<1> QED  BY <1>1 DEF Promise!Next

\* End, the same.
LEMMA IsEnd ==
    ASSUME Status = "busy", Status' = "idle", Busy' = {},
           Store' \in [Slot -> Values], \A s \in Slot \ Busy : Store'[s] = Store[s],
           Doubtful' \subseteq Doubtful \ Busy \/ Doubtful' \subseteq Busy
    PROVE  Promise!Next
<1>1. Promise!End
      BY DEF Promise!End, Promise!Changed, Store, Status, Busy, Doubtful, Values
<1> QED  BY <1>1 DEF Promise!Next

\* Close, the same.
LEMMA IsClose ==
    ASSUME Status = "busy", Status' = "down", Busy = {}, Busy' = {}, Doubtful' = {}, Store' = Store
    PROVE  Promise!Next
<1>1. Promise!Close
      BY DEF Promise!Close, Store, Status, Busy, Doubtful
<1> QED  BY <1>1 DEF Promise!Next

\* Crash, the same.
LEMMA IsCrash ==
    ASSUME \/ Status = "idle" /\ Status' = "down"
           \/ Status = "busy" /\ Status' \in {"down", "lost"},
           Status' = "lost" \/ /\ Store' \in [Slot -> Values]
                               /\ \A s \in Slot \ (Busy \union Doubtful) : Store'[s] = Store[s],
           Busy' = {}, Doubtful' \subseteq Busy \union Doubtful
    PROVE  Promise!Next
<1>1. Promise!Crash
      BY DEF Promise!Crash, Promise!Changed, Store, Status, Busy, Doubtful, Values
<1> QED  BY <1>1 DEF Promise!Next

\* Open, the same.
LEMMA IsOpen ==
    ASSUME Status = "down", Status' = "idle", UNCHANGED <<Store, Busy, Doubtful>>
    PROVE  Promise!Next
<1>1. Promise!Open
      BY DEF Promise!Open, Store, Status, Busy, Doubtful
<1> QED  BY <1>1 DEF Promise!Next

\* No step of DurableMap.
LEMMA IsStutter ==
    ASSUME UNCHANGED <<Store, Status, Busy, Doubtful>>
    PROVE  UNCHANGED Promise!vars
BY DEF Promise!vars, Store, Status, Busy, Doubtful

\* The promise's state at each step of a call.
LEMMA PromiseState ==
    /\ pc = "down" /\ Opens =>
          Store = Recovered /\ Status = "down" /\ Busy = {} /\ Doubtful = Elsewhere
    /\ pc = "down" /\ ~Opens => Store = map /\ Status = "lost" /\ Busy = {} /\ Doubtful = doubt
    /\ pc = "touch" /\ Opens =>
          Store = Recovered /\ Status = "down" /\ Busy = {} /\ Doubtful = doubt
    /\ pc = "idle" => Store = map /\ Status = "idle" /\ Busy = {} /\ Doubtful = doubt
    /\ pc \notin {"down", "touch", "idle"} =>
          Store = map /\ Status = "busy" /\ Busy = call.slots /\ Doubtful = doubt
BY DEF Store, Status, Busy, Doubtful, Inside

\* PromiseState of the next state.
LEMMA PromiseStatePrimed ==
    /\ pc' = "down" /\ Opens' =>
          Store' = Recovered' /\ Status' = "down" /\ Busy' = {} /\ Doubtful' = Elsewhere'
    /\ pc' = "down" /\ ~Opens' =>
          Store' = map' /\ Status' = "lost" /\ Busy' = {} /\ Doubtful' = doubt'
    /\ pc' = "touch" /\ Opens' =>
          Store' = Recovered' /\ Status' = "down" /\ Busy' = {} /\ Doubtful' = doubt'
    /\ pc' = "idle" => Store' = map' /\ Status' = "idle" /\ Busy' = {} /\ Doubtful' = doubt'
    /\ pc' \notin {"down", "touch", "idle"} =>
          Store' = map' /\ Status' = "busy" /\ Busy' = call'.slots /\ Doubtful' = doubt'
<1>1. (/\ pc = "down" /\ Opens =>
             Store = Recovered /\ Status = "down" /\ Busy = {} /\ Doubtful = Elsewhere
       /\ pc = "down" /\ ~Opens => Store = map /\ Status = "lost" /\ Busy = {} /\ Doubtful = doubt
       /\ pc = "touch" /\ Opens =>
             Store = Recovered /\ Status = "down" /\ Busy = {} /\ Doubtful = doubt
       /\ pc = "idle" => Store = map /\ Status = "idle" /\ Busy = {} /\ Doubtful = doubt
       /\ pc \notin {"down", "touch", "idle"} =>
             Store = map /\ Status = "busy" /\ Busy = call.slots /\ Doubtful = doubt)'
      BY PromiseState, PTL
<1> QED  BY <1>1

\* What a crash leaves depends on the files only.
LEMMA ElsewhereKept ==
    ASSUME \E i \in 1..8 : marks \subseteq {i, i + 1}, UNCHANGED <<snaps, logs, marks, torn>>
    PROVE  Recovered' = Recovered /\ Elsewhere' = Elsewhere /\ (Opens' <=> Opens)
<1>1. Recovered' = Recovered /\ (marks # {} => Last(Marked)' = Last(Marked))
      BY RecoveredKept
<1>2. \A j : Alone(j)' = Alone(j)
      BY GenerationKept
<1>3. Elsewhere' = Elsewhere
  <2>1. CASE marks = {}
        BY <2>1 DEF Elsewhere
  <2>2. CASE marks # {}
    <3>1. Elsewhere = {s \in Slot : Recovered[s] # Alone(Last(Marked))[s]}
          BY <2>2 DEF Elsewhere, Alone
    <3>2. Elsewhere' = {s \in Slot : Recovered'[s] # (Alone(Last(Marked))')[s]}
          BY <2>2 DEF Elsewhere, Alone
    <3>3. Alone(Last(Marked))' = Alone(Last(Marked))
          BY <1>1, <1>2, <2>2
    <3> QED  BY <1>1, <3>1, <3>2, <3>3
  <2> QED  BY <2>1, <2>2
<1>4. Opens' <=> Opens
      BY DEF Opens
<1> QED  BY <1>1, <1>3, <1>4

\* What a process that dies leaves.
LEMMA CrashLeaves ==
    ASSUME IInv, Opens, pc # "down"
    PROVE  /\ Recovered \in [Slot -> Values]
           /\ \A s \in Slot \ (call.slots \union doubt) : Recovered[s] = map[s]
           /\ Elsewhere \subseteq call.slots \union doubt
<1>1. /\ \E i \in 1..8 : marks \subseteq {i, i + 1}
      /\ marks \subseteq DOMAIN logs
      BY DEF IInv, MarksFit, Opens
<1>2. Recovered \in [Slot -> Values]
      BY <1>1, RecoveredTyped DEF IInv
<1>3. ASSUME NEW s \in Slot \ (call.slots \union doubt)
      PROVE  Recovered[s] = map[s] /\ s \notin Elsewhere
  <2>1. Right(s)
        BY <1>1 DEF IInv, Agrees
  <2>2. Recovered[s] = map[s] /\ (marks # {} => Alone(Last(Marked))[s] = map[s])
        BY <1>1, <2>1, RightIs
  <2> QED  BY <2>2 DEF Elsewhere, Alone
<1> QED  BY <1>2, <1>3 DEF Elsewhere

\* The promise holds initially,
LEMMA PromiseInit == Start <= 9 /\ Init => Promise!Init
<1> SUFFICES ASSUME Start <= 9, Init PROVE Promise!Init
    OBVIOUS
<1>1. /\ pc = "down" /\ call = NoCall /\ torn = {}
      /\ marks = {} \/ (marks = {Start} /\ Start \in 1..9)
      /\ snaps = [i \in marks |-> Empty] /\ logs = [i \in marks |-> <<>>]
      BY MetadataBounds DEF Init
<1>2. Opens
      BY <1>1 DEF Opens
<1>3. Recovered = Empty /\ Elsewhere = {}
  <2>1. CASE marks = {}
        BY <2>1, RecoveredFrom DEF Elsewhere
  <2>2. CASE marks = {Start} /\ Start \in 1..9
    <3>1. Recovered = Alone(Start) /\ Last(Marked) = Start
          BY <2>2, RecoveredFrom
    <3>2. Start \in DOMAIN snaps /\ snaps[Start] = Empty /\ logs[Start] = <<>>
          BY <1>1, <2>2
    <3>3. Alone(Start) = Empty
          BY <3>2, SnapshotAlone, EmptyTyped
    <3> QED  BY <3>1, <3>3 DEF Elsewhere, Alone
  <2> QED  BY <1>1, <2>1, <2>2
<1>4. Store = Empty /\ Status = "down" /\ Busy = {} /\ Doubtful = {}
      BY <1>1, <1>2, <1>3, PromiseState
<1> QED  BY <1>4 DEF Promise!Init, Store, Status, Busy, Doubtful, Empty

\* A step inside a call changes nothing of the promise.
LEMMA InsideStutters ==
    ASSUME pc \notin {"down", "touch", "idle"}, pc' \notin {"down", "touch", "idle"},
           UNCHANGED <<map, call, doubt>>
    PROVE  UNCHANGED Promise!vars
BY PromiseState, PromiseStatePrimed, IsStutter

\* and every step is one of DurableMap's, or none.
LEMMA PromiseNext ==
    ASSUME IInv, IInv', [Next]_vars
    PROVE  [Promise!Next]_(Promise!vars)
<1> USE DEF IInv
<1>0. /\ map \in [Slot -> Values] /\ map' \in [Slot -> Values] /\ call.slots \subseteq Slot
      /\ call'.slots \subseteq Slot
      /\ \E i \in 1..8 : marks \subseteq {i, i + 1}
  <2>1. call.slots \subseteq Slot
        BY CallSlots
  <2>2. (CallFits => call.slots \subseteq Slot)'
        BY CallSlots, PTL
  <2> QED  BY <2>1, <2>2 DEF Typed, MarksFit
<1>1. CASE Open
  <2>1. pc = "down" /\ Opens /\ map' = Recovered /\ doubt' = Elsewhere
        /\ UNCHANGED <<snaps, marks>>
        BY <1>1 DEF Open
  <2>2. CASE Files = {}
    <3>1. pc' = "touch" /\ marks = {}
          BY <1>1, <2>2 DEF Open, Files
    <3>2. Opens'
          BY <2>1, <3>1 DEF Opens
    <3>3. Recovered' = Recovered /\ Elsewhere = {}
          BY <2>1, <3>1, RecoveredFrom, RecoveredFromPrimed DEF Elsewhere
    <3> QED  BY <2>1, <3>1, <3>2, <3>3, PromiseState, PromiseStatePrimed, IsStutter
  <2>3. CASE Files # {}
    <3>1. pc' = "idle"
          BY <1>1, <2>3 DEF Open
    <3> QED  BY <2>1, <3>1, PromiseState, PromiseStatePrimed, IsOpen
  <2> QED  BY <2>2, <2>3
<1>2. CASE TouchFirst
  <2>1. pc = "touch" /\ pc' = "idle" /\ UNCHANGED <<map, doubt>>
        BY <1>2 DEF TouchFirst, memory
  <2>2. marks = {} /\ map = Empty
        BY <2>1 DEF MarksFit, SnapshotFits
  <2>3. Opens /\ Recovered = Empty
        BY <2>2, RecoveredFrom DEF Opens
  <2> QED  BY <2>1, <2>2, <2>3, PromiseState, PromiseStatePrimed, IsOpen
<1>3. ASSUME NEW s \in Slot, NEW v \in Value, Set(s, v) PROVE [Promise!Next]_(Promise!vars)
  <2>1. pc = "idle" /\ pc' = "length" /\ call'.slots = {s} /\ UNCHANGED <<map, doubt>>
        BY <1>3 DEF Set, memory
  <2> QED  BY <1>0, <2>1, PromiseState, PromiseStatePrimed, IsBegin
<1>4. ASSUME NEW k \in Key, Del(k) PROVE [Promise!Next]_(Promise!vars)
  <2>1. pc = "idle" /\ pc' = "length" /\ call'.slots = SlotsOf(k) /\ map' = Erased(k)
        /\ doubt' = doubt
        BY <1>4 DEF Del
  <2>2. \A s \in Slot \ SlotsOf(k) : map'[s] = map[s]
        BY <2>1 DEF Erased, SlotsOf, Slot
  <2> QED  BY <1>0, <2>1, <2>2, PromiseState, PromiseStatePrimed, IsBegin
<1>5. ASSUME NEW k \in Key, DelThrows(k) PROVE [Promise!Next]_(Promise!vars)
  <2>1. pc = "idle" /\ pc' = "idle" /\ map' = Erased(k) /\ doubt' = doubt \union SlotsOf(k)
        BY <1>5 DEF DelThrows, control
  <2>2. \A s \in Slot \ SlotsOf(k) : map'[s] = map[s]
        BY <2>1 DEF Erased, SlotsOf, Slot
  <2>3. SlotsOf(k) \subseteq Slot
        BY DEF SlotsOf, Slot
  <2> QED  BY <1>0, <2>1, <2>2, <2>3, PromiseState, PromiseStatePrimed, IsLoad
<1>6. CASE \/ WriteLength \/ WriteRecord \/ StartSnapshot \/ NewLog \/ TouchNew
           \/ RemoveLog \/ RemoveData \/ RemoveMark
           \/ \E s \in Slot : WriteSnapshot(s)
           \/ \E i \in Files : Unlink(i)
  <2>1. pc \notin {"down", "touch", "idle"} /\ UNCHANGED <<map, call, doubt>>
        BY <1>6 DEF WriteLength, WriteRecord, StartSnapshot, NewLog, TouchNew, RemoveLog, RemoveData,
                    RemoveMark, WriteSnapshot, Unlink, memory, control
  <2>2. pc' \notin {"down", "touch", "idle"}
        BY <1>6 DEF WriteLength, WriteRecord, StartSnapshot, NewLog, TouchNew, RemoveLog, RemoveData,
                    RemoveMark, WriteSnapshot, Unlink, memory, control
  <2> QED  BY <2>1, <2>2, InsideStutters
<1>7. CASE Return
  <2>1. /\ pc = "return" /\ pc' = "idle"
        /\ map' = IF call.op = "set" THEN [s \in Slot |-> IF s \in call.slots
                                                        THEN call.value ELSE map[s]]
                  ELSE map
        /\ doubt' = IF ~rolled THEN doubt \ call.slots
                    ELSE IF call.op = "set" THEN call.slots ELSE {}
        BY <1>7 DEF Return
  <2>2. \A s \in Slot \ call.slots : map'[s] = map[s]
        BY <2>1
  <2>3. doubt' \subseteq doubt \ call.slots \/ doubt' \subseteq call.slots
        BY <2>1
  <2> QED  BY <1>0, <2>1, <2>2, <2>3, PromiseState, PromiseStatePrimed, IsEnd
<1>8. CASE BeginClose
  <2>1. pc = "idle" /\ pc' = "snapshot" /\ call'.slots = {} /\ UNCHANGED <<map, doubt>>
        BY <1>8 DEF BeginClose, memory
  <2> QED  BY <1>0, <2>1, PromiseState, PromiseStatePrimed, IsBegin
<1>9. CASE BeginClear
  <2>1. pc = "idle" /\ pc' = "unlink" /\ call'.slots = Slot /\ UNCHANGED doubt
        BY <1>9 DEF BeginClear
  <2> QED  BY <1>0, <2>1, PromiseState, PromiseStatePrimed, IsBegin
<1>10. CASE Closed
  <2>1. /\ pc = "closed" /\ pc' = "down" /\ UNCHANGED <<snaps, logs, marks, torn>>
        /\ call.op = "close" /\ rolled /\ call.slots = {}
        BY <1>10 DEF Closed, Forget, disk, CallFits
  <2>2. Opens /\ marks = {index} /\ Alone(index) = map /\ index \in 1..9
        BY <2>1 DEF DiskInv, RolledFits, Typed
  <2>3. Recovered = map /\ Last(Marked) = index
        BY <2>2, RecoveredFrom
  <2>4. Elsewhere = {}
        BY <2>2, <2>3 DEF Elsewhere, Alone
  <2>5. Recovered' = Recovered /\ Elsewhere' = Elsewhere /\ Opens'
        BY <1>0, <2>1, <2>2, ElsewhereKept
  <2> QED  BY <2>1, <2>3, <2>4, <2>5, PromiseState, PromiseStatePrimed, IsClose
<1>11. CASE Crash
  <2>1. pc # "down" /\ pc' = "down" /\ doubt' = {} /\ UNCHANGED <<snaps, logs, marks, torn>>
        BY <1>11 DEF Crash, Forget, disk
  <2>2. Recovered' = Recovered /\ Elsewhere' = Elsewhere /\ (Opens' <=> Opens)
        BY <1>0, <2>1, ElsewhereKept
  <2>3. CASE pc = "touch"
    <3>1. marks = {} /\ doubt = {}
          BY <2>3 DEF MarksFit, SnapshotFits
    <3>2. Opens /\ Elsewhere = {}
          BY <3>1 DEF Opens, Elsewhere
    <3> QED  BY <2>1, <2>2, <2>3, <3>1, <3>2, PromiseState, PromiseStatePrimed, IsStutter
  <2>4. CASE pc = "idle"
    <3>1. Opens /\ call.slots = {}
          BY <2>4 DEF DiskInv, CallFits, NoCall
    <3>2. /\ Recovered \in [Slot -> Values]
          /\ \A s \in Slot \ (call.slots \union doubt) : Recovered[s] = map[s]
          /\ Elsewhere \subseteq call.slots \union doubt
          BY <2>1, <3>1, CrashLeaves
    <3>3. Status = "idle" /\ Store = map /\ Busy = {} /\ Doubtful = doubt
          BY <2>4, PromiseState
    <3>4. Status' = "down" /\ Store' = Recovered /\ Busy' = {} /\ Doubtful' = Elsewhere
          BY <2>1, <2>2, <3>1, PromiseStatePrimed
    <3> QED  BY <3>1, <3>2, <3>3, <3>4, IsCrash
  <2>5. CASE pc \notin {"down", "touch", "idle"}
    <3>1. Status = "busy" /\ Store = map /\ Busy = call.slots /\ Doubtful = doubt
          BY <2>5, PromiseState
    <3>2. CASE Opens
      <4>1. /\ Recovered \in [Slot -> Values]
            /\ \A s \in Slot \ (call.slots \union doubt) : Recovered[s] = map[s]
            /\ Elsewhere \subseteq call.slots \union doubt
            BY <2>1, <3>2, CrashLeaves
      <4>2. Status' = "down" /\ Store' = Recovered /\ Busy' = {} /\ Doubtful' = Elsewhere
            BY <2>1, <2>2, <3>2, PromiseStatePrimed
      <4> QED  BY <3>1, <4>1, <4>2, IsCrash
    <3>3. CASE ~Opens
      <4>1. Status' = "lost" /\ Busy' = {} /\ Doubtful' = {}
            BY <2>1, <2>2, <3>3, PromiseStatePrimed
      <4> QED  BY <3>1, <4>1, IsCrash
    <3> QED  BY <3>2, <3>3
  <2> QED  BY <2>1, <2>3, <2>4, <2>5
<1>12. ASSUME NEW snap, LoadSnapshot(snap) PROVE [Promise!Next]_(Promise!vars)
  <2> DEFINE T == {s \in Slot : snap[s] # None}
  <2>1. pc = "idle" /\ pc' = "idle" /\ map' = LoadSnap(map, snap) /\ doubt' = doubt \union T
        BY <1>12 DEF LoadSnapshot, control
  <2>2. \A s \in Slot \ T : map'[s] = map[s]
        BY <2>1 DEF LoadSnap
  <2>3. T \in SUBSET Slot
        OBVIOUS
  <2> HIDE DEF T
  <2> QED  BY <1>0, <2>1, <2>2, <2>3, PromiseState, PromiseStatePrimed, IsLoad
<1>13. CASE UNCHANGED vars
  <2>1. UNCHANGED <<map, pc, call, doubt, snaps, logs, marks, torn>>
        BY <1>13 DEF vars, memory, control, disk
  <2>2. Recovered' = Recovered /\ Elsewhere' = Elsewhere /\ (Opens' <=> Opens)
        BY <1>0, <2>1, ElsewhereKept
  <2>3. UNCHANGED <<Store, Status, Busy, Doubtful>>
        BY <2>1, <2>2 DEF Store, Status, Busy, Doubtful, Inside
  <2> QED  BY <2>3, IsStutter
<1> QED  BY <1>1, <1>2, <1>3, <1>4, <1>5, <1>6, <1>7, <1>8, <1>9, <1>10, <1>11, <1>12, <1>13 DEF Next

\* detail::metadata implements DurableMap, for any keys, values, size of the log and
\* number of crashes, as long as the generations have one digit.
THEOREM MetadataKeepsPromise ==
    ASSUME Start <= 9, MaxIndex <= 9
    PROVE  Spec => KeepsPromise
<1>1. Init => IInv /\ Promise!Init
      BY IInvInit, PromiseInit
<1>2. IInv /\ [Next]_vars => IInv'
      BY IInvNext
<1>3. IInv /\ IInv' /\ [Next]_vars => [Promise!Next]_(Promise!vars)
      BY PromiseNext
<1> QED  BY <1>1, <1>2, <1>3, PTL DEF Spec, KeepsPromise, Promise!Spec
=============================================================================
