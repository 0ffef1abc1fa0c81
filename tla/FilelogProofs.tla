---------------------------- MODULE FilelogProofs ----------------------------
(***************************************************************************)
(* Proofs about the log of a node, for all sizes of segments and numbers of *)
(* entries.  While one file is open it is what SegmentLog says.  In one     *)
(* life, without rewriting the open file, the files hold consecutive        *)
(* entries one file after another (PlainInv), so that every entry is read   *)
(* as it was written and the log is what EntryLog says.  After one stop or   *)
(* one crash the offsets in the index files may be wrong, but the files      *)
(* still tile the entries that must be found (FoundInv).                     *)
(*                                                                          *)
(* get_entries goes through the files in the order of their starts.  That   *)
(* there is such an order (LineExists) and that the loop over it has a      *)
(* result (ReadsExist) rest on < being well-founded on the natural numbers. *)
(***************************************************************************)
EXTENDS Filelog, FiniteSetTheorems, SequenceTheorems, WellFoundedInduction,
        TLAPS

-----------------------------------------------------------------------------
\* A set of natural numbers that has 0 and every successor has them all.
LEMMA SetInduction ==
    ASSUME NEW S \in SUBSET Nat, 0 \in S, \A n \in S : n + 1 \in S
    PROVE  S = Nat
<1>1. SUFFICES ASSUME Nat \ S # {} PROVE FALSE
      OBVIOUS
<1>2. PICK x \in Nat \ S : \A y \in Nat \ S : ~(<<y, x>> \in OpToRel(<, Nat))
      BY <1>1, NatLessThanWellFounded, WFMin
<1>3. \A y \in Nat \ S : ~(y < x)
      BY <1>2 DEF OpToRel
<1>4. x # 0 /\ x - 1 \in Nat /\ x - 1 < x
      OBVIOUS
<1>5. x - 1 \in S
      BY <1>3, <1>4
<1> QED  BY <1>4, <1>5

\* A set of files has one with the lowest start.
LEMMA LowestStart ==
    ASSUME NEW S, S # {}, \A f \in S : f.start \in Nat
    PROVE  \E f \in S : \A g \in S : f.start <= g.start
<1> DEFINE starts == {f.start : f \in S}
<1>1. starts \in SUBSET Nat /\ starts # {}
      OBVIOUS
<1>2. PICK x \in starts : \A y \in starts : ~(<<y, x>> \in OpToRel(<, Nat))
  <2> HIDE DEF starts
  <2> QED  BY <1>1, NatLessThanWellFounded, WFMin
<1>3. \A y \in starts : ~(y < x)
      BY <1>1, <1>2 DEF OpToRel
<1>4. PICK f \in S : f.start = x
      OBVIOUS
<1>5. ASSUME NEW g \in S PROVE f.start <= g.start
  <2>1. g.start \in starts
        OBVIOUS
  <2> QED  BY <2>1, <1>1, <1>3, <1>4
<1> QED  BY <1>5

\* What InOrder chooses among.
Lined(s, S) ==
    /\ s \in [1..Cardinality(S) -> S]
    /\ Range(s) = S
    /\ \A j, k \in DOMAIN s : j < k => s[j].start < s[k].start

Apart(S) == \A f, g \in S : f.start = g.start => f = g

\* A finite set of files with different starts can be listed in their order.
LEMMA LineExists ==
    ASSUME NEW S, IsFiniteSet(S), Apart(S), \A f \in S : f.start \in Nat
    PROVE  \E s : Lined(s, S)
<1> DEFINE Ready(n) == \A T \in SUBSET S : Cardinality(T) = n => \E s : Lined(s, T)
           K == {n \in Nat : Ready(n)}
<1>1. Ready(0)
  <2> SUFFICES ASSUME NEW T \in SUBSET S, Cardinality(T) = 0
               PROVE  \E s : Lined(s, T)
      OBVIOUS
  <2>1. T = {}
        BY FS_Subset, FS_EmptySet
  <2> DEFINE s == [k \in 1..0 |-> 0]
  <2>2. Lined(s, T)
        BY <2>1 DEF Lined, Range
  <2> HIDE DEF s
  <2> QED  BY <2>2
<1>2. ASSUME NEW n \in Nat, Ready(n) PROVE Ready(n + 1)
  <2> SUFFICES ASSUME NEW T \in SUBSET S, Cardinality(T) = n + 1
               PROVE  \E s : Lined(s, T)
      OBVIOUS
  <2>1. IsFiniteSet(T) /\ T # {}
        BY FS_Subset, FS_EmptySet
  <2>2. PICK f \in T : \A g \in T : f.start <= g.start
        BY <2>1, LowestStart
  <2>3. Cardinality(T \ {f}) = n
    <3>1. Cardinality(T \ {f}) = Cardinality(T) - 1
          BY <2>1, FS_RemoveElement
    <3> QED  BY <3>1
  <2>4. PICK t : Lined(t, T \ {f})
        BY <1>2, <2>3
  <2>5. /\ t \in [1..n -> T \ {f}] /\ Range(t) = T \ {f}
        /\ \A j, k \in 1..n : j < k => t[j].start < t[k].start
        BY <2>3, <2>4 DEF Lined
  <2> DEFINE s == [k \in 1..n + 1 |-> IF k = 1 THEN f ELSE t[k - 1]]
  <2>6. ASSUME NEW k \in 1..n + 1, k # 1 PROVE k - 1 \in 1..n /\ t[k - 1] \in T \ {f}
        BY <2>5, <2>6
  <2>7. s \in [1..n + 1 -> T]
        BY <2>6
  <2>8. Range(s) = T
    <3>1. Range(s) \subseteq T
          BY <2>7 DEF Range
    <3>2. ASSUME NEW g \in T PROVE g \in Range(s)
      <4>1. CASE g = f
            BY <4>1 DEF Range
      <4>2. CASE g # f
        <5>1. PICK k \in 1..n : t[k] = g
              BY <4>2, <2>5 DEF Range
        <5>2. k + 1 \in 1..n + 1 /\ k + 1 # 1 /\ (k + 1) - 1 = k
              OBVIOUS
        <5>3. s[k + 1] = g
              BY <5>1, <5>2
        <5> QED  BY <5>2, <5>3 DEF Range
      <4> QED  BY <4>1, <4>2
    <3> QED  BY <3>1, <3>2
  <2>9. ASSUME NEW j \in 1..n + 1, NEW k \in 1..n + 1, j < k
        PROVE  s[j].start < s[k].start
    <3>1. k # 1 /\ s[k] = t[k - 1] /\ t[k - 1] \in T \ {f} /\ k - 1 \in 1..n
          BY <2>6, <2>9
    <3>2. CASE j = 1
      <4>1. s[j] = f /\ f.start <= t[k - 1].start /\ f # t[k - 1]
            BY <3>1, <3>2, <2>2
      <4>2. f.start # t[k - 1].start
            BY <4>1, <3>1 DEF Apart
      <4>3. f.start \in Nat /\ t[k - 1].start \in Nat
            BY <3>1
      <4> QED  BY <4>1, <4>2, <4>3, <3>1
    <3>3. CASE j # 1
      <4>1. j - 1 \in 1..n /\ j - 1 < k - 1 /\ s[j] = t[j - 1]
            BY <3>3, <2>9
      <4> QED  BY <4>1, <3>1, <2>5
    <3> QED  BY <3>2, <3>3
  <2>10. Lined(s, T)
    <3> HIDE DEF s
    <3> QED  BY <2>7, <2>8, <2>9 DEF Lined
  <2> HIDE DEF s
  <2> QED  BY <2>10
<1>3. K = Nat
  <2>1. K \in SUBSET Nat /\ 0 \in K /\ \A n \in K : n + 1 \in K
    <3> HIDE DEF Ready
    <3> QED  BY <1>1, <1>2
  <2> HIDE DEF K
  <2> QED  BY <2>1, SetInduction
<1>4. Cardinality(S) \in Nat /\ Ready(Cardinality(S))
  <2>1. Cardinality(S) \in Nat
        BY FS_CardinalityType
  <2>2. Cardinality(S) \in K
        BY <2>1, <1>3
  <2> HIDE DEF Ready
  <2> QED  BY <2>1, <2>2
<1> QED  BY <1>4

\* The files as the reading calls go through them.
LEMMA FilesLine ==
    ASSUME IsFiniteSet(segments), Apart(segments), \A f \in segments : f.start \in Nat
    PROVE  \E n \in Nat :
             /\ Len(FilesInOrder) = n + 1 /\ FilesInOrder[n + 1] = current
             /\ \A k \in 1..n : FilesInOrder[k] \in segments
             /\ \A f \in segments : \E k \in 1..n : FilesInOrder[k] = f
             /\ \A j, k \in 1..n : j < k => FilesInOrder[j].start < FilesInOrder[k].start
<1>1. Lined(InOrder, segments)
  <2>1. PICK s : Lined(s, segments)
        BY LineExists
  <2> QED  BY <2>1 DEF Lined, InOrder
<1>2. PICK n \in Nat : n = Cardinality(segments)
      BY FS_CardinalityType
<1>3. /\ InOrder \in [1..n -> segments] /\ Range(InOrder) = segments
      /\ \A j, k \in 1..n : j < k => InOrder[j].start < InOrder[k].start
      BY <1>1, <1>2 DEF Lined
<1>4. InOrder \in Seq(segments) /\ Len(InOrder) = n
      BY <1>3
<1>5. /\ Len(FilesInOrder) = n + 1 /\ FilesInOrder[n + 1] = current
      /\ \A k \in 1..n : FilesInOrder[k] = InOrder[k]
      BY <1>4 DEF FilesInOrder
<1>6. \A k \in 1..n : FilesInOrder[k] \in segments
      BY <1>3, <1>5
<1>7. \A f \in segments : \E k \in 1..n : FilesInOrder[k] = f
      BY <1>3, <1>5 DEF Range
<1>8. \A j, k \in 1..n : j < k => FilesInOrder[j].start < FilesInOrder[k].start
      BY <1>3, <1>5
<1> QED  BY <1>5, <1>6, <1>7, <1>8

\* a is what the loop of get_entries has after each of n files.
Reads(a, files, n, r) ==
    a = [k \in 0..n |-> IF k = 0 THEN r ELSE ReadFile(files[k], a[k - 1])]

\* The loop has a result.
LEMMA ReadsExist ==
    ASSUME NEW files, NEW r, NEW n \in Nat
    PROVE  \E a : Reads(a, files, n, r)
<1> DEFINE Good(a, m) ==
             a = [k \in 0..m |-> IF k = 0 THEN r ELSE ReadFile(files[k], a[k - 1])]
           K == {m \in Nat : \E a : Good(a, m)}
<1>1. 0 \in K
  <2> DEFINE a == [k \in 0..0 |-> r]
  <2>1. Good(a, 0)
        OBVIOUS
  <2> HIDE DEF a, Good
  <2> QED  BY <2>1
<1>2. ASSUME NEW m \in K PROVE m + 1 \in K
  <2>1. m \in Nat
        OBVIOUS
  <2>2. PICK a : Good(a, m)
        OBVIOUS
  <2>3. /\ a[0] = r
        /\ \A k \in 1..m : a[k] = ReadFile(files[k], a[k - 1])
    <3> DEFINE Turn(k) == IF k = 0 THEN r ELSE ReadFile(files[k], a[k - 1])
    <3>1. a = [k \in 0..m |-> Turn(k)]
          BY <2>2
    <3>2. \A k \in 0..m : a[k] = Turn(k)
      <4> HIDE DEF Turn
      <4> QED  BY <3>1
    <3> QED  BY <3>2, <2>1
  <2> DEFINE b == [k \in 0..m + 1 |-> IF k = m + 1 THEN ReadFile(files[m + 1], a[m]) ELSE a[k]]
             Turn(k) == IF k = 0 THEN r ELSE ReadFile(files[k], b[k - 1])
  <2>4. ASSUME NEW k \in 0..m + 1 PROVE b[k] = Turn(k)
    <3>1. CASE k = m + 1
      <4>1. m \in 0..m + 1 /\ m # m + 1 /\ b[m] = a[m] /\ (m + 1) - 1 = m /\ m + 1 # 0
            BY <2>1
      <4>2. b[k] = ReadFile(files[m + 1], a[m])
            BY <3>1
      <4> QED  BY <4>1, <4>2, <3>1, Zenon
    <3>2. CASE k = 0
      <4>1. 0 # m + 1 /\ b[k] = a[0]
            BY <3>2, <2>1
      <4> QED  BY <4>1, <3>2, <2>3
    <3>3. CASE k # 0 /\ k # m + 1
      <4>1. k \in 1..m /\ k - 1 \in 0..m + 1 /\ k - 1 # m + 1
            BY <3>3, <2>1
      <4>2. b[k] = a[k] /\ b[k - 1] = a[k - 1]
            BY <3>3, <4>1
      <4>3. a[k] = ReadFile(files[k], a[k - 1])
            BY <4>1, <2>3
      <4> QED  BY <4>2, <4>3, <3>3, Zenon
    <3> QED  BY <3>1, <3>2, <3>3
  <2>5. Good(b, m + 1)
    <3>1. b = [k \in 0..m + 1 |-> b[k]]
          OBVIOUS
    <3>2. [k \in 0..m + 1 |-> b[k]] = [k \in 0..m + 1 |-> Turn(k)]
      <4> HIDE DEF b, Turn
      <4> QED  BY <2>4
    <3> QED  BY <3>1, <3>2, Zenon
  <2> HIDE DEF b, Good
  <2> QED  BY <2>1, <2>5
<1>3. K = Nat
  <2>1. K \in SUBSET Nat /\ \A m \in K : m + 1 \in K
    <3> HIDE DEF Good
    <3> QED  BY <1>2
  <2> HIDE DEF K
  <2> QED  BY <2>1, <1>1, SetInduction
<1>4. n \in K
      BY <1>3
<1> QED  BY <1>4 DEF Reads

\* What get_entries returns, file by file.
LEMMA EntriesByFile ==
    ASSUME NEW i, NEW count, NEW n \in Nat, Len(FilesInOrder) = n
    PROVE  \E a :
             /\ a[0] = ReadFrom(i, count)
             /\ \A k \in 1..n : a[k] = ReadFile(FilesInOrder[k], a[k - 1])
             /\ GetEntries(i, count) = a[n]
<1> DEFINE F(b) == [k \in 0..n |-> IF k = 0 THEN ReadFrom(i, count)
                                   ELSE ReadFile(FilesInOrder[k], b[k - 1])]
           a == CHOOSE b : b = F(b)
<1>1. \E b : b = F(b)
  <2>1. \E b : Reads(b, FilesInOrder, n, ReadFrom(i, count))
        BY ReadsExist
  <2> QED  BY <2>1, Zenon DEF Reads
<1>2. a = F(a)
  <2> HIDE DEF F
  <2> QED  BY <1>1
<1>3. GetEntries(i, count) = a[n]
      BY Zenon DEF GetEntries
<1>4. \A k \in 0..n : a[k] = F(a)[k]
      BY <1>2, Zenon
<1>5. a[0] = ReadFrom(i, count)
  <2> HIDE DEF a
  <2> QED  BY <1>4
<1>6. ASSUME NEW k \in 1..n PROVE a[k] = ReadFile(FilesInOrder[k], a[k - 1])
  <2>1. k \in 0..n /\ k # 0
        OBVIOUS
  <2> HIDE DEF a
  <2> QED  BY <1>4, <2>1
<1> HIDE DEF a
<1> QED  BY <1>3, <1>5, <1>6

-----------------------------------------------------------------------------
(* Reading one file.                                                        *)

EntryType == [index : Nat \ {0}, value : Nat \ {0}]
SlotType == [index : Nat \ {0}, pos : Nat]
FilesType == [data : Seq(EntryType), index : Seq(SlotType)]
FileType == [name : Nat, start : Nat, last : Nat, at : Nat]
ReadType == [next : Nat, left : Nat, entries : Seq(EntryType), threw : BOOLEAN]

Data(f) == disk[f.name].data
Index(f) == disk[f.name].index

\* The files of f have records of the right form.
Sound(f) ==
    /\ f \in FileType
    /\ f.name \in DOMAIN disk
    /\ disk[f.name] \in FilesType

LEMMA MinOfTwo ==
    ASSUME NEW a \in Int, NEW b \in Int
    PROVE  Min({a, b}) = IF a <= b THEN a ELSE b
BY DEF Min

\* A file that does not hold the next entry is passed over, and nothing is
\* read when all is read, or after an exception.
LEMMA ReadPasses ==
    ASSUME NEW f, NEW r, r.threw \/ r.left = 0 \/ ~Holds(f, r.next)
    PROVE  ReadFile(f, r) = r
BY DEF ReadFile

\* Otherwise the records from the one that is looked up are read, as far as
\* the file and the count go.
LEMMA ReadGets ==
    ASSUME NEW f, Sound(f), NEW r \in ReadType, ~r.threw, r.left # 0,
           Holds(f, r.next), NEW o \in Nat, Lookup(f, r.next) = o
    PROVE  LET end == IF Len(Data(f)) <= o + r.left THEN Len(Data(f)) ELSE o + r.left
               got == SubSeq(Data(f), o + 1, end)
           IN  ReadFile(f, r) = [next |-> r.next + Len(got), left |-> r.left - Len(got),
                                 entries |-> r.entries \o got, threw |-> FALSE]
<1> DEFINE end == IF Len(Data(f)) <= o + r.left THEN Len(Data(f)) ELSE o + r.left
           got == SubSeq(Data(f), o + 1, end)
<1>1. o # -1 /\ ~(r.threw \/ r.left = 0 \/ ~Holds(f, r.next))
      OBVIOUS
<1>2. Len(Data(f)) \in Int /\ o + 1 + r.left - 1 \in Int /\ o + 1 + r.left - 1 = o + r.left
      BY DEF Sound, Data, ReadType
<1>3. Min({Len(Data(f)), o + 1 + r.left - 1}) = end
      BY <1>2, MinOfTwo, Zenon
<1>4. ReadFile(f, r) =
        LET g == SubSeq(Data(f), o + 1, Min({Len(Data(f)), o + 1 + r.left - 1}))
        IN  [next |-> r.next + Len(g), left |-> r.left - Len(g),
             entries |-> r.entries \o g, threw |-> FALSE]
      BY <1>1, Zenon DEF ReadFile, Data
<1> QED  BY <1>3, <1>4, Zenon

\* An entry that the index file does not have throws.
LEMMA ReadThrows ==
    ASSUME NEW f, NEW r, ~r.threw, r.left # 0, Holds(f, r.next),
           Lookup(f, r.next) = -1
    PROVE  ReadFile(f, r) = [r EXCEPT !.threw = TRUE]
BY DEF ReadFile

-----------------------------------------------------------------------------
(* Writing one entry.                                                       *)

\* Records with some fields replaced.
LEMMA DataReplaced ==
    ASSUME NEW x, NEW y, NEW v, NEW r, r = [data |-> x, index |-> y]
    PROVE  [r EXCEPT !.data = v] = [data |-> v, index |-> y]
<1>1. DOMAIN r = {"data", "index"} /\ DOMAIN [r EXCEPT !.data = v] = {"data", "index"}
      OBVIOUS
<1>2. [r EXCEPT !.data = v].data = v /\ [r EXCEPT !.data = v].index = y
      BY <1>1
<1> QED  BY <1>1, <1>2

LEMMA IndexReplaced ==
    ASSUME NEW x, NEW y, NEW v, NEW r, r = [data |-> x, index |-> y]
    PROVE  [r EXCEPT !.index = v] = [data |-> x, index |-> v]
<1>1. DOMAIN r = {"data", "index"} /\ DOMAIN [r EXCEPT !.index = v] = {"data", "index"}
      OBVIOUS
<1>2. [r EXCEPT !.index = v].data = x /\ [r EXCEPT !.index = v].index = v
      BY <1>1
<1> QED  BY <1>1, <1>2

LEMMA FieldsReplaced ==
    ASSUME NEW n, NEW s, NEW l, NEW a, NEW v,
           NEW f, f = [name |-> n, start |-> s, last |-> l, at |-> a]
    PROVE  /\ [f EXCEPT !.start = v] = [name |-> n, start |-> v, last |-> l, at |-> a]
           /\ [f EXCEPT !.last = v] = [name |-> n, start |-> s, last |-> v, at |-> a]
           /\ [f EXCEPT !.at = v] = [name |-> n, start |-> s, last |-> l, at |-> v]
<1>1. DOMAIN f = {"name", "start", "last", "at"}
      OBVIOUS
<1>2. [f EXCEPT !.start = v] = [name |-> n, start |-> v, last |-> l, at |-> a]
  <2>1. DOMAIN [f EXCEPT !.start = v] = {"name", "start", "last", "at"}
        BY <1>1
  <2>2. /\ [f EXCEPT !.start = v].name = n /\ [f EXCEPT !.start = v].start = v
        /\ [f EXCEPT !.start = v].last = l /\ [f EXCEPT !.start = v].at = a
        BY <1>1
  <2> QED  BY <2>1, <2>2
<1>3. [f EXCEPT !.last = v] = [name |-> n, start |-> s, last |-> v, at |-> a]
  <2>1. DOMAIN [f EXCEPT !.last = v] = {"name", "start", "last", "at"}
        BY <1>1
  <2>2. /\ [f EXCEPT !.last = v].name = n /\ [f EXCEPT !.last = v].start = s
        /\ [f EXCEPT !.last = v].last = v /\ [f EXCEPT !.last = v].at = a
        BY <1>1
  <2> QED  BY <2>1, <2>2
<1>4. [f EXCEPT !.at = v] = [name |-> n, start |-> s, last |-> l, at |-> v]
  <2>1. DOMAIN [f EXCEPT !.at = v] = {"name", "start", "last", "at"}
        BY <1>1
  <2>2. /\ [f EXCEPT !.at = v].name = n /\ [f EXCEPT !.at = v].start = s
        /\ [f EXCEPT !.at = v].last = l /\ [f EXCEPT !.at = v].at = v
        BY <1>1
  <2> QED  BY <2>1, <2>2
<1> QED  BY <1>2, <1>3, <1>4

\* f, g and h are f with one, two and three fields replaced.
LEMMA AfterWriteIs ==
    ASSUME NEW f \in FileType, NEW e
    PROVE  AfterWrite(f, e) =
             [name |-> f.name, start |-> IF f.start = 0 THEN e.index ELSE f.start,
              last |-> e.index, at |-> f.at + 1]
<1>1. PICK n, s, l, a : f = [name |-> n, start |-> s, last |-> l, at |-> a]
      BY DEF FileType
<1>2. f.name = n /\ f.start = s /\ f.at = a
      BY <1>1
<1>3. PICK i, z, b : i = e.index /\ z = (IF s = 0 THEN i ELSE s) /\ b = a + 1
      OBVIOUS
<1>4. AfterWrite(f, e) = [f EXCEPT !.last = i, !.at = b, !.start = z]
      BY <1>2, <1>3, Zenon DEF AfterWrite
<1>5. PICK g : g = [f EXCEPT !.last = i]
      OBVIOUS
<1>6. PICK h : h = [g EXCEPT !.at = b]
      OBVIOUS
<1>7. AfterWrite(f, e) = [h EXCEPT !.start = z]
      BY <1>4, <1>5, <1>6, Zenon
<1>8. g = [name |-> n, start |-> s, last |-> i, at |-> a]
      BY <1>1, <1>5, FieldsReplaced, Zenon
<1>9. h = [name |-> n, start |-> s, last |-> i, at |-> b]
      BY <1>8, <1>6, FieldsReplaced, Zenon
<1>10. AfterWrite(f, e) = [name |-> n, start |-> z, last |-> i, at |-> b]
      BY <1>7, <1>9, FieldsReplaced, Zenon
<1> QED  BY <1>2, <1>3, <1>10, Zenon

\* The record and the slot that write adds, and what has them.
Old(i) == Created(disk, Target(i).name)[Target(i).name]
NewSlot(i) == [index |-> i, pos |-> Len(Old(i).data)]
NewIndex(i) ==
    IF Target(i).at < Len(Old(i).index)
    THEN [Old(i).index EXCEPT ![Target(i).at + 1] = NewSlot(i)]
    ELSE Append(Old(i).index, NewSlot(i))

LEMMA WriteOne ==
    ASSUME writes \in Nat, NEW i \in Nat \ {0}, Target(i) \in FileType,
           Target(i).name \in DOMAIN Created(disk, Target(i).name),
           Old(i) \in FilesType
    PROVE  LET n == Target(i).name
               d == Created(disk, n)
           IN  /\ Entry(i) \in EntryType /\ Entry(i).index = i
               /\ NewSlot(i) \in SlotType
               /\ DataWritten(i) = [d EXCEPT ![n] =
                     [data |-> Append(Old(i).data, Entry(i)), index |-> Old(i).index]]
               /\ Written(i) = [d EXCEPT ![n] =
                     [data |-> Append(Old(i).data, Entry(i)), index |-> NewIndex(i)]]
               /\ AfterWrite(Target(i), Entry(i)) =
                     [name |-> n, start |-> IF Target(i).start = 0 THEN i ELSE Target(i).start,
                      last |-> i, at |-> Target(i).at + 1]
<1>1. PICK t \in FileType : t = Target(i)
      OBVIOUS
<1>2. PICK n \in Nat, at \in Nat : n = t.name /\ at = t.at
      BY DEF FileType
<1>3. PICK d : d = Created(disk, n)
      OBVIOUS
<1>4. PICK x \in Seq(EntryType), y \in Seq(SlotType) : Old(i) = [data |-> x, index |-> y]
      BY DEF FilesType
<1>5. n \in DOMAIN d /\ d[n] = [data |-> x, index |-> y]
      BY <1>1, <1>2, <1>3, <1>4 DEF Old
<1>6. PICK e : e = Entry(i) /\ e = [index |-> i, value |-> writes + 1]
      BY DEF Entry
<1> e \in EntryType /\ e.index = i
  <2>1. writes + 1 \in Nat \ {0}
        OBVIOUS
  <2> QED  BY <1>6, <2>1 DEF EntryType
<1>7. Old(i).data = x /\ Old(i).index = y
      BY <1>4
<1>8. PICK s : s = NewSlot(i) /\ s = [index |-> i, pos |-> Len(x)]
      BY <1>7 DEF NewSlot
<1> s \in SlotType
  <2>1. Len(x) \in Nat
        OBVIOUS
  <2> QED  BY <1>8, <2>1 DEF SlotType
<1>9. DataWritten(i) = [d EXCEPT ![n].data = Append(@, e)]
      BY <1>1, <1>2, <1>3, <1>6 DEF DataWritten, WithData
<1>10. DataWritten(i) = [d EXCEPT ![n] = [data |-> Append(x, e), index |-> y]]
  <2>1. [d[n] EXCEPT !.data = Append(x, e)] = [data |-> Append(x, e), index |-> y]
    <3>1. PICK r : r = d[n]
          OBVIOUS
    <3>2. r = [data |-> x, index |-> y]
          BY <3>1, <1>5
    <3>3. [r EXCEPT !.data = Append(x, e)] = [data |-> Append(x, e), index |-> y]
          BY <3>2, DataReplaced
    <3> QED  BY <3>1, <3>3, Zenon
  <2>2. [d EXCEPT ![n].data = Append(@, e)]
          = [d EXCEPT ![n] = [d[n] EXCEPT !.data = Append(d[n].data, e)]]
        OBVIOUS
  <2>3. d[n].data = x
        BY <1>5
  <2> QED  BY <2>1, <2>2, <2>3, <1>9, Zenon
<1>11. PICK w : w = DataWritten(i)
       OBVIOUS
<1>12. n \in DOMAIN w /\ w[n] = [data |-> Append(x, e), index |-> y]
       BY <1>5, <1>10, <1>11
<1>13. Len(Append(x, e)) - 1 = Len(x)
       OBVIOUS
<1>14. Written(i) = [w EXCEPT ![n].index = IF at < Len(@) THEN [@ EXCEPT ![at + 1] = s]
                                           ELSE Append(@, s)]
  <2>1. s = [index |-> e.index, pos |-> Len(w[n].data) - 1]
        BY <1>6, <1>8, <1>12, <1>13
  <2> QED  BY <2>1, <1>1, <1>2, <1>6, <1>11 DEF Written, WithIndex
<1>15. PICK z : z = NewIndex(i) /\ z = IF at < Len(y) THEN [y EXCEPT ![at + 1] = s] ELSE Append(y, s)
       BY <1>1, <1>2, <1>7, <1>8 DEF NewIndex
<1>16. Written(i) = [w EXCEPT ![n] = [data |-> Append(x, e), index |-> z]]
  <2> DEFINE F(b) == IF at < Len(b) THEN [b EXCEPT ![at + 1] = s] ELSE Append(b, s)
  <2>1. w[n].index = y
        BY <1>12
  <2>2. Written(i) = [w EXCEPT ![n].index = F(@)] /\ F(y) = z
        BY <1>14, <1>15, Zenon
  <2>3. [w[n] EXCEPT !.index = z] = [data |-> Append(x, e), index |-> z]
    <3>1. PICK r : r = w[n]
          OBVIOUS
    <3>2. r = [data |-> Append(x, e), index |-> y]
          BY <3>1, <1>12
    <3>3. [r EXCEPT !.index = z] = [data |-> Append(x, e), index |-> z]
          BY <3>2, IndexReplaced
    <3> QED  BY <3>1, <3>3, Zenon
  <2> HIDE DEF F
  <2>4. [w EXCEPT ![n].index = F(@)] = [w EXCEPT ![n] = [w[n] EXCEPT !.index = F(w[n].index)]]
        OBVIOUS
  <2> QED  BY <2>1, <2>2, <2>3, <2>4, Zenon
<1>17. Written(i) = [d EXCEPT ![n] = [data |-> Append(x, e), index |-> z]]
       BY <1>5, <1>10, <1>11, <1>16
<1>18. AfterWrite(t, e) = [name |-> n, start |-> IF t.start = 0 THEN i ELSE t.start,
                           last |-> i, at |-> at + 1]
       BY <1>2, AfterWriteIs, Zenon
<1> QED  BY <1>1, <1>2, <1>3, <1>6, <1>7, <1>8, <1>10, <1>15, <1>17, <1>18

-----------------------------------------------------------------------------
(* One file, whose entries may be rewritten.                                *)

OneFileInv ==
    use = {"rewrite"} /\ writes <= maxSize =>
        /\ segments = {}
        /\ last \in Nat /\ owed \in Nat
        /\ IF writes = 0
           THEN current = Closed /\ DOMAIN disk = {} /\ last = 0 /\ owed = 0
           ELSE /\ IsOpen(current) /\ Sound(current)
                /\ Len(Data(current)) = writes
                /\ Len(Index(current)) = writes /\ current.at = writes
                /\ current.start = Data(current)[1].index
                /\ current.last = Data(current)[writes].index /\ last = current.last
                /\ \A k \in 1..writes :
                      Index(current)[k] = [index |-> Data(current)[k].index, pos |-> k - 1]

Counted == setting \in Settings /\ writes \in Nat /\ restarts \in Nat

\* What every mode of use has in common.
LEMMA CountedInit == Init => Counted
BY DEF Init, Counted

LEMMA CountedNext == Counted /\ [Next]_vars => Counted'
<1> SUFFICES ASSUME Counted, [Next]_vars PROVE Counted'
    OBVIOUS
<1>1. setting' = setting
      BY DEF Next, WriteEntry, Read, Restart, Crash, DropPrefix, DropSuffix, Clear,
             vars, history
<1>2. writes' \in {writes, writes + 1} /\ restarts' \in {restarts, restarts + 1}
      BY DEF Next, WriteEntry, Read, Restart, Crash, DropPrefix, DropSuffix, Clear,
             vars, history
<1> QED  BY <1>1, <1>2 DEF Counted

LEMMA OneFileInit == Init => OneFileInv
BY DEF Init, OneFileInv, Closed

\* The next record of the file, and the next slot of its index.
LEMMA OneFileWrite ==
    ASSUME Counted, OneFileInv, use = {"rewrite"}, writes + 1 <= maxSize, WriteEntry
    PROVE  OneFileInv'
<1> DEFINE i == IF owed # 0 THEN owed ELSE last + 1
           e == Entry(i)
           n == Target(i).name
           old == IF writes = 0 THEN NoFiles ELSE disk[n]
           new == [data |-> Append(old.data, e),
                   index |-> Append(old.index, [index |-> i, pos |-> writes])]
<1>0. writes \in Nat /\ maxSize \in Nat
      BY FilelogSettings DEF Counted, maxSize
<1>1. writes <= maxSize
      BY <1>0
<1>2. last \in Nat /\ owed \in Nat /\ i \in Nat \ {0} /\ segments = {}
      BY <1>0, <1>1 DEF OneFileInv
<1>3. e = [index |-> i, value |-> writes + 1] /\ e \in EntryType /\ e.index = i
      BY <1>0, <1>2 DEF Entry, EntryType
<1>4. /\ n \in Nat \ {0} /\ n \in DOMAIN Created(disk, n)
      /\ Created(disk, n)[n] = old
      /\ old.data \in Seq(EntryType) /\ old.index \in Seq(SlotType)
      /\ Len(old.data) = writes /\ Len(old.index) = writes /\ Target(i).at = writes
      /\ old = [data |-> old.data, index |-> old.index]
      /\ Target(i) \in FileType
  <2>1. CASE writes = 0
    <3>1. current = Closed /\ DOMAIN disk = {} /\ ~IsOpen(current)
          BY <1>1, <2>1 DEF OneFileInv, IsOpen, Closed
    <3>2. Target(i) = Opened(Created(disk, i), i)
          BY <3>1 DEF Target
    <3>3. /\ DOMAIN Created(disk, i) = {i} /\ Created(disk, i)[i] = NoFiles
          BY <3>1 DEF Created
    <3>4. Target(i) = [name |-> i, start |-> 0, last |-> 0, at |-> 0]
          BY <3>2, <3>3 DEF Opened, NoFiles
    <3>5. old = NoFiles /\ n = i
          BY <2>1, <3>4
    <3> QED  BY <3>3, <3>4, <3>5, <2>1, <1>2 DEF NoFiles, FileType
  <2>2. CASE writes # 0
    <3>1. IsOpen(current) /\ Sound(current) /\ Target(i) = current /\ old = disk[n]
          BY <1>1, <2>2 DEF OneFileInv, Target
    <3>2. n = current.name /\ n \in DOMAIN disk /\ Created(disk, n) = disk
          BY <3>1 DEF Sound, Created
    <3>3. disk[n] \in FilesType /\ current \in FileType /\ n # 0
          BY <3>1, <3>2 DEF Sound, IsOpen
    <3>4. Len(disk[n].data) = writes /\ Len(disk[n].index) = writes /\ current.at = writes
          BY <3>1, <3>2, <2>2, <1>1 DEF OneFileInv, Data, Index
    <3> HIDE DEF old, n
    <3>5. old = [data |-> old.data, index |-> old.index]
          BY <3>1, <3>3 DEF FilesType
    <3>6. old.data \in Seq(EntryType) /\ old.index \in Seq(SlotType) /\ n \in Nat
          BY <3>1, <3>2, <3>3 DEF FilesType, FileType
    <3> QED  BY <3>1, <3>2, <3>3, <3>4, <3>5, <3>6
  <2> QED  BY <2>1, <2>2
<1>5. /\ Old(i) = old /\ Old(i) \in FilesType
      /\ NewIndex(i) = new.index
      BY <1>0, <1>4 DEF Old, FilesType, NewIndex, NewSlot
<1>6. /\ n \in DOMAIN Written(i) /\ Written(i)[n] = new
      /\ Len(new.data) = writes + 1 /\ Len(new.index) = writes + 1
      /\ new \in FilesType
  <2>1. [index |-> i, pos |-> writes] \in SlotType
        BY <1>0, <1>2 DEF SlotType
  <2>2. Written(i) = [Created(disk, n) EXCEPT ![n] = new]
        BY <1>0, <1>2, <1>4, <1>5, WriteOne
  <2>3. n \in DOMAIN Written(i) /\ Written(i)[n] = new
        BY <2>2, <1>4
  <2> QED  BY <2>1, <2>3, <1>3, <1>4 DEF FilesType
<1> DEFINE f == AfterWrite(Target(i), e)
<1>7. /\ f \in FileType /\ f.name = n /\ f.last = i /\ f.at = writes + 1
      /\ f.start = IF Target(i).start = 0 THEN i ELSE Target(i).start
  <2>1. f = [name |-> n, start |-> IF Target(i).start = 0 THEN i ELSE Target(i).start,
             last |-> i, at |-> Target(i).at + 1]
        BY <1>0, <1>2, <1>4, <1>5, WriteOne
  <2>2. Target(i).at \in Nat /\ Target(i).start \in Nat /\ n \in Nat
        BY <1>4 DEF FileType
  <2> QED  BY <2>1, <2>2, <1>2, <1>4 DEF FileType
<1>8. /\ disk' = Written(i) /\ current' = f /\ segments' = segments
      /\ last' = i /\ owed' = 0 /\ writes' = writes + 1 /\ setting' = setting
  <2>1. ~(Len(Written(i)[f.name].data) > maxSize)
        BY <1>6, <1>7, <1>0
  <2> QED  BY <2>1 DEF WriteEntry, Write
<1>9. f.start = new.data[1].index
  <2>1. CASE writes = 0
    <3>1. Target(i).start = 0
          BY <2>1, <1>1, <1>2, FilelogSettings DEF OneFileInv, IsOpen, Closed, Target,
             Opened, Created, NoFiles
    <3> QED  BY <2>1, <3>1, <1>3, <1>4, <1>7
  <2>2. CASE writes # 0
    <3>1. Target(i) = current /\ old = disk[n]
          BY <1>1, <2>2 DEF OneFileInv, Target
    <3>2. Target(i).start = old.data[1].index
          BY <1>1, <2>2, <3>1 DEF OneFileInv, Data
    <3>3. 1 \in 1..Len(old.data) /\ new.data[1] = old.data[1] /\ old.data[1] \in EntryType
          BY <1>0, <1>3, <1>4, <2>2
    <3> QED  BY <3>2, <3>3, <1>7 DEF EntryType
  <2> QED  BY <2>1, <2>2
<1>10. \A k \in 1..writes + 1 : new.index[k] = [index |-> new.data[k].index, pos |-> k - 1]
  <2> SUFFICES ASSUME NEW k \in 1..writes + 1
               PROVE  new.index[k] = [index |-> new.data[k].index, pos |-> k - 1]
      OBVIOUS
  <2>1. CASE k = writes + 1
        BY <2>1, <1>0, <1>3, <1>4
  <2>2. CASE k # writes + 1
    <3>1. k \in 1..writes /\ writes # 0
          BY <2>2, <1>0
    <3>2. new.index[k] = old.index[k] /\ new.data[k] = old.data[k]
          BY <3>1, <1>3, <1>4
    <3>3. old = disk[current.name]
          BY <3>1, <1>1 DEF OneFileInv, Target
    <3>4. Index(current)[k] = [index |-> Data(current)[k].index, pos |-> k - 1]
          BY <3>1, <1>1 DEF OneFileInv
    <3> QED  BY <3>2, <3>3, <3>4 DEF Data, Index
  <2> QED  BY <2>1, <2>2
<1>11. new.data[writes + 1].index = i
       BY <1>0, <1>3, <1>4
<1>12. IsOpen(f) /\ writes + 1 # 0 /\ writes + 1 \in Nat
       BY <1>0, <1>4, <1>7 DEF IsOpen
<1> HIDE DEF new, f, n, i, e
<1>13. /\ IsOpen(current)' /\ Sound(current)'
       /\ Data(current)' = new.data /\ Index(current)' = new.index
  <2>1. disk'[current'.name] = new
        BY <1>6, <1>7, <1>8
  <2> QED  BY <2>1, <1>6, <1>7, <1>8, <1>12 DEF Sound, IsOpen, Data, Index
<1> QED  BY <1>2, <1>6, <1>7, <1>8, <1>9, <1>10, <1>11, <1>12, <1>13 DEF OneFileInv

LEMMA OneFileNext == Counted /\ OneFileInv /\ [Next]_vars => OneFileInv'
<1> SUFFICES ASSUME Counted, OneFileInv, [Next]_vars, use' = {"rewrite"}, writes' <= maxSize'
             PROVE  OneFileInv'
    BY DEF OneFileInv
<1>1. setting' = setting /\ writes' \in {writes, writes + 1} /\ writes \in Nat
      BY DEF Next, WriteEntry, Read, Restart, Crash, DropPrefix, DropSuffix, Clear,
             vars, history, Counted
<1>2. use = {"rewrite"} /\ writes <= maxSize /\ maxSize \in Nat /\ maxSize' = maxSize
      BY <1>1, FilelogSettings DEF Counted, use, maxSize
<1>3. CASE WriteEntry
  <2>1. writes' = writes + 1
        BY <1>3 DEF WriteEntry
  <2> QED  BY <2>1, <1>2, <1>3, OneFileWrite
<1>4. CASE Read
      BY <1>2, <1>4, <1>1 DEF Read, OneFileInv, IsOpen, Closed, Sound, FileType, Data, Index, history
<1>5. CASE DropSuffix
  <2>1. /\ segments = {} /\ last \in Nat
        BY <1>2 DEF OneFileInv
  <2>2. PICK i \in 1..last : TruncateSuffix(i) /\ owed' = i /\ UNCHANGED <<setting, writes>>
        BY <1>5 DEF DropSuffix
  <2>3. /\ disk' = Removed(disk, {}) /\ segments' = segments
        /\ UNCHANGED <<current, last>>
        BY <2>1, <2>2, Zenon DEF TruncateSuffix
  <2>4. DOMAIN disk' = DOMAIN disk /\ \A n \in DOMAIN disk : disk'[n] = disk[n]
        BY <2>3 DEF Removed
  <2>5. CASE writes = 0
        BY <2>1, <2>2, <2>5, <1>2 DEF OneFileInv
  <2>6. CASE writes # 0
    <3>1. Sound(current) /\ disk'[current.name] = disk[current.name]
          BY <2>4, <2>6, <1>2 DEF OneFileInv, Sound
    <3>2. /\ Sound(current)' /\ IsOpen(current)' = IsOpen(current)
          /\ Data(current)' = Data(current) /\ Index(current)' = Index(current)
          BY <3>1, <2>3, <2>4 DEF Sound, Data, Index, IsOpen
    <3> QED  BY <3>2, <2>1, <2>2, <2>3, <2>6, <1>2 DEF OneFileInv
  <2> QED  BY <2>5, <2>6
<1>6. CASE Restart \/ Crash \/ DropPrefix \/ Clear
      BY <1>2, <1>6 DEF Restart, Crash, DropPrefix, Clear
<1>7. CASE UNCHANGED vars
      BY <1>7 DEF vars, state, history, OneFileInv, use, maxSize, Sound, Data, Index, IsOpen
<1> QED  BY <1>3, <1>4, <1>5, <1>6, <1>7 DEF Next

\* With no closed segment the reading calls read the current file.
LEMMA ReadCurrent ==
    ASSUME segments = {}, NEW i, NEW count
    PROVE  GetEntries(i, count) = ReadFile(current, ReadFrom(i, count))
<1>1. IsFiniteSet(segments) /\ Apart(segments) /\ \A f \in segments : f.start \in Nat
      BY FS_EmptySet DEF Apart
<1>2. PICK n \in Nat :
        /\ Len(FilesInOrder) = n + 1 /\ FilesInOrder[n + 1] = current
        /\ \A k \in 1..n : FilesInOrder[k] \in segments
      BY <1>1, FilesLine
<1>3. n = 0
  <2>1. ASSUME n # 0 PROVE FALSE
    <3>1. 1 \in 1..n
          BY <2>1
    <3> QED  BY <3>1, <1>2
  <2> QED  BY <2>1
<1>4. Len(FilesInOrder) = 1 /\ FilesInOrder[1] = current
      BY <1>2, <1>3
<1>5. PICK a :
        /\ a[0] = ReadFrom(i, count)
        /\ \A k \in 1..1 : a[k] = ReadFile(FilesInOrder[k], a[k - 1])
        /\ GetEntries(i, count) = a[1]
      BY <1>4, EntriesByFile
<1>6. a[1] = ReadFile(FilesInOrder[1], a[1 - 1]) /\ 1 - 1 = 0
      BY <1>5
<1> QED  BY <1>4, <1>5, <1>6, Zenon

LEMMA OneFileAgrees == Counted /\ OneFileInv => AgreesWithSegmentLog
<1> SUFFICES ASSUME Counted, OneFileInv, use = {"rewrite"}, writes <= maxSize
             PROVE  AgreesWithSegmentLog
    BY DEF AgreesWithSegmentLog
<1>1. segments = {} /\ last \in Nat /\ writes \in Nat /\ LogStart = current.start
      BY DEF OneFileInv, Counted, LogStart
<1>2. /\ Records \in Seq(EntryType) /\ Len(Records) = writes
      /\ last = OneFile!LastIndex(Records) /\ LogStart = OneFile!LogStart(Records)
      /\ \A i \in Nat \ {0} : OneFile!Holds(Records, i) <=> Holds(current, i)
  <2>1. CASE writes = 0
    <3>1. current = Closed /\ last = 0 /\ Records = <<>> /\ ~IsOpen(current)
          BY <2>1 DEF OneFileInv, Records, IsOpen, Closed
    <3> QED  BY <3>1, <2>1, <1>1 DEF OneFile!LastIndex, OneFile!LogStart, OneFile!Holds,
                Holds, Closed
  <2>2. CASE writes # 0
    <3>1. /\ IsOpen(current) /\ Sound(current) /\ Records = Data(current)
          /\ Len(Records) = writes
          /\ current.start = Records[1].index /\ last = Records[writes].index
          /\ current.last = last
          BY <2>2 DEF OneFileInv, Records, Data
    <3>2. Records \in Seq(EntryType) /\ Records # <<>>
          BY <3>1, <2>2 DEF Sound, FilesType, Data
    <3> QED  BY <3>1, <3>2, <1>1 DEF OneFile!LastIndex, OneFile!LogStart, OneFile!Holds, Holds
  <2> QED  BY <2>1, <2>2
<1>3. ASSUME NEW i \in 1..last + 1, NEW n \in 1..3
      PROVE  /\ OneFile!Throws(Records, i) <=> GetEntries(i, n).threw
             /\ OneFile!Throws(Records, i) <=> GetEntry(i).threw
             /\ ~OneFile!Throws(Records, i) =>
                  /\ GetEntries(i, n).entries = OneFile!GetEntries(Records, i, n)
                  /\ IF GetEntry(i).entries = <<>>
                     THEN OneFile!GetEntry(Records, i) = OneFile!NoEntry
                     ELSE GetEntry(i).entries[1] = OneFile!GetEntry(Records, i)
  <2> DEFINE all == ReadFile(current, ReadFrom(i, n))
             one == ReadFile(current, ReadFrom(i, 1))
  <2>1. GetEntries(i, n) = all
        BY <1>1, ReadCurrent
  <2>2. i \in Nat \ {0}
        BY <1>1
  <2>3. CASE ~Holds(current, i)
    <3>1. all = ReadFrom(i, n)
          BY <2>3, ReadPasses DEF ReadFrom
    <3>2. GetEntry(i) = [entries |-> <<>>, threw |-> FALSE]
          BY <2>3, <1>1 DEF GetEntry
    <3>3. ~OneFile!Holds(Records, i)
          BY <1>2, <2>2, <2>3
    <3>4. /\ ~OneFile!Throws(Records, i)
          /\ OneFile!GetEntries(Records, i, n) = <<>>
          /\ OneFile!GetEntry(Records, i) = OneFile!NoEntry
          BY <3>3 DEF OneFile!Throws, OneFile!GetEntries, OneFile!GetEntry
    <3>5. GetEntries(i, n).entries = <<>> /\ GetEntries(i, n).threw = FALSE
          BY <2>1, <3>1 DEF ReadFrom
    <3> QED  BY <3>2, <3>4, <3>5
  <2>4. CASE Holds(current, i)
    <3>1. writes # 0
          BY <2>4 DEF OneFileInv, Holds, IsOpen, Closed
    <3>2. /\ IsOpen(current) /\ Sound(current) /\ Records = Data(current)
          /\ current.start = Records[1].index
          /\ Len(Index(current)) = writes
          /\ \A k \in 1..writes :
                Index(current)[k] = [index |-> Records[k].index, pos |-> k - 1]
          BY <3>1 DEF OneFileInv, Records, Data
    <3> DEFINE k == OneFile!Slot(Records, i)
    <3>3. OneFile!Holds(Records, i)
          BY <1>2, <2>2, <2>4
    <3>4. k = i - current.start + 1 /\ k \in Int /\ current.start \in Nat /\ k >= 1
      <4>1. Records # <<>> /\ Records[1] \in EntryType
            BY <1>2, <3>1
      <4>2. current.start \in Nat /\ current.start <= i
            BY <3>2, <4>1, <2>4 DEF EntryType, Holds
      <4> QED  BY <4>1, <4>2, <3>2, <2>2 DEF OneFile!Slot, OneFile!LogStart
    <3>5. OneFile!Throws(Records, i) <=> k \notin 1..writes \/ Records[k].index # i
          BY <1>2, <3>3 DEF OneFile!Throws
    <3>6. GetEntry(i) = [entries |-> one.entries, threw |-> one.threw \/ one.entries = <<>>]
      <4>1. (CHOOSE f \in {current} : \A g \in {current} : f.start <= g.start) = current
            BY <3>4
      <4>2. {current} # {}
            OBVIOUS
      <4> QED  BY <2>4, <4>1, <4>2, Zenon DEF GetEntry
    <3>7. /\ ReadFrom(i, n) \in ReadType /\ ReadFrom(i, 1) \in ReadType
          /\ \A c : /\ ReadFrom(i, c).next = i /\ ReadFrom(i, c).left = c
                    /\ ReadFrom(i, c).entries = <<>> /\ ReadFrom(i, c).threw = FALSE
          BY <2>2 DEF ReadFrom, ReadType
    <3> HIDE DEF k
    <3>8. CASE OneFile!Throws(Records, i)
      <4>1. k # 1 /\ (k \notin 1..writes \/ Records[k].index # i)
        <5>1. k = 1 => Records[k].index = i
              BY <3>2, <3>4, <2>2
        <5>2. 1 \in 1..writes
              BY <3>1, <1>1
        <5> QED  BY <5>1, <5>2, <3>5, <3>8
      <4>2. Lookup(current, i) = -1
        <5>1. ~(k \in 1..Len(Index(current)) /\ Index(current)[k].index = i)
              BY <4>1, <3>2
        <5> QED  BY <5>1, <4>1, <3>4 DEF Lookup, Index
      <4>3. all = [ReadFrom(i, n) EXCEPT !.threw = TRUE]
            BY <4>2, <2>4, <3>7, ReadThrows
      <4>4. one = [ReadFrom(i, 1) EXCEPT !.threw = TRUE]
            BY <4>2, <2>4, <3>7, ReadThrows
      <4>5. all.threw = TRUE /\ one.threw = TRUE
            BY <4>3, <4>4 DEF ReadFrom
      <4>6. GetEntry(i).threw = TRUE
        <5>1. (one.threw \/ one.entries = <<>>) = TRUE
              BY <4>5
        <5> HIDE DEF one
        <5>2. GetEntry(i) = [entries |-> one.entries, threw |-> TRUE]
              BY <5>1, <3>6, Zenon
        <5> QED  BY <5>2
      <4> QED  BY <4>5, <4>6, <2>1, <3>8, Zenon
    <3>9. CASE ~OneFile!Throws(Records, i)
      <4>1. k \in 1..writes /\ Records[k].index = i
            BY <3>5, <3>9
      <4>2. PICK o \in Nat : o = k - 1
            BY <3>4
      <4>3. Lookup(current, i) = o
        <5>1. k \in 1..Len(Index(current)) /\ Index(current)[k].index = i
              /\ Index(current)[k].pos = o
              BY <4>1, <4>2, <3>2
        <5> QED  BY <5>1, <4>2, <3>4 DEF Lookup, Index
      <4> DEFINE end(c) == IF Len(Data(current)) <= o + c THEN Len(Data(current)) ELSE o + c
                 got(c) == SubSeq(Data(current), o + 1, end(c))
      <4>4. ASSUME NEW c \in Nat \ {0}
            PROVE  /\ ReadFile(current, ReadFrom(i, c)).entries = got(c)
                   /\ ReadFile(current, ReadFrom(i, c)).threw = FALSE
        <5>1. PICK r \in ReadType : r = ReadFrom(i, c) /\ r.next = i /\ r.left = c
                                   /\ r.entries = <<>> /\ ~r.threw
          <6>1. ReadFrom(i, c) \in ReadType
                BY <2>2, EmptySeq DEF ReadFrom, ReadType
          <6> QED  BY <6>1, <3>7
        <5>2. Holds(current, r.next) /\ Lookup(current, r.next) = o /\ r.left # 0
              BY <5>1, <2>4, <4>3
        <5>3. ReadFile(current, r) =
                LET end1 == IF Len(Data(current)) <= o + r.left THEN Len(Data(current))
                            ELSE o + r.left
                    got1 == SubSeq(Data(current), o + 1, end1)
                IN  [next |-> r.next + Len(got1), left |-> r.left - Len(got1),
                     entries |-> r.entries \o got1, threw |-> FALSE]
              BY <5>1, <5>2, <3>2, ReadGets
        <5>4. PICK g : g = got(c)
              OBVIOUS
        <5>5. ReadFile(current, r) = [next |-> r.next + Len(g), left |-> r.left - Len(g),
                                      entries |-> r.entries \o g, threw |-> FALSE]
              BY <5>1, <5>3, <5>4, Zenon
        <5>6. g \in Seq(EntryType)
          <6>1. /\ Data(current) \in Seq(EntryType) /\ end(c) \in Int /\ o + 1 \in Nat \ {0}
                /\ end(c) <= Len(Data(current))
                BY <3>2, <1>2
          <6> HIDE DEF end
          <6>2. \A q \in o + 1 .. end(c) : Data(current)[q] \in EntryType
                BY <6>1
          <6> QED  BY <6>1, <6>2, <5>4, SubSeqProperties
        <5>7. r.entries \o g = g
              BY <5>1, <5>6, ConcatEmptySeq, Zenon
        <5> HIDE DEF got
        <5> QED  BY <5>1, <5>4, <5>5, <5>7
      <4>5. got(1) = <<Records[k]>>
        <5>1. end(1) = k /\ o + 1 = k
              BY <4>1, <4>2, <3>2, <1>2
        <5>2. SubSeq(Records, k, k) = <<Records[k]>>
          <6>1. /\ SubSeq(Records, k, k) \in Seq(EntryType)
                /\ Len(SubSeq(Records, k, k)) = 1 /\ SubSeq(Records, k, k)[1] = Records[k]
                BY <4>1, <1>2
          <6>2. <<Records[k]>> \in Seq(EntryType) /\ Len(<<Records[k]>>) = 1
                BY <4>1, <1>2
          <6>3. \A q \in 1..1 : SubSeq(Records, k, k)[q] = <<Records[k]>>[q]
                BY <6>1
          <6> QED  BY <6>1, <6>2, <6>3, SeqEqual
        <5> QED  BY <5>1, <5>2, <3>2, Zenon
      <4>6. got(n) = OneFile!GetEntries(Records, i, n)
        <5>1. o + 1 = k /\ k \in Int
              BY <4>1, <4>2
        <5>2. end(n) = IF n < 0 \/ k + n - 1 > Len(Records) THEN Len(Records) ELSE k + n - 1
              BY <4>1, <4>2, <3>2, <1>2
        <5>3. OneFile!GetEntries(Records, i, n) =
                SubSeq(Records, k, IF n < 0 \/ k + n - 1 > Len(Records)
                                   THEN Len(Records) ELSE k + n - 1)
          <6>1. ~(n = 0 \/ ~OneFile!Holds(Records, i))
                BY <3>3
          <6> QED  BY <6>1, Zenon DEF OneFile!GetEntries, k
        <5> QED  BY <5>1, <5>2, <5>3, <3>2, Zenon
      <4>7. OneFile!GetEntry(Records, i) = Records[k]
            BY <3>3 DEF OneFile!GetEntry, k
      <4>8. /\ all.entries = got(n) /\ all.threw = FALSE
            /\ one.entries = got(1) /\ one.threw = FALSE
        <5>1. n \in Nat \ {0} /\ 1 \in Nat \ {0}
              OBVIOUS
        <5> HIDE DEF got
        <5> QED  BY <4>4, <5>1
      <4> HIDE DEF all, one, got
      <4>9. GetEntry(i).entries = <<Records[k]>> /\ GetEntry(i).threw = FALSE
        <5>1. one.entries = <<Records[k]>> /\ (one.threw \/ one.entries = <<>>) = FALSE
          <6>1. <<Records[k]>> # <<>>
                OBVIOUS
          <6> QED  BY <4>8, <4>5, <6>1
        <5>2. GetEntry(i) = [entries |-> <<Records[k]>>, threw |-> FALSE]
              BY <5>1, <3>6, Zenon
        <5> QED  BY <5>2
      <4>10. <<Records[k]>> # <<>> /\ <<Records[k]>>[1] = Records[k]
             OBVIOUS
      <4> QED  BY <4>6, <4>7, <4>8, <4>9, <4>10, <2>1, <3>9, Zenon
    <3> QED  BY <3>8, <3>9
  <2> QED  BY <2>3, <2>4
<1> QED  BY <1>2, <1>3 DEF AgreesWithSegmentLog

\* AgreesWithSegmentLog: while one file is open, it is what SegmentLog says of
\* it, also when truncated entries stay in it and are written again behind.
THEOREM FilelogAgreesWithSegmentLog == Spec => []AgreesWithSegmentLog
<1>1. Init => Counted /\ OneFileInv
      BY CountedInit, OneFileInit
<1>2. Counted /\ OneFileInv /\ [Next]_vars => Counted' /\ OneFileInv'
      BY CountedNext, OneFileNext
<1> QED  BY <1>1, <1>2, OneFileAgrees, PTL DEF Spec

-----------------------------------------------------------------------------
(* Before the first restart, if entries of the open segment are not          *)
(* rewritten: the files hold consecutive entries, one file after the other.  *)

\* Closed has no files; the data and the index of an open file.
OpenFiles == {f \in Files : IsOpen(f)}
End(f) == f.name + Len(Data(f))

\* The entry that is written next, and the first one that has not been cut.
NextIndex == IF owed # 0 THEN owed ELSE last + 1
First == NextIndex - Len(acked)

PlainTypes ==
    /\ disk \in [DOMAIN disk -> FilesType]
    /\ last \in Nat /\ owed \in Nat /\ acked \in Seq(EntryType)
    /\ Len(acked) <= writes
    /\ IsFiniteSet(segments)
    /\ current \in FileType
    /\ \A f \in OpenFiles : Sound(f)

\* acked is consecutive.
Numbered ==
    /\ First >= 1
    /\ \A k \in DOMAIN acked : acked[k].index = First + k - 1

\* The disk has the files of the open segments and no other.
OnDisk ==
    /\ DOMAIN disk = {f.name : f \in OpenFiles}
    /\ \A f \in segments : IsOpen(f)
    /\ ~IsOpen(current) => current = Closed /\ segments = {} /\ acked = <<>>

\* A file is named after its first entry and has those that follow it.  The
\* offsets in its index are right as long as it has not been cut.
Slice(f) ==
    /\ First <= f.name
    /\ \A q \in 1..Len(Data(f)) : Data(f)[q] = acked[f.name - First + q]
    /\ Len(Index(f)) = Len(Data(f)) /\ f.at = Len(Index(f))
    /\ \A q \in 1..Len(Data(f)) :
          /\ Index(f)[q].index = f.name + q - 1
          /\ f.name \notin cut => Index(f)[q].pos = q - 1

\* A closed segment is not empty, and comes before the open one.
ClosedFits(f) ==
    /\ f.name < current.name
    /\ Len(Data(f)) > 0
    /\ f.start = f.name
    /\ f.last = End(f) - 1

\* After truncate_suffix the open one remembers too large a last index, until
\* it is written to.
CurrentFits ==
    IsOpen(current) =>
        /\ End(current) = NextIndex
        /\ IF owed = 0 /\ Len(Data(current)) = 0
           THEN current.start = 0 /\ current.last = 0
           ELSE current.start = current.name
        /\ owed = 0 /\ Len(Data(current)) > 0 => current.last = End(current) - 1
        /\ owed # 0 => End(current) - 1 <= current.last

\* The files do not overlap and leave no gap.
Tiled ==
    /\ \A f, g \in OpenFiles :
          /\ f.name = g.name => f = g
          /\ f.name < g.name => End(f) <= g.name
    /\ \A k \in First .. NextIndex - 1 : \E f \in OpenFiles : f.name <= k /\ k < End(f)

Sliced ==
    /\ PlainTypes /\ Numbered /\ OnDisk /\ CurrentFits /\ Tiled
    /\ \A f \in OpenFiles : Slice(f)
    /\ \A f \in segments : ClosedFits(f)

Plain == "rewrite" \notin use /\ restarts = 0
PlainInv == Plain => Sliced

\* What is used of it again and again.
LEMMA SlicedFacts ==
    ASSUME Sliced
    PROVE  /\ NextIndex \in Nat \ {0} /\ First \in Nat \ {0} /\ First <= NextIndex
           /\ Len(acked) = NextIndex - First
           /\ \A f \in OpenFiles :
                 /\ f \in FileType /\ f.name \in Nat \ {0} /\ f.name \in DOMAIN disk
                 /\ Data(f) \in Seq(EntryType) /\ Index(f) \in Seq(SlotType)
                 /\ Len(Data(f)) \in Nat /\ End(f) \in Nat
                 /\ First <= f.name /\ f.name <= End(f) /\ End(f) <= NextIndex
                 /\ f # current => f \in segments
                 /\ Len(Data(f)) = 0 => f = current
                 /\ Len(Data(f)) > 0 => f.start = f.name
                 /\ owed = 0 /\ Len(Data(f)) > 0 => f.last = End(f) - 1
           /\ \A f \in segments : f \in OpenFiles
           /\ IsOpen(current) => current \in OpenFiles
<1>1. last \in Nat /\ owed \in Nat /\ Len(acked) \in Nat
      BY DEF Sliced, PlainTypes
<1>2. NextIndex \in Nat \ {0} /\ First \in Int /\ First >= 1
      BY <1>1 DEF NextIndex, First, Sliced, Numbered
<1>3. Len(acked) = NextIndex - First /\ First <= NextIndex
      BY <1>1, <1>2 DEF First
<1>4. \A f \in segments : f \in OpenFiles
      BY DEF Sliced, OnDisk, OpenFiles, Files
<1>5. IsOpen(current) => current \in OpenFiles
      BY DEF OpenFiles, Files
<1>6. ASSUME NEW f \in OpenFiles
      PROVE  /\ f \in FileType /\ f.name \in Nat \ {0} /\ f.name \in DOMAIN disk
             /\ Data(f) \in Seq(EntryType) /\ Index(f) \in Seq(SlotType)
             /\ Len(Data(f)) \in Nat /\ End(f) \in Nat
             /\ First <= f.name /\ f.name <= End(f) /\ End(f) <= NextIndex
             /\ f # current => f \in segments
             /\ Len(Data(f)) = 0 => f = current
             /\ Len(Data(f)) > 0 => f.start = f.name
             /\ owed = 0 /\ Len(Data(f)) > 0 => f.last = End(f) - 1
  <2>1. /\ f \in FileType /\ f.name \in DOMAIN disk
        /\ disk[f.name] \in FilesType /\ IsOpen(f)
        BY DEF Sliced, PlainTypes, Sound, OpenFiles
  <2>2. Data(f) \in Seq(EntryType) /\ Index(f) \in Seq(SlotType) /\ f.name \in Nat \ {0}
        BY <2>1 DEF FilesType, FileType, Data, Index, IsOpen
  <2>3. Len(Data(f)) \in Nat /\ End(f) \in Nat /\ f.name <= End(f) /\ First <= f.name
        BY <2>2 DEF End, Sliced, Slice
  <2>4. f # current => f \in segments
        BY DEF OpenFiles, Files
  <2>5. CASE f = current
    <3>1. IsOpen(current)
          BY <2>1, <2>5
    <3> QED  BY <2>1, <2>2, <2>3, <2>4, <2>5, <3>1 DEF Sliced, CurrentFits
  <2>6. CASE f # current
    <3>1. ClosedFits(f) /\ IsOpen(current) /\ current \in OpenFiles
          BY <2>4, <2>6, <1>5 DEF Sliced, OnDisk
    <3>2. End(f) <= current.name
          BY <3>1 DEF Sliced, Tiled, ClosedFits
    <3>3. current.name \in Nat /\ Len(Data(current)) \in Nat /\ End(current) = NextIndex
      <4>1. Sound(current)
            BY <3>1 DEF Sliced, PlainTypes
      <4> QED  BY <4>1, <3>1 DEF Sliced, CurrentFits, Sound, FileType, FilesType, Data
    <3>4. current.name <= NextIndex
          BY <3>3 DEF End
    <3> QED  BY <2>1, <2>2, <2>3, <2>4, <2>6, <3>1, <3>2, <3>3, <3>4, <1>2 DEF ClosedFits
  <2> QED  BY <2>5, <2>6
<1> QED  BY <1>2, <1>3, <1>4, <1>5, <1>6

LEMMA PlainInit == Init => PlainInv
<1> SUFFICES ASSUME Init PROVE Sliced
    BY DEF PlainInv
<1>1. /\ disk = <<>> /\ current = Closed /\ segments = {} /\ last = 0
      /\ owed = 0 /\ acked = <<>> /\ writes = 0
      BY DEF Init
<1>2. OpenFiles = {} /\ NextIndex = 1 /\ First = 1
      BY <1>1 DEF OpenFiles, Files, IsOpen, Closed, NextIndex, First
<1>3. DOMAIN disk = {} /\ disk \in [DOMAIN disk -> FilesType]
      BY <1>1
<1>4. PlainTypes
      BY <1>1, <1>2, <1>3, FS_EmptySet DEF PlainTypes, Closed, FileType
<1> QED  BY <1>1, <1>2, <1>3, <1>4 DEF Sliced, Numbered, OnDisk, CurrentFits, Tiled,
            IsOpen, Closed

\* A file that is left as it is.
LEMMA SliceKept ==
    ASSUME NEW f, Sound(f), Slice(f), First' \in Int, First' <= f.name,
           f.name \in DOMAIN disk', disk'[f.name] = disk[f.name],
           f.name \notin cut' => f.name \notin cut,
           \A q \in 1..Len(Data(f)) : acked'[f.name - First' + q] = acked[f.name - First + q]
    PROVE  /\ Sound(f)' /\ Slice(f)' /\ Data(f)' = Data(f) /\ End(f)' = End(f)
<1>1. Data(f)' = Data(f) /\ Index(f)' = Index(f)
      BY DEF Data, Index
<1>2. End(f)' = End(f) /\ Sound(f)'
      BY <1>1 DEF End, Sound
<1> QED  BY <1>1, <1>2 DEF Slice

\* clear removes every file.
LEMMA PlainClear ==
    ASSUME Sliced, Counted, Clear
    PROVE  Sliced'
<1>1. /\ disk' = Removed(disk, {f.name : f \in Files})
      /\ current' = Closed /\ segments' = {} /\ acked' = <<>> /\ last' = last
      /\ owed' \in 1..last + 2 /\ writes' = writes
      BY DEF Clear
<1>2. last \in Nat /\ writes' \in Nat
      BY <1>1 DEF Sliced, PlainTypes, Counted
<1>3. owed' \in Nat \ {0} /\ Len(acked') = 0
      BY <1>1, <1>2
<1>4. DOMAIN disk' = {}
  <2>1. DOMAIN disk \subseteq {f.name : f \in Files}
        BY DEF Sliced, OnDisk, OpenFiles
  <2> QED  BY <1>1, <2>1 DEF Removed
<1>5. OpenFiles' = {} /\ ~IsOpen(current)'
      BY <1>1 DEF OpenFiles, Files, IsOpen, Closed
<1>o. PICK o \in Nat \ {0} : o = owed'
      BY <1>3
<1>6. NextIndex' = o /\ First' = o
  <2>1. NextIndex' = o
        BY <1>o DEF NextIndex
  <2>2. First' = NextIndex' - Len(acked')
        BY DEF First
  <2> QED  BY <2>1, <2>2, <1>3
<1>7. PlainTypes'
  <2>1. disk' \in [DOMAIN disk' -> FilesType]
        BY <1>1, <1>4 DEF Removed
  <2>2. IsFiniteSet(segments')
        BY <1>1, FS_EmptySet
  <2>3. current' \in FileType
        BY <1>1 DEF Closed, FileType
  <2> QED  BY <1>1, <1>2, <1>3, <1>5, <2>1, <2>2, <2>3 DEF PlainTypes
<1>8. Numbered'
      BY <1>1, <1>3, <1>6 DEF Numbered
<1>9. OnDisk'
      BY <1>1, <1>4, <1>5 DEF OnDisk
<1>10. CurrentFits'
      BY <1>5 DEF CurrentFits
<1>11. Tiled'
  <2>1. \A k \in First' .. NextIndex' - 1 : FALSE
        BY <1>6
  <2> QED  BY <1>5, <2>1 DEF Tiled
<1> QED  BY <1>1, <1>5, <1>7, <1>8, <1>9, <1>10, <1>11 DEF Sliced

\* What write extends: the open file, or a new one if there is none.
LEMMA WriteTarget ==
    ASSUME Sliced, NEW i, i = NextIndex
    PROVE  LET t == Target(i)
               n == t.name
               d == Created(disk, n)
           IN  /\ t \in FileType /\ n \in Nat \ {0} /\ First <= n /\ n <= i
               /\ n \in DOMAIN d /\ d[n] \in FilesType
               /\ Len(d[n].data) = i - n /\ Len(d[n].index) = i - n /\ t.at = i - n
               /\ (IF t.start = 0 THEN i ELSE t.start) = n
               /\ \A q \in 1..i - n :
                     /\ d[n].data[q] = acked[n - First + q]
                     /\ d[n].index[q].index = n + q - 1
                     /\ n \notin cut => d[n].index[q].pos = q - 1
               /\ DOMAIN d = {f.name : f \in segments} \union {n}
               /\ \A f \in segments :
                     f.name < n /\ End(f) <= n /\ f.name \in DOMAIN d /\ d[f.name] = disk[f.name]
<1> DEFINE t == Target(i)
           n == t.name
           d == Created(disk, n)
<1>1. i \in Nat \ {0} /\ First \in Nat \ {0} /\ First <= i /\ Len(acked) = i - First
      BY SlicedFacts
<1>2. CASE IsOpen(current)
  <2>1. t = current /\ current \in OpenFiles
        BY <1>2, SlicedFacts DEF Target
  <2>2. /\ current \in FileType /\ n \in Nat \ {0} /\ n \in DOMAIN disk
        /\ First <= n /\ n <= i /\ Len(Data(current)) \in Nat
        BY <2>1, SlicedFacts
  <2>3. /\ n + Len(Data(current)) = i
        /\ IF owed = 0 /\ Len(Data(current)) = 0 THEN current.start = 0 ELSE current.start = n
        BY <1>2, <2>1 DEF Sliced, CurrentFits, End
  <2>4. d = disk /\ disk[n] \in FilesType
        BY <2>1, <2>2 DEF Created, Sliced, PlainTypes, Sound
  <2>5. Slice(current)
        BY <2>1 DEF Sliced
  <2>6. Len(Data(current)) = i - n /\ (IF t.start = 0 THEN i ELSE t.start) = n
    <3>1. /\ n \in Nat /\ Len(Data(current)) \in Nat /\ n + Len(Data(current)) = i
          /\ i \in Nat /\ t.start = current.start
          BY <1>1, <2>1, <2>2, <2>3
    <3> HIDE DEF t, n
    <3>2. Len(Data(current)) = i - n /\ (Len(Data(current)) = 0 => i = n)
          BY <3>1
    <3> QED  BY <3>1, <3>2, <2>2, <2>3
  <2>7. /\ Len(d[n].data) = i - n /\ Len(d[n].index) = i - n /\ t.at = i - n
        /\ \A q \in 1..i - n :
              /\ d[n].data[q] = acked[n - First + q]
              /\ d[n].index[q].index = n + q - 1
              /\ n \notin cut => d[n].index[q].pos = q - 1
        BY <2>1, <2>4, <2>5, <2>6 DEF Slice, Data, Index
  <2>8. DOMAIN d = {f.name : f \in segments} \union {n}
    <3>1. OpenFiles = segments \union {current}
          BY <2>1, SlicedFacts DEF OpenFiles, Files
    <3> QED  BY <2>1, <2>4, <3>1 DEF Sliced, OnDisk
  <2>9. ASSUME NEW f \in segments
        PROVE  f.name < n /\ End(f) <= n /\ f.name \in DOMAIN d /\ d[f.name] = disk[f.name]
    <3>1. f \in OpenFiles /\ f.name < current.name
          BY SlicedFacts DEF Sliced, ClosedFits
    <3>2. End(f) <= current.name
          BY <3>1, <2>1 DEF Sliced, Tiled
    <3> QED  BY <3>1, <3>2, <2>1, <2>4, SlicedFacts
  <2> QED  BY <2>1, <2>2, <2>4, <2>6, <2>7, <2>8, <2>9
<1>3. CASE ~IsOpen(current)
  <2>1. segments = {} /\ acked = <<>> /\ current = Closed
        BY <1>3 DEF Sliced, OnDisk
  <2>2. OpenFiles = {}
        BY <1>3, <2>1 DEF OpenFiles, Files
  <2>3. DOMAIN disk = {}
        BY <2>2 DEF Sliced, OnDisk
  <2>4. DOMAIN Created(disk, i) = {i} /\ Created(disk, i)[i] = NoFiles
        BY <2>3 DEF Created
  <2>5. t = [name |-> i, start |-> 0, last |-> 0, at |-> 0]
        BY <1>3, <2>4 DEF Target, Opened, NoFiles
  <2>6. n = i /\ First = i
        BY <1>1, <2>1, <2>5
  <2>7. t \in FileType
        BY <2>5, <1>1 DEF FileType
  <2>8. NoFiles \in FilesType /\ Len(NoFiles.data) = 0 /\ Len(NoFiles.index) = 0
        BY DEF NoFiles, FilesType
  <2> QED  BY <1>1, <2>1, <2>4, <2>5, <2>6, <2>7, <2>8
<1> QED  BY <1>2, <1>3

\* The next record goes to the end of the open file, and of acked; a file that
\* has become too large is closed, and the next one is opened behind it.
LEMMA PlainWrite ==
    ASSUME Sliced, Counted, WriteEntry
    PROVE  Sliced'
<1> DEFINE t == Target(NextIndex)
           n == t.name
           d == Created(disk, n)
<1>1. PICK i : i = NextIndex
      OBVIOUS
<1>2. /\ i \in Nat \ {0} /\ First \in Nat \ {0} /\ First <= i
      /\ Len(acked) = i - First /\ acked \in Seq(EntryType) /\ writes \in Nat
      BY <1>1, SlicedFacts DEF Sliced, PlainTypes, Counted
<1>3. PICK e : e = Entry(i) /\ e \in EntryType /\ e.index = i
  <2>1. writes + 1 \in Nat \ {0}
        BY <1>2
  <2>2. Entry(i) \in EntryType /\ Entry(i).index = i
        BY <1>2, <2>1 DEF Entry, EntryType
  <2> QED  BY <2>2
<1>4. /\ t \in FileType /\ n \in Nat \ {0} /\ First <= n /\ n <= i
      /\ n \in DOMAIN d /\ d[n] \in FilesType
      /\ Len(d[n].data) = i - n /\ Len(d[n].index) = i - n /\ t.at = i - n
      /\ (IF t.start = 0 THEN i ELSE t.start) = n
      /\ \A q \in 1..i - n :
            /\ d[n].data[q] = acked[n - First + q]
            /\ d[n].index[q].index = n + q - 1
            /\ n \notin cut => d[n].index[q].pos = q - 1
      /\ DOMAIN d = {f.name : f \in segments} \union {n}
      /\ \A f \in segments :
            f.name < n /\ End(f) <= n /\ f.name \in DOMAIN d /\ d[f.name] = disk[f.name]
      BY <1>1, WriteTarget
<1>a. n \in Nat \ {0} /\ First <= n /\ n <= i
      BY <1>4
<1>5. PICK x \in Seq(EntryType), y \in Seq(SlotType) : d[n] = [data |-> x, index |-> y]
      BY <1>4 DEF FilesType
<1>6. /\ Len(x) = i - n /\ Len(y) = i - n
      /\ \A q \in 1..i - n :
            /\ x[q] = acked[n - First + q]
            /\ y[q].index = n + q - 1
            /\ n \notin cut => y[q].pos = q - 1
      BY <1>4, <1>5
<1> HIDE DEF n
<1>7. PICK s : s = [index |-> i, pos |-> i - n] /\ s \in SlotType
  <2>1. i - n \in Nat
        BY <1>2, <1>4
  <2>2. [index |-> i, pos |-> i - n] \in SlotType
        BY <1>2, <2>1 DEF SlotType
  <2> QED  BY <2>2, Zenon
<1>8. PICK new : new = [data |-> Append(x, e), index |-> Append(y, s)] /\ new \in FilesType
  <2>1. [data |-> Append(x, e), index |-> Append(y, s)] \in FilesType
        BY <1>3, <1>7 DEF FilesType
  <2> QED  BY <2>1, Zenon
<1>9. PICK f : f = [name |-> n, start |-> n, last |-> i, at |-> i - n + 1] /\ f \in FileType
  <2>1. i - n + 1 \in Nat
        BY <1>2, <1>4
  <2>2. [name |-> n, start |-> n, last |-> i, at |-> i - n + 1] \in FileType
        BY <1>2, <1>4, <2>1 DEF FileType
  <2> QED  BY <2>2, Zenon
<1> USE DEF n
<1>10. /\ Written(i) = [d EXCEPT ![n] = new]
       /\ AfterWrite(Target(i), Entry(i)) = f
  <2>1. Old(i) = d[n] /\ Old(i).data = x /\ Old(i).index = y /\ Target(i) = t
        BY <1>1, <1>5 DEF Old
  <2>2. NewSlot(i) = s /\ NewIndex(i) = Append(y, s)
        BY <2>1, <1>4, <1>6, <1>7 DEF NewSlot, NewIndex
  <2>3. /\ Written(i) = [d EXCEPT ![n] =
                [data |-> Append(Old(i).data, Entry(i)), index |-> NewIndex(i)]]
        /\ AfterWrite(Target(i), Entry(i)) =
                [name |-> n, start |-> IF t.start = 0 THEN i ELSE t.start,
                 last |-> i, at |-> t.at + 1]
    <3>1. Old(i) \in FilesType /\ Target(i) \in FileType
          BY <2>1, <1>4
    <3>2. Target(i).name \in DOMAIN Created(disk, Target(i).name)
          BY <2>1, <1>4
    <3> QED  BY <3>1, <3>2, <2>1, <1>2, WriteOne
  <2> QED  BY <2>1, <2>2, <2>3, <1>3, <1>4, <1>8, <1>9
<1>11. /\ last' = i /\ owed' = 0 /\ acked' = Append(acked, e) /\ writes' = writes + 1
       /\ cut' = cut
       /\ IF Len(Written(i)[n].data) > maxSize
          THEN /\ disk' = Created(Written(i), i + 1)
               /\ segments' = Emplaced(segments, f)
               /\ current' = Opened(disk', i + 1)
          ELSE disk' = Written(i) /\ current' = f /\ segments' = segments
  <2>1. (IF owed # 0 THEN owed ELSE last + 1) = i
        BY <1>1 DEF NextIndex
  <2>2. f.name = n
        BY <1>9
  <2> QED  BY <2>1, <2>2, <1>3, <1>10 DEF WriteEntry, Write
<1>12. /\ NextIndex' = i + 1 /\ First' = First
       /\ Len(acked') = Len(acked) + 1 /\ acked' \in Seq(EntryType)
       /\ acked'[Len(acked) + 1] = e
       /\ \A k \in 1..Len(acked) : acked'[k] = acked[k]
  <2>1. NextIndex' = i + 1
        BY <1>11 DEF NextIndex
  <2>2. First' = NextIndex' - Len(acked')
        BY DEF First
  <2> QED  BY <2>1, <2>2, <1>2, <1>3, <1>11
<1>13. /\ n \in DOMAIN Written(i) /\ Written(i)[n] = new
       /\ DOMAIN Written(i) = {g.name : g \in segments} \union {n}
       /\ \A g \in segments : g.name \in DOMAIN Written(i) /\ Written(i)[g.name] = disk[g.name]
  <2> HIDE DEF d, n
  <2>1. \A g \in segments : g.name # n
        BY <1>4
  <2> QED  BY <2>1, <1>4, <1>10
<1> HIDE DEF t, n, d
\* What both cases have in common.
<1>14. /\ n \in DOMAIN disk' /\ disk'[n] = new
       /\ \A g \in segments : g.name \in DOMAIN disk' /\ disk'[g.name] = disk[g.name]
  <2>1. n # i + 1 /\ \A g \in segments : g.name # i + 1
    <3>1. \A g \in segments : g.name \in Nat
          BY SlicedFacts
    <3> QED  BY <3>1, <1>2, <1>4
  <2> QED  BY <2>1, <1>11, <1>13 DEF Created
<1>15. ASSUME NEW g \in segments
       PROVE  /\ Sound(g)' /\ Slice(g)' /\ Data(g)' = Data(g) /\ End(g)' = End(g)
              /\ IsOpen(g) /\ g.name \in Nat /\ End(g) \in Nat
              /\ g.start = g.name /\ Len(Data(g)) > 0 /\ g.last = End(g) - 1
  <2>1. g \in OpenFiles /\ Sound(g) /\ Slice(g) /\ g.name \in Nat /\ End(g) \in Nat /\ First <= g.name
        BY SlicedFacts DEF Sliced, PlainTypes
  <2>2. \A q \in 1..Len(Data(g)) : acked'[g.name - First' + q] = acked[g.name - First + q]
    <3>1. Len(Data(g)) \in Nat /\ g.name + Len(Data(g)) <= i
          BY <2>1, <1>2, <1>4, SlicedFacts DEF End
    <3>2. \A q \in 1..Len(Data(g)) : g.name - First + q \in 1..Len(acked)
          BY <2>1, <3>1, <1>2
    <3> QED  BY <3>2, <1>12
  <2>3. First' \in Int /\ First' <= g.name /\ cut' = cut
        BY <2>1, <1>2, <1>12, <1>11
  <2>4. Sound(g)' /\ Slice(g)' /\ Data(g)' = Data(g) /\ End(g)' = End(g)
        BY <2>1, <2>2, <2>3, <1>14, SliceKept
  <2>5. IsOpen(g) /\ ClosedFits(g)
        BY <2>1 DEF Sliced, OpenFiles
  <2> QED  BY <2>1, <2>4, <2>5 DEF ClosedFits
<1>16. /\ Sound(f)' /\ Slice(f)' /\ Len(Data(f)') = i - n + 1 /\ End(f)' = i + 1
       /\ IsOpen(f) /\ f.name = n /\ f.start = n /\ f.last = i
  <2>1. f.name = n /\ f.at = i - n + 1 /\ f.start = n /\ f.last = i /\ IsOpen(f)
        BY <1>4, <1>9 DEF IsOpen
  <2>2. Data(f)' = Append(x, e) /\ Index(f)' = Append(y, s)
        BY <2>1, <1>8, <1>14 DEF Data, Index
  <2>3. Len(Append(x, e)) = i - n + 1 /\ Len(Append(y, s)) = i - n + 1
        BY <1>3, <1>6, <1>7
  <2>4. End(f)' = i + 1
        BY <2>1, <2>2, <2>3, <1>2, <1>4 DEF End
  <2>5. Sound(f)'
        BY <2>1, <1>8, <1>9, <1>14 DEF Sound
  <2>6. ASSUME NEW q \in 1..i - n + 1
        PROVE  /\ Append(x, e)[q] = acked'[n - First + q]
               /\ Append(y, s)[q].index = n + q - 1
               /\ n \notin cut => Append(y, s)[q].pos = q - 1
    <3>1. CASE q = i - n + 1
      <4>1. Append(x, e)[q] = e /\ Append(y, s)[q] = s
            BY <3>1, <1>3, <1>6, <1>7
      <4>2. n - First + q = Len(acked) + 1 /\ n + q - 1 = i
            BY <3>1, <1>2, <1>a
      <4>3. s.index = n + q - 1 /\ s.pos = q - 1
            BY <3>1, <4>2, <1>2, <1>a, <1>7
      <4> QED  BY <4>1, <4>2, <4>3, <1>12
    <3>2. CASE q # i - n + 1
      <4>1. q \in 1..i - n
            BY <3>2, <1>2, <1>a
      <4>2. Append(x, e)[q] = x[q] /\ Append(y, s)[q] = y[q]
            BY <4>1, <1>3, <1>6, <1>7
      <4>3. n - First + q \in 1..Len(acked)
            BY <4>1, <1>2, <1>a
      <4> QED  BY <4>1, <4>2, <4>3, <1>6, <1>12
    <3> QED  BY <3>1, <3>2
  <2>7. Slice(f)'
    <3>1. First' <= f.name /\ f.at = Len(Index(f)')
          BY <2>1, <2>2, <2>3, <1>a, <1>12
    <3>2. f.name - First' = n - First /\ cut' = cut /\ 1..Len(Data(f)') = 1..i - n + 1
          BY <2>1, <2>2, <2>3, <1>11, <1>12
    <3> QED  BY <2>1, <2>2, <2>3, <2>6, <3>1, <3>2 DEF Slice
  <2> QED  BY <2>1, <2>2, <2>3, <2>4, <2>5, <2>7
<1>17. Numbered'
  <2>1. First' >= 1
        BY <1>2, <1>12
  <2>2. ASSUME NEW k \in 1..Len(acked) + 1 PROVE acked'[k].index = First + k - 1
    <3>1. CASE k = Len(acked) + 1
          BY <3>1, <1>2, <1>3, <1>12
    <3>2. CASE k # Len(acked) + 1
      <4>1. k \in 1..Len(acked)
            BY <3>2, <1>2
      <4> QED  BY <4>1, <1>12 DEF Sliced, Numbered
    <3> QED  BY <3>1, <3>2
  <2>3. DOMAIN acked' = 1..Len(acked) + 1
        BY <1>12
  <2> QED  BY <2>1, <2>2, <2>3, <1>12 DEF Numbered
<1>18. /\ \A g, h \in segments : g.name = h.name => g = h
       /\ \A g, h \in segments : g.name < h.name => End(g) <= h.name
       /\ \A k \in First .. n - 1 : \E g \in segments : g.name <= k /\ k < End(g)
       /\ \A k \in n .. i : n <= k /\ k < i + 1
  <2>1. segments \subseteq OpenFiles
        BY SlicedFacts
  <2>2. ASSUME NEW k \in First .. n - 1
        PROVE  \E g \in segments : g.name <= k /\ k < End(g)
    <3>1. PICK g \in OpenFiles : g.name <= k /\ k < End(g)
      <4>1. k \in First .. NextIndex - 1
            BY <1>1, <1>2, <1>4
      <4> QED  BY <4>1 DEF Sliced, Tiled
    <3>2. CASE g = current
      <4>1. Target(i) = current
            BY <3>1, <3>2 DEF OpenFiles, Target
      <4>2. current.name = n
            BY <4>1, <1>1 DEF n, t
      <4> QED  BY <3>1, <3>2, <4>2, <1>4
    <3> QED  BY <3>1, <3>2, SlicedFacts
  <2> QED  BY <2>1, <2>2, <1>2, <1>4 DEF Sliced, Tiled
<1>c. \A g \in segments : g.name < n /\ g.name \in Nat /\ End(g)' \in Nat /\ End(g)' <= n
      BY <1>4, <1>15
<1>d. \A g, h \in segments \union {f} :
          /\ g.name = h.name => g = h
          /\ g.name < h.name => End(g)' <= h.name
  <2>1. \A g, h \in segments :
          /\ g.name = h.name => g = h
          /\ g.name < h.name => End(g)' <= h.name
        BY <1>15, <1>18
  <2>2. f.name = n
        BY <1>16
  <2> QED  BY <2>1, <2>2, <1>a, <1>c
<1>e. \A k \in First' .. NextIndex' - 1 :
         \E g \in segments \union {f} : g.name <= k /\ k < End(g)'
  <2> SUFFICES ASSUME NEW k \in First' .. NextIndex' - 1
               PROVE  \E g \in segments \union {f} : g.name <= k /\ k < End(g)'
      OBVIOUS
  <2>1. k \in First .. i
        BY <1>2, <1>12
  <2>2. CASE k \in n .. i
    <3>1. f.name <= k /\ k < End(f)'
          BY <2>2, <1>2, <1>a, <1>16
    <3> QED  BY <3>1
  <2>3. CASE k \in First .. n - 1
        BY <2>3, <1>15, <1>18
  <2> QED  BY <2>1, <2>2, <2>3, <1>2, <1>a
<1>19. CASE ~(Len(Written(i)[n].data) > maxSize)
  <2>1. disk' = Written(i) /\ current' = f /\ segments' = segments
        BY <1>11, <1>19
  <2>2. OpenFiles' = segments \union {f}
        BY <2>1, <1>15, <1>16 DEF OpenFiles, Files, IsOpen
  <2>3. PlainTypes'
    <3>1. disk' \in [DOMAIN disk' -> FilesType]
      <4>1. \A m \in DOMAIN disk' : m = n \/ \E g \in segments : m = g.name
            BY <2>1, <1>13
      <4>2. \A m \in DOMAIN disk' : disk'[m] \in FilesType
            BY <4>1, <1>8, <1>14, <1>15 DEF Sound
      <4>3. disk' = [m \in DOMAIN disk' |-> disk'[m]]
            BY <2>1, <1>10
      <4> QED  BY <4>2, <4>3
    <3> QED  BY <3>1, <2>1, <2>2, <1>2, <1>9, <1>11, <1>12, <1>15, <1>16
             DEF PlainTypes, Sliced
  <2>4. OnDisk'
        BY <2>1, <2>2, <1>13, <1>15, <1>16 DEF OnDisk, IsOpen
  <2>5. CurrentFits'
    <3>1. owed' = 0 /\ End(f)' = NextIndex' /\ Len(Data(f)') # 0
      <4>1. Len(Data(f)') = i - n + 1 /\ i - n + 1 # 0
            BY <1>2, <1>a, <1>16
      <4> QED  BY <4>1, <1>11, <1>12, <1>16
    <3>2. current' = f /\ f.start = f.name /\ f.last = End(f)' - 1
          BY <2>1, <1>2, <1>16
    <3>3. End(current)' = End(f)' /\ Data(current)' = Data(f)'
          BY <3>2 DEF End, Data
    <3> QED  BY <3>1, <3>2, <3>3 DEF CurrentFits
  <2>6. Tiled'
    <3>1. ASSUME NEW g \in OpenFiles', NEW h \in OpenFiles'
          PROVE  /\ g.name = h.name => g = h
                 /\ g.name < h.name => End(g)' <= h.name
          BY <2>2, <1>c, <1>d
    <3>2. ASSUME NEW k \in First' .. NextIndex' - 1
          PROVE  \E g \in OpenFiles' : g.name <= k /\ k < End(g)'
          BY <2>2, <1>e
    <3> QED  BY <3>1, <3>2 DEF Tiled
  <2>7. \A g \in segments' : ClosedFits(g)'
        BY <2>1, <1>4, <1>15, <1>16 DEF ClosedFits
  <2> QED  BY <2>1, <2>2, <2>3, <2>4, <2>5, <2>6, <2>7, <1>15, <1>16, <1>17 DEF Sliced
<1>20. CASE Len(Written(i)[n].data) > maxSize
  <2> DEFINE h == [name |-> i + 1, start |-> 0, last |-> 0, at |-> 0]
  <2>1. segments' = segments \union {f}
    <3>1. \A g \in segments : g.start # f.start
          BY <1>4, <1>15, <1>16
    <3> QED  BY <3>1, <1>11, <1>20 DEF Emplaced
  <2>2. /\ i + 1 \notin DOMAIN Written(i)
        /\ i + 1 \in DOMAIN disk' /\ disk'[i + 1] = NoFiles
        /\ DOMAIN disk' = DOMAIN Written(i) \union {i + 1}
    <3>1. n # i + 1 /\ \A g \in segments : g.name # i + 1
          BY <1>2, <1>4, <1>15
    <3>2. i + 1 \notin DOMAIN Written(i)
          BY <3>1, <1>13
    <3> QED  BY <3>2, <1>11, <1>20 DEF Created
  <2>3. current' = h /\ h \in FileType /\ IsOpen(h)
        BY <2>2, <1>2, <1>11, <1>20 DEF Opened, NoFiles, FileType, IsOpen
  <2>4. /\ Sound(h)' /\ Slice(h)' /\ Data(h)' = <<>> /\ End(h)' = i + 1
    <3>1. h.name = i + 1 /\ h.at = 0
          OBVIOUS
    <3>2. Data(h)' = <<>> /\ Index(h)' = <<>>
          BY <2>2, <3>1 DEF Data, Index, NoFiles
    <3>3. NoFiles \in FilesType
          BY DEF NoFiles, FilesType
    <3> HIDE DEF h
    <3>4. Sound(h)'
          BY <3>1, <3>3, <2>2, <2>3 DEF Sound
    <3>5. Slice(h)'
          BY <3>1, <3>2, <1>2, <1>12 DEF Slice
    <3> QED  BY <3>1, <3>2, <3>4, <3>5, <1>2 DEF End
  <2>5. h.name = i + 1 /\ h.start = 0 /\ h.last = 0
        OBVIOUS
  <2> HIDE DEF h
  <2>6. OpenFiles' = segments \union {f, h}
        BY <2>1, <2>3, <1>15, <1>16 DEF OpenFiles, Files, IsOpen
  <2>7. PlainTypes'
    <3>1. disk' \in [DOMAIN disk' -> FilesType]
      <4>1. disk'[i + 1] \in FilesType
            BY <2>4, <2>5 DEF Sound
      <4>2. \A m \in DOMAIN disk' : m = i + 1 \/ m = n \/ \E g \in segments : m = g.name
            BY <2>2, <1>13
      <4>3. \A m \in DOMAIN disk' : disk'[m] \in FilesType
            BY <4>1, <4>2, <1>8, <1>14, <1>15 DEF Sound
      <4>4. disk' = [m \in DOMAIN disk' |-> disk'[m]]
        <5>1. disk' = [m \in DOMAIN Written(i) \union {i + 1} |->
                          IF m = i + 1 THEN NoFiles ELSE Written(i)[m]]
              BY <2>2, <1>11, <1>20 DEF Created
        <5> QED  BY <5>1
      <4> QED  BY <4>3, <4>4
    <3>2. IsFiniteSet(segments')
          BY <2>1, FS_AddElement DEF Sliced, PlainTypes
    <3> QED  BY <3>1, <3>2, <2>3, <2>4, <2>6, <1>2, <1>11, <1>12, <1>15, <1>16
             DEF PlainTypes, Sliced
  <2>8. OnDisk'
        BY <2>1, <2>2, <2>3, <2>5, <2>6, <1>13, <1>15, <1>16 DEF OnDisk, IsOpen
  <2>9. CurrentFits'
    <3>1. owed' = 0 /\ End(h)' = NextIndex' /\ Len(Data(h)') = 0
          BY <2>4, <1>11, <1>12
    <3>2. current' = h /\ h.start = 0 /\ h.last = 0
          BY <2>3, <2>5
    <3>3. End(current)' = End(h)' /\ Data(current)' = Data(h)'
          BY <3>2 DEF End, Data
    <3> QED  BY <3>1, <3>2, <3>3 DEF CurrentFits
  <2>10. Tiled'
    <3>1. /\ h.name # f.name /\ ~(h.name < f.name) /\ End(f)' <= h.name
          /\ ~(h.name < h.name)
          BY <2>5, <1>2, <1>a, <1>16
    <3>2. \A g \in segments : g.name # h.name /\ ~(h.name < g.name) /\ End(g)' <= h.name
          BY <2>5, <1>2, <1>a, <1>c
    <3>3. ASSUME NEW g1 \in OpenFiles', NEW g2 \in OpenFiles'
          PROVE  /\ g1.name = g2.name => g1 = g2
                 /\ g1.name < g2.name => End(g1)' <= g2.name
      <4>1. CASE g1 = h
            BY <4>1, <2>6, <3>1, <3>2
      <4>2. CASE g2 = h
            BY <4>2, <2>6, <3>1, <3>2
      <4>3. CASE g1 # h /\ g2 # h
            BY <4>3, <2>6, <1>d
      <4> QED  BY <4>1, <4>2, <4>3
    <3>4. ASSUME NEW k \in First' .. NextIndex' - 1
          PROVE  \E g \in OpenFiles' : g.name <= k /\ k < End(g)'
          BY <2>6, <1>e
    <3> QED  BY <3>3, <3>4 DEF Tiled
  <2>11. \A g \in segments' : ClosedFits(g)'
    <3>1. \A g \in segments' : g.name < i + 1
          BY <2>1, <1>2, <1>a, <1>c, <1>16
    <3>2. \A g \in segments' :
             /\ Len(Data(g)') > 0 /\ g.start = g.name /\ g.last = End(g)' - 1
          BY <2>1, <1>2, <1>a, <1>15, <1>16
    <3> QED  BY <3>1, <3>2, <2>3, <2>5 DEF ClosedFits
  <2> QED  BY <2>1, <2>4, <2>6, <2>7, <2>8, <2>9, <2>10, <2>11, <1>15, <1>16, <1>17 DEF Sliced
<1> QED  BY <1>19, <1>20

\* A part of a sequence.
LEMMA PartTaken ==
    ASSUME NEW S, NEW s \in Seq(S), NEW m \in Nat \ {0}, NEW n \in Nat,
           n <= Len(s), m <= n + 1
    PROVE  /\ SubSeq(s, m, n) \in Seq(S) /\ Len(SubSeq(s, m, n)) = n - m + 1
           /\ \A k \in 1..n - m + 1 : SubSeq(s, m, n)[k] = s[m + k - 1] /\ m + k - 1 \in 1..n
<1>1. \A k \in m..n : s[k] \in S
      OBVIOUS
<1>2. /\ SubSeq(s, m, n) \in Seq(S)
      /\ Len(SubSeq(s, m, n)) = IF m <= n THEN n - m + 1 ELSE 0
      /\ \A k \in 1..n - m + 1 : SubSeq(s, m, n)[k] = s[m + k - 1]
      BY <1>1, SubSeqProperties
<1>3. \A k \in 1..n - m + 1 : m + k - 1 \in 1..n
      OBVIOUS
<1> QED  BY <1>2, <1>3

\* Where a truncation cuts acked.
LEMMA PlaceIs ==
    ASSUME Sliced, NEW j \in Nat, j <= NextIndex
    PROVE  Place(j) = IF j <= First THEN 1 ELSE j - First + 1
<1>1. /\ NextIndex \in Nat /\ First \in Nat /\ First <= NextIndex
      /\ Len(acked) = NextIndex - First
      BY SlicedFacts
<1>2. \A k \in 1..Len(acked) : acked[k].index = First + k - 1
      BY DEF Sliced, Numbered, PlainTypes
<1>3. DOMAIN acked = 1..Len(acked)
      BY DEF Sliced, PlainTypes
<1> DEFINE p == IF j <= First THEN 1 ELSE j - First + 1
           Fits(q) == \A k \in DOMAIN acked : k < q <=> acked[k].index < j
<1>4. p \in 1..Len(acked) + 1 /\ Fits(p)
  <2>1. p \in 1..Len(acked) + 1
        BY <1>1
  <2>2. \A k \in 1..Len(acked) : k < p <=> First + k - 1 < j
        BY <1>1
  <2> QED  BY <2>1, <2>2, <1>2, <1>3
<1>5. ASSUME NEW q \in 1..Len(acked) + 1, Fits(q) PROVE q = p
  <2>1. \A k \in 1..Len(acked) : k < p <=> k < q
        BY <1>3, <1>4, <1>5
  <2>2. p \in Int /\ q \in Int /\ Len(acked) \in Nat
        BY <1>1, <1>4
  <2>3. CASE p < q
    <3>1. p \in 1..Len(acked) /\ p < q /\ ~(p < p)
          BY <2>3, <1>4, <2>2
    <3> QED  BY <2>1, <3>1
  <2>4. CASE q < p
    <3>1. q \in 1..Len(acked) /\ q < p /\ ~(q < q)
          BY <2>4, <1>4, <2>2
    <3> QED  BY <2>1, <3>1
  <2> HIDE DEF p
  <2> QED  BY <2>2, <2>3, <2>4
<1> HIDE DEF p, Fits
<1>6. Place(j) = CHOOSE q \in 1..Len(acked) + 1 : Fits(q)
      BY DEF Place, Fits
<1>7. Place(j) = p
      BY <1>4, <1>5, <1>6
<1> QED  BY <1>7 DEF p

\* What truncate_prefix(i) does to the files: those up to i go, the one that has
\* i and i + 1 loses its head.
PrefixGone(i) ==
    LET Cut == {f \in OpenFiles : f.name <= i /\ i + 1 < End(f)}
        Left == {f \in OpenFiles : f.name > i}
        From(f) == i + 2 - f.name
    IN  /\ OpenFiles' = Left \union {AfterCutHead(f, i) : f \in Cut}
        /\ segments' = (Left \intersect segments) \union
                           {AfterCutHead(f, i) : f \in Cut \intersect segments}
        /\ current' = IF ~IsOpen(current) \/ current.name > i THEN current
                      ELSE IF current \in Cut THEN AfterCutHead(current, i) ELSE Closed
        /\ disk' = [m \in {f.name : f \in OpenFiles'} |-> disk'[m]]
        /\ \A f \in Left : disk'[f.name] = disk[f.name]
        /\ \A f \in Cut :
              disk'[i + 1] = [data |-> SubSeq(Data(f), From(f), Len(Data(f))),
                              index |-> SubSeq(Index(f), From(f), Len(Index(f)))]
        /\ cut \subseteq cut' /\ (Cut # {} => i + 1 \in cut')
        /\ \A f, g \in Cut : f = g

\* Where the slot of an entry is looked up.
LEMMA LookupFinds ==
    ASSUME NEW f, NEW j, NEW k, k = j - f.start + 1,
           k # 1, k \in 1..Len(Index(f)), Index(f)[k].index = j
    PROVE  Lookup(f, j) = Index(f)[k].pos
BY DEF Lookup, Index

\* Which file an index splits, where the next one is found in it, and what
\* becomes of the files before it.
LEMMA SplitFacts ==
    ASSUME Sliced, owed = 0, NEW i \in 1..last
    PROVE  /\ \A f \in OpenFiles :
                 /\ Split(f, i) <=> f.name <= i /\ i + 1 < End(f)
                 /\ Split(f, i) /\ f.name \notin cut => Lookup(f, i + 1) = i + 1 - f.name
           /\ \A f, g \in OpenFiles :
                 /\ Split(f, i) /\ Split(g, i) => f = g
                 /\ Split(f, i) /\ f # g => (g.name <= i /\ End(g) <= i) \/ i + 1 < g.name
           /\ \A f \in segments : f.last <= i <=> End(f) <= i + 1
           /\ \A f \in segments : f.start = f.name
           /\ \A f \in OpenFiles : i = f.last <=> End(f) = i + 1 /\ Len(Data(f)) > 0
           /\ \A f \in segments : End(f) <= current.name
<1>1. last \in Nat /\ i \in Nat \ {0} /\ NextIndex = last + 1
      BY DEF Sliced, PlainTypes, NextIndex
<1>2. ASSUME NEW f \in OpenFiles
      PROVE  /\ Split(f, i) <=> f.name <= i /\ i + 1 < End(f)
             /\ Split(f, i) /\ f.name \notin cut => Lookup(f, i + 1) = i + 1 - f.name
             /\ i = f.last <=> End(f) = i + 1 /\ Len(Data(f)) > 0
             /\ f \in segments => f.start = f.name /\ (f.last <= i <=> End(f) <= i + 1)
  <2>1. /\ f.name \in Nat \ {0} /\ End(f) \in Nat /\ Len(Data(f)) \in Nat
        /\ End(f) = f.name + Len(Data(f)) /\ IsOpen(f) /\ End(f) <= last + 1
        /\ Len(Data(f)) > 0 => f.start = f.name /\ f.last = End(f) - 1
        BY <1>1, SlicedFacts DEF OpenFiles, End
  <2>2. Len(Data(f)) = 0 => f.start = 0 /\ f.last = 0 /\ f \notin segments
    <3>1. Len(Data(f)) = 0 => f = current /\ IsOpen(current) /\ f \notin segments
          BY <2>1, SlicedFacts DEF Sliced, ClosedFits
    <3> QED  BY <3>1 DEF Sliced, CurrentFits
  <2>3. Split(f, i) <=> f.name <= i /\ i + 1 < End(f)
    <3>1. Split(f, i) <=> f.start <= i /\ i <= f.last /\ i < f.last
          BY <2>1 DEF Split, Holds
    <3> QED  BY <3>1, <2>1, <2>2, <1>1
  <2>4. ASSUME Split(f, i), f.name \notin cut PROVE Lookup(f, i + 1) = i + 1 - f.name
    <3> DEFINE k == i + 2 - f.name
    <3>1. f.name <= i /\ i + 1 < End(f) /\ f.start = f.name /\ k \in 1..Len(Data(f)) /\ k # 1
          BY <2>1, <2>3, <2>4, <1>1
    <3>2. /\ Len(Index(f)) = Len(Data(f)) /\ Index(f)[k].index = f.name + k - 1
          /\ Index(f)[k].pos = k - 1
          BY <2>4, <3>1 DEF Sliced, Slice
    <3>3. (i + 1) - f.start + 1 = k /\ f.name + k - 1 = i + 1 /\ k - 1 = i + 1 - f.name
      <4>1. i \in Int /\ f.name \in Int /\ f.start = f.name
            BY <3>1, <2>1, <1>1
      <4>2. (i + 1) - f.start = i + 1 - f.name
            BY <4>1
      <4> QED  BY <4>1, <4>2
    <3> HIDE DEF k
    <3>4. Lookup(f, i + 1) = Index(f)[k].pos
      <4>1. k = (i + 1) - f.start + 1 /\ k # 1
            BY <3>1, <3>3
      <4>2. k \in 1..Len(Index(f))
            BY <3>1, <3>2
      <4>3. Index(f)[k].index = i + 1
            BY <3>2, <3>3
      <4> QED  BY <4>1, <4>2, <4>3, LookupFinds, Zenon
    <3> QED  BY <3>2, <3>3, <3>4
  <2> QED  BY <1>1, <2>1, <2>2, <2>3, <2>4
<1>3. ASSUME NEW f \in OpenFiles, NEW g \in OpenFiles, Split(f, i), f # g
      PROVE  ~Split(g, i) /\ ((g.name <= i /\ End(g) <= i) \/ i + 1 < g.name)
  <2>1. f.name <= i /\ i + 1 < End(f)
        BY <1>2, <1>3
  <2>2. /\ f.name \in Nat /\ g.name \in Nat /\ End(f) \in Nat /\ End(g) \in Nat
        /\ g.name <= End(g)
        BY SlicedFacts
  <2>3. f.name # g.name /\ (f.name < g.name => End(f) <= g.name)
        /\ (g.name < f.name => End(g) <= f.name)
        BY <1>3 DEF Sliced, Tiled
  <2>4. Split(g, i) => g.name <= i /\ i + 1 < End(g)
        BY <1>2
  <2> QED  BY <2>1, <2>2, <2>3, <2>4, <1>1
<1>4. ASSUME NEW f \in segments PROVE f \in OpenFiles /\ End(f) <= current.name
  <2>1. f \in OpenFiles /\ IsOpen(current)
        BY SlicedFacts DEF Sliced, OnDisk
  <2>2. f.name < current.name /\ current \in OpenFiles
        BY <2>1, SlicedFacts DEF Sliced, ClosedFits
  <2> QED  BY <2>1, <2>2 DEF Sliced, Tiled
<1> QED  BY <1>2, <1>3, <1>4

\* The file that truncate_prefix cuts.
Behind(f, i) == [data |-> SubSeq(Data(f), i + 2 - f.name, Len(Data(f))),
                 index |-> SubSeq(Index(f), i + 2 - f.name, Len(Index(f)))]
Renamed(d, f, i) ==
    [m \in (DOMAIN d \ {f.name}) \union {i + 1} |->
       IF m = i + 1 THEN Behind(f, i) ELSE d[m]]

LEMMA HeadCut ==
    ASSUME Sliced, owed = 0, NEW i \in 1..last, NEW f \in OpenFiles,
           Split(f, i), f.name \notin cut,
           NEW d, f.name \in DOMAIN d, d[f.name] = disk[f.name]
    PROVE  /\ Cuts(f, i) /\ Headless(f, i) = AfterCutHead(f, i)
           /\ WithoutHead(d, f, i) = Renamed(d, f, i)
<1>1. Lookup(f, i + 1) = i + 1 - f.name /\ f.name <= i /\ f.name \in Nat /\ i \in Nat
  <2>1. last \in Nat
        BY DEF Sliced, PlainTypes
  <2> QED  BY <2>1, SplitFacts, SlicedFacts
<1>2. Lookup(f, i + 1) # -1 /\ Lookup(f, i + 1) + 1 = i + 2 - f.name
      BY <1>1
<1>3. f.start = f.name
  <2>1. Len(Data(f)) > 0
        BY <1>1, SplitFacts, SlicedFacts DEF End
  <2> QED  BY <2>1, SlicedFacts
<1>4. Cuts(f, i)
      BY <1>2 DEF Cuts
<1>5. WithoutHead(d, f, i) = CutHead(d, f, i)
      BY <1>4 DEF WithoutHead
<1> QED  BY <1>2, <1>3, <1>4, <1>5, Zenon DEF CutHead, Headless, Data, Index, Renamed, Behind

\* What is left of the files is what is left of acked.
LEMMA PrefixSliced ==
    ASSUME Sliced, owed = 0, NEW i \in Nat \ {0}, i <= last, PrefixGone(i),
           UNCHANGED <<last, owed, writes>>, writes \in Nat,
           acked' = SubSeq(acked, Place(i + 1), Len(acked))
    PROVE  Sliced'
<1> DEFINE Cut == {f \in OpenFiles : f.name <= i /\ i + 1 < End(f)}
           Left == {f \in OpenFiles : f.name > i}
           Heads == {AfterCutHead(f, i) : f \in Cut}
<1>0. PICK F \in Nat \ {0}, N \in Nat \ {0}, L \in Nat :
         F = First /\ N = NextIndex /\ L = Len(acked) /\ F <= N /\ L = N - F
      BY SlicedFacts
<1>1. /\ last \in Nat /\ i \in 1..last /\ N = last + 1 /\ i + 1 <= N
      /\ acked \in Seq(EntryType)
      BY <1>0 DEF Sliced, PlainTypes, NextIndex
<1>2. PICK a \in Nat \ {0} : a = (IF i + 1 <= F THEN F ELSE i + 1) /\ F <= a /\ a <= N
      BY <1>0, <1>1
<1>3. /\ NextIndex' = N /\ First' = a
      /\ Len(acked') = N - a /\ acked' \in Seq(EntryType)
      /\ \A k \in 1..N - a : acked'[k] = acked[k + (a - F)]
  <2>1. PICK p \in Nat \ {0} : p = a - F + 1 /\ p <= L + 1
        BY <1>0, <1>2
  <2>2. Place(i + 1) = p
    <3>1. Place(i + 1) = IF i + 1 <= F THEN 1 ELSE (i + 1) - F + 1
          BY <1>0, <1>1, PlaceIs
    <3> QED  BY <3>1, <2>1, <1>1, <1>2
  <2>3. acked' = SubSeq(acked, p, L)
        BY <2>2, <1>0
  <2>4. /\ Len(acked') = L - p + 1 /\ acked' \in Seq(EntryType)
        /\ \A k \in 1..L - p + 1 : acked'[k] = acked[p + k - 1]
    <3>1. acked \in Seq(EntryType) /\ L <= Len(acked) /\ p <= L + 1
          BY <2>1, <1>0, <1>1
    <3>2. /\ SubSeq(acked, p, L) \in Seq(EntryType) /\ Len(SubSeq(acked, p, L)) = L - p + 1
          /\ \A k \in 1..L - p + 1 : SubSeq(acked, p, L)[k] = acked[p + k - 1]
          BY <3>1, PartTaken
    <3> QED  BY <2>3, <3>2, Zenon
  <2>5. L - p + 1 = N - a /\ \A k \in 1..N - a : p + k - 1 = k + (a - F)
        BY <2>1, <1>0, <1>2
  <2>6. NextIndex' = N
        BY <1>0 DEF NextIndex
  <2>7. First' = N - (N - a)
        BY <2>4, <2>5, <2>6 DEF First
  <2>8. First' = a /\ Len(acked') = N - a
    <3>1. N - (N - a) = a
          OBVIOUS
    <3> QED  BY <3>1, <2>4, <2>5, <2>7, Zenon
  <2>9. \A k \in 1..N - a : acked'[k] = acked[k + (a - F)]
    <3>1. 1..L - p + 1 = 1..N - a
          BY <2>5
    <3> QED  BY <2>4, <2>5, <3>1
  <2> QED  BY <2>4, <2>6, <2>8, <2>9
<1>4. /\ OpenFiles' = Left \union Heads
      /\ segments' = (Left \intersect segments) \union
                         {AfterCutHead(f, i) : f \in Cut \intersect segments}
      /\ current' = IF ~IsOpen(current) \/ current.name > i THEN current
                    ELSE IF current \in Cut THEN AfterCutHead(current, i) ELSE Closed
      /\ disk' = [m \in {f.name : f \in OpenFiles'} |-> disk'[m]]
      /\ \A f \in Left : disk'[f.name] = disk[f.name]
      /\ \A f \in Cut :
            disk'[i + 1] = [data |-> SubSeq(Data(f), i + 2 - f.name, Len(Data(f))),
                            index |-> SubSeq(Index(f), i + 2 - f.name, Len(Index(f)))]
      /\ cut \subseteq cut' /\ (Cut # {} => i + 1 \in cut')
      /\ \A f, g \in Cut : f = g
      BY DEF PrefixGone
<1> HIDE DEF Cut, Left, Heads
<1>5. ASSUME NEW f \in OpenFiles
      PROVE  /\ f \in FileType /\ f.name \in Nat \ {0} /\ F <= f.name /\ IsOpen(f)
             /\ Data(f) \in Seq(EntryType) /\ Index(f) \in Seq(SlotType)
             /\ Len(Data(f)) \in Nat /\ End(f) = f.name + Len(Data(f)) /\ End(f) \in Nat
             /\ f.name <= End(f) /\ End(f) <= N
             /\ Sound(f) /\ Slice(f)
             /\ f \in Cut <=> f.name <= i /\ i + 1 < End(f)
             /\ f \in Left <=> f.name > i
      BY <1>0, SlicedFacts DEF Sliced, PlainTypes, OpenFiles, End, Cut, Left
<1>6. Left \subseteq OpenFiles /\ Cut \subseteq OpenFiles
      BY DEF Left, Cut
<1>7. ASSUME NEW g \in Left
      PROVE  Sound(g)' /\ Slice(g)' /\ Data(g)' = Data(g) /\ End(g)' = End(g)
  <2>1. g \in OpenFiles /\ a <= g.name /\ g.name > i
        BY <1>0, <1>1, <1>2, <1>5, <1>6
  <2>2. g \in OpenFiles' /\ g.name \in DOMAIN disk' /\ disk'[g.name] = disk[g.name]
        BY <1>4
  <2>3. PICK m \in Nat, l \in Nat :
           m = g.name /\ l = Len(Data(g)) /\ m + l <= N /\ a <= m
        BY <2>1, <1>5
  <2>4. ASSUME NEW q \in 1..l
        PROVE  acked'[m - a + q] = acked[m - F + q]
    <3>1. /\ m - a + q \in 1..N - a
          /\ (m - a + q) + (a - F) = m - F + q
      <4>1. m + l <= N /\ a <= m
            BY <2>3
      <4> QED  BY <4>1
    <3> QED  BY <3>1, <1>3
  <2>5. \A q \in 1..Len(Data(g)) : acked'[g.name - First' + q] = acked[g.name - First + q]
        BY <2>3, <2>4, <1>0, <1>3
  <2>6. First' \in Int /\ First' <= g.name
        BY <2>3, <1>3
  <2>7. g.name \notin cut' => g.name \notin cut
        BY <1>4
  <2> QED  BY <2>1, <2>2, <2>5, <2>6, <2>7, <1>5, SliceKept
<1>8. ASSUME NEW f \in Cut, NEW h, h = AfterCutHead(f, i)
      PROVE  /\ h \in FileType /\ h.name = i + 1 /\ h.start = i + 1 /\ h.last = End(f) - 1
             /\ IsOpen(h) /\ Sound(h)' /\ Slice(h)' /\ Len(Data(h)') > 0 /\ End(h)' = End(f)
             /\ a = i + 1 /\ h \in Heads
  <2>1. f \in OpenFiles /\ f.name <= i /\ i + 1 < End(f) /\ f.last = End(f) - 1
    <3>1. f \in OpenFiles /\ f.name <= i /\ i + 1 < End(f)
          BY <1>5, <1>6
    <3>2. Len(Data(f)) > 0
          BY <3>1, <1>0, <1>1, <1>5
    <3> QED  BY <3>1, <3>2, SlicedFacts
  <2>2. /\ h = [name |-> i + 1, start |-> i + 1, last |-> f.last, at |-> f.last - i]
        BY <1>8 DEF AfterCutHead
  <2>3. /\ h.name = i + 1 /\ h.start = i + 1 /\ h.last = End(f) - 1 /\ h.at = f.last - i
        /\ IsOpen(h) /\ h \in FileType /\ h \in Heads
    <3>1. i + 1 \in Nat /\ f.last \in Nat /\ f.last - i \in Nat /\ i + 1 # 0
          BY <2>1, <1>0, <1>1, <1>5
    <3> QED  BY <2>1, <2>2, <3>1, <1>8 DEF FileType, IsOpen, Heads
  <2>4. a = i + 1
        BY <2>1, <1>0, <1>1, <1>2, <1>5
  <2>5. PICK m \in Nat, n \in Nat :
           m = f.name /\ n = Len(Data(f)) /\ m <= i /\ i + 1 < m + n /\ m + n <= N /\ F <= m
           /\ End(f) = m + n
        BY <2>1, <1>5
  <2>c. m <= i /\ i + 1 < m + n /\ m + n <= N /\ F <= m
        BY <2>5
  <2>a. PICK c \in Nat \ {0} : c = i + 2 - m /\ c <= n
    <3>1. i + 2 - m \in Nat \ {0} /\ i + 2 - m <= n
          BY <2>c
    <3> QED  BY <3>1
  <2>6. PICK x \in Seq(EntryType), y \in Seq(SlotType) :
          x = Data(f) /\ y = Index(f) /\ n = Len(x) /\ n = Len(y)
        BY <2>1, <2>5, <1>5 DEF Slice
  <2>b. /\ SubSeq(x, c, n) \in Seq(EntryType) /\ SubSeq(y, c, n) \in Seq(SlotType)
        /\ Len(SubSeq(x, c, n)) = n - c + 1 /\ Len(SubSeq(y, c, n)) = n - c + 1
        /\ \A q \in 1..n - c + 1 :
             /\ SubSeq(x, c, n)[q] = x[c + q - 1] /\ SubSeq(y, c, n)[q] = y[c + q - 1]
             /\ c + q - 1 \in 1..n
    <3>1. n <= Len(x) /\ n <= Len(y) /\ c <= n + 1
          BY <2>a, <2>6
    <3>2. /\ SubSeq(x, c, n) \in Seq(EntryType) /\ Len(SubSeq(x, c, n)) = n - c + 1
          /\ \A q \in 1..n - c + 1 : SubSeq(x, c, n)[q] = x[c + q - 1] /\ c + q - 1 \in 1..n
          BY <3>1, PartTaken
    <3>3. /\ SubSeq(y, c, n) \in Seq(SlotType) /\ Len(SubSeq(y, c, n)) = n - c + 1
          /\ \A q \in 1..n - c + 1 : SubSeq(y, c, n)[q] = y[c + q - 1]
          BY <3>1, PartTaken
    <3> QED  BY <3>2, <3>3, Zenon
  <2>7. /\ Data(h)' = SubSeq(x, c, n) /\ Index(h)' = SubSeq(y, c, n)
        /\ i + 1 \in DOMAIN disk' /\ disk'[i + 1] \in FilesType
    <3>1. disk'[i + 1] = [data |-> SubSeq(x, c, n), index |-> SubSeq(y, c, n)]
          BY <2>5, <2>a, <2>6, <1>4
    <3>2. SubSeq(x, c, n) \in Seq(EntryType) /\ SubSeq(y, c, n) \in Seq(SlotType)
          BY <2>b
    <3>3. h \in OpenFiles'
          BY <2>3, <1>4
    <3>4. i + 1 \in DOMAIN disk'
          BY <2>3, <3>3, <1>4
    <3> QED  BY <2>3, <3>1, <3>2, <3>4 DEF Data, Index, FilesType
  <2>8. n - c + 1 = m + n - (i + 1) /\ n - c + 1 > 0 /\ n - c + 1 \in Nat
        BY <2>c, <2>a
  <2>10. End(h)' = End(f)
    <3>1. End(h)' = h.name + Len(Data(h)')
          BY DEF End
    <3>2. End(h)' = (i + 1) + (n - c + 1)
          BY <3>1, <2>3, <2>7, <2>b
    <3>3. (i + 1) + (n - c + 1) = m + n
          BY <2>8
    <3> QED  BY <3>2, <3>3, <2>5
  <2>11. Sound(h)'
        BY <2>3, <2>7 DEF Sound
  <2>12. ASSUME NEW q \in 1..n - c + 1
         PROVE  /\ SubSeq(x, c, n)[q] = acked'[q]
                /\ SubSeq(y, c, n)[q].index = i + q
    <3>1. PICK k \in 1..n : k = c + q - 1
          BY <2>b
    <3>2. SubSeq(x, c, n)[q] = x[k] /\ SubSeq(y, c, n)[q] = y[k]
          BY <3>1, <2>b
    <3>3. x[k] = acked[m - F + k] /\ y[k].index = m + k - 1
      <4>1. 1..Len(Data(f)) = 1..n /\ f.name = m /\ First = F /\ Slice(f)
            BY <2>1, <2>5, <1>0, <1>5
      <4> QED  BY <4>1, <2>6, <3>1 DEF Slice
    <3>4. m + k - 1 = i + q /\ m - F + k = q + (a - F) /\ q \in 1..N - a
          BY <3>1, <2>4, <2>c, <2>a
    <3> QED  BY <3>2, <3>3, <3>4, <1>3
  <2>13. Slice(h)'
    <3>1. First' = i + 1 /\ h.name \in cut'
          BY <2>3, <2>4, <1>3, <1>4
    <3>2. First' <= h.name /\ \A q \in 1..n - c + 1 : h.name - First' + q = q /\ h.name + q - 1 = i + q
          BY <2>3, <3>1, <1>1
    <3>3. h.at = n - c + 1
      <4>1. h.at = ((m + n) - 1) - i
        <5>1. f.last = (m + n) - 1
              BY <2>1, <2>5, Zenon
        <5>2. h.at = f.last - i
              BY <2>3
        <5> QED  BY <5>1, <5>2, Zenon
      <4> QED  BY <4>1, <2>8
    <3>4. Data(h)' = SubSeq(x, c, n) /\ Index(h)' = SubSeq(y, c, n)
          BY <2>7
    <3> HIDE DEF Data, Index
    <3>5. \A q \in 1..n - c + 1 :
            /\ SubSeq(x, c, n)[q] = acked'[h.name - First' + q]
            /\ SubSeq(y, c, n)[q].index = h.name + q - 1
          BY <3>2, <2>12
    <3> QED  BY <3>1, <3>2, <3>3, <3>4, <3>5, <2>b DEF Slice
  <2>14. Len(Data(h)') > 0
        BY <2>7, <2>b, <2>8
  <2> QED  BY <2>3, <2>4, <2>10, <2>11, <2>13, <2>14
<1>9. ASSUME NEW h \in Heads
      PROVE  \E f \in Cut : h = AfterCutHead(f, i)
      BY DEF Heads
<1>p. F <= a /\ a <= N /\ L = N - F /\ i + 1 <= N
      BY <1>0, <1>1, <1>2
<1>q. \A k \in 1..L : acked[k].index = F + k - 1
  <2>1. DOMAIN acked = 1..L
    <3>1. DOMAIN acked = 1..Len(acked)
          BY <1>1
    <3> QED  BY <3>1, <1>0, Zenon
  <2>2. \A k \in DOMAIN acked : acked[k].index = First + k - 1
        BY DEF Sliced, Numbered
  <2> QED  BY <1>0, <2>1, <2>2
<1>r. ASSUME IsOpen(current)
      PROVE  /\ current \in OpenFiles /\ End(current) = N
             /\ IF owed = 0 /\ Len(Data(current)) = 0
                THEN current.start = 0 /\ current.last = 0
                ELSE current.start = current.name
             /\ owed = 0 /\ Len(Data(current)) > 0 => current.last = End(current) - 1
  <2>1. /\ End(current) = NextIndex
        /\ IF owed = 0 /\ Len(Data(current)) = 0
           THEN current.start = 0 /\ current.last = 0
           ELSE current.start = current.name
        /\ owed = 0 /\ Len(Data(current)) > 0 => current.last = End(current) - 1
        BY <1>r DEF Sliced, CurrentFits
  <2> QED  BY <2>1, <1>0, <1>r, SlicedFacts
<1>s. \A k \in F .. N - 1 : \E f \in OpenFiles : f.name <= k /\ k < End(f)
  <2>1. \A k \in First .. NextIndex - 1 : \E f \in OpenFiles : f.name <= k /\ k < End(f)
        BY DEF Sliced, Tiled
  <2> QED  BY <2>1, <1>0
<1>10. Numbered'
  <2>1. \A k \in 1..N - a : k + (a - F) \in 1..L /\ F + (k + (a - F)) - 1 = a + k - 1
        BY <1>p
  <2>3. \A k \in 1..N - a : acked'[k].index = a + k - 1
        BY <2>1, <1>q, <1>3
  <2>4. DOMAIN acked' = 1..N - a
        BY <1>3
  <2>5. First' = a /\ a >= 1
        BY <1>3
  <2> QED  BY <2>3, <2>4, <2>5 DEF Numbered
<1>11. OnDisk'
  <2>1. DOMAIN disk' = {f.name : f \in OpenFiles'}
        BY <1>4
  <2>2. \A f \in segments' : IsOpen(f)
        BY <1>4, <1>5, <1>6, <1>8
  <2>3. ASSUME ~IsOpen(current')
        PROVE  current' = Closed /\ segments' = {} /\ acked' = <<>>
    <3>1. CASE ~IsOpen(current)
      <4>1. current = Closed /\ segments = {} /\ acked = <<>> /\ current' = current
            BY <3>1, <1>4 DEF Sliced, OnDisk
      <4>2. F = N
            BY <4>1, <1>0, <1>1
      <4>3. Len(acked') = 0
        <5>1. N - a = 0
              BY <4>2, <1>p
        <5> QED  BY <5>1, <1>3, Zenon
      <4> QED  BY <4>1, <4>3, <1>3, <1>4
    <3>2. CASE IsOpen(current)
      <4>1. current \in OpenFiles
            BY <3>2, SlicedFacts
      <4>2. ~(current.name > i) /\ current \notin Cut /\ current' = Closed
            BY <2>3, <3>2, <1>4, <1>8
      <4>3. End(current) = N
            BY <3>2, <1>r
      <4>4. i + 1 = N /\ current.name <= i
            BY <4>1, <4>2, <4>3, <1>0, <1>1, <1>5
      <4>5. a = N
            BY <4>1, <4>4, <1>0, <1>1, <1>2, <1>5
      <4>6. Len(acked') = 0
            BY <4>5, <1>0, <1>1, <1>3
      <4>7. \A f \in segments : End(f) <= current.name /\ f \in OpenFiles
            BY <1>1, SplitFacts, SlicedFacts
      <4>8. ASSUME NEW f \in segments PROVE f \notin Left /\ f \notin Cut
        <5>1. PICK m \in Nat, e \in Nat, c \in Nat :
                 m = f.name /\ e = End(f) /\ c = current.name /\ m <= e /\ e <= c /\ c <= i
              BY <4>1, <4>4, <4>7, <1>5
        <5>2. ~(m > i) /\ ~(i + 1 < e)
              BY <5>1
        <5> QED  BY <5>1, <5>2, <4>7, <1>5
      <4> QED  BY <4>2, <4>6, <4>8, <1>3, <1>4
    <3> QED  BY <3>1, <3>2
  <2> QED  BY <2>1, <2>2, <2>3 DEF OnDisk
<1>12. ASSUME IsOpen(current')
       PROVE  current \in OpenFiles
  <2>1. IsOpen(current)
        BY <1>12, <1>4
  <2> QED  BY <2>1, SlicedFacts
<1>13. CurrentFits'
  <2> SUFFICES ASSUME IsOpen(current')
               PROVE  /\ End(current)' = NextIndex'
                      /\ IF owed' = 0 /\ Len(Data(current)') = 0
                         THEN current'.start = 0 /\ current'.last = 0
                         ELSE current'.start = current'.name
                      /\ owed' = 0 /\ Len(Data(current)') > 0 => current'.last = End(current)' - 1
      BY DEF CurrentFits
  <2>1. /\ current \in OpenFiles /\ End(current) = N
        /\ IF owed = 0 /\ Len(Data(current)) = 0
           THEN current.start = 0 /\ current.last = 0
           ELSE current.start = current.name
        /\ owed = 0 /\ Len(Data(current)) > 0 => current.last = End(current) - 1
        BY <1>12, <1>r DEF OpenFiles
  <2>2. CASE current.name > i
    <3>1. current' = current /\ current \in Left
          BY <2>1, <2>2, <1>4, <1>5
    <3>2. PICK g : g = current /\ g = current' /\ g \in Left
          BY <3>1
    <3>3. Data(g)' = Data(g) /\ End(g)' = End(g)
          BY <3>2, <1>7
    <3>4. Data(current)' = Data(g)' /\ End(current)' = End(g)'
          BY <3>2 DEF Data, End
    <3> QED  BY <2>1, <3>2, <3>3, <3>4, <1>3
  <2>3. CASE ~(current.name > i)
    <3>1. current \in Cut /\ current' = AfterCutHead(current, i)
          BY <2>1, <2>3, <1>4, <1>5 DEF IsOpen, Closed
    <3>2. PICK h : h = current'
          OBVIOUS
    <3>3. /\ h.name = i + 1 /\ h.start = i + 1 /\ h.last = End(current) - 1
          /\ Len(Data(h)') > 0 /\ End(h)' = End(current)
          BY <3>1, <3>2, <1>8
    <3>4. Data(current)' = Data(h)' /\ End(current)' = End(h)'
          BY <3>2 DEF Data, End
    <3>5. Len(Data(current)') # 0
          BY <3>3, <3>4
    <3> QED  BY <2>1, <3>2, <3>3, <3>4, <3>5, <1>3
  <2> QED  BY <2>2, <2>3
<1>14. Tiled'
  <2>1. \A g \in Left : g.name > i /\ g \in OpenFiles /\ g.name \in Nat
        BY <1>5, <1>6
  <2>2. ASSUME NEW f \in Cut, NEW g \in Left
        PROVE  i + 1 < g.name /\ End(f) <= g.name
    <3>1. f.name <= i /\ i + 1 < End(f) /\ f.name \in Nat /\ End(f) \in Nat
          BY <1>5, <1>6
    <3>2. f.name < g.name
          BY <2>1, <3>1, <1>0, <1>1
    <3>3. End(f) <= g.name
          BY <3>2, <1>6 DEF Sliced, Tiled
    <3> QED  BY <2>1, <3>1, <3>3, <1>0, <1>1
  <2>3. ASSUME NEW h \in Heads
        PROVE  /\ h.name = i + 1
               /\ \A g \in Left : g.name # h.name /\ ~(g.name < h.name) /\ End(h)' <= g.name
               /\ \A k \in Heads : k = h
               /\ ~(h.name < h.name)
    <3>1. PICK f \in Cut : h = AfterCutHead(f, i)
          BY <1>9
    <3>2. h.name = i + 1 /\ End(h)' = End(f)
          BY <3>1, <1>8
    <3>3. \A g \in Left : g.name # h.name /\ ~(g.name < h.name) /\ End(h)' <= g.name
      <4> SUFFICES ASSUME NEW g \in Left
                   PROVE  g.name # h.name /\ ~(g.name < h.name) /\ End(h)' <= g.name
          OBVIOUS
      <4>1. i + 1 < g.name /\ End(f) <= g.name /\ g.name \in Nat
            BY <2>1, <2>2
      <4> QED  BY <4>1, <3>2, <1>0, <1>1
    <3>4. \A k \in Heads : k = h
          BY <3>1, <1>4, <1>9
    <3>5. ~(h.name < h.name)
          BY <3>2, <1>0, <1>1
    <3> QED  BY <3>2, <3>3, <3>4, <3>5
  <2>4. ASSUME NEW g \in OpenFiles', NEW h \in OpenFiles'
        PROVE  /\ g.name = h.name => g = h
               /\ g.name < h.name => End(g)' <= h.name
    <3>1. CASE g \in Left /\ h \in Left
          BY <3>1, <1>6, <1>7 DEF Sliced, Tiled
    <3>2. CASE g \in Left /\ h \in Heads
          BY <3>2, <2>3
    <3>3. CASE g \in Heads /\ h \in Left
          BY <3>3, <2>3
    <3>4. CASE g \in Heads /\ h \in Heads
          BY <3>4, <2>3
    <3> QED  BY <3>1, <3>2, <3>3, <3>4, <1>4
  <2>5. ASSUME NEW k \in First' .. NextIndex' - 1
        PROVE  \E g \in OpenFiles' : g.name <= k /\ k < End(g)'
    <3>1. k \in a .. N - 1 /\ a = First'
          BY <1>3
    <3>a. k \in F .. N - 1
          BY <3>1, <1>p
    <3>2. PICK f \in OpenFiles : f.name <= k /\ k < End(f)
          BY <3>a, <1>s
    <3>3. CASE f.name > i
      <4>1. f \in Left
            BY <3>3, <1>5
      <4> QED  BY <3>2, <4>1, <1>4, <1>7
    <3>4. CASE ~(f.name > i)
      <4>1. f.name \in Nat /\ f.name <= i /\ F <= f.name /\ End(f) \in Nat
            BY <3>4, <1>0, <1>1, <1>5
      <4>2. a = i + 1 /\ i + 1 < End(f)
            BY <3>1, <3>2, <4>1, <1>0, <1>1, <1>2
      <4>3. f \in Cut
            BY <4>1, <4>2, <1>5
      <4>4. PICK h : h = AfterCutHead(f, i)
            OBVIOUS
      <4>5. h.name <= k /\ k < End(h)' /\ h \in OpenFiles'
            BY <3>1, <3>2, <4>2, <4>3, <4>4, <1>0, <1>1, <1>4, <1>8
      <4> QED  BY <4>5
    <3> QED  BY <3>3, <3>4
  <2> QED  BY <2>4, <2>5 DEF Tiled
<1>15. ASSUME NEW g \in segments' PROVE ClosedFits(g)'
  <2>1. ASSUME NEW f \in segments
        PROVE  /\ f \in OpenFiles /\ f.name < current.name /\ Len(Data(f)) > 0
               /\ f.start = f.name /\ f.last = End(f) - 1 /\ End(f) <= current.name
               /\ current \in OpenFiles
    <3>1. f \in OpenFiles /\ ClosedFits(f) /\ IsOpen(current)
          BY SlicedFacts DEF Sliced, OnDisk
    <3> QED  BY <3>1, SlicedFacts, SplitFacts DEF ClosedFits
  <2>2. CASE g \in Left \intersect segments
    <3>1. /\ g \in OpenFiles /\ g.name > i /\ g.name < current.name /\ current \in OpenFiles
          BY <2>1, <2>2, <1>5
    <3>2. current' = current
      <4>1. g.name \in Nat /\ current.name \in Nat
            BY <3>1, <1>5
      <4>2. current.name > i
            BY <3>1, <4>1
      <4> QED  BY <4>2, <1>4
    <3>3. Data(g)' = Data(g) /\ End(g)' = End(g)
          BY <2>2, <1>7
    <3> QED  BY <2>1, <2>2, <3>1, <3>2, <3>3 DEF ClosedFits
  <2>3. CASE g \notin Left \intersect segments
    <3>1. PICK f \in Cut \intersect segments : g = AfterCutHead(f, i)
          BY <2>3, <1>4
    <3>2. /\ g.name = i + 1 /\ g.start = i + 1 /\ g.last = End(f) - 1
          /\ Len(Data(g)') > 0 /\ End(g)' = End(f)
          BY <3>1, <1>8
    <3>3. /\ i + 1 < End(f) /\ End(f) <= current.name /\ current.name \in Nat /\ End(f) \in Nat
          BY <2>1, <3>1, <1>5
    <3>4. current' = current /\ i + 1 < current.name
          BY <3>3, <1>0, <1>1, <1>4
    <3> QED  BY <3>2, <3>4 DEF ClosedFits
  <2> QED  BY <2>2, <2>3
<1>16. PlainTypes'
  <2>1. ASSUME NEW g \in OpenFiles' PROVE Sound(g)' /\ Slice(g)'
        BY <1>4, <1>7, <1>8, <1>9
  <2>2. disk' \in [DOMAIN disk' -> FilesType]
    <3>1. \A m \in DOMAIN disk' : \E g \in OpenFiles' : m = g.name
          BY <1>11 DEF OnDisk
    <3>2. \A m \in DOMAIN disk' : disk'[m] \in FilesType
          BY <2>1, <3>1 DEF Sound
    <3>3. disk' = [m \in DOMAIN disk' |-> disk'[m]]
          BY <1>4, <1>11 DEF OnDisk
    <3> QED  BY <3>2, <3>3
  <2>3. IsFiniteSet(segments')
    <3>1. IsFiniteSet(Left \intersect segments)
          BY FS_Subset DEF Sliced, PlainTypes
    <3>2. CASE Cut \intersect segments = {}
          BY <3>1, <3>2, <1>4
    <3>3. CASE Cut \intersect segments # {}
      <4>1. PICK f \in Cut : Cut \intersect segments = {f}
            BY <3>3, <1>4
      <4>2. segments' = (Left \intersect segments) \union {AfterCutHead(f, i)}
            BY <4>1, <1>4
      <4> QED  BY <3>1, <4>2, FS_AddElement
    <3> QED  BY <3>2, <3>3
  <2>4. current' \in FileType
    <3>1. Closed \in FileType
          BY DEF Closed, FileType
    <3>2. current \in FileType
          BY DEF Sliced, PlainTypes
    <3> QED  BY <3>1, <3>2, <1>4, <1>8
  <2>5. Len(acked') <= writes'
    <3>1. Len(acked) <= writes
          BY DEF Sliced, PlainTypes
    <3>2. L <= writes /\ N - a <= L
          BY <3>1, <1>0, <1>p
    <3>3. N - a <= writes
          BY <3>2, <1>p
    <3> QED  BY <3>3, <1>3
  <2> QED  BY <2>1, <2>2, <2>3, <2>4, <2>5, <1>0, <1>1, <1>3 DEF PlainTypes
<1>17. \A g \in OpenFiles' : Slice(g)'
       BY <1>4, <1>7, <1>8, <1>9
<1> QED  BY <1>10, <1>11, <1>13, <1>14, <1>15, <1>16, <1>17 DEF Sliced

\* truncate_prefix does that.
LEMMA PrefixGoneIs ==
    ASSUME Sliced, owed = 0, NEW i \in Nat \ {0}, i <= last, TruncatePrefix(i),
           \A f \in Files : Split(f, i) => f.name \notin cut,
           cut' = IF {f \in Files : Split(f, i)} # {} THEN cut \union {i + 1} ELSE cut
    PROVE  PrefixGone(i)
<1> DEFINE Cut == {f \in OpenFiles : f.name <= i /\ i + 1 < End(f)}
           Left == {f \in OpenFiles : f.name > i}
<1>1. i \in 1..last /\ i + 1 \in Nat /\ i < i + 1
  <2>1. last \in Nat
        BY DEF Sliced, PlainTypes
  <2> QED  BY <2>1
<1>2. ASSUME NEW f \in Files
      PROVE  f \in Cut <=> Split(f, i)
  <2>1. Split(f, i) => f \in OpenFiles
        BY DEF Split, Holds, OpenFiles
  <2> QED  BY <2>1, <1>1, SplitFacts
<1>3. /\ Cut \subseteq OpenFiles /\ Left \subseteq OpenFiles /\ OpenFiles \subseteq Files
      /\ \A f \in OpenFiles : f \in Left <=> f.name > i
      BY DEF OpenFiles
<1>4. \A f, g \in Cut : f = g
      BY <1>1, <1>2, <1>3, SplitFacts
<1>5. ASSUME NEW f \in OpenFiles
      PROVE  /\ f.name \in Nat \ {0} /\ End(f) \in Nat /\ f.name <= End(f) /\ IsOpen(f)
             /\ f \in Cut <=> f.name <= i /\ i + 1 < End(f)
             /\ f \in segments \/ f = current
             /\ f.name \in DOMAIN disk
      BY SlicedFacts DEF OpenFiles, Files
<1>6. \A f \in segments : f \in OpenFiles /\ IsOpen(current) /\ current \in OpenFiles /\ f # current
      /\ End(f) <= current.name
      BY <1>1, SlicedFacts, SplitFacts DEF Sliced, OnDisk, ClosedFits
<1>7. \A f, g \in OpenFiles : f.name = g.name => f = g
      BY DEF Sliced, Tiled
<1>8. DOMAIN disk = {f.name : f \in OpenFiles}
      BY DEF Sliced, OnDisk
<1> HIDE DEF Cut, Left
<1>9. cut \subseteq cut' /\ (Cut # {} => i + 1 \in cut')
      BY <1>2, <1>3
<1>10. Splits(i) = Cut \intersect segments
       BY <1>2, <1>3, <1>6 DEF Splits, Files
<1> DEFINE Gone == Dropped(i)
           first == IF Splits(i) = {} THEN Closed
                    ELSE CHOOSE f \in Splits(i) : \A g \in Splits(i) : f.start <= g.start
           kept == segments \ (Gone \union {first})
           files == WithoutHead(Removed(disk, {f.name : f \in Gone}), first, i)
<1>11. ASSUME NEW f \in segments
       PROVE  f \in Gone <=> f \notin Left /\ f \notin Cut
  <2>1. f \in OpenFiles /\ (f.last <= i <=> End(f) <= i + 1)
        BY <1>1, <1>6, SplitFacts
  <2>2. f.last <= i <=> f \notin Left /\ f \notin Cut
    <3>1. f.name < End(f)
      <4>1. Len(Data(f)) > 0 /\ f.name \in Nat /\ End(f) = f.name + Len(Data(f))
            /\ Len(Data(f)) \in Nat
            BY <2>1, SlicedFacts DEF Sliced, ClosedFits, End
      <4> QED  BY <4>1
    <3>2. PICK m \in Nat, e \in Nat : m = f.name /\ e = End(f) /\ m < e
          BY <2>1, <3>1, <1>5
    <3>3. e <= i + 1 <=> ~(m > i) /\ ~(m <= i /\ i + 1 < e)
          BY <3>2
    <3> QED  BY <2>1, <3>2, <3>3, <1>3, <1>5
  <2>3. ASSUME f \notin Left, f \notin Cut, NEW g \in Splits(i) PROVE f.start < g.start
    <3>1. g \in segments /\ g \in Cut /\ g \in OpenFiles /\ f # g /\ Split(g, i)
          BY <2>3, <1>2, <1>3, <1>10
    <3>2. f.start = f.name /\ g.start = g.name /\ ~(f.name > i)
          BY <2>1, <2>3, <3>1, <1>1, <1>3, SplitFacts
    <3>3. f.name <= i /\ End(f) <= i
      <4>1. (f.name <= i /\ End(f) <= i) \/ i + 1 < f.name
            BY <2>1, <3>1, <1>1, SplitFacts
      <4>2. f.name \in Nat
            BY <2>1, <1>5
      <4> QED  BY <3>2, <4>1, <4>2
    <3>4. f.name # g.name /\ (g.name < f.name => End(g) <= f.name)
          BY <2>1, <3>1 DEF Sliced, Tiled
    <3>5. i + 1 < End(g) /\ End(g) \in Nat /\ g.name \in Nat /\ f.name \in Nat
          BY <2>1, <3>1, <1>5
    <3> QED  BY <3>2, <3>3, <3>4, <3>5
  <2> QED  BY <2>2, <2>3 DEF Dropped
<1>12. Gone \subseteq segments
       BY DEF Dropped
<1>13. /\ segments' = IF first = Closed THEN kept ELSE Emplaced(kept, Headless(first, i))
       /\ IF Split(first, i) /\ ~Cuts(first, i)
          THEN disk' = files /\ current' = current
          ELSE IF IsOpen(current) /\ i = current.last
          THEN disk' = Removed(files, {current.name}) /\ current' = Closed
          ELSE disk' = WithoutHead(files, current, i) /\ current' = Headless(current, i)
       BY DEF TruncatePrefix
<1>14. ~Split(Closed, i) /\ ~IsOpen(Closed) /\ Closed \notin segments
       BY <1>6, <1>5 DEF Split, Holds, IsOpen, Closed
<1> DEFINE base == Removed(disk, {f.name : f \in Gone})
<1>15. /\ DOMAIN base = {f.name : f \in OpenFiles \ Gone}
       /\ \A f \in OpenFiles \ Gone : base[f.name] = disk[f.name]
  <2>1. DOMAIN base = DOMAIN disk \ {f.name : f \in Gone}
        BY DEF Removed
  <2>2. Gone \subseteq OpenFiles
        BY <1>6, <1>12
  <2> HIDE DEF Gone, base
  <2>3. DOMAIN base = {f.name : f \in OpenFiles \ Gone}
        BY <2>1, <2>2, <1>7, <1>8
  <2> QED  BY <2>3, <2>2, <1>5, <1>7 DEF Removed, base
<1>16. ASSUME NEW f \in Cut
       PROVE  /\ f \in OpenFiles /\ Split(f, i) /\ f \notin Gone /\ f \notin Left
              /\ Cuts(f, i) /\ Headless(f, i) = AfterCutHead(f, i)
              /\ \A d : f.name \in DOMAIN d /\ d[f.name] = disk[f.name] =>
                    WithoutHead(d, f, i) = Renamed(d, f, i)
              /\ AfterCutHead(f, i).name = i + 1 /\ AfterCutHead(f, i).start = i + 1
              /\ IsOpen(AfterCutHead(f, i))
  <2>1. f \in OpenFiles /\ Split(f, i) /\ f.name \notin cut
        BY <1>2, <1>3
  <2>2. f \notin Gone
        BY <1>11, <1>12
  <2>3. f.name <= i /\ f \notin Left
        BY <2>1, <1>3, <1>5
  <2>4. /\ Cuts(f, i) /\ Headless(f, i) = AfterCutHead(f, i)
        /\ \A d : f.name \in DOMAIN d /\ d[f.name] = disk[f.name] =>
                    WithoutHead(d, f, i) = Renamed(d, f, i)
    <3>1. ASSUME NEW d, f.name \in DOMAIN d, d[f.name] = disk[f.name]
          PROVE  /\ Cuts(f, i) /\ Headless(f, i) = AfterCutHead(f, i)
                 /\ WithoutHead(d, f, i) = Renamed(d, f, i)
          BY <2>1, <3>1, <1>1, HeadCut
    <3>2. f.name \in DOMAIN disk
          BY <2>1, <1>5
    <3> QED  BY <3>1, <3>2, Zenon
  <2>5. /\ AfterCutHead(f, i).name = i + 1 /\ AfterCutHead(f, i).start = i + 1
        /\ IsOpen(AfterCutHead(f, i))
        BY <1>1 DEF AfterCutHead, IsOpen
  <2> QED  BY <2>1, <2>2, <2>3, <2>4, <2>5
<1>17. /\ base = Removed(disk, {f.name : f \in Gone})
       /\ files = WithoutHead(base, first, i) /\ kept = segments \ (Gone \union {first})
       OBVIOUS
<1> DEFINE Heads == {AfterCutHead(f, i) : f \in Cut}
\* What remains to be shown.
<1>18. ASSUME OpenFiles' = Left \union Heads,
              segments' = (Left \intersect segments) \union
                             {AfterCutHead(f, i) : f \in Cut \intersect segments},
              current' = IF ~IsOpen(current) \/ current.name > i THEN current
                         ELSE IF current \in Cut THEN AfterCutHead(current, i) ELSE Closed,
              disk' = [m \in {f.name : f \in OpenFiles'} |-> disk'[m]],
              \A f \in Left : disk'[f.name] = disk[f.name],
              \A f \in Cut : disk'[i + 1] = Behind(f, i)
       PROVE  PrefixGone(i)
       BY <1>18, <1>4, <1>9 DEF PrefixGone, Cut, Left, Behind
<1> HIDE DEF Gone, first, kept, files, base, Heads
<1>19. CASE Cut \intersect segments # {}
  <2>1. PICK f \in Cut : f \in segments
        BY <1>19
  <2>2. Cut = {f} /\ Splits(i) = {f}
        BY <2>1, <1>4, <1>10
  <2>3. PICK h : h = AfterCutHead(f, i)
        OBVIOUS
  <2>4. /\ f \in OpenFiles /\ Split(f, i) /\ f \notin Gone /\ f \notin Left
        /\ Cuts(f, i) /\ Headless(f, i) = h
        /\ h.name = i + 1 /\ h.start = i + 1 /\ IsOpen(h)
        BY <2>3, <1>16
  <2>5. first = f /\ first # Closed
    <3>1. f.start \in Nat
      <4>1. f.start = f.name
            BY <2>1, <1>1, SplitFacts
      <4> QED  BY <4>1, <2>4, <1>5
    <3>2. (CHOOSE g \in {f} : \A k \in {f} : g.start <= k.start) = f
          BY <3>1
    <3> QED  BY <2>1, <2>2, <3>2, <1>14 DEF first
  <2>6. /\ current \in Left /\ current \notin Cut /\ ~Split(current, i) /\ i # current.last
        /\ IsOpen(current) /\ current.name > i
    <3>1. current \in OpenFiles /\ f # current /\ End(f) <= current.name
          BY <2>1, <1>6
    <3>2. PICK c \in Nat, e \in Nat, z \in Nat :
             c = current.name /\ e = End(f) /\ z = End(current) /\ e <= c /\ i + 1 < e /\ c <= z
          BY <2>4, <3>1, <1>5, <2>1
    <3>3. c > i /\ z # i + 1
          BY <3>2
    <3>4. current \in Files /\ current \notin Cut
          BY <2>2, <3>1, <1>3
    <3> QED  BY <3>1, <3>2, <3>3, <3>4, <1>1, <1>2, <1>3, <1>5, SplitFacts
  <2>7. disk' = files /\ current' = current
    <3>1. ~Cuts(current, i)
          BY <2>6 DEF Cuts
    <3>2. WithoutHead(files, current, i) = files /\ Headless(current, i) = current
          BY <3>1 DEF WithoutHead, Headless
    <3> QED  BY <3>2, <2>4, <2>5, <2>6, <1>13
  <2>8. ASSUME NEW g \in Left PROVE g.name # i + 1 /\ g.name # f.name /\ g \notin Gone
    <3>1. g \in OpenFiles /\ g # f /\ g.name > i
          BY <2>4, <1>3
    <3>2. (g.name <= i /\ End(g) <= i) \/ i + 1 < g.name
          BY <3>1, <2>4, <1>1, SplitFacts
    <3>3. g.name \in Nat
          BY <3>1, <1>5
    <3> QED  BY <3>1, <3>2, <3>3, <2>4, <1>7, <1>11, <1>12
  <2>9. kept = Left \intersect segments
    <3>1. \A g \in segments : g \notin Gone /\ g # f <=> g \in Left
          BY <2>2, <2>4, <2>8, <1>11
    <3> QED  BY <3>1, <2>5, <1>17
  <2>10. segments' = (Left \intersect segments) \union {h}
    <3>1. \A g \in kept : g.start # h.start
      <4>1. \A g \in segments : g.start = g.name
            BY <1>1, SplitFacts
      <4> QED  BY <4>1, <2>4, <2>8, <2>9
    <3> QED  BY <3>1, <2>4, <2>5, <2>9, <1>13 DEF Emplaced
  <2>11. Heads = {h} /\ {AfterCutHead(g, i) : g \in Cut \intersect segments} = {h}
         BY <2>1, <2>2, <2>3 DEF Heads
  <2>12. OpenFiles' = Left \union {h}
    <3>1. OpenFiles' = {g \in segments' \union {current'} : IsOpen(g)}
          BY DEF OpenFiles, Files, IsOpen
    <3>2. Left = (Left \intersect segments) \union {current}
          BY <2>6, <1>3, <1>5
    <3>3. \A g \in Left : IsOpen(g)
          BY <1>3, <1>5
    <3> QED  BY <3>1, <3>2, <3>3, <2>4, <2>7, <2>10
  <2>13. OpenFiles \ Gone = Left \union {f}
    <3>1. ASSUME NEW g \in OpenFiles PROVE g \notin Gone <=> g \in Left \/ g = f
      <4>1. CASE g \in segments
            BY <4>1, <2>2, <1>11
      <4>2. CASE g \notin segments
            BY <4>2, <2>6, <1>5, <1>12
      <4> QED  BY <4>1, <4>2
    <3> QED  BY <3>1, <2>4, <1>3
  <2>14. disk' = [m \in (DOMAIN base \ {f.name}) \union {i + 1} |->
                    IF m = i + 1 THEN Behind(f, i) ELSE base[m]]
    <3>1. f.name \in DOMAIN base /\ base[f.name] = disk[f.name]
          BY <2>4, <1>15
    <3>2. files = Renamed(base, f, i)
          BY <3>1, <2>5, <1>16, <1>17
    <3> QED  BY <3>2, <2>7, Zenon DEF Renamed
  <2>15. (DOMAIN base \ {f.name}) \union {i + 1} = {g.name : g \in Left \union {h}}
    <3>1. DOMAIN base = {g.name : g \in Left \union {f}}
          BY <2>13, <1>15
    <3> QED  BY <3>1, <2>4, <2>8
  <2>16. ASSUME NEW g \in Left PROVE disk'[g.name] = disk[g.name]
    <3>1. g.name # i + 1 /\ g.name # f.name /\ g \in OpenFiles \ Gone
          BY <2>8, <1>3
    <3>2. g.name \in DOMAIN base /\ base[g.name] = disk[g.name]
          BY <3>1, <1>15
    <3> QED  BY <3>1, <3>2, <2>14
  <2>17. disk'[i + 1] = Behind(f, i)
         BY <2>14
  <2>18. disk' = [m \in {g.name : g \in OpenFiles'} |-> disk'[m]]
         BY <2>12, <2>14, <2>15
  <2> QED  BY <2>2, <2>6, <2>7, <2>10, <2>11, <2>12, <2>16, <2>17, <2>18, <1>18
<1>20. ASSUME Cut \intersect segments = {}
       PROVE  /\ segments' = Left \intersect segments
              /\ IF IsOpen(current) /\ i = current.last
                 THEN disk' = Removed(base, {current.name}) /\ current' = Closed
                 ELSE disk' = WithoutHead(base, current, i) /\ current' = Headless(current, i)
              /\ {AfterCutHead(g, i) : g \in Cut \intersect segments} = {}
  <2>1. first = Closed
        BY <1>10, <1>20 DEF first
  <2>2. kept = Left \intersect segments
    <3>1. \A g \in segments : g \notin Gone /\ g # Closed <=> g \in Left
          BY <1>11, <1>14, <1>20
    <3> QED  BY <3>1, <2>1, <1>17
  <2>3. files = base
        BY <2>1, <1>14, <1>17 DEF WithoutHead, Cuts
  <2> QED  BY <2>1, <2>2, <2>3, <1>13, <1>14, <1>20
<1>21. CASE Cut \intersect segments = {} /\ current \in Cut
  <2>1. PICK h : h = AfterCutHead(current, i)
        OBVIOUS
  <2>2. /\ current \in OpenFiles /\ Split(current, i) /\ current \notin Gone /\ current \notin Left
        /\ Cuts(current, i) /\ Headless(current, i) = h /\ IsOpen(h) /\ h.name = i + 1
        BY <2>1, <1>16, <1>21
  <2>3. current.name <= i /\ i + 1 < End(current) /\ current.name \in Nat
        /\ End(current) \in Nat /\ IsOpen(current)
        BY <2>2, <1>5, <1>21
  <2>4. ASSUME NEW g \in segments PROVE g \in Gone
    <3>1. g \in OpenFiles /\ End(g) <= current.name
          BY <1>6
    <3>2. PICK m \in Nat, e \in Nat, c \in Nat :
             m = g.name /\ e = End(g) /\ c = current.name /\ m <= e /\ e <= c /\ c <= i
          BY <2>3, <3>1, <1>5
    <3>3. ~(m > i)
          BY <3>2
    <3> QED  BY <3>1, <3>2, <3>3, <1>3, <1>11, <1>21
  <2>5. Left = {} /\ OpenFiles \ Gone = {current} /\ segments' = {}
    <3>1. \A g \in Left : g \in segments \/ g = current
          BY <1>3, <1>5
    <3>2. Left = {}
          BY <2>2, <2>4, <3>1, <1>11
    <3> QED  BY <2>2, <2>4, <3>2, <1>5, <1>20, <1>21
  <2>6. disk' = WithoutHead(base, current, i) /\ current' = h
    <3>1. i # current.last
      <4>1. End(current) # i + 1
            BY <2>3
      <4> QED  BY <4>1, <2>2, <1>1, SplitFacts
    <3> QED  BY <2>2, <3>1, <1>20, <1>21
  <2>7. disk' = [m \in (DOMAIN base \ {current.name}) \union {i + 1} |->
                   IF m = i + 1 THEN Behind(current, i) ELSE base[m]]
    <3>1. current.name \in DOMAIN base /\ base[current.name] = disk[current.name]
          BY <2>2, <1>15
    <3> QED  BY <3>1, <2>6, <1>16, <1>21, Zenon DEF Renamed
  <2>8. Cut = {current} /\ Heads = {h}
        BY <2>1, <1>4, <1>21 DEF Heads
  <2>9. OpenFiles' = {h}
    <3>1. OpenFiles' = {g \in segments' \union {current'} : IsOpen(g)}
          BY DEF OpenFiles, Files, IsOpen
    <3> QED  BY <3>1, <2>2, <2>5, <2>6
  <2>10. (DOMAIN base \ {current.name}) \union {i + 1} = {g.name : g \in OpenFiles'}
    <3>1. DOMAIN base = {current.name}
          BY <2>5, <1>15
    <3> QED  BY <3>1, <2>2, <2>9
  <2>11. disk' = [m \in {g.name : g \in OpenFiles'} |-> disk'[m]]
         BY <2>7, <2>10
  <2>12. disk'[i + 1] = Behind(current, i)
         BY <2>7
  <2>13. current' = IF ~IsOpen(current) \/ current.name > i THEN current
                    ELSE IF current \in Cut THEN AfterCutHead(current, i) ELSE Closed
         BY <2>1, <2>3, <2>6, <1>21
  <2> QED  BY <2>5, <2>8, <2>9, <2>11, <2>12, <2>13, <1>18, <1>20, <1>21
<1>22. CASE Cut \intersect segments = {} /\ current \notin Cut
  <2>1. Cut = {} /\ Heads = {}
        BY <1>3, <1>5, <1>22 DEF Heads
  <2>2. \A g \in segments : g \notin Gone <=> g \in Left
        BY <2>1, <1>11
  <2>3. OpenFiles' = {g \in segments' \union {current'} : IsOpen(g)}
        BY DEF OpenFiles, Files, IsOpen
  <2>4. \A g \in Left : IsOpen(g) /\ g \in OpenFiles
        BY <1>3, <1>5
  <2>5. CASE IsOpen(current) /\ i = current.last
    <3>1. /\ current \in OpenFiles /\ End(current) = i + 1 /\ Len(Data(current)) > 0
      <4>1. current \in OpenFiles
            BY <2>5, SlicedFacts
      <4> QED  BY <4>1, <2>5, <1>1, SplitFacts
    <3>2. current.name <= i /\ current.name \in Nat
      <4>1. /\ current.name \in Nat /\ Len(Data(current)) \in Nat
            /\ current.name + Len(Data(current)) = i + 1
            BY <3>1, SlicedFacts DEF End
      <4> QED  BY <4>1, <3>1
    <3>3. ASSUME NEW g \in segments PROVE g \notin Left
      <4>1. g \in OpenFiles /\ End(g) <= current.name
            BY <1>6
      <4>2. PICK m \in Nat, e \in Nat, c \in Nat :
               m = g.name /\ e = End(g) /\ c = current.name /\ m <= e /\ e <= c /\ c <= i
            BY <3>2, <4>1, <1>5
      <4>3. ~(m > i)
            BY <4>2
      <4> QED  BY <4>1, <4>2, <4>3, <1>3
    <3>4. current \notin Left
          BY <3>1, <3>2, <1>3
    <3>5. Left = {} /\ OpenFiles \ Gone = {current}
          BY <3>1, <3>3, <3>4, <2>2, <2>4, <1>3, <1>5, <1>12, <1>6
    <3>6. segments' = {} /\ disk' = Removed(base, {current.name}) /\ current' = Closed
          BY <2>5, <3>5, <1>20, <1>22
    <3>7. OpenFiles' = {}
          BY <2>3, <3>6, <1>14
    <3>8. disk' = [m \in {} |-> disk'[m]]
      <4>1. DOMAIN base = {current.name}
            BY <3>5, <1>15
      <4>2. disk' = [m \in DOMAIN base \ {current.name} |-> base[m]]
            BY <3>6 DEF Removed
      <4>3. DOMAIN base \ {current.name} = {}
            BY <4>1
      <4> QED  BY <4>2, <4>3
    <3>9. {g.name : g \in OpenFiles'} = {}
          BY <3>7
    <3>10. current' = IF ~IsOpen(current) \/ current.name > i THEN current
                      ELSE IF current \in Cut THEN AfterCutHead(current, i) ELSE Closed
           BY <3>2, <3>6, <2>5, <1>22
    <3> QED  BY <2>1, <3>5, <3>6, <3>7, <3>8, <3>9, <3>10, <1>18
  <2>6. CASE ~(IsOpen(current) /\ i = current.last)
    <3>1. IsOpen(current) => current \in Left
      <4> SUFFICES ASSUME IsOpen(current) PROVE current \in Left
          OBVIOUS
      <4>1. /\ current \in OpenFiles /\ End(current) = NextIndex /\ NextIndex = last + 1
            /\ last \in Nat
            BY SlicedFacts DEF Sliced, CurrentFits, NextIndex, PlainTypes
      <4>2. ~(End(current) = i + 1 /\ Len(Data(current)) > 0)
            BY <2>6, <4>1, <1>1, SplitFacts
      <4>3. PICK c \in Nat, n \in Nat :
               c = current.name /\ n = Len(Data(current)) /\ End(current) = c + n
            BY <4>1, SlicedFacts DEF End
      <4>4. ~(c + n = i + 1 /\ n > 0) /\ ~(c <= i /\ i + 1 < c + n) /\ c + n >= i + 1
        <5>1. ~(c + n = i + 1 /\ n > 0) /\ ~(c <= i /\ i + 1 < c + n)
              BY <4>1, <4>2, <4>3, <1>5, <1>22
        <5>2. c + n = last + 1
              BY <4>1, <4>3
        <5> QED  BY <5>1, <5>2, <4>1
      <4>5. c > i
            BY <4>4
      <4> QED  BY <4>1, <4>3, <4>5, <1>3
    <3>2. disk' = base /\ current' = current
      <4>1. ~Split(current, i)
            BY <1>2, <1>22 DEF Files
      <4> QED  BY <4>1, <2>6, <1>20, <1>22 DEF WithoutHead, Headless, Cuts
    <3>3. OpenFiles' = Left
      <4>1. \A g \in Left : g \in segments \/ g = current
            BY <2>4, <1>5
      <4> QED  BY <4>1, <2>3, <2>4, <3>1, <3>2, <1>20, <1>22
    <3>4. OpenFiles \ Gone = Left
      <4>1. ASSUME NEW g \in OpenFiles PROVE g \notin Gone <=> g \in Left
        <5>1. CASE g \in segments
              BY <5>1, <2>2
        <5>2. CASE g \notin segments
              BY <5>2, <3>1, <1>5, <1>12
        <5> QED  BY <5>1, <5>2
      <4> QED  BY <4>1, <2>4
    <3>5. disk' = [m \in {g.name : g \in OpenFiles'} |-> disk'[m]]
      <4>1. base = [m \in DOMAIN base |-> base[m]]
            BY DEF base, Removed
      <4> QED  BY <4>1, <3>2, <3>3, <3>4, <1>15
    <3>6. \A g \in Left : disk'[g.name] = disk[g.name]
          BY <3>2, <3>4, <1>15
    <3>7. current' = IF ~IsOpen(current) \/ current.name > i THEN current
                     ELSE IF current \in Cut THEN AfterCutHead(current, i) ELSE Closed
          BY <3>1, <3>2, <1>3
    <3> QED  BY <2>1, <3>3, <3>5, <3>6, <3>7, <1>18, <1>20, <1>22
  <2> QED  BY <2>5, <2>6
<1> QED  BY <1>19, <1>21, <1>22

\* truncate_prefix.
LEMMA PlainDropPrefix ==
    ASSUME Sliced, Counted, DropPrefix
    PROVE  Sliced'
<1>1. last \in Nat
      BY DEF Sliced, PlainTypes
<1>2. PICK i \in 1..last :
         LET split == {f \in Files : Split(f, i)}
         IN  /\ owed = 0
             /\ \A f \in split : f.name \notin cut
             /\ TruncatePrefix(i)
             /\ acked' = SubSeq(acked, Place(i + 1), Len(acked))
             /\ cut' = IF split # {} THEN cut \union {i + 1} ELSE cut
             /\ UNCHANGED <<last, setting, owed, loaded, writes, restarts>>
      BY DEF DropPrefix
<1>3. i \in Nat \ {0} /\ i <= last
      BY <1>1
<1>4. \A f \in Files : Split(f, i) => f.name \notin cut
      BY <1>2
<1>5. PrefixGone(i)
      BY <1>2, <1>3, <1>4, PrefixGoneIs
<1>6. writes \in Nat /\ UNCHANGED <<last, owed, writes>>
      BY <1>2 DEF Counted
<1> QED  BY <1>2, <1>3, <1>5, <1>6, PrefixSliced

\* Both files are cut to the same length.
Shortened(d, n, c) == [d EXCEPT ![n].data = SubSeq(@, 1, c), ![n].index = SubSeq(@, 1, c)]

LEMMA BothCut ==
    ASSUME NEW d, NEW n \in DOMAIN d, NEW x, NEW y, NEW c,
           d[n] = [data |-> x, index |-> y]
    PROVE  Shortened(d, n, c) =
             [d EXCEPT ![n] = [data |-> SubSeq(x, 1, c), index |-> SubSeq(y, 1, c)]]
<1>1. PICK v, w : v = SubSeq(x, 1, c) /\ w = SubSeq(y, 1, c)
      OBVIOUS
<1>2. PICK r, s : r = [data |-> x, index |-> y] /\ s = [data |-> v, index |-> y]
      OBVIOUS
<1>3. r.data = x /\ s.index = y
      BY <1>2
<1>4. [r EXCEPT !.data = v] = s
      BY <1>2, DataReplaced
<1>5. [s EXCEPT !.index = w] = [data |-> v, index |-> w]
      BY <1>2, IndexReplaced
<1>6. PICK e : e = [d EXCEPT ![n].data = SubSeq(@, 1, c)]
      OBVIOUS
<1>7. e = [d EXCEPT ![n] = s]
  <2>1. e = [d EXCEPT ![n] = [d[n] EXCEPT !.data = SubSeq(d[n].data, 1, c)]]
        BY <1>6
  <2> QED  BY <2>1, <1>1, <1>2, <1>3, <1>4, Zenon
<1>8. n \in DOMAIN e /\ e[n] = s
      BY <1>7
<1>9. [e EXCEPT ![n].index = SubSeq(@, 1, c)] = [e EXCEPT ![n] = [data |-> v, index |-> w]]
  <2>1. [e EXCEPT ![n].index = SubSeq(@, 1, c)] =
        [e EXCEPT ![n] = [e[n] EXCEPT !.index = SubSeq(e[n].index, 1, c)]]
        OBVIOUS
  <2> QED  BY <2>1, <1>1, <1>3, <1>5, <1>8, Zenon
<1>10. [e EXCEPT ![n] = [data |-> v, index |-> w]] = [d EXCEPT ![n] = [data |-> v, index |-> w]]
       BY <1>7
<1>11. Shortened(d, n, c) = [e EXCEPT ![n].index = SubSeq(@, 1, c)]
       BY <1>6 DEF Shortened
<1> QED  BY <1>1, <1>9, <1>10, <1>11, Zenon

\* truncate_suffix keeps the files up to the one that holds the entry, which is
\* shortened and becomes the open one.
LEMMA PlainDropSuffix ==
    ASSUME Sliced, Counted, "rewrite" \notin use, DropSuffix
    PROVE  Sliced'
<1>0. PICK F \in Nat \ {0}, N \in Nat \ {0}, L \in Nat :
         F = First /\ N = NextIndex /\ L = Len(acked) /\ F <= N /\ L = N - F
      BY SlicedFacts
<1>1. /\ last \in Nat /\ acked \in Seq(EntryType) /\ disk \in [DOMAIN disk -> FilesType]
      /\ writes \in Nat /\ Len(acked) <= writes
      BY DEF Sliced, PlainTypes, Counted
<1>2. PICK i \in 1..last :
         /\ owed = 0 /\ TruncateSuffix(i)
         /\ \E f \in segments : Holds(f, i) /\ f.name \notin cut
         /\ owed' = i /\ acked' = SubSeq(acked, 1, Place(i) - 1)
         /\ cut' = cut /\ writes' = writes
      BY DEF DropSuffix
<1>3. PICK f \in segments : Holds(f, i) /\ f.name \notin cut
      BY <1>2
<1>4. ASSUME NEW g \in segments
      PROVE  /\ g \in OpenFiles /\ IsOpen(g) /\ Sound(g) /\ Slice(g)
             /\ g.name \in Nat \ {0} /\ End(g) \in Nat /\ Len(Data(g)) \in Nat
             /\ End(g) = g.name + Len(Data(g)) /\ Len(Data(g)) > 0
             /\ g.start = g.name /\ g.last = End(g) - 1
             /\ F <= g.name /\ End(g) <= N
             /\ g.name # current.name /\ IsOpen(current) /\ End(g) <= current.name
  <2>1. g \in OpenFiles /\ ClosedFits(g) /\ IsOpen(current)
        BY SlicedFacts DEF Sliced, OnDisk
  <2>2. current \in OpenFiles /\ g.name < current.name /\ current.name \in Nat /\ g.name \in Nat
        BY <2>1, SlicedFacts DEF ClosedFits
  <2>3. End(g) <= current.name /\ g.name # current.name
        BY <2>1, <2>2 DEF Sliced, Tiled
  <2>4. IsOpen(g) /\ Sound(g) /\ Slice(g)
        BY <2>1 DEF Sliced, PlainTypes, OpenFiles
  <2> QED  BY <2>1, <2>3, <2>4, <1>0, SlicedFacts DEF ClosedFits, End
<1>5. PICK I \in Nat \ {0}, m \in Nat \ {0}, e \in Nat :
         I = i /\ m = f.name /\ e = End(f) /\ m <= I /\ I < e /\ e <= N /\ F <= m
  <2>1. f.start <= i /\ i <= f.last
        BY <1>3 DEF Holds
  <2> QED  BY <2>1, <1>1, <1>4
<1>6. ASSUME NEW g \in segments
      PROVE  /\ Holds(g, i) => g = f
             /\ g.start > i <=> g # f /\ ~(g.name < f.name)
             /\ g.name < f.name => End(g) <= f.name
             /\ g.name = f.name => g = f
  <2>1. /\ g.name = f.name => g = f
        /\ g.name < f.name => End(g) <= f.name
        /\ f.name < g.name => End(f) <= g.name
        BY <1>4 DEF Sliced, Tiled
  <2>2. PICK n \in Nat, x \in Nat : n = g.name /\ x = End(g) /\ n < x
    <3>1. g.name < End(g)
          BY <1>4
    <3> QED  BY <3>1, <1>4
  <2>3. Holds(g, i) => n <= I /\ I < x
    <3>1. Holds(g, i) => n <= I /\ I <= x - 1
          BY <2>2, <1>4, <1>5 DEF Holds
    <3> QED  BY <3>1
  <2>4. g.start > i <=> n > I
        BY <2>2, <1>4, <1>5
  <2>5. /\ n < m => x <= m
        /\ m < n => e <= n
        /\ n = m => g = f
        BY <2>1, <2>2, <1>5
  <2>6. /\ Holds(g, i) => n = m
        /\ n > I <=> n # m /\ ~(n < m)
    <3>1. m <= I /\ I < e
          BY <1>5
    <3> QED  BY <2>3, <2>5, <3>1
  <2>7. g = f => n = m
        BY <2>2, <1>5
  <2> QED  BY <2>1, <2>2, <2>4, <2>5, <2>6, <2>7, <1>5
<1> DEFINE later == {g \in segments : g.start > i}
           kept == {g \in segments : g.name < f.name}
           cutoff == I - m
<1>7. Lookup(f, i) = I - m /\ I - m \in Nat /\ i - f.start = I - m /\ I - m < Len(Data(f))
  <2>1. PICK s \in Nat, l \in Nat : s = f.start /\ s = m /\ l = Len(Data(f)) /\ e = m + l
        BY <1>4, <1>5
  <2>2. I - m \in Nat /\ I - m < l
    <3>1. m <= I /\ I < m + l
          BY <2>1, <1>5
    <3> QED  BY <3>1
  <2>3. i - f.start = I - m
        BY <2>1, <1>5
  <2>4. CASE I = m
    <3>1. i - f.start = 0 /\ I - m = 0
          BY <2>3, <2>4
    <3>2. (i - f.start) + 1 = 1
          BY <3>1
    <3> QED  BY <2>1, <2>2, <2>3, <3>1, <3>2 DEF Lookup
  <2>5. CASE I # m
    <3>1. PICK k \in Nat : k = I - m + 1 /\ k # 1 /\ k \in 1..l
          BY <2>2, <2>5
    <3>2. k = i - f.start + 1
          BY <2>3, <3>1
    <3>3. Len(Index(f)) = l /\ Index(f)[k].index = f.name + k - 1 /\ Index(f)[k].pos = k - 1
          BY <2>1, <3>1, <1>3, <1>4 DEF Slice
    <3>4. f.name + k - 1 = i
      <4>1. m + k - 1 = I
            BY <3>1
      <4> QED  BY <4>1, <1>5
    <3>5. k - 1 = I - m
          BY <3>1
    <3>6. k \in 1..Len(Index(f)) /\ Index(f)[k].index = i
          BY <3>1, <3>3, <3>4
    <3>7. Lookup(f, i) = Index(f)[k].pos
          BY <3>1, <3>2, <3>6, LookupFinds
    <3> QED  BY <2>1, <2>2, <2>3, <3>3, <3>5, <3>7
  <2> QED  BY <2>4, <2>5
<1>8. /\ segments' = kept
      /\ current' = [f EXCEPT !.at = I - m] /\ last' = f.last
      /\ disk' = [Removed(disk, {g.name : g \in later \union {current}}) EXCEPT
                    ![f.name].data = SubSeq(@, 1, I - m),
                    ![f.name].index = SubSeq(@, 1, I - m)]
  <2>1. {g \in segments : Holds(g, i)} = {f}
        BY <1>3, <1>6
  <2>2. /\ segments' = segments \ (later \union {f})
        /\ current' = [f EXCEPT !.at = i - f.start] /\ last' = f.last
        /\ disk' = [Removed(disk, {g.name : g \in later \union {current}}) EXCEPT
                      ![f.name].data = SubSeq(@, 1, Lookup(f, i)),
                      ![f.name].index = SubSeq(@, 1, i - f.start)]
        BY <2>1, <1>2 DEF TruncateSuffix
  <2>3. segments \ (later \union {f}) = kept
    <3>1. ASSUME NEW g \in segments PROVE ~(g.start > i) /\ g # f <=> g.name < f.name
      <4>1. ~(f.name < f.name)
            BY <1>5
      <4> QED  BY <4>1, <1>6
    <3> QED  BY <3>1
  <2> QED  BY <2>2, <2>3, <1>7
<1>9. PICK c \in Nat, p \in Nat : c = I - m /\ p = I - F /\ p <= L
  <2>1. m <= I /\ I < e /\ e <= N /\ F <= m /\ L = N - F
        BY <1>0, <1>5
  <2> QED  BY <2>1
<1>10. /\ NextIndex' = I /\ First' = F /\ owed' = I /\ cut' = cut /\ writes' = writes
       /\ Len(acked') = p /\ acked' \in Seq(EntryType)
       /\ \A k \in 1..p : acked'[k] = acked[k]
  <2>1. Place(i) - 1 = p
    <3>1. Place(i) = IF I <= F THEN 1 ELSE I - F + 1
      <4>1. I \in Nat /\ I <= NextIndex
            BY <1>0, <1>5
      <4> QED  BY <4>1, <1>0, <1>5, PlaceIs
    <3>2. F <= I
          BY <1>5
    <3> QED  BY <3>1, <3>2, <1>9
  <2>2. acked' = SubSeq(acked, 1, p)
        BY <2>1, <1>2
  <2>3. p <= Len(acked)
        BY <1>0, <1>9
  <2>4. /\ SubSeq(acked, 1, p) \in Seq(EntryType) /\ Len(SubSeq(acked, 1, p)) = p - 1 + 1
        /\ \A k \in 1..p - 1 + 1 : SubSeq(acked, 1, p)[k] = acked[1 + k - 1]
    <3>1. PICK o \in Nat \ {0} : o = 1 /\ o <= p + 1
          OBVIOUS
    <3>2. acked \in Seq(EntryType)
          BY <1>1
    <3>3. /\ SubSeq(acked, o, p) \in Seq(EntryType) /\ Len(SubSeq(acked, o, p)) = p - o + 1
          /\ \A k \in 1..p - o + 1 : SubSeq(acked, o, p)[k] = acked[o + k - 1]
          BY <2>3, <3>1, <3>2, PartTaken
    <3> QED  BY <3>1, <3>3
  <2>5. p - 1 + 1 = p /\ \A k \in 1..p : 1 + k - 1 = k
        OBVIOUS
  <2>6. /\ Len(acked') = p /\ acked' \in Seq(EntryType)
        /\ \A k \in 1..p : acked'[k] = acked[k]
        BY <2>2, <2>4, <2>5
  <2>7. owed' = I /\ NextIndex' = I
        BY <1>2, <1>5 DEF NextIndex
  <2>8. First' = F
    <3>1. First' = I - p
          BY <2>6, <2>7 DEF First
    <3> QED  BY <3>1, <1>9
  <2> QED  BY <2>6, <2>7, <2>8, <1>2
<1>11. PICK x \in Seq(EntryType), y \in Seq(SlotType) :
          disk[f.name] = [data |-> x, index |-> y] /\ Data(f) = x /\ Index(f) = y
          /\ f.name \in DOMAIN disk
  <2>1. f.name \in DOMAIN disk /\ disk[f.name] \in FilesType
        BY <1>3, <1>4 DEF Sound
  <2> QED  BY <2>1 DEF FilesType, Data, Index
<1>12. PICK new : new = [data |-> SubSeq(x, 1, c), index |-> SubSeq(y, 1, c)]
       OBVIOUS
<1>13. /\ f.name \in DOMAIN disk' /\ disk'[f.name] = new
       /\ DOMAIN disk' = {g.name : g \in kept \union {f}}
       /\ \A g \in kept : disk'[g.name] = disk[g.name]
       /\ disk' = [n \in DOMAIN disk' |-> disk'[n]]
  <2> DEFINE gone == {g.name : g \in later \union {current}}
  <2>1. PICK D : D = Removed(disk, gone)
        OBVIOUS
  <2>2. DOMAIN disk = {g.name : g \in segments \union {current}}
    <3>1. OpenFiles = segments \union {current}
          BY <1>3, <1>4 DEF OpenFiles, Files
    <3> QED  BY <3>1 DEF Sliced, OnDisk
  <2>3. ASSUME NEW g \in segments PROVE g.name \in gone <=> g \in later
    <3>1. \A h \in segments : h.start > i /\ g.name = h.name => g.start > i
      <4> SUFFICES ASSUME NEW h \in segments, h.start > i, g.name = h.name PROVE g.start > i
          OBVIOUS
      <4>1. h # f /\ ~(h.name < f.name)
            BY <1>6
      <4>2. g # f
        <5>1. g = f => h.name = f.name
              OBVIOUS
        <5>2. h.name = f.name => h = f
              BY <1>6
        <5> QED  BY <5>1, <5>2, <4>1
      <4> QED  BY <4>1, <4>2, <1>6
    <3>2. g.name # current.name
          BY <1>4
    <3> QED  BY <3>1, <3>2
  <2>4. DOMAIN D = {g.name : g \in kept \union {f}} /\ \A n \in DOMAIN D : D[n] = disk[n]
    <3>1. ASSUME NEW g \in segments PROVE g \notin later <=> g \in kept \union {f}
      <4>1. ~(f.name < f.name)
            BY <1>5
      <4> QED  BY <4>1, <1>6
    <3>2. DOMAIN D = DOMAIN disk \ gone /\ \A n \in DOMAIN D : D[n] = disk[n]
          BY <2>1 DEF Removed
    <3>3. current.name \in gone
          OBVIOUS
    <3> HIDE DEF gone, later
    <3>4. ASSUME NEW n \in DOMAIN D PROVE n \in {g.name : g \in kept \union {f}}
      <4>1. PICK g \in segments : g.name = n
            BY <2>2, <3>2, <3>3
      <4> QED  BY <4>1, <2>3, <3>1, <3>2
    <3>5. ASSUME NEW g \in kept \union {f} PROVE g.name \in DOMAIN D
          BY <1>3, <2>2, <2>3, <3>1, <3>2
    <3> QED  BY <3>2, <3>4, <3>5
  <2>5. f.name \in DOMAIN D /\ D[f.name] = [data |-> x, index |-> y]
        BY <2>4, <1>11
  <2>6. disk' = [D EXCEPT ![f.name].data = SubSeq(@, 1, c), ![f.name].index = SubSeq(@, 1, c)]
        BY <1>8, <1>9, <2>1
  <2>7. disk' = [D EXCEPT ![f.name] = new]
    <3>1. disk' = Shortened(D, f.name, c)
          BY <2>6 DEF Shortened
    <3>2. PICK n : n = f.name
          OBVIOUS
    <3>3. n \in DOMAIN D /\ D[n] = [data |-> x, index |-> y]
          BY <2>5, <3>2
    <3>4. Shortened(D, n, c) = [D EXCEPT ![n] = [data |-> SubSeq(x, 1, c), index |-> SubSeq(y, 1, c)]]
          BY <3>3, BothCut
    <3> QED  BY <3>1, <3>2, <3>4, <1>12, Zenon
  <2>8. \A g \in kept : g.name # f.name
        BY <1>5
  <2> HIDE DEF kept
  <2> QED  BY <2>4, <2>5, <2>7, <2>8
<1>14. PICK h : h = [f EXCEPT !.at = c]
       OBVIOUS
<1>15. /\ h = current' /\ h.name = m /\ h.start = m /\ h.last = f.last /\ h.at = c
       /\ h \in FileType /\ IsOpen(h) /\ f.last \in Nat
  <2>1. f \in FileType /\ f.name = m /\ f.start = m
        BY <1>4, <1>5 DEF Sound
  <2>2. f = [name |-> m, start |-> m, last |-> f.last, at |-> f.at] /\ f.last \in Nat
        BY <2>1 DEF FileType
  <2>3. h = [name |-> m, start |-> m, last |-> f.last, at |-> c]
        BY <2>2, <1>14, FieldsReplaced
  <2>4. h \in FileType
        BY <2>2, <2>3 DEF FileType
  <2> QED  BY <2>2, <2>3, <2>4, <1>8, <1>9, <1>14 DEF IsOpen
<1>16. /\ SubSeq(x, 1, c) \in Seq(EntryType) /\ SubSeq(y, 1, c) \in Seq(SlotType)
       /\ Len(SubSeq(x, 1, c)) = c /\ Len(SubSeq(y, 1, c)) = c
       /\ \A q \in 1..c : SubSeq(x, 1, c)[q] = x[q] /\ SubSeq(y, 1, c)[q] = y[q]
       /\ c < Len(x) /\ Len(y) = Len(x)
  <2>1. c < Len(x) /\ Len(y) = Len(x)
        BY <1>3, <1>4, <1>7, <1>9, <1>11 DEF Slice
  <2>2. c <= Len(x) /\ c <= Len(y) /\ 1 <= c + 1 /\ c - 1 + 1 = c
        BY <2>1
  <2>3. /\ SubSeq(x, 1, c) \in Seq(EntryType) /\ Len(SubSeq(x, 1, c)) = c - 1 + 1
        /\ \A q \in 1..c - 1 + 1 : SubSeq(x, 1, c)[q] = x[1 + q - 1]
        BY <2>2, PartTaken
  <2>4. /\ SubSeq(y, 1, c) \in Seq(SlotType) /\ Len(SubSeq(y, 1, c)) = c - 1 + 1
        /\ \A q \in 1..c - 1 + 1 : SubSeq(y, 1, c)[q] = y[1 + q - 1]
        BY <2>2, PartTaken
  <2>5. \A q \in 1..c : 1 + q - 1 = q
        OBVIOUS
  <2> QED  BY <2>1, <2>2, <2>3, <2>4, <2>5
<1>17. /\ Sound(h)' /\ Slice(h)' /\ End(h)' = I /\ Len(Data(h)') = c
  <2>0. h.name \in DOMAIN disk' /\ disk'[h.name] = new
    <3>1. h.name = f.name
          BY <1>5, <1>15
    <3> QED  BY <3>1, <1>13
  <2>1. Data(h)' = SubSeq(x, 1, c) /\ Index(h)' = SubSeq(y, 1, c) /\ h.name \in DOMAIN disk'
        BY <2>0, <1>12 DEF Data, Index
  <2>2. disk'[h.name] \in FilesType
        BY <2>0, <1>12, <1>16 DEF FilesType
  <2>3. End(h)' = I
    <3>1. End(h)' = m + c
          BY <2>1, <1>15, <1>16 DEF End
    <3> QED  BY <3>1, <1>9
  <2>4. ASSUME NEW q \in 1..c
        PROVE  /\ SubSeq(x, 1, c)[q] = acked'[m - F + q]
               /\ SubSeq(y, 1, c)[q].index = m + q - 1
               /\ m \notin cut => SubSeq(y, 1, c)[q].pos = q - 1
    <3>1. q \in 1..Len(x)
          BY <1>16
    <3>2. /\ x[q] = acked[m - F + q] /\ y[q].index = m + q - 1
          /\ m \notin cut => y[q].pos = q - 1
          BY <3>1, <1>0, <1>3, <1>4, <1>5, <1>11 DEF Slice
    <3>3. m - F + q \in 1..p
      <4>1. F <= m /\ m <= I
            BY <1>5
      <4> QED  BY <4>1, <1>9
    <3> QED  BY <3>2, <3>3, <1>10, <1>16
  <2>5. F <= m
        BY <1>5
  <2>6. Slice(h)'
    <3>1. Data(h)' = SubSeq(x, 1, c) /\ Index(h)' = SubSeq(y, 1, c)
          BY <2>1
    <3>2. /\ h.name = m /\ h.at = c /\ First' = F /\ cut' = cut
          /\ Len(SubSeq(x, 1, c)) = c /\ Len(SubSeq(y, 1, c)) = c
          BY <1>10, <1>15, <1>16
    <3> QED  BY <2>4, <2>5, <3>1, <3>2 DEF Slice
  <2> QED  BY <2>1, <2>2, <2>3, <2>6, <1>15, <1>16 DEF Sound
<1>18. ASSUME NEW g \in kept
       PROVE  /\ g \in segments /\ g.name < m /\ g.name \in Nat \ {0} /\ End(g) \in Nat /\ End(g) <= m
              /\ Sound(g)' /\ Slice(g)' /\ Data(g)' = Data(g) /\ End(g)' = End(g)
  <2>1. g \in segments /\ g.name < f.name /\ End(g) <= f.name
        BY <1>6
  <2>2. PICK n \in Nat \ {0}, l \in Nat :
           n = g.name /\ l = Len(Data(g)) /\ End(g) = n + l /\ F <= n /\ n + l <= m
        BY <2>1, <1>4, <1>5
  <2>3. ASSUME NEW q \in 1..l PROVE acked'[n - F + q] = acked[n - F + q]
    <3>1. n - F + q \in 1..p
      <4>1. F <= n /\ n + l <= m /\ m <= I
            BY <2>2, <1>5
      <4> QED  BY <4>1, <1>9
    <3> QED  BY <3>1, <1>10
  <2>4. \A q \in 1..Len(Data(g)) : acked'[g.name - First' + q] = acked[g.name - First + q]
        BY <2>2, <2>3, <1>0, <1>10
  <2>5. g.name \in DOMAIN disk' /\ disk'[g.name] = disk[g.name]
        BY <1>13
  <2>6. Sound(g) /\ Slice(g) /\ First' \in Int /\ First' <= g.name /\ cut' = cut
        BY <2>1, <2>2, <1>4, <1>10
  <2>7. Sound(g)' /\ Slice(g)' /\ Data(g)' = Data(g) /\ End(g)' = End(g)
        BY <2>4, <2>5, <2>6, SliceKept
  <2> QED  BY <2>1, <2>2, <2>7, <1>4, <1>5
<1>19. segments' = kept /\ kept \subseteq segments
       BY <1>8
<1>20. \A g \in kept : IsOpen(g)
       BY <1>4
<1> HIDE DEF kept, later
<1>21. OpenFiles' = kept \union {h}
       BY <1>15, <1>19, <1>20 DEF OpenFiles, Files
<1>22. PlainTypes'
  <2>1. disk' \in [DOMAIN disk' -> FilesType]
    <3>1. \A n \in DOMAIN disk' : n = f.name \/ \E g \in kept : n = g.name
          BY <1>13
    <3>2. disk'[f.name] \in FilesType
          BY <1>5, <1>15, <1>17 DEF Sound
    <3>3. \A n \in DOMAIN disk' : disk'[n] \in FilesType
          BY <3>1, <3>2, <1>18 DEF Sound
    <3> QED  BY <3>3, <1>13
  <2>2. IsFiniteSet(segments')
        BY <1>19, FS_Subset DEF Sliced, PlainTypes
  <2>3. last' \in Nat /\ owed' \in Nat /\ acked' \in Seq(EntryType)
        BY <1>8, <1>10, <1>15
  <2>4. Len(acked') <= writes'
    <3>1. p <= L /\ L <= writes
          BY <1>0, <1>1, <1>9
    <3> QED  BY <3>1, <1>1, <1>10
  <2>5. current' \in FileType /\ \A g \in OpenFiles' : Sound(g)'
        BY <1>15, <1>17, <1>18, <1>21
  <2> QED  BY <2>1, <2>2, <2>3, <2>4, <2>5 DEF PlainTypes
<1>23. Numbered'
  <2>1. DOMAIN acked' = 1..p
        BY <1>10
  <2>2. \A k \in 1..p : acked'[k].index = F + k - 1
    <3>1. \A k \in 1..p : k \in DOMAIN acked
      <4>1. \A k \in 1..p : k \in 1..L
            BY <1>9
      <4>2. DOMAIN acked = 1..Len(acked)
            BY <1>1
      <4> QED  BY <4>1, <4>2, <1>0
    <3>2. \A k \in 1..p : acked[k].index = First + k - 1
          BY <3>1 DEF Sliced, Numbered
    <3> QED  BY <3>2, <1>0, <1>10
  <2>3. F >= 1
        OBVIOUS
  <2> QED  BY <2>1, <2>2, <2>3, <1>10 DEF Numbered
<1>24. OnDisk'
  <2>1. DOMAIN disk' = {g.name : g \in OpenFiles'}
        BY <1>5, <1>13, <1>15, <1>21
  <2> QED  BY <2>1, <1>15, <1>19, <1>20 DEF OnDisk, IsOpen
<1>25. CurrentFits'
  <2>1. owed' # 0
        BY <1>10
  <2>2. End(current)' = NextIndex'
        BY <1>10, <1>15, <1>17 DEF End, Data
  <2>3. End(h)' - 1 <= h.last
    <3>1. f.last = e - 1
          BY <1>3, <1>4, <1>5
    <3>2. I - 1 <= e - 1
          BY <1>5
    <3> QED  BY <3>1, <3>2, <1>15, <1>17
  <2> QED  BY <2>1, <2>2, <2>3, <1>15 DEF CurrentFits, End, Data
<1>26. Tiled'
  <2>1. ASSUME NEW g1 \in OpenFiles', NEW g2 \in OpenFiles'
        PROVE  /\ g1.name = g2.name => g1 = g2
               /\ g1.name < g2.name => End(g1)' <= g2.name
    <3>1. CASE g1 \in kept /\ g2 \in kept
      <4>1. g1 \in OpenFiles /\ g2 \in OpenFiles /\ End(g1)' = End(g1)
            BY <3>1, <1>4, <1>18
      <4> QED  BY <4>1 DEF Sliced, Tiled
    <3>2. CASE g1 \in kept /\ g2 = h
      <4>1. g1.name # m /\ End(g1)' <= m
            BY <3>2, <1>18
      <4> QED  BY <4>1, <3>2, <1>15
    <3>3. CASE g1 = h /\ g2 \in kept
      <4>1. g2.name # m /\ ~(m < g2.name)
            BY <3>3, <1>18
      <4> QED  BY <4>1, <3>3, <1>15
    <3>4. CASE g1 = h /\ g2 = h
      <4>1. ~(m < m)
            OBVIOUS
      <4> QED  BY <4>1, <3>4, <1>15
    <3> QED  BY <3>1, <3>2, <3>3, <3>4, <1>21
  <2>2. ASSUME NEW k \in F..I - 1
        PROVE  \E g \in OpenFiles' : g.name <= k /\ k < End(g)'
    <3>1. CASE m <= k
          BY <3>1, <1>15, <1>17, <1>21
    <3>2. CASE k < m
      <4>1. k \in First..NextIndex - 1
        <5>1. k \in F..N - 1
              BY <1>5
        <5> QED  BY <5>1, <1>0
      <4>2. PICK g \in OpenFiles : g.name <= k /\ k < End(g)
            BY <4>1 DEF Sliced, Tiled
      <4>3. g.name < m
            BY <4>2, <3>2, SlicedFacts
      <4>4. g \in segments
        <5>1. m <= current.name
          <6>1. e <= current.name /\ m <= e /\ current.name \in Nat
                BY <1>3, <1>4, <1>5, SlicedFacts
          <6> QED  BY <6>1
        <5>2. g # current
          <6>1. current.name \in Nat
                BY <1>3, <1>4, SlicedFacts
          <6> QED  BY <6>1, <5>1, <4>3
        <5> QED  BY <5>2, SlicedFacts
      <4>5. g \in kept
            BY <4>3, <4>4, <1>5 DEF kept
      <4> QED  BY <4>2, <4>5, <1>18, <1>21
    <3> QED  BY <3>1, <3>2
  <2> QED  BY <2>1, <2>2, <1>10 DEF Tiled
<1>27. ASSUME NEW g \in segments' PROVE ClosedFits(g)'
  <2>1. g \in kept
        BY <1>19
  <2>2. Data(g)' = Data(g) /\ End(g)' = End(g) /\ g \in segments /\ g.name < m
        BY <2>1, <1>18
  <2> QED  BY <2>2, <1>4, <1>15 DEF ClosedFits
<1>28. \A g \in OpenFiles' : Slice(g)'
       BY <1>17, <1>18, <1>21
<1> QED  BY <1>22, <1>23, <1>24, <1>25, <1>26, <1>27, <1>28 DEF Sliced

LEMMA PlainNext == Counted /\ PlainInv /\ [Next]_vars => PlainInv'
<1> SUFFICES ASSUME Counted, PlainInv, [Next]_vars, Plain' PROVE Sliced'
    BY DEF PlainInv
<1>1. setting' = setting /\ restarts' \in {restarts, restarts + 1} /\ restarts \in Nat
      BY DEF Next, WriteEntry, Read, Restart, Crash, DropPrefix, DropSuffix, Clear,
             vars, history, Counted
<1>2. "rewrite" \notin use /\ restarts = 0 /\ restarts' = restarts /\ Sliced
      BY <1>1 DEF Plain, PlainInv, use
<1>3. CASE WriteEntry
      BY <1>2, <1>3, PlainWrite
<1>4. CASE Read
  <2>1. IsOpen(current) /\ current.at < Len(disk[current.name].index)
        BY <1>4 DEF Read
  <2>2. current.at = Len(Index(current)) /\ Len(Index(current)) \in Nat
        BY <1>2, <2>1, SlicedFacts DEF Sliced, Slice
  <2> QED  BY <2>1, <2>2 DEF Index
<1>5. CASE Restart
      BY <1>2, <1>5 DEF Restart
<1>6. CASE Crash
      BY <1>2, <1>6 DEF Crash
<1>7. CASE DropPrefix
      BY <1>2, <1>7, PlainDropPrefix
<1>8. CASE DropSuffix
      BY <1>2, <1>8, PlainDropSuffix
<1>9. CASE Clear
      BY <1>2, <1>9, PlainClear
<1>10. CASE UNCHANGED vars
       BY <1>2, <1>10 DEF vars, state, history, Sliced, PlainTypes, Numbered, OnDisk, CurrentFits,
          Tiled, Slice, ClosedFits, OpenFiles, Files, End, Data, Index, NextIndex, First, Sound
<1> QED  BY <1>3, <1>4, <1>5, <1>6, <1>7, <1>8, <1>9, <1>10 DEF Next

LEMMA PlainAlways == Spec => [](Counted /\ PlainInv)
<1>1. Init => Counted /\ PlainInv
      BY CountedInit, PlainInit
<1>2. Counted /\ PlainInv /\ [Next]_vars => (Counted /\ PlainInv)'
      BY CountedNext, PlainNext
<1> QED  BY <1>1, <1>2, PTL DEF Spec

-----------------------------------------------------------------------------
(* Reading consecutive entries.                                             *)

\* Which entries a file is asked for.
LEMMA HoldsIs ==
    ASSUME Sliced, NEW f \in OpenFiles, NEW j \in Nat \ {0}, j < NextIndex
    PROVE  Holds(f, j) <=> f.name <= j /\ j < End(f)
<1>1. PICK n \in Nat \ {0}, l \in Nat, e \in Nat, N \in Nat :
        /\ n = f.name /\ l = Len(Data(f)) /\ e = End(f) /\ N = NextIndex
        /\ e = n + l /\ j < N /\ f \in FileType /\ IsOpen(f)
        /\ l > 0 => f.start = n
        /\ owed = 0 /\ l > 0 => f.last = e - 1
        /\ f # current => f \in segments
      BY SlicedFacts DEF End, OpenFiles
<1>2. f.start \in Nat /\ f.last \in Nat
      BY <1>1 DEF FileType
<1>3. Holds(f, j) <=> f.start <= j /\ j <= f.last
      BY <1>1 DEF Holds
<1>4. CASE f # current
  <2>1. f.start = n /\ f.last = e - 1
        BY <1>1, <1>4 DEF Sliced, ClosedFits
  <2>2. j <= e - 1 <=> j < e
        BY <1>1
  <2> QED  BY <1>1, <1>3, <2>1, <2>2
<1>5. CASE f = current
  <2>1. /\ e = N
        /\ IF owed = 0 /\ l = 0 THEN f.start = 0 /\ f.last = 0 ELSE f.start = n
        /\ owed # 0 => e - 1 <= f.last
        BY <1>1, <1>5 DEF Sliced, CurrentFits
  <2>2. j < e /\ e = n + l
        BY <1>1, <2>1
  <2>3. CASE owed = 0 /\ l = 0
    <3>1. f.last = 0 /\ ~(n <= j)
          BY <2>1, <2>2, <2>3
    <3> QED  BY <3>1, <1>1, <1>3
  <2>4. CASE ~(owed = 0 /\ l = 0)
    <3>1. f.start = n /\ j <= f.last
          BY <2>1, <2>2, <2>4, <1>1, <1>2
    <3> QED  BY <3>1, <2>2, <1>1, <1>3
  <2> QED  BY <2>3, <2>4
<1> QED  BY <1>4, <1>5

\* Where an entry is found in its file: the first slot is not looked up, the
\* others are right unless the file has been cut.
LEMMA LookupIs ==
    ASSUME Sliced, NEW f \in OpenFiles, NEW j \in Nat, f.name <= j, j < End(f),
           f.name = j \/ f.name \notin cut
    PROVE  Lookup(f, j) = j - f.name
<1>1. PICK n \in Nat \ {0}, l \in Nat :
        n = f.name /\ l = Len(Data(f)) /\ End(f) = n + l /\ n <= j /\ j < n + l
      BY SlicedFacts DEF End
<1>2. f.start = n
      BY <1>1, SlicedFacts
<1>3. CASE j = n
  <2>1. j - f.start = 0 /\ j - f.name = 0
        BY <1>1, <1>2, <1>3
  <2>2. (j - f.start) + 1 = 1
        BY <2>1
  <2> QED  BY <2>1, <2>2 DEF Lookup
<1>4. CASE j # n
  <2>1. PICK k \in Nat : k = j - n + 1 /\ k # 1 /\ k \in 1..l
        BY <1>1, <1>4
  <2>2. k = j - f.start + 1
        BY <1>2, <2>1
  <2>3. Len(Index(f)) = l /\ Index(f)[k].index = n + k - 1 /\ Index(f)[k].pos = k - 1
        BY <1>1, <1>4, <2>1 DEF Sliced, Slice
  <2>4. n + k - 1 = j /\ k - 1 = j - n
        BY <2>1
  <2>5. k \in 1..Len(Index(f)) /\ Index(f)[k].index = j
        BY <2>1, <2>3, <2>4
  <2>6. Lookup(f, j) = Index(f)[k].pos
        BY <2>1, <2>2, <2>5, LookupFinds
  <2> QED  BY <1>1, <2>3, <2>4, <2>6
<1> QED  BY <1>3, <1>4

\* What has been read when d entries more have.
Further(r, d) ==
    LET p == r.next - First
    IN  [next |-> r.next + d, left |-> r.left - d,
         entries |-> r.entries \o SubSeq(acked, p + 1, p + d), threw |-> FALSE]

\* One file is read to its end, or as far as the count goes.
LEMMA ReadOne ==
    ASSUME Sliced, NEW f \in OpenFiles, NEW r \in ReadType, ~r.threw, r.left # 0,
           f.name <= r.next, r.next < End(f), f.name = r.next \/ f.name \notin cut
    PROVE  \E d \in Nat \ {0} :
              /\ d <= r.left /\ r.next + d <= End(f)
              /\ d = r.left \/ r.next + d = End(f)
              /\ ReadFile(f, r) = Further(r, d)
<1>1. PICK j \in Nat, w \in Nat \ {0} : j = r.next /\ w = r.left
      BY DEF ReadType
<1>2. PICK F \in Nat \ {0}, N \in Nat \ {0}, L \in Nat :
         F = First /\ N = NextIndex /\ L = Len(acked) /\ F <= N /\ L = N - F
      BY SlicedFacts
<1>3. PICK n \in Nat \ {0}, l \in Nat :
        /\ n = f.name /\ l = Len(Data(f)) /\ End(f) = n + l
        /\ n <= j /\ j < n + l /\ F <= n /\ n + l <= N
      BY <1>1, <1>2, SlicedFacts DEF End
<1>4. PICK o \in Nat : o = j - n /\ Lookup(f, j) = o /\ o < l
  <2>1. j - n \in Nat /\ j - n < l
        BY <1>3
  <2>2. Lookup(f, j) = j - n
        BY <1>1, <1>3, LookupIs
  <2> QED  BY <2>1, <2>2
<1>5. Holds(f, r.next) /\ Sound(f)
  <2>1. j # 0 /\ j < N
        BY <1>3
  <2> QED  BY <2>1, <1>1, <1>2, <1>3, HoldsIs DEF Sliced, PlainTypes
<1>6. PICK e \in Nat : e = (IF l <= o + w THEN l ELSE o + w) /\ o < e /\ e <= l
  <2>1. o < l
        BY <1>4
  <2>2. CASE l <= o + w
        BY <2>1, <2>2
  <2>3. CASE ~(l <= o + w)
    <3>1. o + w \in Nat /\ o < o + w /\ o + w <= l
          BY <2>3
    <3> QED  BY <2>3, <3>1
  <2> QED  BY <2>2, <2>3
<1>7. PICK d \in Nat \ {0} : d = e - o
      BY <1>6
<1>8. /\ d <= w /\ j + d <= n + l /\ (d = w \/ j + d = n + l)
  <2>1. o = j - n /\ n <= j /\ j < n + l
        BY <1>3, <1>4
  <2>2. e = (IF l <= o + w THEN l ELSE o + w)
        BY <1>6
  <2>3. d = e - o
        BY <1>7
  <2>4. CASE l <= o + w
    <3>1. d = l - o /\ l - o <= w
          BY <2>2, <2>3, <2>4
    <3>2. j + d = n + l
          BY <3>1, <2>1
    <3> QED  BY <3>1, <3>2
  <2>5. CASE ~(l <= o + w)
    <3>1. d = w /\ o + w < l
          BY <2>2, <2>3, <2>5
    <3>2. j + w <= n + l
          BY <3>1, <2>1
    <3> QED  BY <3>1, <3>2
  <2> QED  BY <2>4, <2>5
<1>9. PICK x \in Seq(EntryType) : x = Data(f) /\ Len(x) = l
      BY <1>3, SlicedFacts
<1>10. PICK p \in Nat : p = j - F /\ p + d <= L
  <2>1. j - F \in Nat /\ (j - F) + d <= L
        BY <1>2, <1>3, <1>8
  <2> QED  BY <2>1
<1>11. SubSeq(x, o + 1, e) = SubSeq(acked, p + 1, p + d)
  <2>1. /\ SubSeq(x, o + 1, e) \in Seq(EntryType) /\ Len(SubSeq(x, o + 1, e)) = e - (o + 1) + 1
        /\ \A q \in 1..e - (o + 1) + 1 : SubSeq(x, o + 1, e)[q] = x[(o + 1) + q - 1]
    <3>1. e <= Len(x) /\ o + 1 <= e + 1 /\ o + 1 \in Nat \ {0}
          BY <1>6, <1>9
    <3> QED  BY <3>1, PartTaken
  <2>2. /\ SubSeq(acked, p + 1, p + d) \in Seq(EntryType)
        /\ Len(SubSeq(acked, p + 1, p + d)) = (p + d) - (p + 1) + 1
        /\ \A q \in 1..(p + d) - (p + 1) + 1 :
              SubSeq(acked, p + 1, p + d)[q] = acked[(p + 1) + q - 1]
    <3>1. p + d <= Len(acked) /\ p + 1 <= (p + d) + 1 /\ p + 1 \in Nat \ {0} /\ p + d \in Nat
          BY <1>2, <1>10
    <3>2. acked \in Seq(EntryType)
          BY DEF Sliced, PlainTypes
    <3> QED  BY <3>1, <3>2, PartTaken
  <2>3. e - (o + 1) + 1 = d /\ (p + d) - (p + 1) + 1 = d
        BY <1>6, <1>7
  <2>4. ASSUME NEW q \in 1..d PROVE x[(o + 1) + q - 1] = acked[(p + 1) + q - 1]
    <3>1. PICK k \in 1..l : k = (o + 1) + q - 1
          BY <1>4, <1>6, <1>7
    <3>2. x[k] = acked[n - F + k]
          BY <3>1, <1>2, <1>3, <1>9 DEF Sliced, Slice
    <3>3. n - F + k = (p + 1) + q - 1
      <4>1. F <= n /\ n <= j
            BY <1>3
      <4> QED  BY <4>1, <3>1, <1>4, <1>10
    <3> QED  BY <3>1, <3>2, <3>3
  <2>5. PICK a, b : a = SubSeq(x, o + 1, e) /\ b = SubSeq(acked, p + 1, p + d)
        OBVIOUS
  <2>6. /\ a \in Seq(EntryType) /\ Len(a) = d /\ \A q \in 1..d : a[q] = x[(o + 1) + q - 1]
        BY <2>1, <2>3, <2>5, Zenon
  <2>7. /\ b \in Seq(EntryType) /\ Len(b) = d /\ \A q \in 1..d : b[q] = acked[(p + 1) + q - 1]
        BY <2>2, <2>3, <2>5, Zenon
  <2>8. a = b
    <3>1. Len(a) = Len(b) /\ \A q \in 1..Len(a) : a[q] = b[q]
          BY <2>4, <2>6, <2>7
    <3>2. a \in Seq(EntryType) /\ b \in Seq(EntryType)
          BY <2>6, <2>7
    <3> QED  BY <3>1, <3>2, SeqEqual, Zenon
  <2> QED  BY <2>5, <2>8
<1>12. ReadFile(f, r) = [next |-> j + d, left |-> w - d,
                         entries |-> r.entries \o SubSeq(x, o + 1, e), threw |-> FALSE]
  <2>1. Len(SubSeq(x, o + 1, e)) = d
    <3>1. e <= Len(x) /\ o + 1 <= e + 1 /\ o + 1 \in Nat \ {0} /\ e - (o + 1) + 1 = d
          BY <1>6, <1>7, <1>9
    <3> QED  BY <3>1, PartTaken
  <2>2. Lookup(f, r.next) = o
        BY <1>1, <1>4
  <2>3. (IF Len(Data(f)) <= o + r.left THEN Len(Data(f)) ELSE o + r.left) = e
        BY <1>1, <1>3, <1>6
  <2>4. LET g == SubSeq(Data(f), o + 1, e)
        IN  ReadFile(f, r) = [next |-> r.next + Len(g), left |-> r.left - Len(g),
                              entries |-> r.entries \o g, threw |-> FALSE]
    <3>1. LET end == IF Len(Data(f)) <= o + r.left THEN Len(Data(f)) ELSE o + r.left
              g == SubSeq(Data(f), o + 1, end)
          IN  ReadFile(f, r) = [next |-> r.next + Len(g), left |-> r.left - Len(g),
                                entries |-> r.entries \o g, threw |-> FALSE]
          BY <2>2, <1>5, ReadGets
    <3> QED  BY <3>1, <2>3, Zenon
  <2> QED  BY <2>1, <2>4, <1>1, <1>9, Zenon
<1>13. ReadFile(f, r) = Further(r, d)
  <2>1. r.next - First = p
        BY <1>1, <1>2, <1>10
  <2> QED  BY <2>1, <1>1, <1>11, <1>12, Zenon DEF Further
<1> QED  BY <1>1, <1>3, <1>8, <1>13

\* A file that ends before the next entry is passed over.  The open one may
\* seem to hold the next entry after truncate_suffix, if it is empty.
LEMMA ReadEnded ==
    ASSUME Sliced, NEW f \in OpenFiles, NEW r \in ReadType, ~r.threw, r.left # 0,
           End(f) <= r.next, r.next # 0, r.next <= NextIndex,
           f = current /\ r.next = NextIndex => f.name = r.next
    PROVE  ReadFile(f, r) = r
<1>1. CASE ~Holds(f, r.next)
      BY <1>1, ReadPasses
<1>2. CASE Holds(f, r.next)
  <2>1. PICK j \in Nat \ {0}, w \in Nat \ {0}, n \in Nat \ {0}, l \in Nat, N \in Nat :
          /\ j = r.next /\ w = r.left /\ n = f.name /\ l = Len(Data(f)) /\ N = NextIndex
          /\ End(f) = n + l /\ n + l <= j /\ j <= N
    <3>1. r.next \in Nat \ {0} /\ r.left \in Nat \ {0}
          BY DEF ReadType
    <3> QED  BY <3>1, SlicedFacts DEF End
  <2>2. f.start <= j /\ j <= f.last /\ f.start \in Nat
        BY <2>1, <1>2, SlicedFacts DEF Holds, FileType
  <2>3. f = current
    <3>1. ASSUME f # current PROVE FALSE
      <4>1. f.last = (n + l) - 1
            BY <3>1, <2>1, SlicedFacts DEF Sliced, ClosedFits
      <4> QED  BY <4>1, <2>1, <2>2
    <3> QED  BY <3>1
  <2>4. /\ n + l = N
        /\ IF owed = 0 /\ l = 0 THEN f.start = 0 /\ f.last = 0 ELSE f.start = n
        BY <2>1, <2>3 DEF OpenFiles, Sliced, CurrentFits
  <2>5. j = N /\ n = N /\ l = 0
    <3>1. j = N
          BY <2>1, <2>4
    <3>2. n = j
          BY <3>1, <2>1, <2>3
    <3> QED  BY <3>1, <3>2, <2>4
  <2>6. f.start = n
        BY <2>1, <2>2, <2>4, <2>5
  <2>o. PICK o \in Nat : o = 0
        OBVIOUS
  <2>7. Lookup(f, r.next) = o
    <3>1. r.next - f.start = 0
          BY <2>1, <2>5, <2>6
    <3>2. (r.next - f.start) + 1 = 1
          BY <3>1
    <3> QED  BY <3>1, <3>2, <2>o DEF Lookup
  <2>8. Sound(f)
        BY DEF Sliced, PlainTypes
  <2>9. LET end == IF Len(Data(f)) <= o + r.left THEN Len(Data(f)) ELSE o + r.left
            got == SubSeq(Data(f), o + 1, end)
        IN  ReadFile(f, r) = [next |-> r.next + Len(got), left |-> r.left - Len(got),
                              entries |-> r.entries \o got, threw |-> FALSE]
        BY <1>2, <2>7, <2>8, ReadGets
  <2>10. (IF Len(Data(f)) <= o + r.left THEN Len(Data(f)) ELSE o + r.left) = 0 /\ o + 1 = 1
         BY <2>o, <2>1, <2>5
  <2>11. Data(f) \in Seq(EntryType) /\ SubSeq(Data(f), 1, 0) = <<>>
    <3>1. Data(f) \in Seq(EntryType)
          BY SlicedFacts
    <3> QED  BY <3>1, SubSeqEmpty
  <2>12. ReadFile(f, r) = [next |-> r.next + Len(<<>>), left |-> r.left - Len(<<>>),
                           entries |-> r.entries \o <<>>, threw |-> FALSE]
         BY <2>9, <2>10, <2>11, Zenon
  <2>13. r = [next |-> r.next, left |-> r.left, entries |-> r.entries, threw |-> FALSE]
         BY DEF ReadType
  <2>14. r.next + Len(<<>>) = r.next /\ r.left - Len(<<>>) = r.left
         BY <2>1
  <2>15. r.entries \o <<>> = r.entries
    <3>1. r.entries \in Seq(EntryType)
          BY DEF ReadType
    <3> QED  BY <3>1, ConcatEmptySeq
  <2> QED  BY <2>12, <2>13, <2>14, <2>15, Zenon
<1> QED  BY <1>1, <1>2

\* The files in the order of their names.
LEMMA LineOfFiles ==
    ASSUME Sliced, IsOpen(current)
    PROVE  \E m \in Nat :
             /\ Len(FilesInOrder) = m + 1 /\ FilesInOrder[m + 1] = current
             /\ \A q \in 1..m : FilesInOrder[q] \in segments
             /\ \A q \in 1..m + 1 : FilesInOrder[q] \in OpenFiles
             /\ \A f \in OpenFiles : \E q \in 1..m + 1 : FilesInOrder[q] = f
             /\ \A p, q \in 1..m + 1 : p < q => FilesInOrder[p].name < FilesInOrder[q].name
<1>1. ASSUME NEW f \in segments
      PROVE  f \in OpenFiles /\ f.start = f.name /\ f.start \in Nat /\ f.name < current.name
      BY SlicedFacts DEF Sliced, ClosedFits
<1>2. IsFiniteSet(segments) /\ Apart(segments)
      BY <1>1 DEF Apart, Sliced, PlainTypes, Tiled
<1>3. PICK m \in Nat :
        /\ Len(FilesInOrder) = m + 1 /\ FilesInOrder[m + 1] = current
        /\ \A q \in 1..m : FilesInOrder[q] \in segments
        /\ \A f \in segments : \E q \in 1..m : FilesInOrder[q] = f
        /\ \A p, q \in 1..m : p < q => FilesInOrder[p].start < FilesInOrder[q].start
      BY <1>1, <1>2, FilesLine
<1>4. \A q \in 1..m + 1 : q = m + 1 \/ q \in 1..m
      OBVIOUS
<1>5. current \in OpenFiles
      BY SlicedFacts
<1>6. \A q \in 1..m + 1 : FilesInOrder[q] \in OpenFiles
      BY <1>1, <1>3, <1>4, <1>5
<1>7. \A f \in OpenFiles : \E q \in 1..m + 1 : FilesInOrder[q] = f
  <2>1. m + 1 \in 1..m + 1 /\ \A q \in 1..m : q \in 1..m + 1
        OBVIOUS
  <2> QED  BY <2>1, <1>3, SlicedFacts
<1>8. ASSUME NEW p \in 1..m + 1, NEW q \in 1..m + 1, p < q
      PROVE  FilesInOrder[p].name < FilesInOrder[q].name
  <2>1. p \in 1..m
        BY <1>8
  <2>2. CASE q = m + 1
        BY <2>1, <2>2, <1>1, <1>3
  <2>3. CASE q \in 1..m
        BY <2>1, <2>3, <1>1, <1>3, <1>8
  <2> QED  BY <2>2, <2>3, <1>4
<1> QED  BY <1>3, <1>6, <1>7, <1>8

\* What the loop of get_entries has after q files, if it starts at the k-th
\* entry: the next c of them.  It has read on to the end of a file, or all.
Progress(k, n, q, r, c) ==
    LET j == First + k - 1 + c
    IN  /\ c \in 0..n /\ j <= NextIndex
        /\ r = [next |-> j, left |-> n - c,
                entries |-> SubSeq(acked, k, k + c - 1), threw |-> FALSE]
        /\ c < n =>
             /\ \A f \in OpenFiles : f.name < j /\ j < End(f) => f.name \notin cut
             /\ \A p \in 1..q : End(FilesInOrder[p]) <= j
             /\ q < Len(FilesInOrder) => c = 0 \/ j <= current.name

\* One turn of it.
LEMMA ProgressMade ==
    ASSUME Sliced, IsOpen(current), NEW k \in Nat \ {0}, k <= Len(acked) \/ k = 1, NEW n \in Nat,
           NEW q \in Nat, q < Len(FilesInOrder), NEW r, NEW b, Progress(k, n, q, r, b)
    PROVE  \E c : Progress(k, n, q + 1, ReadFile(FilesInOrder[q + 1], r), c)
<1>1. PICK F \in Nat \ {0}, N \in Nat \ {0}, L \in Nat :
         F = First /\ N = NextIndex /\ L = Len(acked) /\ F <= N /\ L = N - F
      BY SlicedFacts
<1>2. PICK m \in Nat :
         /\ Len(FilesInOrder) = m + 1 /\ FilesInOrder[m + 1] = current
         /\ \A p \in 1..m : FilesInOrder[p] \in segments
         /\ \A p \in 1..m + 1 : FilesInOrder[p] \in OpenFiles
         /\ \A f \in OpenFiles : \E p \in 1..m + 1 : FilesInOrder[p] = f
         /\ \A p, s \in 1..m + 1 : p < s => FilesInOrder[p].name < FilesInOrder[s].name
      BY LineOfFiles
<1>3. PICK f : f = FilesInOrder[q + 1]
      OBVIOUS
<1>4. PICK j \in Nat \ {0}, i \in Nat \ {0} : i = F + k - 1 /\ j = i + b /\ j <= N /\ b \in 0..n
  <2>1. b \in 0..n /\ First + k - 1 + b <= NextIndex
        BY DEF Progress
  <2>2. First + k - 1 + b = (F + k - 1) + b
        BY <1>1, <2>1
  <2>3. F + k - 1 \in Nat \ {0} /\ (F + k - 1) + b \in Nat \ {0}
        BY <2>1
  <2> QED  BY <2>1, <2>2, <2>3, <1>1
<1>5. /\ r = [next |-> j, left |-> n - b,
              entries |-> SubSeq(acked, k, k + b - 1), threw |-> FALSE]
      /\ b < n =>
           /\ \A g \in OpenFiles : g.name < j /\ j < End(g) => g.name \notin cut
           /\ \A p \in 1..q : End(FilesInOrder[p]) <= j
           /\ b = 0 \/ j <= current.name
  <2>1. First + k - 1 + b = j
        BY <1>1, <1>4
  <2> QED  BY <2>1, <1>2 DEF Progress
<1>6. ASSUME NEW c \in 0..n, NEW h, h = i + c, h <= N,
             ReadFile(f, r) = [next |-> h, left |-> n - c,
                entries |-> SubSeq(acked, k, k + c - 1), threw |-> FALSE],
             c < n =>
               /\ \A g \in OpenFiles : g.name < h /\ h < End(g) => g.name \notin cut
               /\ \A p \in 1..q + 1 : End(FilesInOrder[p]) <= h
               /\ q < m => c = 0 \/ h <= current.name
      PROVE  Progress(k, n, q + 1, ReadFile(FilesInOrder[q + 1], r), c)
  <2>1. First + k - 1 + c = h
        BY <1>1, <1>4, <1>6
  <2>2. q + 1 < Len(FilesInOrder) => q < m
        BY <1>2
  <2> QED  BY <2>1, <2>2, <1>1, <1>3, <1>6 DEF Progress
<1>7. CASE ReadFile(f, r) = r /\ (b < n => End(f) <= j)
  <2>1. b < n => \A p \in 1..q + 1 : End(FilesInOrder[p]) <= j
    <3>1. \A p \in 1..q + 1 : p = q + 1 \/ p \in 1..q
          OBVIOUS
    <3> QED  BY <3>1, <1>3, <1>5, <1>7
  <2>2. Progress(k, n, q + 1, ReadFile(FilesInOrder[q + 1], r), b)
        BY <2>1, <1>4, <1>5, <1>6, <1>7
  <2> QED  BY <2>2
<1>8. CASE b = n
  <2>1. r.left = 0
    <3>1. n - b = 0
          BY <1>8
    <3> QED  BY <3>1, <1>5
  <2>2. ReadFile(f, r) = r
        BY <2>1, ReadPasses
  <2> QED  BY <2>2, <1>7, <1>8
<1>9. CASE b < n
  <2>1. /\ r \in ReadType /\ r.threw = FALSE /\ r.left # 0 /\ r.next = j
        /\ r.left = n - b /\ r.entries = SubSeq(acked, k, k + b - 1)
    <3>1. n - b \in Nat /\ n - b # 0
          BY <1>4, <1>9
    <3>2. SubSeq(acked, k, k + b - 1) \in Seq(EntryType)
      <4>1. acked \in Seq(EntryType)
            BY DEF Sliced, PlainTypes
      <4>2. k + b - 1 \in Nat /\ k + b - 1 <= Len(acked) /\ k <= (k + b - 1) + 1
        <5>1. i + b <= N /\ i = F + k - 1 /\ b \in Nat
              BY <1>4
        <5>2. k + b - 1 <= N - F
              BY <5>1
        <5> QED  BY <5>1, <5>2, <1>1
      <4> QED  BY <4>1, <4>2, PartTaken
    <3> QED  BY <3>1, <3>2, <1>5 DEF ReadType
  <2>2. q + 1 \in 1..m + 1 /\ f \in OpenFiles
        BY <1>2, <1>3
  <2>3. PICK x \in Nat \ {0}, e \in Nat :
          x = f.name /\ e = End(f) /\ x <= e /\ e <= N /\ F <= x
        BY <2>2, <1>1, SlicedFacts
  <2>4. x <= j
    <3> SUFFICES ASSUME j < x PROVE FALSE
        BY <2>3
    <3>1. j \in First .. NextIndex - 1
      <4>1. j <= N - 1 /\ F <= j
        <5>1. i = F + k - 1 /\ j = i + b /\ b \in Nat
              BY <1>4
        <5> QED  BY <5>1, <2>3
      <4> QED  BY <4>1, <1>1
    <3>2. PICK g \in OpenFiles : g.name <= j /\ j < End(g)
          BY <3>1 DEF Sliced, Tiled
    <3>3. PICK p \in 1..m + 1 : FilesInOrder[p] = g
          BY <1>2
    <3>4. g.name \in Nat /\ g.name < x
      <4>1. PICK y \in Nat : y = g.name /\ y <= j
            BY <3>2, SlicedFacts
      <4> QED  BY <4>1, <2>3
    <3>5. ~(q + 1 < p) /\ q + 1 # p
      <4>1. q + 1 < p => x < g.name
            BY <1>2, <1>3, <2>2, <2>3, <3>3
      <4>2. q + 1 = p => x = g.name
            BY <1>3, <2>3, <3>3
      <4> QED  BY <4>1, <4>2, <3>4
    <3>6. p \in 1..q
          BY <3>5
    <3>7. End(g) <= j
          BY <3>3, <3>6, <1>5, <1>9
    <3> QED  BY <3>2, <3>7, SlicedFacts
  <2>5. CASE e <= j
    <3>1. f = current /\ j = N => x = j
      <4> SUFFICES ASSUME f = current, j = N PROVE x = j
          OBVIOUS
      <4>1. CASE b = 0
        <5>1. F + k - 1 = N
              BY <4>1, <1>4
        <5>2. k = L + 1
              BY <5>1, <1>1
        <5>3. k = 1
              BY <5>2, <1>1
        <5>4. F = N
              BY <5>1, <5>3
        <5> QED  BY <5>4, <2>3, <2>4
      <4>2. CASE b # 0
        <5>1. j <= x
              BY <4>2, <1>5, <1>9, <2>3
        <5> QED  BY <5>1, <2>4
      <4> QED  BY <4>1, <4>2
    <3>2. ReadFile(f, r) = r
      <4>1. /\ ~r.threw /\ End(f) <= r.next /\ r.next # 0 /\ r.next <= NextIndex
            /\ f = current /\ r.next = NextIndex => f.name = r.next
            BY <2>1, <2>3, <2>5, <3>1, <1>1, <1>4
      <4> QED  BY <4>1, <2>1, <2>2, ReadEnded
    <3> QED  BY <3>2, <2>3, <2>5, <1>7
  <2>6. CASE j < e
    <3>1. f.name <= r.next /\ r.next < End(f) /\ (f.name = r.next \/ f.name \notin cut)
      <4>1. x = j \/ x < j
            BY <2>4
      <4> QED  BY <4>1, <2>1, <2>2, <2>3, <2>4, <2>6, <1>5, <1>9
    <3>2. PICK d \in Nat \ {0} :
            /\ d <= r.left /\ r.next + d <= End(f)
            /\ d = r.left \/ r.next + d = End(f)
            /\ ReadFile(f, r) = Further(r, d)
      <4>1. ~r.threw
            BY <2>1
      <4> QED  BY <3>1, <4>1, <2>1, <2>2, ReadOne
    <3>3. PICK c \in 0..n, h \in Nat : c = b + d /\ h = j + d /\ h = i + c /\ h <= N
      <4>1. d <= n - b /\ j + d <= N /\ b \in Nat /\ j = i + b
        <5>1. j + d <= e
              BY <3>2, <2>1, <2>3
        <5> QED  BY <5>1, <3>2, <2>1, <2>3, <1>4
      <4>2. b + d \in 0..n
        <5>1. b + d <= n
              BY <4>1
        <5> QED  BY <5>1, <4>1
      <4> QED  BY <4>1, <4>2
    <3>4. ReadFile(f, r) = [next |-> h, left |-> n - c,
                            entries |-> SubSeq(acked, k, k + c - 1), threw |-> FALSE]
      <4>1. PICK p \in Nat : p = k + b - 1 /\ r.next - First = p /\ p + d = k + c - 1 /\ p + d <= L
        <5>1. i = F + k - 1 /\ j = i + b /\ b \in Nat /\ c = b + d /\ j + d <= N
              BY <1>4, <3>3
        <5>2. j - F = k + b - 1 /\ k + b - 1 \in Nat /\ (k + b - 1) + d = k + c - 1
              BY <5>1
        <5>3. k + c - 1 <= N - F
              BY <5>1
        <5> QED  BY <5>2, <5>3, <1>1, <2>1
      <4>2. SubSeq(acked, k, p) \o SubSeq(acked, p + 1, p + d) = SubSeq(acked, k, p + d)
        <5>1. acked \in Seq(EntryType)
              BY DEF Sliced, PlainTypes
        <5>2. k \in 1..Len(acked) + 1 /\ p \in k - 1..Len(acked) /\ p + d \in p..Len(acked)
          <6>1. p = k + b - 1 /\ b \in Nat /\ p + d <= L
                BY <4>1, <1>4
          <6> QED  BY <6>1, <1>1
        <5> QED  BY <5>1, <5>2, ConcatAdjacentSubSeq
      <4>3. ReadFile(f, r) =
              [next |-> r.next + d, left |-> r.left - d,
               entries |-> r.entries \o SubSeq(acked, p + 1, p + d), threw |-> FALSE]
            BY <3>2, <4>1, Zenon DEF Further
      <4>4. r.next + d = h /\ r.left - d = n - c /\ r.entries = SubSeq(acked, k, p)
        <5>1. (n - b) - d = n - (b + d)
              BY <1>4
        <5> QED  BY <5>1, <2>1, <3>3, <4>1
      <4> QED  BY <4>1, <4>2, <4>3, <4>4, Zenon
    <3>5. ASSUME c < n
          PROVE  /\ \A g \in OpenFiles : g.name < h /\ h < End(g) => g.name \notin cut
                 /\ \A p \in 1..q + 1 : End(FilesInOrder[p]) <= h
                 /\ q < m => c = 0 \/ h <= current.name
      <4>1. h = e
        <5>1. d # n - b
              BY <3>3, <3>5, <1>4
        <5> QED  BY <5>1, <3>2, <3>3, <2>1, <2>3
      <4>2. ASSUME NEW g \in OpenFiles, g.name < h, h < End(g) PROVE FALSE
        <5>1. PICK y \in Nat, z \in Nat : y = g.name /\ z = End(g) /\ y < e /\ e < z
              BY <4>1, <4>2, SlicedFacts
        <5>2. /\ y = x => g = f
              /\ y < x => z <= x
              /\ x < y => e <= y
              BY <5>1, <2>2, <2>3 DEF Sliced, Tiled
        <5>3. g = f => z = e
              BY <5>1, <2>3
        <5>4. y = x \/ y < x \/ x < y
              BY <2>3, <5>1
        <5> QED  BY <5>1, <5>2, <5>3, <5>4, <2>3
      <4>3. ASSUME NEW p \in 1..q + 1 PROVE End(FilesInOrder[p]) <= h
        <5>1. CASE p = q + 1
              BY <5>1, <4>1, <1>3, <2>3
        <5>2. CASE p # q + 1
          <6>1. p \in 1..q /\ p \in 1..m + 1
                BY <5>2, <2>2
          <6>2. End(FilesInOrder[p]) <= j /\ End(FilesInOrder[p]) \in Nat
                BY <6>1, <1>2, <1>5, <1>9, SlicedFacts
          <6>3. j <= h
                BY <3>3
          <6> QED  BY <6>2, <6>3, <3>3
        <5> QED  BY <5>1, <5>2
      <4>4. q < m => h <= current.name
        <5> SUFFICES ASSUME q < m PROVE h <= current.name
            OBVIOUS
        <5>1. f \in segments
          <6>1. q + 1 \in 1..m
                OBVIOUS
          <6> QED  BY <6>1, <1>2, <1>3
        <5>2. f.name < current.name /\ current \in OpenFiles
              BY <5>1, SlicedFacts DEF Sliced, ClosedFits
        <5>3. End(f) <= current.name
              BY <5>2, <2>2 DEF Sliced, Tiled
        <5> QED  BY <5>3, <4>1, <2>3
      <4> QED  BY <4>2, <4>3, <4>4
    <3>6. Progress(k, n, q + 1, ReadFile(FilesInOrder[q + 1], r), c)
          BY <3>3, <3>4, <3>5, <1>6
    <3> QED  BY <3>6
  <2> QED  BY <2>3, <2>5, <2>6
<1>10. b = n \/ b < n
       BY <1>4
<1> QED  BY <1>8, <1>9, <1>10

\* get_entries from the k-th entry returns as many as it is asked for, or all.
AsManyAsAsked(i, k, n) ==
    \E c \in 0..n :
       /\ k + c - 1 <= Len(acked) /\ (c = n \/ k + c - 1 = Len(acked))
       /\ GetEntries(i, n).entries = SubSeq(acked, k, k + c - 1)

LEMMA ReadsOn ==
    ASSUME Sliced, IsOpen(current), NEW k \in Nat \ {0}, k <= Len(acked) \/ k = 1, NEW n \in Nat,
           NEW i, i = First + k - 1,
           \A f \in OpenFiles : f.name < i /\ i < End(f) => f.name \notin cut
    PROVE  AsManyAsAsked(i, k, n)
<1>1. PICK F \in Nat \ {0}, N \in Nat \ {0}, L \in Nat :
         F = First /\ N = NextIndex /\ L = Len(acked) /\ F <= N /\ L = N - F
      BY SlicedFacts
<1>2. PICK m \in Nat :
        /\ Len(FilesInOrder) = m + 1 /\ FilesInOrder[m + 1] = current
      BY LineOfFiles
<1>3. i \in Nat \ {0} /\ i = F + k - 1 /\ i <= N
  <2>1. i = F + k - 1 /\ i \in Nat \ {0}
        BY <1>1
  <2>2. k <= L \/ k = 1
        BY <1>1
  <2> QED  BY <2>1, <2>2, <1>1
<1>4. PICK a :
        /\ a[0] = ReadFrom(i, n)
        /\ \A q \in 1..m + 1 : a[q] = ReadFile(FilesInOrder[q], a[q - 1])
        /\ GetEntries(i, n) = a[m + 1]
  <2>1. PICK e \in Nat : e = m + 1
        OBVIOUS
  <2>2. Len(FilesInOrder) = e
        BY <2>1, <1>2
  <2>3. PICK a :
          /\ a[0] = ReadFrom(i, n)
          /\ \A q \in 1..e : a[q] = ReadFile(FilesInOrder[q], a[q - 1])
          /\ GetEntries(i, n) = a[e]
        BY <2>2, EntriesByFile
  <2> QED  BY <2>1, <2>3
<1> DEFINE Good(q) == \E c : Progress(k, n, q, a[q], c)
           K == {q \in Nat : q <= m + 1 => Good(q)}
<1>5. Good(0)
  <2>1. SubSeq(acked, k, k + 0 - 1) = <<>>
    <3>1. acked \in Seq(EntryType) /\ k + 0 - 1 \in Int /\ k + 0 - 1 < k
          BY DEF Sliced, PlainTypes
    <3> QED  BY <3>1, SubSeqEmpty
  <2>2. First + k - 1 + 0 = i /\ i <= NextIndex /\ 0 \in 0..n /\ n - 0 = n
        BY <1>1, <1>3
  <2>3. \A p \in 1..0 : FALSE
        OBVIOUS
  <2>4. a[0] = [next |-> i, left |-> n - 0,
                entries |-> SubSeq(acked, k, k + 0 - 1), threw |-> FALSE]
        BY <2>1, <2>2, <1>4 DEF ReadFrom
  <2>5. Progress(k, n, 0, a[0], 0)
        BY <2>2, <2>3, <2>4 DEF Progress
  <2> QED  BY <2>5
<1>6. ASSUME NEW q \in K PROVE q + 1 \in K
  <2> SUFFICES ASSUME q + 1 <= m + 1 PROVE Good(q + 1)
      OBVIOUS
  <2>1. q \in Nat /\ q < m + 1 /\ q + 1 \in 1..m + 1 /\ (q + 1) - 1 = q
        OBVIOUS
  <2>2. PICK b : Progress(k, n, q, a[q], b)
        BY <2>1
  <2>3. a[q + 1] = ReadFile(FilesInOrder[q + 1], a[q])
        BY <2>1, <1>4
  <2>4. \E c : Progress(k, n, q + 1, ReadFile(FilesInOrder[q + 1], a[q]), c)
    <3>1. q \in Nat /\ q < Len(FilesInOrder)
          BY <2>1, <1>2
    <3> QED  BY <2>2, <3>1, ProgressMade
  <2> QED  BY <2>3, <2>4
<1>7. K = Nat
  <2>1. K \in SUBSET Nat /\ 0 \in K /\ \A q \in K : q + 1 \in K
    <3> HIDE DEF Good
    <3> QED  BY <1>5, <1>6
  <2> HIDE DEF K
  <2> QED  BY <2>1, SetInduction
<1>8. PICK c : Progress(k, n, m + 1, a[m + 1], c)
  <2>1. m + 1 \in K /\ m + 1 <= m + 1
        BY <1>7
  <2> QED  BY <2>1
<1>9. /\ c \in 0..n /\ GetEntries(i, n).entries = SubSeq(acked, k, k + c - 1)
      /\ First + k - 1 + c <= NextIndex
      /\ c < n => End(FilesInOrder[m + 1]) <= First + k - 1 + c
  <2>1. m + 1 \in 1..m + 1
        OBVIOUS
  <2> QED  BY <1>4, <1>8, <2>1 DEF Progress
<1>10. First + k - 1 + c = (F + k - 1) + c
       BY <1>1, <1>9
<1>11. c < n => (F + k - 1) + c = N
  <2>1. End(current) = N
        BY <1>1 DEF Sliced, CurrentFits
  <2> QED  BY <2>1, <1>1, <1>2, <1>9, <1>10
<1>12. k + c - 1 <= L /\ (c = n \/ k + c - 1 = L)
  <2>1. (F + k - 1) + c <= N /\ c \in Nat /\ (c = n \/ c < n)
        BY <1>1, <1>9, <1>10
  <2>2. k + c - 1 <= N - F
        BY <2>1
  <2>3. (F + k - 1) + c = N => k + c - 1 = N - F
        BY <2>1
  <2> QED  BY <2>1, <2>2, <2>3, <1>1, <1>11
<1> QED  BY <1>1, <1>9, <1>12 DEF AsManyAsAsked

\* get_entry returns the k-th entry.
LEMMA ReadsOneEntry ==
    ASSUME Sliced, NEW k \in 1..Len(acked), NEW i, i = First + k - 1,
           \A f \in OpenFiles : f.name <= i /\ i < End(f) => f.name \notin cut
    PROVE  GetEntry(i) = [entries |-> <<acked[k]>>, threw |-> FALSE]
<1>1. PICK F \in Nat \ {0}, N \in Nat \ {0}, L \in Nat :
         F = First /\ N = NextIndex /\ L = Len(acked) /\ F <= N /\ L = N - F
      BY SlicedFacts
<1>2. i \in Nat \ {0} /\ i = F + k - 1 /\ i < N /\ F <= i
  <2>1. k \in 1..L
        BY <1>1
  <2> QED  BY <2>1, <1>1
<1>3. PICK g \in OpenFiles : g.name <= i /\ i < End(g)
  <2>1. i \in First .. NextIndex - 1
        BY <1>1, <1>2
  <2> QED  BY <2>1 DEF Sliced, Tiled
<1>4. ASSUME NEW f \in OpenFiles, Holds(f, i) PROVE f = g
  <2>1. f.name <= i /\ i < End(f)
        BY <1>1, <1>2, <1>4, HoldsIs
  <2>2. /\ f.name \in Nat /\ g.name \in Nat /\ End(f) \in Nat /\ End(g) \in Nat
        BY SlicedFacts
  <2>3. /\ f.name = g.name => f = g
        /\ f.name < g.name => End(f) <= g.name
        /\ g.name < f.name => End(g) <= f.name
        BY DEF Sliced, Tiled
  <2> QED  BY <2>1, <2>2, <2>3, <1>2, <1>3
<1>5. Holds(g, i)
      BY <1>1, <1>2, <1>3, HoldsIs
<1> DEFINE in == IF Holds(current, i) THEN {current} ELSE {f \in segments: Holds(f, i)}
<1>6. in = {g}
  <2>1. CASE Holds(current, i)
    <3>1. current \in OpenFiles
          BY <2>1, SlicedFacts DEF Holds
    <3> QED  BY <2>1, <3>1, <1>4
  <2>2. CASE ~Holds(current, i)
    <3>1. g \in segments
          BY <2>2, <1>5, SlicedFacts
    <3> QED  BY <2>2, <3>1, <1>4, <1>5, SlicedFacts
  <2> QED  BY <2>1, <2>2
<1>7. PICK d \in Nat \ {0} :
        /\ d <= 1 /\ ReadFile(g, ReadFrom(i, 1)) = Further(ReadFrom(i, 1), d)
  <2>1. PICK r : r = ReadFrom(i, 1)
        OBVIOUS
  <2>2. r \in ReadType /\ ~r.threw /\ r.left = 1 /\ r.next = i
    <3>1. <<>> \in Seq(EntryType) /\ i \in Nat /\ 1 \in Nat
          BY <1>2
    <3> QED  BY <2>1, <3>1 DEF ReadFrom, ReadType
  <2>4. g.name \notin cut
        BY <1>3
  <2>5. /\ r.left # 0 /\ g.name <= r.next /\ r.next < End(g)
        BY <2>2, <1>3
  <2>6. \E d \in Nat \ {0} :
              /\ d <= r.left /\ r.next + d <= End(g)
              /\ d = r.left \/ r.next + d = End(g)
              /\ ReadFile(g, r) = Further(r, d)
        BY <2>2, <2>4, <2>5, ReadOne
  <2> QED  BY <2>1, <2>2, <2>6
<1>8. ReadFile(g, ReadFrom(i, 1)) =
        [next |-> i + 1, left |-> 0, entries |-> <<acked[k]>>, threw |-> FALSE]
  <2>1. d = 1 /\ i - First = k - 1 /\ (k - 1) + 1 = k /\ k - 1 \in Nat
        BY <1>1, <1>2, <1>7
  <2>2. Further(ReadFrom(i, 1), 1) =
          [next |-> i + 1, left |-> 1 - 1, entries |-> <<>> \o SubSeq(acked, k, k), threw |-> FALSE]
    <3>1. ReadFrom(i, 1) = [next |-> i, left |-> 1, entries |-> <<>>, threw |-> FALSE]
          BY DEF ReadFrom
    <3>2. PICK r : r = ReadFrom(i, 1)
          OBVIOUS
    <3>3. r.next = i /\ r.left = 1 /\ r.entries = <<>>
          BY <3>1, <3>2
    <3>4. Further(r, 1) = [next |-> i + 1, left |-> 1 - 1,
                           entries |-> <<>> \o SubSeq(acked, k, k), threw |-> FALSE]
          BY <2>1, <3>3, Zenon DEF Further
    <3> QED  BY <3>2, <3>4
  <2>3. SubSeq(acked, k, k) = <<acked[k]>> /\ <<acked[k]>> \in Seq(EntryType)
    <3>1. acked \in Seq(EntryType) /\ k \in Nat \ {0} /\ k <= Len(acked) /\ k <= k + 1
          BY DEF Sliced, PlainTypes
    <3>2. k - k + 1 = 1 /\ k + 1 - 1 = k
          OBVIOUS
    <3>3. /\ SubSeq(acked, k, k) \in Seq(EntryType) /\ Len(SubSeq(acked, k, k)) = 1
          /\ SubSeq(acked, k, k)[1] = acked[k]
      <4>1. /\ SubSeq(acked, k, k) \in Seq(EntryType) /\ Len(SubSeq(acked, k, k)) = k - k + 1
            /\ \A q \in 1..k - k + 1 : SubSeq(acked, k, k)[q] = acked[k + q - 1]
            BY <3>1, PartTaken
      <4> QED  BY <3>2, <4>1
    <3>4. <<acked[k]>> \in Seq(EntryType) /\ Len(<<acked[k]>>) = 1
          BY <3>1
    <3>5. \A q \in 1..1 : SubSeq(acked, k, k)[q] = <<acked[k]>>[q]
          BY <3>3
    <3> QED  BY <3>3, <3>4, <3>5, SeqEqual
  <2>4. <<>> \o <<acked[k]>> = <<acked[k]>>
        BY <2>3, ConcatEmptySeq
  <2> QED  BY <2>1, <2>2, <2>3, <2>4, <1>7
<1>9. PICK first : first = CHOOSE f \in in : \A h \in in : f.start <= h.start
      OBVIOUS
<1>10. first = g
  <2>1. g.start <= g.start
        BY SlicedFacts DEF FileType
  <2>2. \E f \in in : \A h \in in : f.start <= h.start
        BY <1>6, <2>1
  <2>3. first \in in
        BY <2>2, <1>9
  <2> QED  BY <2>3, <1>6
<1>11. in # {} /\ <<acked[k]>> # <<>>
       BY <1>6
<1>12. PICK r : r = ReadFile(first, ReadFrom(i, 1))
       OBVIOUS
<1>13. r.entries = <<acked[k]>> /\ r.threw = FALSE
       BY <1>8, <1>10, <1>12
<1>14. GetEntry(i) = [entries |-> r.entries, threw |-> r.threw \/ r.entries = <<>>]
       BY <1>9, <1>11, <1>12, Zenon DEF GetEntry
<1>15. (r.threw \/ r.entries = <<>>) = FALSE
       BY <1>11, <1>13
<1> QED  BY <1>13, <1>14, <1>15, Zenon

-----------------------------------------------------------------------------
(* The two promises about a log that is used in one life.                   *)

\* No run of it has a restart.
OneLifeInv == OneLife => restarts = 0

LEMMA OneLifeNext == Counted /\ OneLifeInv /\ [Next]_vars => OneLifeInv'
BY DEF Next, WriteEntry, Read, Restart, Crash, DropPrefix, DropSuffix, Clear,
       vars, history, Counted, OneLifeInv, OneLife, use

LEMMA ExactIsSliced ==
    ASSUME PlainInv, OneLifeInv, Exact
    PROVE  Sliced
BY DEF PlainInv, Plain, OneLifeInv, Exact

LEMMA SlicedIsReadable ==
    ASSUME Sliced, NEW k \in DOMAIN acked, NEW i, i = acked[k].index,
           \A f \in Files: Holds(f, i) => f.name \notin cut
    PROVE  /\ GetEntry(i) = [entries |-> <<acked[k]>>, threw |-> FALSE]
           /\ \A n \in 1 .. Len(acked) + 1 - k:
                GetEntries(i, n).entries = SubSeq(acked, k, k + n - 1)
<1>1. PICK F \in Nat \ {0}, N \in Nat \ {0}, L \in Nat :
         F = First /\ N = NextIndex /\ L = Len(acked) /\ F <= N /\ L = N - F
      BY SlicedFacts
<1>2. k \in 1..L /\ k \in 1..Len(acked) /\ acked \in Seq(EntryType) /\ acked # <<>>
  <2>1. acked \in Seq(EntryType)
        BY DEF Sliced, PlainTypes
  <2>2. k \in 1..Len(acked) /\ acked # <<>>
        BY <2>1
  <2> QED  BY <2>1, <2>2, <1>1
<1>3. i = First + k - 1 /\ i \in Nat \ {0} /\ i < NextIndex
  <2>1. i = First + k - 1
        BY DEF Sliced, Numbered
  <2> QED  BY <2>1, <1>1, <1>2
<1>4. \A f \in OpenFiles : f.name <= i /\ i < End(f) => f.name \notin cut
      BY <1>3, HoldsIs DEF OpenFiles
<1>5. GetEntry(i) = [entries |-> <<acked[k]>>, threw |-> FALSE]
      BY <1>2, <1>3, <1>4, ReadsOneEntry
<1>6. IsOpen(current)
      BY <1>2 DEF Sliced, OnDisk
<1>7. ASSUME NEW n \in 1 .. Len(acked) + 1 - k
      PROVE  GetEntries(i, n).entries = SubSeq(acked, k, k + n - 1)
  <2>1. \A f \in OpenFiles : f.name < i /\ i < End(f) => f.name \notin cut
        BY <1>3, <1>4, SlicedFacts
  <2>2. n \in Nat /\ k \in Nat \ {0} /\ k <= Len(acked) /\ n <= L + 1 - k
        BY <1>1, <1>2
  <2>3. PICK c \in 0..n :
             /\ k + c - 1 <= Len(acked) /\ (c = n \/ k + c - 1 = Len(acked))
             /\ GetEntries(i, n).entries = SubSeq(acked, k, k + c - 1)
    <3>1. n \in Nat /\ k \in Nat \ {0} /\ k <= Len(acked) /\ i = First + k - 1
          BY <2>2, <1>3
    <3>2. AsManyAsAsked(i, k, n)
          BY <3>1, <1>6, <2>1, ReadsOn
    <3> QED  BY <3>2 DEF AsManyAsAsked
  <2>4. c = n
        BY <2>2, <2>3, <1>1
  <2> QED  BY <2>3, <2>4
<1> QED  BY <1>5, <1>7

\* UncutIsReadable: in one life, whatever segments have been closed, cut or
\* cleared, an entry whose file has not been cut is returned by get_entry, and
\* with those behind it, in any number, by get_entries.
THEOREM FilelogUncutIsReadable == Spec => []UncutIsReadable
<1>1. PlainInv /\ OneLifeInv => UncutIsReadable
      BY ExactIsSliced, SlicedIsReadable DEF UncutIsReadable
<1>2. Init => Counted /\ PlainInv /\ OneLifeInv
      BY CountedInit, PlainInit DEF Init, OneLifeInv
<1>3. Counted /\ PlainInv /\ OneLifeInv /\ [Next]_vars => (Counted /\ PlainInv /\ OneLifeInv)'
      BY CountedNext, PlainNext, OneLifeNext
<1> QED  BY <1>1, <1>2, <1>3, PTL DEF Spec

\* Where get_entries starts when it reads all there is.
LEMMA StartOfAll ==
    ASSUME Sliced, IsOpen(current)
    PROVE  /\ \A s \in Starts : s \in Nat /\ First <= s
           /\ acked # <<>> => First \in Starts
           /\ acked = <<>> => \A s \in Starts : s = First
<1>1. PICK F \in Nat \ {0}, N \in Nat \ {0}, L \in Nat :
         F = First /\ N = NextIndex /\ L = Len(acked) /\ F <= N /\ L = N - F
      BY SlicedFacts
<1>2. OpenFiles = Files /\ current \in OpenFiles
      BY SlicedFacts DEF OpenFiles, Files
<1>3. ASSUME NEW f \in Files
      PROVE  /\ f.name \in Nat /\ F <= f.name /\ f.name <= N
             /\ f.start = 0 \/ f.start = f.name
  <2>1. f.name \in Nat /\ F <= f.name /\ f.name <= End(f) /\ End(f) <= N /\ End(f) \in Nat
        BY <1>1, <1>2, SlicedFacts
  <2>2. f.start = 0 \/ f.start = f.name
    <3>1. CASE Len(Data(f)) > 0
          BY <3>1, <1>2, SlicedFacts
    <3>2. CASE ~(Len(Data(f)) > 0)
      <4>1. f = current
            BY <3>2, <1>2, SlicedFacts
      <4> QED  BY <4>1 DEF Sliced, CurrentFits
    <3> QED  BY <3>1, <3>2
  <2> QED  BY <2>1, <2>2
<1>4. ASSUME NEW s \in Starts PROVE s \in Nat /\ F <= s /\ s <= N
      BY <1>3 DEF Starts
<1>5. ASSUME acked # <<>> PROVE First \in Starts
  <2>1. L # 0
    <3>1. acked \in Seq(EntryType)
          BY DEF Sliced, PlainTypes
    <3> QED  BY <3>1, <1>1, <1>5, EmptySeq
  <2>2. First \in First .. NextIndex - 1
        BY <2>1, <1>1
  <2>3. PICK f \in OpenFiles : f.name <= First /\ First < End(f)
        BY <2>2 DEF Sliced, Tiled
  <2>4. f.name = First
        BY <2>3, <1>1, SlicedFacts
  <2>5. Len(Data(f)) > 0
        BY <2>3, <2>4, <1>1, SlicedFacts DEF End
  <2>6. f.start = First /\ f \in Files
        BY <2>4, <2>5, <1>2, SlicedFacts
  <2> QED  BY <2>6, <1>1 DEF Starts
<1>6. ASSUME acked = <<>> PROVE F = N
  <2>1. Len(acked) = 0
        BY <1>6
  <2> QED  BY <2>1, <1>1
<1> QED  BY <1>1, <1>4, <1>5, <1>6

\* All that is read is all that has been written and not cut off.
LEMMA EntriesAreAcked ==
    ASSUME Sliced, writes \in Nat
    PROVE  Entries = acked
<1>1. acked \in Seq(EntryType) /\ Len(acked) <= writes
      BY DEF Sliced, PlainTypes
<1>2. CASE ~IsOpen(current)
  <2>1. current = Closed /\ segments = {} /\ acked = <<>>
        BY <1>2 DEF Sliced, OnDisk
  <2>2. Starts = {}
        BY <2>1 DEF Starts, Files, Closed
  <2> QED  BY <2>1, <2>2 DEF Entries
<1>3. CASE IsOpen(current) /\ Starts = {}
      BY <1>3, StartOfAll DEF Entries
<1>4. CASE IsOpen(current) /\ Starts # {}
  <2>1. First \in Nat \ {0} /\ First \in Starts /\ \A s \in Starts : s \in Nat /\ First <= s
        BY <1>4, StartOfAll, SlicedFacts
  <2>2. Min(Starts) = First
    <3>1. \A x \in Starts : (\A s \in Starts : x <= s) => x = First
          BY <2>1
    <3>2. \A s \in Starts : First <= s
          BY <2>1
    <3> QED  BY <2>1, <3>1, <3>2 DEF Min
  <2>3. Entries = GetEntries(First, writes + 1).entries
        BY <1>4, <2>2, Zenon DEF Entries
  <2>4. AsManyAsAsked(First, 1, writes + 1)
    <3>1. First = First + 1 - 1 /\ writes + 1 \in Nat /\ 1 \in Nat \ {0} /\ 1 = 1
          BY <2>1
    <3>2. \A f \in OpenFiles : ~(f.name < First)
          BY <2>1, SlicedFacts
    <3> QED  BY <3>1, <3>2, <1>4, ReadsOn
  <2>5. PICK c \in 0..writes + 1 :
           /\ 1 + c - 1 <= Len(acked) /\ (c = writes + 1 \/ 1 + c - 1 = Len(acked))
           /\ GetEntries(First, writes + 1).entries = SubSeq(acked, 1, 1 + c - 1)
        BY <2>4 DEF AsManyAsAsked
  <2>6. 1 + c - 1 = Len(acked)
        BY <2>5, <1>1
  <2>7. SubSeq(acked, 1, Len(acked)) = acked
        BY <1>1, SubSeqFull
  <2> QED  BY <2>3, <2>5, <2>6, <2>7
<1> QED  BY <1>2, <1>3, <1>4

\* What a step does to the entries.
Extended == \E e : acked' = Append(acked, e) /\ (acked = <<>> \/ e.index = acked[Len(acked)].index + 1)
CutOff == \E n \in 0 .. Len(acked) :
                 acked' = SubSeq(acked, n + 1, Len(acked)) \/ acked' = SubSeq(acked, 1, n)

LEMMA EntriesStep ==
    ASSUME Sliced, OneLife, [Next]_vars
    PROVE  Extended \/ CutOff \/ acked' = acked
<1>1. PICK F \in Nat \ {0}, N \in Nat \ {0}, L \in Nat :
         F = First /\ N = NextIndex /\ L = Len(acked) /\ F <= N /\ L = N - F
      BY SlicedFacts
<1>2. CASE WriteEntry
  <2>1. acked' = Append(acked, Entry(N)) /\ Entry(N).index = N
        BY <1>1, <1>2 DEF WriteEntry, NextIndex, Entry
  <2>2. acked = <<>> \/ N = acked[Len(acked)].index + 1
    <3> SUFFICES ASSUME acked # <<>> PROVE N = acked[Len(acked)].index + 1
        OBVIOUS
    <3>1. acked \in Seq(EntryType)
          BY DEF Sliced, PlainTypes
    <3>2. L # 0 /\ L \in DOMAIN acked
      <4>1. Len(acked) # 0
            BY <3>1, EmptySeq
      <4>2. DOMAIN acked = 1..Len(acked)
            BY <3>1
      <4> QED  BY <4>1, <4>2, <1>1
    <3>3. acked[L].index = F + L - 1
          BY <3>2, <1>1 DEF Sliced, Numbered
    <3> QED  BY <3>2, <3>3, <1>1
  <2> QED  BY <2>1, <2>2 DEF Extended
<1>3. ASSUME owed = 0, NEW i \in 1..last, NEW j \in Nat, j = i \/ j = i + 1
      PROVE  Place(j) - 1 \in 0..Len(acked) /\ (Place(j) - 1) + 1 = Place(j)
  <2>1. last \in Nat /\ N = last + 1
        BY <1>1, <1>3 DEF Sliced, PlainTypes, NextIndex
  <2>2. j <= N
        BY <2>1, <1>3
  <2>3. Place(j) = IF j <= F THEN 1 ELSE j - F + 1
        BY <2>2, <1>1, PlaceIs
  <2>4. Place(j) \in 1..L + 1
        BY <2>2, <2>3, <1>1
  <2> QED  BY <2>4, <1>1
<1>4. CASE DropPrefix
  <2>1. PICK i \in 1..last : owed = 0 /\ acked' = SubSeq(acked, Place(i + 1), Len(acked))
        BY <1>4 DEF DropPrefix
  <2>2. i + 1 \in Nat
        BY DEF Sliced, PlainTypes
  <2>3. Place(i + 1) - 1 \in 0..Len(acked) /\ (Place(i + 1) - 1) + 1 = Place(i + 1)
        BY <2>1, <2>2, <1>3
  <2> QED  BY <2>1, <2>3 DEF CutOff
<1>5. CASE DropSuffix
  <2>1. PICK i \in 1..last : owed = 0 /\ acked' = SubSeq(acked, 1, Place(i) - 1)
        BY <1>5 DEF DropSuffix
  <2>2. i \in Nat
        BY DEF Sliced, PlainTypes
  <2>3. Place(i) - 1 \in 0..Len(acked)
        BY <2>1, <2>2, <1>3
  <2> QED  BY <2>1, <2>3 DEF CutOff
<1>6. CASE Clear
  <2>1. acked' = <<>> /\ 0 \in 0..Len(acked)
        BY <1>1, <1>6 DEF Clear
  <2>2. SubSeq(acked, 1, 0) = <<>>
        BY SubSeqEmpty DEF Sliced, PlainTypes
  <2> QED  BY <2>1, <2>2 DEF CutOff
<1>7. CASE Read \/ UNCHANGED vars
      BY <1>7 DEF Read, vars, history
<1>8. CASE Restart \/ Crash
      BY <1>8 DEF Restart, Crash, OneLife
<1> QED  BY <1>2, <1>4, <1>5, <1>6, <1>7, <1>8 DEF Next

\* What the promise says of the same step.
LEMMA PromisedStep ==
    ASSUME acked \in Seq(EntryType), View = acked, View' = acked', Extended \/ CutOff \/ acked' = acked
    PROVE  [Promise!Next]_View
<1>1. CASE Extended
  <2>1. PICK e : acked' = Append(acked, e) /\ (acked = <<>> \/ e.index = acked[Len(acked)].index + 1)
        BY <1>1 DEF Extended
  <2>2. Promise!Write(e)
        BY <2>1 DEF Promise!Write, Promise!Follows
  <2>3. e \in Promise!ToSet(View')
    <3>1. View' = Append(acked, e) /\ acked \in Seq(EntryType)
          BY <2>1
    <3> QED  BY <3>1 DEF Promise!ToSet
  <2> QED  BY <2>2, <2>3 DEF Promise!Next
<1>2. CASE CutOff
      BY <1>2 DEF CutOff, Promise!Next, Promise!DropPrefix, Promise!DropSuffix
<1>3. CASE acked' = acked
      BY <1>3
<1> QED  BY <1>1, <1>2, <1>3

Viewed == Exact => View = acked /\ acked \in Seq(EntryType)

LEMMA IsViewed == Counted /\ PlainInv /\ OneLifeInv => Viewed
<1> SUFFICES ASSUME Counted, PlainInv, OneLifeInv, Exact
             PROVE  View = acked /\ acked \in Seq(EntryType)
    BY DEF Viewed
<1>1. Sliced
      BY ExactIsSliced
<1>2. writes \in Nat /\ acked \in Seq(EntryType)
      BY <1>1 DEF Counted, Sliced, PlainTypes
<1> QED  BY <1>1, <1>2, EntriesAreAcked DEF View

LEMMA PromisedNext ==
    ASSUME PlainInv, OneLifeInv, Viewed, Viewed', [Next]_vars
    PROVE  [Promise!Next]_View
<1>1. setting' = setting
      BY DEF Next, WriteEntry, Read, Restart, Crash, DropPrefix, DropSuffix, Clear,
             vars, history
<1>2. Exact' <=> Exact
      BY <1>1 DEF Exact, OneLife, use
<1>3. CASE ~Exact
      BY <1>2, <1>3 DEF View
<1>4. CASE Exact
  <2>1. Sliced /\ OneLife
        BY <1>4, ExactIsSliced DEF Exact
  <2>2. View = acked /\ View' = acked' /\ acked \in Seq(EntryType)
        BY <1>2, <1>4 DEF Viewed
  <2> QED  BY <2>1, <2>2, EntriesStep, PromisedStep
<1> QED  BY <1>3, <1>4

\* In one life, without rewriting the open segment, filelog implements EntryLog:
\* writes extend the entries with the next index, truncation and clear cut them
\* at an end, and nothing else changes them.
THEOREM FilelogImplementsEntryLog == Spec => ImplementsEntryLog
<1>1. Init => Counted /\ PlainInv /\ OneLifeInv
      BY CountedInit, PlainInit DEF Init, OneLifeInv
<1>2. Init => Promise!Init
  <2>1. Init => Starts = {}
        BY DEF Init, Starts, Files, Closed
  <2>2. Starts = {} => View = <<>>
        BY DEF View, Entries
  <2> QED  BY <2>1, <2>2 DEF Promise!Init
<1>3. Counted /\ PlainInv /\ OneLifeInv /\ [Next]_vars => (Counted /\ PlainInv /\ OneLifeInv)'
      BY CountedNext, PlainNext, OneLifeNext
<1>4. Counted /\ PlainInv /\ OneLifeInv => Viewed
      BY IsViewed
<1>5. PlainInv /\ OneLifeInv /\ Viewed /\ Viewed' /\ [Next]_vars => [Promise!Next]_View
      BY PromisedNext
<1> QED  BY <1>1, <1>2, <1>3, <1>4, <1>5, PTL DEF Spec, ImplementsEntryLog, Promise!Spec

-----------------------------------------------------------------------------
(* After the process has stopped, or died inside write, and was started      *)
(* again.                                                                    *)

Stops == use \in {{"restart"}, {"crash"}}

\* Before that, or if there was nothing to load.
NothingLoaded == restarts = 0 \/ (restarts = 1 /\ loaded = 0 /\ use = {"restart"})

Fresh ==
    /\ Sliced
    /\ owed = 0 /\ cut = {} /\ loaded = 0 /\ First = 1
    /\ acked = <<>> => current = Closed

FreshInv == Stops /\ NothingLoaded => Fresh

\* How many entries must be found: all, or those written before the crash.
Safe == IF use = {"restart"} THEN Len(acked) ELSE loaded

\* The files that have them.  Besides there may be empty ones, and one that was
\* opened for an entry behind the safe ones.
Tiles == {f \in Files : f.start \in 1..Safe}

FoundTypes ==
    /\ disk \in [DOMAIN disk -> FilesType] /\ DOMAIN disk \subseteq Nat
    /\ owed = 0 /\ last \in Nat /\ acked \in Seq(EntryType) /\ Len(acked) <= writes
    /\ loaded \in 1..Len(acked) /\ Safe <= last
    /\ IsFiniteSet(segments)
    /\ \A f \in Files : Sound(f) /\ IsOpen(f)

\* Files are not confused with one another, nor with the one opened next.
Told ==
    /\ \A n \in DOMAIN disk : n <= last + 1
    /\ current \notin segments
    /\ \A f, g \in Files : f.name = g.name => f = g
    /\ \A f, g \in Files : f.start = g.start => f = g \/ f.start = 0
    /\ Apart(segments)
    /\ \A f \in Files : f.start <= last /\ (f.start = 0 => f.last = 0)

\* The first record of a file is the entry it is named after, the others
\* follow.  There may be a record too many behind the safe ones; the offsets in
\* the index may be wrong, but that of the first record is not looked up.
Tile(f) ==
    /\ f.name = f.start /\ f.start <= f.last /\ Len(Data(f)) > 0
    /\ \A q \in 1..Len(Data(f)) :
          f.name - 1 + q <= Safe => Data(f)[q] = acked[f.name - 1 + q]
    /\ End(f) <= Safe => f # current /\ f.last = End(f) - 1

Covered ==
    /\ \A f \in Tiles : Tile(f)
    /\ \A f, g \in Tiles : f.start < g.start => End(f) <= g.start
    /\ \A k \in 1..Safe : \E f \in Tiles : f.start <= k /\ k < End(f)

\* Unless the process has died there is nothing else on disk.
Clean ==
    use = {"restart"} =>
        /\ last = Len(acked) /\ \A k \in DOMAIN acked : acked[k].index = k
        /\ \A f \in Tiles : f.last = End(f) - 1 /\ End(f) <= last + 1
        /\ End(current) = last + 1
        /\ current.start = 0 => Data(current) = <<>>

Found == FoundTypes /\ Told /\ Covered /\ Clean
FoundInv == Stops /\ restarts = 1 /\ loaded # 0 => Found

LEMMA FoundFacts ==
    ASSUME Found
    PROVE  /\ Safe \in Nat \ {0} /\ loaded <= Safe /\ Safe <= Len(acked) /\ Safe <= last
           /\ loaded \in Nat \ {0} /\ Len(acked) \in Nat /\ last \in Nat
           /\ \A f \in Files :
                 /\ f \in FileType /\ IsOpen(f) /\ f.name \in Nat \ {0} /\ f.name \in DOMAIN disk
                 /\ f.start \in Nat /\ f.last \in Nat
                 /\ Data(f) \in Seq(EntryType) /\ Index(f) \in Seq(SlotType)
                 /\ Len(Data(f)) \in Nat /\ End(f) \in Nat /\ End(f) = f.name + Len(Data(f))
           /\ \A f \in Tiles : f \in Files /\ f.start \in 1..Safe /\ f.name = f.start
<1>1. /\ loaded \in Nat \ {0} /\ Len(acked) \in Nat /\ last \in Nat /\ loaded <= Len(acked)
      /\ Safe <= last
  <2>1. acked \in Seq(EntryType) /\ loaded \in 1..Len(acked) /\ last \in Nat /\ Safe <= last
        BY DEF Found, FoundTypes
  <2> QED  BY <2>1
<1>2. Safe \in Nat \ {0} /\ loaded <= Safe /\ Safe <= Len(acked)
      BY <1>1 DEF Safe
<1>3. ASSUME NEW f \in Files
      PROVE  /\ f \in FileType /\ IsOpen(f) /\ f.name \in Nat \ {0} /\ f.name \in DOMAIN disk
             /\ f.start \in Nat /\ f.last \in Nat
             /\ Data(f) \in Seq(EntryType) /\ Index(f) \in Seq(SlotType)
             /\ Len(Data(f)) \in Nat /\ End(f) \in Nat /\ End(f) = f.name + Len(Data(f))
  <2>1. Sound(f) /\ IsOpen(f)
        BY DEF Found, FoundTypes
  <2>2. /\ f \in FileType /\ f.name \in DOMAIN disk /\ f.name \in Nat \ {0}
        /\ f.start \in Nat /\ f.last \in Nat
        BY <2>1 DEF Sound, FileType, IsOpen
  <2>3. Data(f) \in Seq(EntryType) /\ Index(f) \in Seq(SlotType)
        BY <2>1 DEF Sound, FilesType, Data, Index
  <2>4. Len(Data(f)) \in Nat /\ End(f) \in Nat /\ End(f) = f.name + Len(Data(f))
        BY <2>2, <2>3 DEF End
  <2> QED  BY <2>1, <2>2, <2>3, <2>4
<1>4. \A f \in Tiles : f \in Files /\ f.start \in 1..Safe /\ f.name = f.start
      BY DEF Tiles, Found, Covered, Tile
<1> QED  BY <1>1, <1>2, <1>3, <1>4

\* Reading a file keeps what has been read.
LEMMA ReadAdds ==
    ASSUME NEW f, Sound(f), NEW r \in ReadType
    PROVE  /\ ReadFile(f, r) \in ReadType
           /\ Len(r.entries) <= Len(ReadFile(f, r).entries)
           /\ \A k \in 1..Len(r.entries) : ReadFile(f, r).entries[k] = r.entries[k]
<1>0. r.entries \in Seq(EntryType) /\ r.next \in Nat /\ r.left \in Nat /\ r.threw \in BOOLEAN
      BY DEF ReadType
<1>1. CASE r.threw \/ r.left = 0 \/ ~Holds(f, r.next)
  <2>1. ReadFile(f, r) = r
        BY <1>1, ReadPasses
  <2> QED  BY <2>1, <1>0
<1>2. CASE ~(r.threw \/ r.left = 0 \/ ~Holds(f, r.next)) /\ Lookup(f, r.next) = -1
  <2>1. ReadFile(f, r) = [r EXCEPT !.threw = TRUE]
        BY <1>2, ReadThrows
  <2>2. ReadFile(f, r) \in ReadType /\ ReadFile(f, r).entries = r.entries
        BY <2>1 DEF ReadType
  <2> QED  BY <2>2, <1>0
<1>3. CASE ~(r.threw \/ r.left = 0 \/ ~Holds(f, r.next)) /\ Lookup(f, r.next) # -1
  <2>1. PICK o \in Nat : o = Lookup(f, r.next)
    <3>1. PICK k : k = r.next - f.start + 1
          OBVIOUS
    <3>2. PICK x \in Seq(SlotType) : x = disk[f.name].index
          BY DEF Sound, FilesType
    <3>3. CASE k = 1
          BY <3>1, <3>3 DEF Lookup
    <3>4. CASE k # 1
      <4>1. k \in 1..Len(x) /\ Lookup(f, r.next) = x[k].pos
            BY <1>3, <3>1, <3>2, <3>4 DEF Lookup
      <4>2. x[k] \in SlotType
            BY <3>2, <4>1
      <4>3. x[k].pos \in Nat
            BY <4>2 DEF SlotType
      <4> QED  BY <4>1, <4>3
    <3> QED  BY <3>3, <3>4
  <2>2. PICK data \in Seq(EntryType) : data = Data(f)
        BY DEF Sound, FilesType, Data
  <2>3. PICK m \in Nat, w \in Nat, l \in Nat :
           /\ m = (IF Len(data) <= o + w THEN Len(data) ELSE o + w)
           /\ w = r.left /\ l = Len(data) /\ m <= l /\ m <= o + w
        BY <1>0, <2>1, <2>2
  <2>4. PICK got : got = SubSeq(data, o + 1, m)
        OBVIOUS
  <2>5. got \in Seq(EntryType) /\ Len(got) \in Nat /\ Len(got) <= w
    <3>1. CASE o + 1 <= m
      <4>1. PICK p \in Nat \ {0} : p = o + 1 /\ p <= m
            BY <3>1
      <4>2. got \in Seq(EntryType) /\ Len(got) = m - p + 1
            BY <4>1, <2>2, <2>3, <2>4, PartTaken
      <4> QED  BY <4>1, <4>2, <2>3
    <3>2. CASE ~(o + 1 <= m)
      <4>1. got = <<>>
            BY <3>2, <2>4, SubSeqEmpty
      <4> QED  BY <4>1
    <3> QED  BY <3>1, <3>2
  <2>6. ReadFile(f, r) = [next |-> r.next + Len(got), left |-> r.left - Len(got),
                          entries |-> r.entries \o got, threw |-> FALSE]
    <3>1. ~r.threw /\ r.left # 0 /\ Holds(f, r.next) /\ Lookup(f, r.next) = o
          BY <1>3, <2>1
    <3>2. LET end == IF Len(Data(f)) <= o + r.left THEN Len(Data(f)) ELSE o + r.left
              g == SubSeq(Data(f), o + 1, end)
          IN  ReadFile(f, r) = [next |-> r.next + Len(g), left |-> r.left - Len(g),
                                entries |-> r.entries \o g, threw |-> FALSE]
          BY <3>1, ReadGets
    <3>3. (IF Len(Data(f)) <= o + r.left THEN Len(Data(f)) ELSE o + r.left) = m
          BY <2>2, <2>3, Zenon
    <3> QED  BY <3>2, <3>3, <2>2, <2>4, Zenon
  <2>7. r.next + Len(got) \in Nat /\ r.left - Len(got) \in Nat
        BY <1>0, <2>3, <2>5
  <2>8. /\ r.entries \o got \in Seq(EntryType)
        /\ Len(r.entries) <= Len(r.entries \o got)
        /\ \A k \in 1..Len(r.entries) : (r.entries \o got)[k] = r.entries[k]
        BY <1>0, <2>5
  <2>9. ReadFile(f, r).entries = r.entries \o got
        BY <2>6
  <2>10. ReadFile(f, r) \in ReadType
        BY <2>6, <2>7, <2>8 DEF ReadType
  <2> QED  BY <2>8, <2>9, <2>10
<1> QED  BY <1>1, <1>2, <1>3

\* The tile that holds the first entry begins with it; behind a tile that ends
\* within the safe entries there is another.
LEMMA NextTile ==
    ASSUME Found
    PROVE  /\ \E h \in Tiles : h.start = 1
           /\ \A h \in Tiles : End(h) <= Safe => \E g \in Tiles : g.start = End(h)
<1>1. \A k \in 1..Safe : \E f \in Tiles : f.start <= k /\ k < End(f)
      BY DEF Found, Covered
<1>2. \A f \in Tiles : f \in Files /\ f.start \in 1..Safe /\ End(f) \in Nat /\ f.start \in Nat
      BY FoundFacts
<1>3. Safe \in Nat \ {0}
      BY FoundFacts
<1>4. \E h \in Tiles : h.start = 1
  <2>1. 1 \in 1..Safe
        BY <1>3
  <2>2. PICK h \in Tiles : h.start <= 1
        BY <2>1, <1>1
  <2>3. h.start = 1
        BY <2>2, <1>2
  <2> QED  BY <2>3
<1>5. ASSUME NEW h \in Tiles, End(h) <= Safe PROVE \E g \in Tiles : g.start = End(h)
  <2>1. PICK k \in Nat, a \in Nat : k = End(h) /\ a = h.start /\ 1 <= a /\ a < k /\ k <= Safe
    <3>1. h.start = h.name /\ End(h) = h.name + Len(Data(h)) /\ Len(Data(h)) \in Nat
          /\ h.start \in Nat \ {0} /\ End(h) \in Nat
          BY FoundFacts
    <3>2. Len(Data(h)) > 0
          BY DEF Found, Covered, Tile
    <3> QED  BY <3>1, <3>2, <1>5
  <2>2. k \in 1..Safe
        BY <2>1, <1>3
  <2>3. PICK g \in Tiles : g.start <= k /\ k < End(g)
        BY <2>2, <1>1
  <2>4. PICK b \in Nat, e \in Nat : b = g.start /\ e = End(g) /\ b <= k /\ k < e /\ b # 0
        BY <2>3, <1>2
  <2>5. a < b => k <= b
        BY <2>1, <2>4 DEF Found, Covered
  <2>6. b < a => e <= a
        BY <2>1, <2>4 DEF Found, Covered
  <2>7. a = b => FALSE
    <3>1. a = b => g = h
          BY <2>1, <2>4, <1>2 DEF Found, Told
    <3> QED  BY <3>1, <2>1, <2>4
  <2>8. b = k
        BY <2>1, <2>4, <2>5, <2>6, <2>7
  <2> QED  BY <2>1, <2>4, <2>8
<1> QED  BY <1>4, <1>5

\* No other file is taken for a tile.
LEMMA OtherFile ==
    ASSUME Found, NEW h \in Tiles, NEW f \in Files, f # h
    PROVE  /\ ~Holds(f, h.start)
           /\ f.start # h.start
           /\ f \in Tiles /\ f.start < h.start => End(f) <= h.start
<1>1. PICK j \in Nat : j = h.start /\ 1 <= j /\ j <= Safe /\ Safe \in Nat /\ h \in Files
  <2>1. h.start \in 1..Safe /\ Safe \in Nat \ {0} /\ h \in Files
        BY FoundFacts
  <2> QED  BY <2>1
<1>2. PICK s \in Nat, l \in Nat : s = f.start /\ l = f.last
      BY FoundFacts
<1>3. s # j
      BY <1>1, <1>2 DEF Found, Told
<1>4. f \in Tiles /\ s < j => End(f) <= j
      BY <1>1, <1>2 DEF Found, Covered
<1>5. ~(s <= j /\ j <= l)
  <2> SUFFICES ASSUME s <= j, j <= l PROVE FALSE
      OBVIOUS
  <2>1. s # 0
        BY <1>1, <1>2 DEF Found, Told
  <2>2. f \in Tiles
        BY <1>1, <1>2, <2>1 DEF Tiles
  <2>3. End(f) <= j /\ End(f) \in Nat
        BY <1>3, <1>4, <2>2, FoundFacts
  <2>4. l = End(f) - 1
        BY <2>2, <2>3, <1>1, <1>2 DEF Found, Covered, Tile
  <2> QED  BY <2>3, <2>4
<1> QED  BY <1>1, <1>2, <1>3, <1>4, <1>5 DEF Holds

\* What has been read: all safe entries, or those before a tile that is yet to
\* come among the files behind the first q.
AllSafe(r) == Safe <= Len(r.entries) /\ \A k \in 1..Safe : r.entries[k] = acked[k]

UpTo(r, j) ==
    /\ r.next = j /\ r.left = writes + 2 - j /\ r.threw = FALSE
    /\ Len(r.entries) = j - 1 /\ \A k \in 1..j - 1 : r.entries[k] = acked[k]

Coming(j, q) ==
    /\ \E h \in Tiles : h.start = j
    /\ \A p \in 1..q : FilesInOrder[p] \in Tiles => End(FilesInOrder[p]) <= j

ReadSafe(r, q) ==
    /\ r \in ReadType
    /\ AllSafe(r) \/ \E j \in 1..Safe : UpTo(r, j) /\ Coming(j, q)

\* A tile is read from its first record.
LEMMA TileRead ==
    ASSUME Found, writes \in Nat, NEW h \in Tiles, NEW j \in 1..Safe, h.start = j,
           NEW r \in ReadType, UpTo(r, j)
    PROVE  AllSafe(ReadFile(h, r)) \/ (End(h) <= Safe /\ UpTo(ReadFile(h, r), End(h)))
<1>1. PICK S \in Nat \ {0}, e \in Nat, l \in Nat \ {0} :
         /\ S = Safe /\ e = End(h) /\ l = Len(Data(h)) /\ e = j + l /\ j \in Nat \ {0} /\ j <= S
         /\ S <= writes
  <2>1. /\ Safe \in Nat \ {0} /\ End(h) \in Nat /\ Len(Data(h)) \in Nat
        /\ End(h) = h.name + Len(Data(h)) /\ h.name = h.start
        /\ Safe <= Len(acked) /\ Len(acked) \in Nat
        BY FoundFacts
  <2>2. Len(Data(h)) > 0 /\ Len(acked) <= writes
        BY DEF Found, FoundTypes, Covered, Tile
  <2>3. PICK S \in Nat \ {0}, e \in Nat, l \in Nat, L \in Nat, n \in Nat, v \in Nat :
           /\ S = Safe /\ e = End(h) /\ l = Len(Data(h)) /\ L = Len(acked) /\ n = h.name /\ v = writes
        BY <2>1, FoundFacts
  <2>4. e = n + l /\ n = j /\ S <= L /\ L <= v /\ l > 0
        BY <2>1, <2>2, <2>3
  <2>5. j \in Nat \ {0} /\ j <= S
        BY <2>3
  <2>6. S <= v /\ e = j + l /\ l \in Nat \ {0}
        BY <2>3, <2>4, <2>5
  <2> QED  BY <2>3, <2>5, <2>6
<1>2. PICK x \in Seq(EntryType) : x = Data(h)
      BY FoundFacts
<1>3. PICK w \in Nat \ {0} : w = writes + 2 - j /\ r.left = w /\ j + w = writes + 2
  <2>1. r.left = writes + 2 - j
        BY DEF UpTo
  <2> QED  BY <2>1, <1>1
<1>4. PICK m \in Nat \ {0} : m = (IF l <= w THEN l ELSE w) /\ m <= l /\ m <= w
      BY <1>1, <1>3
<1>5. PICK got : got = SubSeq(x, 1, m)
      OBVIOUS
<1>6. PICK n \in Nat \ {0} : n = 1
      OBVIOUS
<1>7. /\ got \in Seq(EntryType) /\ Len(got) = m
      /\ \A k \in 1..m : got[k] = x[k]
  <2>1. n <= m + 1 /\ m <= Len(x) /\ got = SubSeq(x, n, m)
        BY <1>1, <1>2, <1>4, <1>5, <1>6
  <2>2. /\ got \in Seq(EntryType) /\ Len(got) = m - n + 1
        /\ \A k \in 1..m - n + 1 : got[k] = x[n + k - 1]
        BY <2>1, PartTaken
  <2>3. m - n + 1 = m /\ \A k \in 1..m : n + k - 1 = k
        BY <1>6
  <2> QED  BY <2>2, <2>3
<1>8. ReadFile(h, r) = [next |-> r.next + Len(got), left |-> r.left - Len(got),
                        entries |-> r.entries \o got, threw |-> FALSE]
  <2>1. Sound(h) /\ IsOpen(h) /\ h.start <= h.last /\ h \in Files
        BY FoundFacts DEF Found, FoundTypes, Covered, Tile
  <2>2. ~r.threw /\ r.left # 0 /\ r.next = j
        BY <1>3 DEF UpTo
  <2>3. Holds(h, r.next)
        BY <2>1, <2>2, <1>1 DEF Holds
  <2>4. PICK o \in Nat : o = 0
        OBVIOUS
  <2>5. Lookup(h, r.next) = o
    <3>1. r.next - h.start = 0
          BY <2>2, <1>1
    <3>2. (r.next - h.start) + 1 = 1
          BY <3>1
    <3> QED  BY <3>1, <3>2, <2>4 DEF Lookup
  <2>6. LET end == IF Len(Data(h)) <= o + r.left THEN Len(Data(h)) ELSE o + r.left
            g == SubSeq(Data(h), o + 1, end)
        IN  ReadFile(h, r) = [next |-> r.next + Len(g), left |-> r.left - Len(g),
                              entries |-> r.entries \o g, threw |-> FALSE]
        BY <2>1, <2>2, <2>3, <2>5, ReadGets
  <2>7. (IF Len(Data(h)) <= o + r.left THEN Len(Data(h)) ELSE o + r.left) = m /\ o + 1 = 1
        BY <2>4, <1>1, <1>3, <1>4
  <2> QED  BY <2>6, <2>7, <1>2, <1>5, Zenon
<1>9. PICK s \in Seq(EntryType) : s = r.entries /\ Len(s) = j - 1 /\ \A k \in 1..j - 1 : s[k] = acked[k]
      BY DEF UpTo, ReadType
<1>10. PICK z : z = s \o got
       OBVIOUS
<1>11. /\ Len(z) = (j - 1) + m /\ ReadFile(h, r).entries = z
       /\ \A k \in 1..Len(s) : z[k] = s[k]
       /\ \A k \in 1..m : z[(j - 1) + k] = got[k]
  <2>1. ReadFile(h, r).entries = z
        BY <1>8, <1>9, <1>10
  <2>2. /\ Len(z) = Len(s) + Len(got)
        /\ \A k \in 1..Len(s) : z[k] = s[k]
        /\ \A k \in 1..Len(got) : z[Len(s) + k] = got[k]
    <3>1. PICK a \in Nat, b \in Nat : a = Len(s) /\ b = Len(got)
          BY <1>7
    <3>2. /\ Len(z) = a + b
          /\ \A i \in 1..a + b : z[i] = IF i <= a THEN s[i] ELSE got[i - a]
          BY <3>1, <1>7, <1>10, ConcatProperties
    <3>3. \A k \in 1..a : k \in 1..a + b /\ k <= a
          OBVIOUS
    <3>4. \A k \in 1..b : a + k \in 1..a + b /\ ~(a + k <= a) /\ (a + k) - a = k
          OBVIOUS
    <3>5. \A k \in 1..a : z[k] = s[k]
          BY <3>2, <3>3
    <3>6. \A k \in 1..b : z[a + k] = got[k]
          BY <3>2, <3>4
    <3> QED  BY <3>1, <3>2, <3>5, <3>6
  <2> QED  BY <2>1, <2>2, <1>7, <1>9
<1>12. ASSUME NEW k \in Nat \ {0}, k <= (j - 1) + m, k <= S PROVE z[k] = acked[k]
  <2>1. CASE k <= j - 1
    <3>1. k \in 1..j - 1 /\ k \in 1..Len(s)
          BY <2>1, <1>1, <1>9
    <3> QED  BY <3>1, <1>9, <1>11
  <2>2. CASE ~(k <= j - 1)
    <3>1. PICK q \in Nat \ {0} : q = k - (j - 1) /\ q <= m /\ (j - 1) + q = k /\ q <= l
          BY <2>2, <1>1, <1>4, <1>12
    <3>2. z[k] = got[q]
      <4>1. q \in 1..m /\ (j - 1) + q = k
            BY <3>1
      <4> QED  BY <4>1, <1>11
    <3>3. got[q] = x[q]
          BY <3>1, <1>7
    <3>4. h.name = j /\ h.name - 1 + q = k
          BY <3>1, <1>1, FoundFacts
    <3>5. q \in 1..Len(Data(h)) /\ h.name - 1 + q <= Safe
          BY <3>1, <3>4, <1>1, <1>12
    <3>6. Data(h)[q] = acked[h.name - 1 + q]
          BY <3>5 DEF Found, Covered, Tile
    <3> QED  BY <3>2, <3>3, <3>4, <3>6, <1>2
  <2> QED  BY <2>1, <2>2
<1>13. CASE S <= (j - 1) + m
  <2>1. \A k \in 1..S : k \in Nat \ {0} /\ k <= (j - 1) + m /\ k <= S
        BY <1>13, <1>1, <1>4
  <2>2. \A k \in 1..S : z[k] = acked[k]
        BY <2>1, <1>12
  <2> QED  BY <2>2, <1>1, <1>11, <1>13 DEF AllSafe
<1>14. CASE ~(S <= (j - 1) + m)
  <2>1. m = l /\ e <= S /\ (j - 1) + m = e - 1
        BY <1>14, <1>1, <1>3, <1>4
  <2>2. j + m = e /\ w - m = writes + 2 - e
        BY <2>1, <1>1, <1>3, <1>4
  <2>3. ReadFile(h, r).next = e /\ ReadFile(h, r).left = writes + 2 - e
        /\ ReadFile(h, r).threw = FALSE
        BY <1>3, <1>7, <1>8, <2>2 DEF UpTo
  <2>4. \A k \in 1..e - 1 : k \in Nat \ {0} /\ k <= (j - 1) + m /\ k <= S
        BY <2>1, <1>1
  <2>5. \A k \in 1..e - 1 : z[k] = acked[k]
        BY <2>4, <1>12
  <2> QED  BY <2>1, <2>3, <2>5, <1>1, <1>11 DEF UpTo
<1> QED  BY <1>13, <1>14

\* One turn of the loop.
LEMMA TurnSafe ==
    ASSUME Found, writes \in Nat, NEW q \in Nat, q < Len(FilesInOrder), NEW r, ReadSafe(r, q)
    PROVE  ReadSafe(ReadFile(FilesInOrder[q + 1], r), q + 1)
<1>1. IsFiniteSet(segments) /\ Apart(segments) /\ \A f \in segments : f.start \in Nat
      BY FoundFacts DEF Found, FoundTypes, Told, Files
<1>2. PICK m \in Nat :
         /\ Len(FilesInOrder) = m + 1 /\ FilesInOrder[m + 1] = current
         /\ \A k \in 1..m : FilesInOrder[k] \in segments
         /\ \A f \in segments : \E k \in 1..m : FilesInOrder[k] = f
         /\ \A j, k \in 1..m : j < k => FilesInOrder[j].start < FilesInOrder[k].start
      BY <1>1, FilesLine
<1>3. PICK f : f = FilesInOrder[q + 1]
      OBVIOUS
<1>4. f \in Files
  <2>1. q = m \/ q + 1 \in 1..m
        BY <1>2
  <2> QED  BY <2>1, <1>2, <1>3 DEF Files
<1>5. Sound(f)
      BY <1>4 DEF Found, FoundTypes
<1>6. r \in ReadType /\ ReadFile(f, r) \in ReadType
      BY <1>5, ReadAdds DEF ReadSafe
<1>7. CASE AllSafe(r)
  <2>1. AllSafe(ReadFile(f, r))
    <3>1. PICK S \in Nat, a \in Nat, b \in Nat :
             S = Safe /\ a = Len(r.entries) /\ b = Len(ReadFile(f, r).entries)
          BY <1>6, FoundFacts DEF ReadType
    <3>2. a <= b /\ S <= a /\ \A k \in 1..a : ReadFile(f, r).entries[k] = r.entries[k]
          BY <3>1, <1>5, <1>6, <1>7, ReadAdds DEF AllSafe
    <3>3. \A k \in 1..S : k \in 1..a
          BY <3>1, <3>2
    <3>4. \A k \in 1..S : ReadFile(f, r).entries[k] = acked[k]
          BY <3>1, <3>2, <3>3, <1>7 DEF AllSafe
    <3> QED  BY <3>1, <3>2, <3>4 DEF AllSafe
  <2> QED  BY <2>1, <1>3, <1>6 DEF ReadSafe
<1>8. CASE ~AllSafe(r)
  <2>1. PICK j \in 1..Safe : UpTo(r, j) /\ Coming(j, q)
        BY <1>8 DEF ReadSafe
  <2>2. PICK h \in Tiles : h.start = j
        BY <2>1 DEF Coming
  <2>3. j \in Nat \ {0} /\ j <= Safe /\ Safe \in Nat /\ h \in Files
        BY FoundFacts, <2>2
  <2>4. \A p \in 1..q : FilesInOrder[p] \in Tiles => End(FilesInOrder[p]) <= j
        BY <2>1 DEF Coming
  <2>5. CASE f = h
    <3>1. AllSafe(ReadFile(f, r)) \/ (End(h) <= Safe /\ UpTo(ReadFile(f, r), End(h)))
          BY <2>1, <2>2, <2>5, <1>6, TileRead
    <3>2. CASE AllSafe(ReadFile(f, r))
          BY <3>2, <1>3, <1>6 DEF ReadSafe
    <3>3. CASE End(h) <= Safe /\ UpTo(ReadFile(f, r), End(h))
      <4>1. PICK e \in Nat : e = End(h) /\ j < e /\ e <= Safe
        <5>1. PICK e \in Nat, n \in Nat, l \in Nat : e = End(h) /\ n = h.name /\ l = Len(Data(h))
              BY <2>3, FoundFacts
        <5>2. e = n + l /\ n = j /\ l > 0
              BY <5>1, <2>2, <2>3, FoundFacts DEF Found, Covered, Tile
        <5>3. j < e
              BY <5>1, <5>2, <2>3
        <5> QED  BY <5>1, <5>3, <3>3
      <4>2. \E g \in Tiles : g.start = e
            BY <4>1, NextTile
      <4>3. ASSUME NEW p \in 1..q + 1, FilesInOrder[p] \in Tiles PROVE End(FilesInOrder[p]) <= e
        <5>1. CASE p = q + 1
              BY <5>1, <4>1, <2>5, <1>3
        <5>2. CASE p # q + 1
          <6>1. p \in 1..q
                BY <5>2
          <6>2. End(FilesInOrder[p]) <= j /\ End(FilesInOrder[p]) \in Nat
                BY <6>1, <4>3, <2>4, FoundFacts
          <6> QED  BY <6>2, <4>1, <2>3
        <5> QED  BY <5>1, <5>2
      <4>4. Coming(e, q + 1) /\ e \in 1..Safe /\ UpTo(ReadFile(f, r), e)
        <5>1. e \in 1..Safe
              BY <4>1, <2>3
        <5> QED  BY <5>1, <4>1, <4>2, <4>3, <3>3 DEF Coming
      <4> QED  BY <4>4, <1>3, <1>6 DEF ReadSafe
    <3> QED  BY <3>1, <3>2, <3>3
  <2>6. CASE f # h
    <3>1. ReadFile(f, r) = r
      <4>1. ~Holds(f, r.next)
            BY <2>1, <2>2, <2>6, <1>4, OtherFile DEF UpTo
      <4> QED  BY <4>1, ReadPasses
    <3>2. f \in Tiles => f.start < j
      <4> SUFFICES ASSUME f \in Tiles, ~(f.start < j) PROVE FALSE
          OBVIOUS
      <4>1. PICK s \in Nat : s = f.start /\ j < s
        <5>1. f.start \in Nat /\ f.start # j
              BY <2>2, <2>6, <1>4, OtherFile, FoundFacts
        <5> QED  BY <5>1, <2>3
      <4>2. End(h) <= s /\ s <= Safe /\ End(h) \in Nat
        <5>1. f.start \in 1..Safe /\ End(h) \in Nat
              BY <2>3, FoundFacts
        <5>2. h.start < f.start
              BY <4>1, <2>2
        <5>3. End(h) <= f.start
              BY <5>2 DEF Found, Covered
        <5> QED  BY <5>1, <5>3, <4>1
      <4>3. h # current
            BY <4>1, <4>2, <2>3 DEF Found, Covered, Tile
      <4>4. h \in segments
            BY <4>3, <2>3 DEF Files
      <4>5. PICK p \in 1..m : FilesInOrder[p] = h
            BY <4>4, <1>2
      <4>6. p \in 1..q
        <5>1. CASE q = m
              BY <5>1
        <5>2. CASE q # m
          <6>1. q + 1 \in 1..m /\ q + 1 # p
                BY <5>2, <1>2, <1>3, <2>6, <4>5
          <6>2. ~(q + 1 < p)
            <7> SUFFICES ASSUME q + 1 < p PROVE FALSE
                OBVIOUS
            <7>1. f.start < h.start
                  BY <6>1, <4>5, <1>2, <1>3
            <7> QED  BY <7>1, <4>1, <2>2, <2>3
          <6> QED  BY <6>1, <6>2
        <5> QED  BY <5>1, <5>2
      <4>7. End(h) <= j
            BY <4>5, <4>6, <2>4
      <4>8. PICK e \in Nat, n \in Nat, l \in Nat : e = End(h) /\ n = h.name /\ l = Len(Data(h))
            BY <2>3, FoundFacts
      <4>9. e = n + l /\ n = j /\ l > 0
            BY <4>8, <2>2, <2>3, FoundFacts DEF Found, Covered, Tile
      <4> QED  BY <4>7, <4>8, <4>9, <2>3
    <3>3. f \in Tiles => End(f) <= j
          BY <3>2, <2>2, <2>6, <1>4, OtherFile
    <3>4. ASSUME NEW p \in 1..q + 1, FilesInOrder[p] \in Tiles PROVE End(FilesInOrder[p]) <= j
      <4>1. p = q + 1 \/ p \in 1..q
            OBVIOUS
      <4> QED  BY <4>1, <3>3, <3>4, <2>4, <1>3
    <3>5. Coming(j, q + 1)
          BY <3>4, <2>2 DEF Coming
    <3> QED  BY <3>1, <3>5, <2>1, <1>3, <1>6 DEF ReadSafe
  <2> QED  BY <2>5, <2>6
<1> QED  BY <1>7, <1>8

\* All entries are read, the safe ones first.
LEMMA SafeAreRead ==
    ASSUME Found, writes \in Nat
    PROVE  \A k \in 1..Safe : acked[k] \in ToSet(Entries)
<1>1. 1 \in Starts /\ \A s \in Starts : s \in Nat /\ 1 <= s
  <2>1. \A s \in Starts : s \in Nat /\ 1 <= s
        BY FoundFacts DEF Starts
  <2>2. PICK h \in Tiles : h.start = 1
        BY NextTile
  <2> QED  BY <2>1, <2>2 DEF Starts, Tiles
<1>2. Min(Starts) = 1
  <2>1. \A x \in Starts : (\A s \in Starts : x <= s) => x = 1
        BY <1>1
  <2> QED  BY <2>1, <1>1 DEF Min
<1>3. Entries = GetEntries(1, writes + 1).entries
      BY <1>1, <1>2, Zenon DEF Entries
<1>4. IsFiniteSet(segments) /\ Apart(segments) /\ \A f \in segments : f.start \in Nat
      BY FoundFacts DEF Found, FoundTypes, Told, Files
<1>5. PICK m \in Nat :
         /\ Len(FilesInOrder) = m + 1 /\ FilesInOrder[m + 1] = current
         /\ \A f \in segments : \E k \in 1..m : FilesInOrder[k] = f
      BY <1>4, FilesLine
<1>6. PICK n \in Nat : n = m + 1 /\ Len(FilesInOrder) = n
      BY <1>5
<1>7. PICK a :
         /\ a[0] = ReadFrom(1, writes + 1)
         /\ \A k \in 1..n : a[k] = ReadFile(FilesInOrder[k], a[k - 1])
         /\ GetEntries(1, writes + 1) = a[n]
      BY <1>6, EntriesByFile
<1>8. ReadSafe(a[0], 0)
  <2>1. a[0] = [next |-> 1, left |-> writes + 1, entries |-> <<>>, threw |-> FALSE]
        BY <1>7 DEF ReadFrom
  <2>2. a[0] \in ReadType
        BY <2>1 DEF ReadType
  <2>3. UpTo(a[0], 1)
    <3>1. writes + 2 - 1 = writes + 1 /\ 1 - 1 = 0 /\ Len(<<>>) = 0
          OBVIOUS
    <3>2. \A k \in 1..0 : FALSE
          OBVIOUS
    <3> QED  BY <3>1, <3>2, <2>1 DEF UpTo
  <2>4. Coming(1, 0) /\ 1 \in 1..Safe
    <3>1. \A k \in 1..0 : FALSE
          OBVIOUS
    <3> QED  BY <3>1, NextTile, FoundFacts DEF Coming
  <2> QED  BY <2>2, <2>3, <2>4 DEF ReadSafe
<1> DEFINE K == {q \in Nat : q <= n => ReadSafe(a[q], q)}
<1>9. K = Nat
  <2>1. 0 \in K
        BY <1>8
  <2>2. ASSUME NEW q \in K PROVE q + 1 \in K
    <3> SUFFICES ASSUME q + 1 <= n PROVE ReadSafe(a[q + 1], q + 1)
        OBVIOUS
    <3>1. q \in Nat /\ q < Len(FilesInOrder) /\ q + 1 \in 1..n /\ (q + 1) - 1 = q
          BY <1>6
    <3>2. ReadSafe(a[q], q)
          BY <3>1, <1>6
    <3>3. a[q + 1] = ReadFile(FilesInOrder[q + 1], a[q])
          BY <3>1, <1>7
    <3> QED  BY <3>1, <3>2, <3>3, TurnSafe
  <2>3. K \in SUBSET Nat /\ \A q \in K : q + 1 \in K
        BY <2>2
  <2> HIDE DEF K
  <2> QED  BY <2>1, <2>3, SetInduction
<1>10. ReadSafe(a[n], n)
  <2>1. n \in K
        BY <1>9
  <2> QED  BY <2>1, <1>6
<1>11. AllSafe(a[n])
  <2> SUFFICES ASSUME ~AllSafe(a[n]) PROVE FALSE
      OBVIOUS
  <2>1. PICK j \in 1..Safe : Coming(j, n)
        BY <1>10 DEF ReadSafe
  <2>2. PICK h \in Tiles : h.start = j
        BY <2>1 DEF Coming
  <2>3. PICK p \in 1..n : FilesInOrder[p] = h
    <3>1. h \in segments \/ h = current
          BY FoundFacts DEF Files
    <3>2. n \in 1..n /\ \A p \in 1..m : p \in 1..n
          BY <1>6
    <3> QED  BY <3>1, <3>2, <1>5, <1>6
  <2>4. End(h) <= j
        BY <2>1, <2>3 DEF Coming
  <2>5. PICK e \in Nat, v \in Nat, l \in Nat : e = End(h) /\ v = h.name /\ l = Len(Data(h))
        BY <2>2, FoundFacts
  <2>6. e = v + l /\ v = j /\ l > 0
        BY <2>2, <2>5, FoundFacts DEF Found, Covered, Tile
  <2> QED  BY <2>4, <2>5, <2>6, FoundFacts
<1>12. Entries \in Seq(EntryType) /\ Entries = a[n].entries
       BY <1>3, <1>7, <1>10 DEF ReadSafe, ReadType
<1>13. ASSUME NEW k \in 1..Safe PROVE acked[k] \in ToSet(Entries)
  <2>1. Entries[k] = acked[k] /\ Safe <= Len(Entries)
        BY <1>11, <1>12 DEF AllSafe
  <2>2. k \in 1..Len(Entries)
        BY <2>1, <1>12, FoundFacts
  <2>3. Entries[k] \in ToSet(Entries)
        BY <2>2, <1>12 DEF ToSet
  <2> QED  BY <2>1, <2>3
<1> QED  BY <1>13

-----------------------------------------------------------------------------
(* Writing to files that were loaded.                                       *)

\* The file f replaces current_file_ and has the entry e of index i as well; if
\* it has become too large, it is closed, and a new one is opened behind it.
NewFile(i) == [name |-> i, start |-> 0, last |-> 0, at |-> 0]

Wrote(f, i, e) ==
    /\ f \in FileType /\ f.name = current.name /\ f.last = i
    /\ f.start = IF current.start = 0 THEN i ELSE current.start
    /\ disk' \in [DOMAIN disk' -> FilesType]
    /\ f.name \in DOMAIN disk /\ disk'[f.name].data = Append(Data(current), e)
    /\ \A n \in DOMAIN disk : n \in DOMAIN disk' /\ (n # f.name => disk'[n] = disk[n])
    /\ \/ segments' = segments /\ current' = f /\ DOMAIN disk' = DOMAIN disk
       \/ /\ segments' = segments \union {f} /\ current' = NewFile(i + 1)
          /\ DOMAIN disk' = DOMAIN disk \union {i + 1} /\ disk'[i + 1] = NoFiles

LEMMA FoundWrites ==
    ASSUME Found, Counted, WriteEntry
    PROVE  /\ last + 1 \in Nat \ {0} /\ last' = last + 1 /\ owed' = 0 /\ loaded' = loaded
           /\ setting' = setting /\ restarts' = restarts /\ writes' = writes + 1
           /\ \E f, e : /\ e \in EntryType /\ e.index = last + 1 /\ acked' = Append(acked, e)
                        /\ Wrote(f, last + 1, e)
<1>1. PICK i \in Nat \ {0} : i = last + 1
      BY FoundFacts
<1>2. owed = 0 /\ writes \in Nat /\ current \in Files
      BY DEF Found, FoundTypes, Counted, Files
<1>3. PICK n \in Nat \ {0} : n = current.name /\ n \in DOMAIN disk
      BY <1>2, FoundFacts
<1>4. /\ current \in FileType /\ IsOpen(current) /\ disk[n] \in FilesType
      /\ disk \in [DOMAIN disk -> FilesType]
      BY <1>2, <1>3, FoundFacts DEF Found, FoundTypes, Sound
<1>5. PICK x \in Seq(EntryType), y \in Seq(SlotType) : disk[n] = [data |-> x, index |-> y]
      BY <1>4 DEF FilesType
<1>6. Target(i) = current /\ Created(disk, n) = disk /\ Old(i) = disk[n]
  <2>1. Target(i) = current
        BY <1>4 DEF Target
  <2>2. Created(disk, n) = disk
        BY <1>3 DEF Created
  <2> QED  BY <2>1, <2>2, <1>3 DEF Old
<1>7. PICK e \in EntryType : e = Entry(i) /\ e.index = i
  <2>1. Entry(i) \in EntryType /\ Entry(i).index = i
        BY <1>2, <1>3, <1>4, <1>6, WriteOne
  <2> QED  BY <2>1
<1>8. PICK s \in SlotType : s = NewSlot(i)
  <2>1. NewSlot(i) \in SlotType
        BY <1>2, <1>3, <1>4, <1>6, WriteOne
  <2> QED  BY <2>1
<1>9. PICK z \in Seq(SlotType) : z = NewIndex(i)
  <2>1. Old(i).index = y /\ current.at \in Nat
        BY <1>4, <1>5, <1>6 DEF FileType
  <2>2. NewIndex(i) = IF current.at < Len(y) THEN [y EXCEPT ![current.at + 1] = s] ELSE Append(y, s)
        BY <2>1, <1>6, <1>8 DEF NewIndex
  <2>3. NewIndex(i) \in Seq(SlotType)
    <3>1. CASE current.at < Len(y)
      <4>1. current.at + 1 \in 1..Len(y)
            BY <3>1, <2>1
      <4>2. [y EXCEPT ![current.at + 1] = s] \in Seq(SlotType)
            BY <4>1
      <4> QED  BY <4>2, <3>1, <2>2
    <3>2. CASE ~(current.at < Len(y))
          BY <3>2, <2>2
    <3> QED  BY <3>1, <3>2
  <2> QED  BY <2>3
<1>10. PICK new : new = [data |-> Append(x, e), index |-> z] /\ new \in FilesType
  <2>1. [data |-> Append(x, e), index |-> z] \in FilesType
        BY DEF FilesType
  <2> QED  BY <2>1, Zenon
<1>11. PICK f : f = AfterWrite(Target(i), Entry(i))
       OBVIOUS
<1>12. /\ Written(i) = [disk EXCEPT ![n] = new]
       /\ f = [name |-> n, start |-> IF current.start = 0 THEN i ELSE current.start,
               last |-> i, at |-> current.at + 1]
  <2>1. Old(i).data = x
        BY <1>5, <1>6
  <2>2. /\ Written(i) = [disk EXCEPT ![n] =
                [data |-> Append(Old(i).data, Entry(i)), index |-> NewIndex(i)]]
        /\ AfterWrite(Target(i), Entry(i)) =
                [name |-> n, start |-> IF current.start = 0 THEN i ELSE current.start,
                 last |-> i, at |-> current.at + 1]
    <3>1. /\ Old(i) \in FilesType /\ Target(i) \in FileType /\ Target(i).name = n
          /\ Target(i).name \in DOMAIN Created(disk, Target(i).name)
          BY <1>3, <1>4, <1>6
    <3> QED  BY <3>1, <1>2, <1>6, WriteOne
  <2> QED  BY <2>1, <2>2, <1>7, <1>9, <1>10, <1>11
<1>13. /\ f \in FileType /\ f.name = n /\ f.last = i
       /\ f.start = IF current.start = 0 THEN i ELSE current.start
  <2>1. current.at + 1 \in Nat /\ current.start \in Nat
        BY <1>4 DEF FileType
  <2> QED  BY <2>1, <1>12 DEF FileType
<1>14. PICK d : d = Written(i) /\ d \in [DOMAIN disk -> FilesType] /\ d[n] = new
                /\ \A m \in DOMAIN disk : m # n => d[m] = disk[m]
  <2>1. [disk EXCEPT ![n] = new] \in [DOMAIN disk -> FilesType]
        BY <1>3, <1>4, <1>10
  <2>2. [disk EXCEPT ![n] = new][n] = new
        BY <1>3, <1>4
  <2> QED  BY <2>1, <2>2, <1>4, <1>12
<1>15. /\ last' = i /\ owed' = 0 /\ acked' = Append(acked, e) /\ writes' = writes + 1
       /\ setting' = setting /\ loaded' = loaded /\ restarts' = restarts
       /\ IF Len(d[n].data) > maxSize
          THEN /\ disk' = Created(d, i + 1)
               /\ segments' = Emplaced(segments, f)
               /\ current' = Opened(disk', i + 1)
          ELSE disk' = d /\ current' = f /\ segments' = segments
  <2>1. (IF owed # 0 THEN owed ELSE last + 1) = i
        BY <1>1, <1>2
  <2> QED  BY <2>1, <1>7, <1>11, <1>13, <1>14 DEF WriteEntry, Write
<1>16. d[n].data = Append(Data(current), e)
       BY <1>3, <1>5, <1>10, <1>14 DEF Data
<1>17. CASE Len(d[n].data) > maxSize
  <2>1. i + 1 \notin DOMAIN disk /\ i + 1 # n
    <3>1. \A m \in DOMAIN disk : m <= last + 1
          BY DEF Found, Told
    <3>2. ~(i + 1 <= last + 1)
          BY <1>1, FoundFacts
    <3> QED  BY <3>1, <3>2, <1>3
  <2>2. segments' = segments \union {f}
    <3>1. ASSUME NEW g \in segments, g.start = f.start PROVE FALSE
      <4>1. g \in Files /\ g.start <= last /\ g.start \in Nat
            BY FoundFacts DEF Files, Found, Told
      <4>2. CASE current.start = 0
        <5>1. g.start = i
              BY <4>2, <3>1, <1>13
        <5> QED  BY <5>1, <4>1, <1>1, FoundFacts
      <4>3. CASE current.start # 0
        <5>1. g.start = current.start
              BY <4>3, <3>1, <1>13
        <5>2. g = current
              BY <5>1, <4>1, <4>3, <1>2 DEF Found, Told
        <5> QED  BY <5>2, <3>1 DEF Found, Told
      <4> QED  BY <4>2, <4>3
    <3> QED  BY <3>1, <1>15, <1>17 DEF Emplaced
  <2>3. /\ DOMAIN disk' = DOMAIN disk \union {i + 1}
        /\ disk' = [m \in DOMAIN disk \union {i + 1} |-> IF m = i + 1 THEN NoFiles ELSE d[m]]
    <3>1. DOMAIN d = DOMAIN disk
          BY <1>14
    <3> QED  BY <3>1, <2>1, <1>15, <1>17 DEF Created
  <2>4. /\ disk' \in [DOMAIN disk' -> FilesType] /\ disk'[i + 1] = NoFiles
        /\ \A m \in DOMAIN disk : m \in DOMAIN disk' /\ disk'[m] = d[m]
    <3>1. NoFiles \in FilesType
          BY DEF NoFiles, FilesType
    <3> QED  BY <3>1, <2>1, <2>3, <1>14
  <2>5. current' = NewFile(i + 1)
    <3>1. disk'[i + 1].index = <<>>
          BY <2>4 DEF NoFiles
    <3> QED  BY <3>1, <1>15, <1>17 DEF Opened, NewFile
  <2>6. Wrote(f, i, e)
        BY <2>1, <2>2, <2>3, <2>4, <2>5, <1>3, <1>13, <1>14, <1>16 DEF Wrote
  <2> QED  BY <2>6, <1>1, <1>7, <1>15
<1>18. CASE ~(Len(d[n].data) > maxSize)
  <2>1. disk' = d /\ current' = f /\ segments' = segments
        BY <1>15, <1>18
  <2>2. Wrote(f, i, e)
        BY <2>1, <1>3, <1>13, <1>14, <1>16 DEF Wrote
  <2> QED  BY <2>2, <1>1, <1>7, <1>15
<1> QED  BY <1>17, <1>18

\* What Wrote leaves.
LEMMA WroteFacts ==
    ASSUME Found, NEW f, NEW e \in EntryType, NEW i \in Nat \ {0}, i = last + 1, Wrote(f, i, e),
           last' = i
    PROVE  /\ \A g \in segments :
                 /\ Data(g)' = Data(g) /\ End(g)' = End(g) /\ Sound(g)'
                 /\ g.name # f.name /\ g.name # i + 1 /\ g.start # f.start
           /\ f \in FileType /\ f.name = current.name /\ f.last = i /\ IsOpen(f) /\ Sound(f)'
           /\ f.start \in Nat \ {0} /\ f.start <= i
           /\ f.start = IF current.start = 0 THEN i ELSE current.start
           /\ Data(f)' = Append(Data(current), e) /\ Len(Data(f)') = Len(Data(current)) + 1
           /\ End(f)' = End(current) + 1 /\ f.name # i + 1
           /\ f \in Files' /\ f \notin segments /\ NewFile(i + 1) \notin segments /\ NewFile(i + 1) # f
           /\ \/ segments' = segments /\ current' = f
              \/ /\ segments' = segments \union {f} /\ current' = NewFile(i + 1)
                 /\ Sound(current)' /\ Data(current)' = <<>> /\ End(current)' = i + 1
<1>1. current \in Files /\ current.name \in Nat \ {0} /\ current.name \in DOMAIN disk
  <2>1. current \in Files
        BY DEF Files
  <2> QED  BY <2>1, FoundFacts
<1>2. \A m \in DOMAIN disk : m # i + 1
  <2>1. \A m \in DOMAIN disk : m <= i
        BY DEF Found, Told
  <2> QED  BY <2>1
<1>3. f.name = current.name /\ f.name \in DOMAIN disk /\ f.name # i + 1
      BY <1>1, <1>2 DEF Wrote
<1>4. ASSUME NEW g \in segments
      PROVE  /\ Data(g)' = Data(g) /\ End(g)' = End(g) /\ Sound(g)'
             /\ g.name # f.name /\ g.name # i + 1 /\ g.start # f.start
  <2>1. g \in Files /\ g # current /\ g.name \in DOMAIN disk /\ g \in FileType
        BY FoundFacts DEF Files, Found, Told
  <2>2. g.name # f.name
        BY <2>1, <1>1, <1>3 DEF Found, Told
  <2>3. g.name \in DOMAIN disk' /\ disk'[g.name] = disk[g.name] /\ disk'[g.name] \in FilesType
        BY <2>1, <2>2 DEF Wrote
  <2>4. g.start # f.start
    <3>1. CASE current.start = 0
      <4>1. f.start = last + 1 /\ g.start <= last /\ g.start \in Nat /\ last \in Nat
            BY <3>1, <2>1, FoundFacts DEF Wrote, Found, Told
      <4> QED  BY <4>1
    <3>2. CASE current.start # 0
      <4>1. f.start = current.start
            BY <3>2 DEF Wrote
      <4> QED  BY <4>1, <3>2, <2>1, <1>1 DEF Found, Told
    <3> QED  BY <3>1, <3>2
  <2> QED  BY <2>1, <2>2, <2>3, <2>4, <1>2 DEF Data, End, Sound
<1>5. f \in FileType /\ f.last = i /\ IsOpen(f) /\ Sound(f)'
      BY <1>1, <1>3 DEF Wrote, Sound, IsOpen
<1>6. f.start = IF current.start = 0 THEN i ELSE current.start
      BY DEF Wrote
<1>7. f.start \in Nat \ {0} /\ f.start <= i
  <2>1. current.start \in Nat /\ current.start <= last /\ last \in Nat
        BY <1>1, FoundFacts DEF Found, Told
  <2> QED  BY <2>1, <1>6
<1>8. /\ Data(f)' = Append(Data(current), e) /\ Len(Data(f)') = Len(Data(current)) + 1
      /\ End(f)' = End(current) + 1
  <2>1. PICK x \in Seq(EntryType), n \in Nat, l \in Nat :
           /\ x = Data(current) /\ n = f.name /\ l = Len(x) /\ End(current) = n + l
    <3>1. /\ Data(current) \in Seq(EntryType) /\ Len(Data(current)) \in Nat
          /\ End(current) = f.name + Len(Data(current))
          BY <1>1, <1>3, FoundFacts
    <3> QED  BY <3>1, <1>1, <1>3
  <2>2. Data(f)' = Append(x, e)
        BY <2>1 DEF Wrote, Data
  <2>3. Len(Append(x, e)) = l + 1
        BY <2>1
  <2>4. End(f)' = n + (l + 1)
        BY <2>1, <2>2, <2>3 DEF End
  <2> QED  BY <2>1, <2>2, <2>3, <2>4
<1>9. f \notin segments /\ NewFile(i + 1) \notin segments /\ NewFile(i + 1) # f
  <2>1. NewFile(i + 1).name = i + 1
        BY DEF NewFile
  <2> QED  BY <2>1, <1>3, <1>4
<1>10. \/ segments' = segments /\ current' = f
       \/ /\ segments' = segments \union {f} /\ current' = NewFile(i + 1)
          /\ Sound(current)' /\ Data(current)' = <<>> /\ End(current)' = i + 1
  <2>1. CASE segments' = segments /\ current' = f
        BY <2>1
  <2>2. CASE /\ segments' = segments \union {f} /\ current' = NewFile(i + 1)
             /\ DOMAIN disk' = DOMAIN disk \union {i + 1} /\ disk'[i + 1] = NoFiles
    <3>1. current'.name = i + 1 /\ current' \in FileType
          BY <2>2 DEF NewFile, FileType
    <3>2. disk'[i + 1] \in FilesType /\ i + 1 \in DOMAIN disk' /\ disk'[i + 1].data = <<>>
          BY <2>2 DEF NoFiles, FilesType
    <3>3. Data(current)' = <<>> /\ Sound(current)'
          BY <3>1, <3>2 DEF Data, Sound
    <3>4. End(current)' = i + 1
          BY <3>1, <3>3 DEF End
    <3> QED  BY <2>2, <3>3, <3>4
  <2> QED  BY <2>1, <2>2 DEF Wrote
<1>11. f \in Files'
       BY <1>10 DEF Files
<1> QED  BY <1>3, <1>4, <1>5, <1>6, <1>7, <1>8, <1>9, <1>10, <1>11

\* Types, and files that are told from one another.
LEMMA TypesWritten ==
    ASSUME Found, NEW f, NEW e \in EntryType, NEW i \in Nat \ {0}, i = last + 1, Wrote(f, i, e),
           last' = i, acked' = Append(acked, e), owed' = 0, loaded' = loaded, writes \in Nat,
           setting' = setting, writes' = writes + 1,
           Safe' = Safe \/ Safe' = i
    PROVE  FoundTypes' /\ Told'
<1>1. PICK z : z = NewFile(i + 1) /\ z.name = i + 1 /\ z.start = 0 /\ z.last = 0
  <2>1. /\ NewFile(i + 1).name = i + 1 /\ NewFile(i + 1).start = 0
        /\ NewFile(i + 1).last = 0
        BY DEF NewFile
  <2> QED  BY <2>1
<1>2. /\ \A g \in segments :
            Sound(g)' /\ g.name # f.name /\ g.name # i + 1 /\ g.start # f.start
      /\ f \in FileType /\ f.last = i /\ IsOpen(f) /\ Sound(f)'
      /\ f.start \in Nat \ {0} /\ f.start <= i /\ f.name # i + 1
      /\ f \notin segments /\ z \notin segments /\ z # f
      /\ \/ segments' = segments /\ current' = f
         \/ segments' = segments \union {f} /\ current' = z /\ Sound(current)'
      BY <1>1, WroteFacts
<1>3. /\ \A g \in Files' : g \in segments \/ g = f \/ (g = z /\ Sound(z)')
      /\ \A g \in segments' : g \in segments \/ g = f
      /\ current' = f => segments' = segments
      BY <1>2 DEF Files
<1>4. FoundTypes'
  <2>1. disk' \in [DOMAIN disk' -> FilesType] /\ DOMAIN disk' \subseteq Nat
    <3>1. DOMAIN disk' = DOMAIN disk \/ DOMAIN disk' = DOMAIN disk \union {i + 1}
          BY DEF Wrote
    <3>2. DOMAIN disk \subseteq Nat
          BY DEF Found, FoundTypes
    <3> QED  BY <3>1, <3>2 DEF Wrote
  <2>2. acked' \in Seq(EntryType) /\ Len(acked') = Len(acked) + 1 /\ Len(acked) \in Nat
        BY DEF Found, FoundTypes
  <2>3. Len(acked') <= writes' /\ loaded' \in 1..Len(acked')
    <3>1. PICK L \in Nat : L = Len(acked) /\ Len(acked') = L + 1
          BY <2>2
    <3>2. L <= writes /\ loaded \in 1..L
          BY <3>1 DEF Found, FoundTypes
    <3> QED  BY <3>1, <3>2
  <2>4. Safe' <= last'
        BY FoundFacts
  <2>5. IsFiniteSet(segments)'
    <3>1. IsFiniteSet(segments)
          BY DEF Found, FoundTypes
    <3>2. IsFiniteSet(segments \union {f})
          BY <3>1, FS_AddElement
    <3> QED  BY <3>1, <3>2, <1>2
  <2>6. ASSUME NEW g \in Files' PROVE Sound(g)' /\ IsOpen(g)
    <3>1. CASE g \in segments
      <4>1. IsOpen(g)
            BY <3>1, FoundFacts DEF Files
      <4> QED  BY <4>1, <3>1, <1>2
    <3>2. CASE g = f
          BY <3>2, <1>2
    <3>3. CASE g = z /\ Sound(z)'
          BY <3>3, <1>1 DEF IsOpen
    <3> QED  BY <3>1, <3>2, <3>3, <1>3
  <2> QED  BY <2>1, <2>2, <2>3, <2>4, <2>5, <2>6 DEF FoundTypes
<1>5. Told'
  <2>1. ASSUME NEW m \in DOMAIN disk' PROVE m <= last' + 1
    <3>1. m \in DOMAIN disk \/ m = i + 1
          BY DEF Wrote
    <3>2. CASE m \in DOMAIN disk
      <4>1. m <= i /\ m \in Nat
            BY <3>2 DEF Found, FoundTypes, Told
      <4> QED  BY <4>1
    <3> QED  BY <3>1, <3>2
  <2>2. current' \notin segments'
        BY <1>2
  <2>3. ASSUME NEW g \in Files', NEW h \in Files'
        PROVE  /\ g.name = h.name => g = h
               /\ g.start = h.start => g = h \/ g.start = 0
    <3>1. CASE g \in segments /\ h \in segments
          BY <3>1 DEF Found, Told, Files
    <3> QED  BY <3>1, <1>1, <1>2, <1>3
  <2>4. ASSUME NEW g \in segments', NEW h \in segments', g.start = h.start PROVE g = h
    <3>1. CASE g \in segments /\ h \in segments
          BY <3>1, <2>4 DEF Found, Told, Apart
    <3> QED  BY <3>1, <2>4, <1>2, <1>3
  <2>5. ASSUME NEW g \in Files' PROVE g.start <= last' /\ (g.start = 0 => g.last = 0)
    <3>1. CASE g \in segments
      <4>1. /\ g \in Files /\ g.start <= last /\ (g.start = 0 => g.last = 0)
            /\ g.start \in Nat /\ last \in Nat
            BY <3>1, FoundFacts DEF Files, Found, Told
      <4> QED  BY <4>1
    <3>2. CASE g = f
          BY <3>2, <1>2
    <3>3. CASE g = z
          BY <3>3, <1>1
    <3> QED  BY <3>1, <3>2, <3>3, <1>3
  <2> QED  BY <2>1, <2>2, <2>3, <2>4, <2>5 DEF Told, Apart
<1> QED  BY <1>4, <1>5

\* A tile in another state; the entries that it has are the same.
LEMMA TileKept ==
    ASSUME Found, NEW g \in segments, g \in Tiles,
           Data(g)' = Data(g), End(g)' = End(g), g # current',
           NEW T \in Nat, Safe' = T, End(g) <= T => g.last = End(g) - 1,
           T = Safe \/ End(g) <= Safe + 1, NEW e, acked' = Append(acked, e)
    PROVE  Tile(g)'
<1>1. PICK S \in Nat, n \in Nat, l \in Nat, L \in Nat :
         /\ S = Safe /\ n = g.name /\ l = Len(Data(g)) /\ L = Len(acked) /\ S <= L
         /\ End(g) = n + l /\ n >= 1
  <2>1. g \in Files
        BY DEF Files
  <2> QED  BY <2>1, FoundFacts
<1>2. ASSUME NEW q \in 1..l, n - 1 + q <= T
      PROVE  Data(g)[q] = acked'[n - 1 + q]
  <2>1. n - 1 + q <= S
        BY <1>1, <1>2
  <2>2. Data(g)[q] = acked[n - 1 + q]
        BY <2>1, <1>1 DEF Found, Covered, Tile
  <2>3. n - 1 + q \in 1..L
        BY <2>1, <1>1
  <2>4. acked'[n - 1 + q] = acked[n - 1 + q]
        BY <2>3, <1>1 DEF Found, FoundTypes
  <2> QED  BY <2>2, <2>4
<1>3. g.name = g.start /\ g.start <= g.last /\ Len(Data(g)) > 0
      BY DEF Found, Covered, Tile
<1> QED  BY <1>1, <1>2, <1>3 DEF Tile

\* After a stop, the entry goes behind all others.
LEMMA CleanWritten ==
    ASSUME Found, use = {"restart"}, setting' = setting,
           NEW f, NEW e \in EntryType, NEW i \in Nat \ {0}, i = last + 1, Wrote(f, i, e),
           e.index = i, last' = i, acked' = Append(acked, e)
    PROVE  Safe' = i /\ Covered' /\ Clean'
<1>1. /\ NewFile(i + 1).name = i + 1 /\ NewFile(i + 1).start = 0
      /\ NewFile(i + 1).last = 0
      BY DEF NewFile
<1>2. /\ \A g \in segments : Data(g)' = Data(g) /\ End(g)' = End(g)
      /\ f \in FileType /\ f.name = current.name /\ f.last = i
      /\ f.start \in Nat \ {0} /\ f.start <= i
      /\ f.start = IF current.start = 0 THEN i ELSE current.start
      /\ Data(f)' = Append(Data(current), e) /\ Len(Data(f)') = Len(Data(current)) + 1
      /\ End(f)' = End(current) + 1
      /\ f \in Files' /\ f \notin segments /\ NewFile(i + 1) \notin segments
      /\ \/ segments' = segments /\ current' = f
         \/ /\ segments' = segments \union {f} /\ current' = NewFile(i + 1)
            /\ Data(current)' = <<>> /\ End(current)' = i + 1
      BY WroteFacts
<1>3. /\ last = Len(acked) /\ Len(acked) = Safe /\ Safe \in Nat \ {0}
      /\ acked \in Seq(EntryType) /\ last \in Nat /\ i = Safe + 1
  <2>1. last = Len(acked) /\ Safe = Len(acked)
        BY DEF Found, Clean, Safe
  <2> QED  BY <2>1, FoundFacts DEF Found, FoundTypes
<1>4. /\ Len(acked') = i /\ acked'[i] = e
      /\ \A k \in 1..last : acked'[k] = acked[k]
      BY <1>3
<1>5. Safe' = i
      BY <1>4 DEF Safe, use
<1>6. /\ \A g \in Files' : g \in segments \/ g = f \/ g = NewFile(i + 1)
      /\ \A g \in segments : g \in Files'
      BY <1>2 DEF Files
<1>7. ASSUME NEW g \in segments, g.start \in Nat \ {0}
      PROVE  g \in Tiles /\ g \in Tiles' /\ g.last = End(g) - 1 /\ End(g) <= last + 1 /\ End(g) \in Nat
  <2>1. g \in Files /\ g.start <= last
        BY DEF Files, Found, Told
  <2>2. g \in Tiles
        BY <2>1, <1>3, <1>7 DEF Tiles
  <2>3. g \in Tiles'
        BY <2>1, <1>3, <1>5, <1>6, <1>7 DEF Tiles
  <2> QED  BY <2>1, <2>2, <2>3, FoundFacts DEF Found, Clean
<1>8. PICK n \in Nat, l \in Nat, x \in Seq(EntryType) :
         /\ n = f.name /\ x = Data(current) /\ l = Len(x) /\ n + l = i /\ End(current) = i
         /\ n \in Nat \ {0}
  <2>1. /\ current \in Files /\ current.name \in Nat \ {0} /\ Data(current) \in Seq(EntryType)
        /\ Len(Data(current)) \in Nat /\ End(current) = current.name + Len(Data(current))
    <3>1. current \in Files
          BY DEF Files
    <3> QED  BY <3>1, FoundFacts
  <2>2. End(current) = last + 1
        BY DEF Found, Clean
  <2> QED  BY <2>1, <2>2, <1>2
<1>9. /\ f.start = n
      /\ \A q \in 1..l : x[q] = acked[n - 1 + q]
  <2>1. CASE current.start = 0
    <3>1. Data(current) = <<>>
          BY <2>1 DEF Found, Clean
    <3>2. l = 0
          BY <3>1, <1>8
    <3> QED  BY <3>2, <2>1, <1>2, <1>8
  <2>2. CASE current.start # 0
    <3>1. current \in Tiles
      <4>1. current \in Files /\ current.start <= last /\ current.start \in Nat
            BY FoundFacts DEF Files, Found, Told
      <4> QED  BY <4>1, <2>2, <1>3 DEF Tiles
    <3>2. current.start = n
          BY <3>1, <1>2, <1>8 DEF Found, Covered, Tile
    <3>3. \A q \in 1..l : n - 1 + q <= Safe
          BY <1>3, <1>8
    <3>4. \A q \in 1..l : x[q] = acked[n - 1 + q]
          BY <3>1, <3>3, <1>2, <1>8 DEF Found, Covered, Tile
    <3> QED  BY <3>2, <3>4, <2>2, <1>2
  <2> QED  BY <2>1, <2>2
<1>10. /\ f \in Tiles' /\ End(f)' = i + 1 /\ f.last = End(f)' - 1
       /\ n <= i
  <2>1. n <= i /\ n \in 1..i
        BY <1>8
  <2> QED  BY <2>1, <1>2, <1>5, <1>8, <1>9 DEF Tiles
<1>11. \A g \in Tiles' : (g \in segments /\ g.start \in Nat \ {0}) \/ g = f
  <2>1. ASSUME NEW g \in Tiles' PROVE (g \in segments /\ g.start \in Nat \ {0}) \/ g = f
    <3>1. g \in Files' /\ g.start \in 1..i
          BY <1>5 DEF Tiles
    <3>2. g # NewFile(i + 1)
          BY <3>1, <1>1
    <3> QED  BY <3>1, <3>2, <1>6
  <2> QED  BY <2>1
<1>12. ASSUME NEW g \in segments, g.start \in Nat \ {0} PROVE Tile(g)'
  <2>1. g \in Tiles /\ End(g) <= Safe + 1 /\ g.last = End(g) - 1
        BY <1>12, <1>3, <1>7
  <2>2. g # current'
        BY <1>2
  <2>3. i \in Nat
        OBVIOUS
  <2> QED  BY <2>1, <2>2, <2>3, <1>2, <1>5, TileKept
<1>13. Tile(f)'
  <2>1. ASSUME NEW q \in 1..l + 1, n - 1 + q <= i
        PROVE  Append(x, e)[q] = acked'[n - 1 + q]
    <3>1. CASE q = l + 1
      <4>1. n - 1 + q = i
            BY <3>1, <1>8
      <4>2. Append(x, e)[q] = e
            BY <3>1, <1>8
      <4> QED  BY <4>1, <4>2, <1>4
    <3>2. CASE q # l + 1
      <4>1. q \in 1..l
            BY <3>2
      <4>2. Append(x, e)[q] = x[q]
            BY <4>1, <1>8
      <4>3. n - 1 + q \in 1..last
            BY <4>1, <1>3, <1>8
      <4> QED  BY <4>1, <4>2, <4>3, <1>4, <1>9
    <3> QED  BY <3>1, <3>2
  <2>2. Data(f)' = Append(x, e) /\ Len(Data(f)') = l + 1
        BY <1>2, <1>8
  <2>3. f.name = f.start /\ f.start <= f.last /\ Len(Data(f)') > 0
        BY <2>2, <1>2, <1>8, <1>9
  <2>4. ~(End(f)' <= Safe')
        BY <1>5, <1>10
  <2> QED  BY <2>1, <2>2, <2>3, <2>4, <1>5, <1>8 DEF Tile
<1>14. ASSUME NEW g \in Tiles', NEW h \in Tiles', g.start < h.start
       PROVE  End(g)' <= h.start
  <2>1. CASE g \in segments /\ g.start \in Nat \ {0} /\ h \in segments /\ h.start \in Nat \ {0}
    <3>1. g \in Tiles /\ h \in Tiles /\ End(g)' = End(g)
          BY <2>1, <1>2, <1>7
    <3> QED  BY <3>1, <1>14 DEF Found, Covered
  <2>2. CASE g = f /\ h \in segments /\ h.start \in Nat \ {0}
    <3>1. h \in Tiles /\ h \in Files /\ h.start <= last
          BY <2>2, <1>7 DEF Files, Found, Told
    <3>2. n < h.start /\ current.start # 0
      <4>1. f.start # i
            BY <3>1, <1>14, <2>2, <1>2, <1>3
      <4> QED  BY <4>1, <1>2, <1>9, <1>14, <2>2
    <3>3. current \in Tiles /\ current.start = n
      <4>1. current.start = n
            BY <3>2, <1>2, <1>9
      <4>2. n \in 1..Safe
            BY <3>1, <3>2, <1>3, <1>8, <2>2
      <4> QED  BY <4>1, <4>2 DEF Tiles, Files
    <3>4. i <= h.start
          BY <3>1, <3>2, <3>3, <1>8 DEF Found, Covered
    <3> QED  BY <3>1, <3>4, <2>2, <1>3
  <2>3. CASE g \in segments /\ g.start \in Nat \ {0} /\ h = f
    <3>1. g \in Tiles /\ End(g)' = End(g) /\ End(g) <= i
          BY <2>3, <1>2, <1>7
    <3>2. CASE f.start = i
          BY <3>1, <3>2, <2>3
    <3>3. CASE f.start # i
      <4>1. current.start = n
            BY <3>3, <1>2, <1>9
      <4>2. n \in 1..Safe
            BY <3>3, <1>3, <1>8, <1>9, <1>10
      <4>3. current \in Tiles
            BY <4>1, <4>2 DEF Tiles, Files
      <4>4. End(g) <= current.start
            BY <4>1, <4>3, <3>1, <1>9, <1>14, <2>3 DEF Found, Covered
      <4> QED  BY <4>1, <4>4, <3>1, <1>9, <2>3
    <3> QED  BY <3>2, <3>3
  <2>4. CASE g = f /\ h = f
        BY <2>4, <1>2, <1>14
  <2> QED  BY <2>1, <2>2, <2>3, <2>4, <1>11
<1>15. ASSUME NEW k \in 1..i PROVE \E g \in Tiles' : g.start <= k /\ k < End(g)'
  <2>1. CASE k = i
    <3>1. f.start <= k /\ k < End(f)'
          BY <2>1, <1>2, <1>10
    <3> QED  BY <3>1, <1>10
  <2>2. CASE k # i
    <3>1. k \in 1..Safe
          BY <2>2, <1>3
    <3>2. PICK h \in Tiles : h.start <= k /\ k < End(h)
          BY <3>1 DEF Found, Covered
    <3>3. CASE h \in segments
      <4>1. h.start \in Nat \ {0}
            BY FoundFacts
      <4> QED  BY <4>1, <3>2, <3>3, <1>2, <1>7
    <3>4. CASE h = current
      <4>1. h.start \in Nat \ {0}
            BY FoundFacts
      <4>2. f.start = h.start
            BY <4>1, <3>4, <1>2
      <4>3. k < End(f)'
            BY <1>10
      <4> QED  BY <4>2, <4>3, <3>2, <1>10
    <3>5. h \in segments \/ h = current
          BY FoundFacts DEF Files
    <3> QED  BY <3>3, <3>4, <3>5
  <2> QED  BY <2>1, <2>2
<1>16. Covered'
       BY <1>5, <1>11, <1>12, <1>13, <1>14, <1>15 DEF Covered
<1>17. Clean'
  <2>1. last' = Len(acked')
        BY <1>4
  <2>2. ASSUME NEW k \in DOMAIN acked' PROVE acked'[k].index = k
    <3>1. k \in 1..i
          BY <1>3, <1>4
    <3>2. CASE k = i
          BY <3>2, <1>4
    <3>3. CASE k # i
      <4>1. k \in 1..last /\ k \in DOMAIN acked
            BY <3>1, <3>3, <1>3
      <4> QED  BY <4>1, <1>4 DEF Found, Clean
    <3> QED  BY <3>2, <3>3
  <2>3. ASSUME NEW g \in Tiles' PROVE g.last = End(g)' - 1 /\ End(g)' <= i + 1
    <3>1. CASE g \in segments /\ g.start \in Nat \ {0}
      <4>1. End(g)' = End(g) /\ End(g) <= i /\ End(g) \in Nat /\ g.last = End(g) - 1
            BY <3>1, <1>2, <1>7
      <4> QED  BY <4>1
    <3>2. CASE g = f
          BY <3>2, <1>10
    <3> QED  BY <3>1, <3>2, <1>11
  <2>4. End(current)' = i + 1 /\ (current'.start = 0 => Data(current)' = <<>>)
    <3>1. CASE current' = f
          BY <3>1, <1>2, <1>10 DEF End, Data
    <3>2. CASE current' # f
          BY <3>2, <1>2
    <3> QED  BY <3>1, <3>2
  <2> QED  BY <2>1, <2>2, <2>3, <2>4 DEF Clean
<1> QED  BY <1>5, <1>16, <1>17

\* After a crash, the entry goes behind those that are safe.
LEMMA CrashWritten ==
    ASSUME Found, use = {"crash"}, setting' = setting, loaded' = loaded,
           NEW f, NEW e \in EntryType, NEW i \in Nat \ {0}, i = last + 1, Wrote(f, i, e),
           last' = i, acked' = Append(acked, e)
    PROVE  Safe' = Safe /\ Covered' /\ Clean'
<1>1. /\ NewFile(i + 1).name = i + 1 /\ NewFile(i + 1).start = 0
      /\ NewFile(i + 1).last = 0
      BY DEF NewFile
<1>2. /\ \A g \in segments : Data(g)' = Data(g) /\ End(g)' = End(g)
      /\ f \in FileType /\ f.name = current.name /\ f.last = i
      /\ f.start \in Nat \ {0} /\ f.start <= i
      /\ f.start = IF current.start = 0 THEN i ELSE current.start
      /\ Data(f)' = Append(Data(current), e) /\ Len(Data(f)') = Len(Data(current)) + 1
      /\ End(f)' = End(current) + 1
      /\ f \in Files' /\ f \notin segments /\ NewFile(i + 1) \notin segments
      /\ \/ segments' = segments /\ current' = f
         \/ segments' = segments \union {f} /\ current' = NewFile(i + 1)
      BY WroteFacts
<1>3. PICK S \in Nat \ {0} : S = Safe /\ S <= last /\ last \in Nat /\ S < i
      BY FoundFacts
<1>4. use' = {"crash"} /\ Safe' = S
  <2>1. use' = use
        BY DEF use
  <2>2. {"crash"} # {"restart"}
        OBVIOUS
  <2> QED  BY <2>1, <2>2, <1>3 DEF Safe
<1>5. \A g \in Files' : g \in segments \/ g = f \/ g = NewFile(i + 1)
      BY <1>2 DEF Files
<1>6. \A g \in segments : g \in Files /\ g \in Files'
      BY <1>2 DEF Files
\* The file that was written is a tile if it was one.
<1>7. ASSUME f.start <= S
      PROVE  /\ current \in Tiles /\ f.start = current.start /\ f \in Tiles'
             /\ End(current) \in Nat /\ ~(End(current) <= S)
  <2>1. f.start = current.start
        BY <1>2, <1>3, <1>7
  <2>2. current \in Files /\ f.start \in 1..S
        BY <1>2, <1>3, <1>7 DEF Files
  <2>3. current \in Tiles /\ f \in Tiles'
        BY <2>1, <2>2, <1>2, <1>3, <1>4 DEF Tiles
  <2>4. ~(End(current) <= S)
        BY <2>3, <1>3 DEF Found, Covered, Tile
  <2> QED  BY <2>1, <2>2, <2>3, <2>4, FoundFacts
<1>8. ASSUME NEW g \in Tiles'
      PROVE  (g \in segments /\ g \in Tiles) \/ (g = f /\ f.start <= S)
  <2>1. g \in Files' /\ g.start \in 1..S
        BY <1>4 DEF Tiles
  <2>2. g # NewFile(i + 1)
        BY <2>1, <1>1
  <2>3. g \in segments => g \in Tiles
        BY <2>1, <1>3, <1>6 DEF Tiles
  <2> QED  BY <2>1, <2>2, <2>3, <1>5
<1>9. ASSUME NEW g \in segments, g \in Tiles PROVE Tile(g)' /\ g \in Tiles'
  <2>1. g # current' /\ S \in Nat /\ S = Safe
        BY <1>2, <1>3
  <2>2. End(g) <= S => g.last = End(g) - 1
        BY <1>3, <1>9 DEF Found, Covered, Tile
  <2>3. Tile(g)'
        BY <2>1, <2>2, <1>2, <1>4, <1>9, TileKept
  <2>4. g \in Tiles'
        BY <1>3, <1>4, <1>6, <1>9 DEF Tiles
  <2> QED  BY <2>3, <2>4
<1>10. ASSUME f.start <= S PROVE Tile(f)'
  <2>1. PICK x \in Seq(EntryType), l \in Nat, n \in Nat :
           x = Data(current) /\ l = Len(x) /\ n = current.name /\ End(current) = n + l
    <3>1. current \in Files
          BY DEF Files
    <3> QED  BY <3>1, FoundFacts
  <2>2. current \in Tiles /\ f.start = current.start /\ S < n + l
        BY <2>1, <1>3, <1>7, <1>10
  <2>3. ASSUME NEW q \in 1..l + 1, n - 1 + q <= S
        PROVE  Append(x, e)[q] = acked'[n - 1 + q]
    <3>1. q \in 1..l
          BY <2>2, <2>3, <1>3
    <3>2. Append(x, e)[q] = x[q]
          BY <3>1, <2>1
    <3>3. x[q] = acked[n - 1 + q]
          BY <3>1, <2>1, <2>2, <2>3, <1>3 DEF Found, Covered, Tile
    <3>4. PICK L \in Nat : L = Len(acked) /\ S <= L /\ acked \in Seq(EntryType)
          BY <1>3, FoundFacts DEF Found, FoundTypes
    <3>5. n - 1 + q \in 1..L
      <4>1. n = current.start /\ n \in Nat \ {0}
            BY <2>1, <2>2, <1>2 DEF Found, Covered, Tile
      <4> QED  BY <4>1, <3>1, <3>4, <2>3
    <3>6. acked'[n - 1 + q] = acked[n - 1 + q]
          BY <3>4, <3>5
    <3> QED  BY <3>2, <3>3, <3>6
  <2>4. Data(f)' = Append(x, e) /\ Len(Data(f)') = l + 1
        BY <2>1, <1>2
  <2>5. f.name = n /\ f.name = f.start
        BY <2>1, <2>2, <1>2 DEF Found, Covered, Tile
  <2>6. ~(End(f)' <= Safe')
        BY <2>1, <2>2, <1>2, <1>3, <1>4
  <2>7. f.start <= f.last /\ Len(Data(f)') > 0
        BY <2>1, <2>4, <1>2
  <2> QED  BY <2>3, <2>4, <2>5, <2>6, <2>7, <1>4 DEF Tile
<1>11. ASSUME NEW g \in Tiles', NEW h \in Tiles', g.start < h.start
       PROVE  End(g)' <= h.start
  <2>1. CASE g \in segments /\ g \in Tiles /\ h \in segments /\ h \in Tiles
        BY <2>1, <1>2, <1>11 DEF Found, Covered
  <2>2. CASE g = f /\ f.start <= S /\ h \in segments /\ h \in Tiles
    <3>1. current \in Tiles /\ f.start = current.start /\ End(current) \in Nat /\ ~(End(current) <= S)
          BY <2>2, <1>7
    <3>2. End(current) <= h.start
          BY <3>1, <2>2, <1>11 DEF Found, Covered
    <3>3. h.start \in Nat /\ h.start <= S
          BY <2>2, <1>3, FoundFacts
    <3> QED  BY <3>1, <3>2, <3>3, <1>3
  <2>3. CASE g \in segments /\ g \in Tiles /\ h = f /\ f.start <= S
    <3>1. current \in Tiles /\ f.start = current.start
          BY <2>3, <1>7
    <3>2. End(g) <= f.start
          BY <3>1, <2>3, <1>11 DEF Found, Covered
    <3> QED  BY <3>2, <2>3, <1>2
  <2>4. CASE g = f /\ h = f
        BY <2>4, <1>2, <1>11
  <2> QED  BY <2>1, <2>2, <2>3, <2>4, <1>8
<1>12. ASSUME NEW k \in 1..S PROVE \E g \in Tiles' : g.start <= k /\ k < End(g)'
  <2>1. PICK h \in Tiles : h.start <= k /\ k < End(h)
        BY <1>3 DEF Found, Covered
  <2>2. CASE h \in segments
        BY <2>1, <2>2, <1>2, <1>9
  <2>3. CASE h = current
    <3>1. f.start = h.start /\ f.start <= S /\ End(h) \in Nat
      <4>1. h.start \in 1..S /\ End(h) \in Nat
            BY <1>3, FoundFacts
      <4> QED  BY <4>1, <2>3, <1>2
    <3>2. f \in Tiles'
          BY <3>1, <1>7
    <3>3. k < End(f)'
          BY <3>1, <2>1, <2>3, <1>2
    <3> QED  BY <3>1, <3>2, <3>3, <2>1
  <2>4. h \in segments \/ h = current
        BY FoundFacts DEF Files
  <2> QED  BY <2>2, <2>3, <2>4
<1>13. Covered'
       BY <1>4, <1>8, <1>9, <1>10, <1>11, <1>12 DEF Covered
<1>14. Clean'
  <2>1. {"crash"} # {"restart"}
        OBVIOUS
  <2> QED  BY <2>1, <1>4 DEF Clean
<1> QED  BY <1>3, <1>4, <1>13, <1>14

LEMMA FoundWrite ==
    ASSUME Found, Counted, Stops, WriteEntry
    PROVE  Found'
<1>1. PICK i \in Nat \ {0} : i = last + 1
      BY FoundFacts
<1>2. /\ last' = i /\ owed' = 0 /\ loaded' = loaded /\ writes \in Nat
      /\ setting' = setting /\ writes' = writes + 1
      BY <1>1, FoundWrites DEF Counted
<1>3. PICK f, e : /\ e \in EntryType /\ e.index = i /\ acked' = Append(acked, e) /\ Wrote(f, i, e)
      BY <1>1, FoundWrites
<1>4. Covered' /\ Clean' /\ (Safe' = Safe \/ Safe' = i)
  <2>1. CASE use = {"restart"}
        BY <2>1, <1>1, <1>2, <1>3, CleanWritten
  <2>2. CASE use = {"crash"}
        BY <2>2, <1>1, <1>2, <1>3, CrashWritten
  <2> QED  BY <2>1, <2>2 DEF Stops
<1>5. FoundTypes' /\ Told'
      BY <1>1, <1>2, <1>3, <1>4, TypesWritten
<1> QED  BY <1>4, <1>5 DEF Found

\* Reading moves the position in the index file, and nothing else.
LEMMA FoundRead ==
    ASSUME Found, Read
    PROVE  Found'
<1>1. /\ segments' = segments /\ disk' = disk /\ last' = last /\ setting' = setting /\ owed' = owed
      /\ acked' = acked /\ loaded' = loaded /\ writes' = writes
      BY DEF Read, history
<1>2. PICK f : /\ f = current' /\ f \in FileType /\ f.name = current.name
               /\ f.start = current.start /\ f.last = current.last
  <2>1. current \in FileType /\ current \in Files /\ Index(current) \in Seq(SlotType)
    <3>1. current \in Files
          BY DEF Files
    <3> QED  BY <3>1, FoundFacts
  <2>2. PICK a \in Nat : a = Len(disk[current.name].index)
        BY <2>1 DEF Index
  <2>3. PICK n \in Nat, s \in Nat, l \in Nat, b \in Nat :
           current = [name |-> n, start |-> s, last |-> l, at |-> b]
        BY <2>1 DEF FileType
  <2>4. current' = [current EXCEPT !.at = a]
        BY <2>2 DEF Read
  <2>5. current' = [name |-> n, start |-> s, last |-> l, at |-> a]
        BY <2>3, <2>4, FieldsReplaced, Zenon
  <2> QED  BY <2>3, <2>5 DEF FileType
<1>3. \A g : Data(g)' = Data(g) /\ End(g)' = End(g)
      BY <1>1 DEF Data, End
<1>4. Safe' = Safe
      BY <1>1 DEF Safe, use
<1>5. /\ current \in Files /\ f \in Files' /\ \A g \in Files' : g \in segments \/ g = f
      /\ \A g \in segments : g \in Files /\ g \in Files' /\ g # current /\ g # f
  <2>1. current \in Files /\ f \in Files' /\ \A g \in Files' : g \in segments \/ g = f
        BY <1>1, <1>2 DEF Files
  <2>2. \A g \in segments : g \in Files /\ g \in Files' /\ g # current
        BY <1>1 DEF Files, Found, Told
  <2>3. \A g \in segments : g.name # current.name
        BY <2>1, <2>2 DEF Found, Told
  <2> QED  BY <2>1, <2>2, <2>3, <1>2
<1>6. FoundTypes'
  <2>1. \A g \in Files' : Sound(g)' /\ IsOpen(g)
    <3>1. \A g \in segments : Sound(g)' /\ IsOpen(g)
          BY <1>1, <1>5 DEF Found, FoundTypes, Sound
    <3>2. Sound(f)' /\ IsOpen(f)
      <4>1. Sound(current) /\ IsOpen(current)
            BY <1>5 DEF Found, FoundTypes
      <4> QED  BY <4>1, <1>1, <1>2 DEF Sound, IsOpen
    <3> QED  BY <3>1, <3>2, <1>5
  <2> QED  BY <2>1, <1>1, <1>4 DEF Found, FoundTypes
<1>7. Told'
  <2>1. ASSUME NEW g \in Files', NEW h \in Files'
        PROVE  /\ g.name = h.name => g = h
               /\ g.start = h.start => g = h \/ g.start = 0
    <3>1. CASE g \in segments /\ h \in segments
          BY <3>1, <1>5 DEF Found, Told
    <3>2. CASE g \in segments /\ h = f
          BY <3>2, <1>2, <1>5 DEF Found, Told
    <3>3. CASE g = f /\ h \in segments
          BY <3>3, <1>2, <1>5 DEF Found, Told
    <3>4. CASE g = f /\ h = f
          BY <3>4
    <3> QED  BY <3>1, <3>2, <3>3, <3>4, <1>5
  <2>2. \A g \in Files' : g.start <= last /\ (g.start = 0 => g.last = 0)
        BY <1>2, <1>5 DEF Found, Told
  <2> QED  BY <2>1, <2>2, <1>1, <1>2, <1>5 DEF Found, Told
<1>8. /\ \A g \in segments : g \in Tiles' <=> g \in Tiles
      /\ f \in Tiles' <=> current \in Tiles
      /\ \A g \in Tiles' : g \in segments \/ g = f
  <2>1. \A g \in segments : g \in Tiles' <=> g \in Tiles
        BY <1>4, <1>5 DEF Tiles
  <2>2. f \in Tiles' <=> current \in Tiles
        BY <1>2, <1>4, <1>5 DEF Tiles
  <2>3. \A g \in Tiles' : g \in segments \/ g = f
        BY <1>5 DEF Tiles
  <2> QED  BY <2>1, <2>2, <2>3
\* The tile that has become another, or is the same.
<1>9. ASSUME NEW g \in Tiles'
      PROVE  \E h \in Tiles : /\ h.name = g.name /\ h.start = g.start /\ h.last = g.last
                              /\ Data(h) = Data(g) /\ End(h) = End(g)
                              /\ (g = current') <=> (h = current)
  <2>1. CASE g \in segments
        BY <2>1, <1>2, <1>5, <1>8
  <2>2. CASE g = f
    <3>1. Data(current) = Data(f) /\ End(current) = End(f)
          BY <1>2 DEF Data, End
    <3> QED  BY <3>1, <2>2, <1>2, <1>8
  <2> QED  BY <2>1, <2>2, <1>8
<1>10. Covered'
  <2>1. ASSUME NEW g \in Tiles' PROVE Tile(g)'
    <3>1. PICK h \in Tiles : /\ h.name = g.name /\ h.start = g.start /\ h.last = g.last
                             /\ Data(h) = Data(g) /\ End(h) = End(g)
                             /\ (g = current') <=> (h = current)
          BY <1>9
    <3>2. Tile(h)
          BY DEF Found, Covered
    <3> QED  BY <3>1, <3>2, <1>1, <1>3, <1>4 DEF Tile
  <2>2. ASSUME NEW g \in Tiles', NEW h \in Tiles', g.start < h.start
        PROVE  End(g)' <= h.start
    <3>1. PICK a \in Tiles : a.start = g.start /\ End(a) = End(g)
          BY <1>9
    <3>2. PICK b \in Tiles : b.start = h.start
          BY <1>9
    <3>3. End(a) <= b.start
          BY <3>1, <3>2, <2>2 DEF Found, Covered
    <3> QED  BY <3>1, <3>2, <3>3, <1>3
  <2>3. ASSUME NEW k \in 1..Safe PROVE \E g \in Tiles' : g.start <= k /\ k < End(g)'
    <3>1. PICK h \in Tiles : h.start <= k /\ k < End(h)
          BY DEF Found, Covered
    <3>2. CASE h \in segments
          BY <3>1, <3>2, <1>3, <1>8
    <3>3. CASE h = current
      <4>1. End(f)' = End(h)
            BY <3>3, <1>2, <1>3 DEF End, Data
      <4> QED  BY <4>1, <3>1, <3>3, <1>2, <1>8
    <3>4. h \in segments \/ h = current
          BY FoundFacts DEF Files
    <3> QED  BY <3>2, <3>3, <3>4
  <2> QED  BY <2>1, <2>2, <2>3, <1>4 DEF Covered
<1>11. Clean'
  <2> SUFFICES ASSUME use = {"restart"}
               PROVE  /\ last' = Len(acked)' /\ \A k \in DOMAIN acked' : acked'[k].index = k
                      /\ \A g \in Tiles' : g.last = End(g)' - 1 /\ End(g)' <= last' + 1
                      /\ End(current)' = last' + 1
                      /\ current'.start = 0 => Data(current)' = <<>>
      BY <1>1 DEF Clean, use
  <2>1. \A g \in Tiles' : g.last = End(g)' - 1 /\ End(g)' <= last' + 1
    <3>1. ASSUME NEW g \in Tiles' PROVE g.last = End(g)' - 1 /\ End(g)' <= last' + 1
      <4>1. PICK h \in Tiles : h.last = g.last /\ End(h) = End(g)
            BY <1>9
      <4>2. h.last = End(h) - 1 /\ End(h) <= last + 1
            BY DEF Found, Clean
      <4> QED  BY <4>1, <4>2, <1>1, <1>3
    <3> QED  BY <3>1
  <2>2. End(current)' = End(current) /\ Data(current)' = Data(current)
        BY <1>1, <1>2 DEF End, Data
  <2> QED  BY <2>1, <2>2, <1>1, <1>2 DEF Found, Clean
<1> QED  BY <1>6, <1>7, <1>10, <1>11 DEF Found

-----------------------------------------------------------------------------
(* Loading the files that the process left.                                 *)

LEMMA FiniteImage ==
    ASSUME NEW S, IsFiniteSet(S), NEW T, NEW f \in [S -> T]
    PROVE  IsFiniteSet({f[x] : x \in S})
<1>1. f \in Surjection(S, {f[x] : x \in S})
      BY DEF Surjection
<1> QED  BY <1>1, FS_Surjection

\* A file is known by its first and its last slot.
LEMMA OpenedIs ==
    ASSUME NEW d, NEW m \in Nat \ {0}, NEW x, x = d[m].index, NEW w \in Nat, w = Len(x),
           x \in Seq(SlotType), \A q \in 1..w : x[q].index = m + q - 1
    PROVE  /\ Opened(d, m) = [name |-> m, start |-> IF w = 0 THEN 0 ELSE m,
                              last |-> IF w = 0 THEN 0 ELSE m + w - 1, at |-> w]
           /\ Opened(d, m) \in FileType
<1>1. CASE w = 0
  <2>1. x = <<>>
        BY <1>1, EmptySeq
  <2>2. Opened(d, m) = [name |-> m, at |-> 0, start |-> 0, last |-> 0]
        BY <2>1 DEF Opened
  <2> QED  BY <2>2, <1>1 DEF FileType
<1>2. CASE w # 0
  <2>1. x # <<>>
        BY <1>2
  <2>2. 1 \in 1..w /\ w \in 1..w
        BY <1>2
  <2>3. x[1].index = m + 1 - 1 /\ x[w].index = m + w - 1
        BY <2>2
  <2>4. m + 1 - 1 = m /\ m + w - 1 \in Nat
        BY <1>2
  <2>5. PICK a : a = m + w - 1
        OBVIOUS
  <2>6. x[1].index = m /\ x[Len(x)].index = a
        BY <2>3, <2>4, <2>5
  <2>7. Opened(d, m) = [name |-> m, at |-> w, start |-> m, last |-> a]
        BY <2>1, <2>6 DEF Opened
  <2> QED  BY <2>4, <2>5, <2>7, <1>2 DEF FileType
<1> QED  BY <1>1, <1>2

\* With different starts, init keeps all files, and the last one becomes
\* current_file_.
LEMMA LoadIs ==
    ASSUME NEW d, d # <<>>, DOMAIN d \subseteq Nat, NEW t \in DOMAIN d,
           \A m \in DOMAIN d : Opened(d, m).start \in Nat /\ Opened(d, m).start <= Opened(d, t).start,
           \A k, m \in DOMAIN d : Opened(d, k).start = Opened(d, m).start => k = m,
           Load(d)
    PROVE  /\ disk' = d /\ last' = Opened(d, t).last
           /\ current' = [Opened(d, t) EXCEPT !.at = 0]
           /\ segments' = {Opened(d, m) : m \in DOMAIN d \ {t}}
<1> DEFINE starts == {Opened(d, n).start : n \in DOMAIN d}
           first(s) == Opened(d, Min({n \in DOMAIN d : Opened(d, n).start = s}))
<1>1. Max(starts) = Opened(d, t).start
  <2>1. Opened(d, t).start \in starts /\ Opened(d, t).start \in Nat
        BY DEF starts
  <2>2. \A s \in starts : s \in Nat /\ s <= Opened(d, t).start
        BY DEF starts
  <2> HIDE DEF starts
  <2>3. \A x \in starts : (\A s \in starts : x >= s) => x = Opened(d, t).start
        BY <2>1, <2>2
  <2>4. \A s \in starts : Opened(d, t).start >= s
        BY <2>1, <2>2
  <2> QED  BY <2>1, <2>3, <2>4 DEF Max
<1>2. ASSUME NEW m \in DOMAIN d
      PROVE  first(Opened(d, m).start) = Opened(d, m)
  <2>1. {n \in DOMAIN d : Opened(d, n).start = Opened(d, m).start} = {m}
        OBVIOUS
  <2>2. m \in Nat
        OBVIOUS
  <2>3. Min({m}) = m
        BY <2>2 DEF Min
  <2> QED  BY <2>1, <2>3
<1>3. PICK n : n = first(Max(starts))
      OBVIOUS
<1>4. n = Opened(d, t)
      BY <1>1, <1>2, <1>3
<1>5. /\ disk' = d /\ current' = [n EXCEPT !.at = 0] /\ last' = n.last
      /\ segments' = {first(s) : s \in starts \ {n.start}}
      BY <1>3, Zenon DEF Load
<1>6. {first(s) : s \in starts \ {n.start}} = {Opened(d, m) : m \in DOMAIN d \ {t}}
  <2>1. ASSUME NEW s \in starts \ {n.start}
        PROVE  \E m \in DOMAIN d \ {t} : first(s) = Opened(d, m)
    <3>1. PICK m \in DOMAIN d : s = Opened(d, m).start
          BY DEF starts
    <3>2. m # t
          BY <3>1, <1>4
    <3> HIDE DEF first
    <3> QED  BY <3>1, <3>2, <1>2
  <2>2. ASSUME NEW m \in DOMAIN d \ {t}
        PROVE  \E s \in starts \ {n.start} : first(s) = Opened(d, m)
    <3>1. Opened(d, m).start \in starts /\ Opened(d, m).start # n.start
          BY <1>4 DEF starts
    <3> HIDE DEF first, starts
    <3> QED  BY <3>1, <1>2
  <2> HIDE DEF first, starts
  <2> QED  BY <2>1, <2>2
<1> QED  BY <1>4, <1>5, <1>6

\* What the process left: the files as they were, but that the open one may
\* have a record more, which may have its slot.
Left(d) ==
    LET n == current.name
    IN  /\ d \in [DOMAIN disk -> FilesType]
        /\ \A m \in DOMAIN disk : m # n => d[m] = disk[m]
        /\ Len(Data(current)) <= Len(d[n].index) /\ Len(d[n].index) <= Len(d[n].data)
        /\ \A q \in 1..Len(Data(current)) : d[n].data[q] = Data(current)[q]
        /\ \A q \in 1..Len(d[n].index) : d[n].index[q].index = n + q - 1

\* The same without the open files: n is the last one, and l the last entry.
Legacy(d, n, l) ==
    /\ DOMAIN d \subseteq Nat \ {0} /\ IsFiniteSet(DOMAIN d)
    /\ d \in [DOMAIN d -> FilesType] /\ n \in DOMAIN d
    /\ \A m \in DOMAIN d :
          /\ Len(d[m].index) <= Len(d[m].data)
          /\ \A q \in 1..Len(d[m].index) : d[m].index[q].index = m + q - 1
          /\ \A q \in 1..Len(d[m].data) : m - 1 + q <= l => d[m].data[q] = acked[m - 1 + q]
          /\ m # n => /\ Len(d[m].index) = Len(d[m].data) /\ Len(d[m].data) > 0
                      /\ m + Len(d[m].data) <= n
    /\ n <= l + 1 /\ l + 1 <= n + Len(d[n].index)
    /\ \A k, m \in DOMAIN d : k < m => k + Len(d[k].data) <= m
    /\ \A j \in 1..l : \E m \in DOMAIN d : m <= j /\ j < m + Len(d[m].data)

LEMMA LeftIs ==
    ASSUME Fresh, acked # <<>>, NEW d, Left(d)
    PROVE  /\ last \in Nat \ {0} /\ Len(acked) = last /\ IsOpen(current)
           /\ Legacy(d, current.name, last)
           /\ DOMAIN d = DOMAIN disk
           /\ Len(Data(current)) \in Nat /\ Len(Index(current)) = Len(Data(current))
           /\ current.name + Len(Data(current)) = last + 1
<1>1. Sliced /\ owed = 0 /\ cut = {} /\ First = 1
      BY DEF Fresh
<1>2. /\ acked \in Seq(EntryType) /\ last \in Nat /\ Len(acked) = last /\ last # 0
      /\ NextIndex = last + 1
  <2>1. acked \in Seq(EntryType) /\ last \in Nat
        BY <1>1 DEF Sliced, PlainTypes
  <2>2. NextIndex = last + 1
        BY <1>1 DEF NextIndex
  <2>3. Len(acked) = NextIndex - First
        BY <1>1, SlicedFacts
  <2>4. Len(acked) = last
        BY <2>1, <2>2, <2>3, <1>1
  <2>5. Len(acked) # 0
        BY <2>1, EmptySeq
  <2> QED  BY <2>1, <2>2, <2>4, <2>5
<1>3. IsOpen(current) /\ current \in OpenFiles
      BY <1>1, SlicedFacts DEF Sliced, OnDisk
<1>4. PICK n \in Nat \ {0} : n = current.name /\ n \in DOMAIN disk
      BY <1>1, <1>3, SlicedFacts
<1>5. /\ Len(Data(current)) \in Nat /\ Len(Index(current)) = Len(Data(current))
      /\ n + Len(Data(current)) = last + 1
      BY <1>1, <1>2, <1>3, <1>4, SlicedFacts DEF Sliced, CurrentFits, Slice, End
<1>6. /\ d \in [DOMAIN disk -> FilesType] /\ DOMAIN d = DOMAIN disk
      /\ \A m \in DOMAIN disk : m # n => d[m] = disk[m]
      /\ Len(Data(current)) <= Len(d[n].index) /\ Len(d[n].index) <= Len(d[n].data)
      /\ \A q \in 1..Len(Data(current)) : d[n].data[q] = Data(current)[q]
      /\ \A q \in 1..Len(d[n].index) : d[n].index[q].index = n + q - 1
      BY <1>4 DEF Left
<1>7. ASSUME NEW m \in DOMAIN d
      PROVE  \E f \in OpenFiles : f.name = m /\ (m # n => f \in segments)
  <2>1. PICK f \in OpenFiles : f.name = m
        BY <1>1, <1>6 DEF Sliced, OnDisk
  <2>2. m # n => f \in segments
        BY <2>1, <1>1, <1>4, SlicedFacts
  <2> QED  BY <2>1, <2>2
<1>8. DOMAIN d \subseteq Nat \ {0}
      BY <1>1, <1>7, SlicedFacts
<1>9. IsFiniteSet(DOMAIN d)
  <2>1. IsFiniteSet(Files)
    <3>1. IsFiniteSet(segments)
          BY <1>1 DEF Sliced, PlainTypes
    <3> QED  BY <3>1, FS_AddElement DEF Files
  <2> DEFINE name == [f \in Files |-> f.name]
  <2>2. name \in [Files -> {f.name : f \in Files}]
        OBVIOUS
  <2>3. OpenFiles = Files
        BY <1>1, <1>3, SlicedFacts DEF OpenFiles, Files
  <2>4. {name[f] : f \in Files} = DOMAIN d
    <3>1. DOMAIN d = {f.name : f \in Files}
          BY <1>1, <1>6, <2>3 DEF Sliced, OnDisk
    <3>2. \A f \in Files : name[f] = f.name
          OBVIOUS
    <3> HIDE DEF name
    <3> QED  BY <3>1, <3>2
  <2> HIDE DEF name
  <2>5. IsFiniteSet({name[f] : f \in Files})
        BY <2>1, <2>2, FiniteImage
  <2> QED  BY <2>4, <2>5
<1>10. ASSUME NEW m \in DOMAIN d, m # n
       PROVE  /\ Len(d[m].index) = Len(d[m].data) /\ Len(d[m].data) > 0
              /\ m + Len(d[m].data) <= n /\ Len(d[m].data) \in Nat
              /\ \A q \in 1..Len(d[m].index) : d[m].index[q].index = m + q - 1
              /\ \A q \in 1..Len(d[m].data) : d[m].data[q] = acked[m - 1 + q]
              /\ \E f \in OpenFiles : f.name = m /\ Data(f) = d[m].data
  <2>1. PICK f \in OpenFiles : f.name = m /\ f \in segments
        BY <1>7, <1>10
  <2>2. d[m] = disk[m] /\ Data(f) = d[m].data /\ Index(f) = d[m].index
        BY <2>1, <1>6, <1>10 DEF Data, Index
  <2>3. Slice(f) /\ ClosedFits(f) /\ Len(Data(f)) \in Nat /\ m \in Nat
        BY <2>1, <1>1, SlicedFacts DEF Sliced
  <2>4. End(f) <= n
        BY <2>1, <2>3, <1>1, <1>3, <1>4 DEF Sliced, Tiled, ClosedFits
  <2>5. \A q \in 1..Len(Data(f)) : m - First + q = m - 1 + q
        BY <1>1
  <2> QED  BY <2>1, <2>2, <2>3, <2>4, <2>5 DEF Slice, ClosedFits, End
<1>11. ASSUME NEW q \in 1..Len(d[n].data), n - 1 + q <= last
       PROVE  d[n].data[q] = acked[n - 1 + q]
  <2>1. d[n].data \in Seq(EntryType) /\ n \in DOMAIN d
        BY <1>4, <1>6 DEF FilesType
  <2>2. PICK l \in Nat : l = Len(Data(current)) /\ n + l = last + 1
        BY <1>5
  <2>3. q \in 1..l
        BY <2>1, <2>2, <1>11, <1>2
  <2>4. d[n].data[q] = Data(current)[q]
        BY <2>2, <2>3, <1>6
  <2>5. Data(current)[q] = acked[n - First + q]
        BY <2>2, <2>3, <1>1, <1>3, <1>4 DEF Sliced, Slice
  <2>6. n - First + q = n - 1 + q
        BY <1>1
  <2> QED  BY <2>4, <2>5, <2>6
<1>12. PICK v \in Nat, w \in Nat : v = Len(d[n].data) /\ w = Len(d[n].index) /\ w <= v
       BY <1>4, <1>6 DEF FilesType
<1>13. n <= last + 1 /\ last + 1 <= n + Len(d[n].index)
       BY <1>2, <1>5, <1>6, <1>12
<1>14. ASSUME NEW k \in DOMAIN d, NEW m \in DOMAIN d, k < m
       PROVE  k + Len(d[k].data) <= m
  <2>1. k # n
    <3> SUFFICES ASSUME k = n PROVE FALSE
        OBVIOUS
    <3>1. m # n /\ m \in Nat
          BY <1>8, <1>14
    <3>2. m + Len(d[m].data) <= n /\ Len(d[m].data) \in Nat
          BY <3>1, <1>10
    <3> QED  BY <3>1, <3>2, <1>14
  <2>2. CASE m = n
        BY <2>1, <2>2, <1>10
  <2>3. CASE m # n
    <3>1. PICK f \in OpenFiles : f.name = k /\ Data(f) = d[k].data
          BY <2>1, <1>10
    <3>2. PICK g \in OpenFiles : g.name = m
          BY <1>7
    <3>3. End(f) <= m
          BY <3>1, <3>2, <1>1, <1>14 DEF Sliced, Tiled
    <3> QED  BY <3>1, <3>3 DEF End
  <2> QED  BY <2>2, <2>3
<1>15. ASSUME NEW j \in 1..last
       PROVE  \E m \in DOMAIN d : m <= j /\ j < m + Len(d[m].data)
  <2>1. j \in First..NextIndex - 1
        BY <1>1, <1>2
  <2>2. PICK f \in OpenFiles : f.name <= j /\ j < End(f)
        BY <2>1, <1>1 DEF Sliced, Tiled
  <2>3. f.name \in DOMAIN d
        BY <1>1, <1>6, SlicedFacts
  <2>4. CASE f.name = n
    <3>1. v = Len(d[n].data) /\ w <= v /\ last + 1 <= n + w
          BY <1>12, <1>13
    <3>2. j < n + v
          BY <3>1, <1>2, <1>12
    <3>3. j < n + Len(d[n].data)
          BY <3>1, <3>2
    <3> QED  BY <3>3, <2>2, <2>3, <2>4
  <2>5. CASE f.name # n
    <3>1. d[f.name] = disk[f.name]
          BY <2>3, <2>5, <1>6
    <3> QED  BY <3>1, <2>2, <2>3 DEF End, Data
  <2> QED  BY <2>4, <2>5
<1>16. Legacy(d, n, last)
  <2>1. ASSUME NEW m \in DOMAIN d
        PROVE  /\ Len(d[m].index) <= Len(d[m].data)
               /\ \A q \in 1..Len(d[m].index) : d[m].index[q].index = m + q - 1
               /\ \A q \in 1..Len(d[m].data) : m - 1 + q <= last => d[m].data[q] = acked[m - 1 + q]
               /\ m # n => /\ Len(d[m].index) = Len(d[m].data) /\ Len(d[m].data) > 0
                           /\ m + Len(d[m].data) <= n
    <3>1. CASE m = n
          BY <3>1, <1>6, <1>11
    <3>2. CASE m # n
          BY <3>2, <1>10
    <3> QED  BY <3>1, <3>2
  <2>2. d \in [DOMAIN d -> FilesType] /\ n \in DOMAIN d
        BY <1>4, <1>6
  <2> QED  BY <2>1, <2>2, <1>8, <1>9, <1>13, <1>14, <1>15 DEF Legacy
<1> QED  BY <1>2, <1>3, <1>4, <1>5, <1>6, <1>16

\* A file as it is loaded.
LoadedAs(f, d, m) ==
    LET w == Len(d[m].index)
    IN  /\ f \in FileType /\ f.name = m
        /\ f.start = IF w = 0 THEN 0 ELSE m
        /\ f.last = IF w = 0 THEN 0 ELSE m + w - 1

\* init takes the file t for current_file_ and keeps the others.
LoadedWith(d, n, l, t) ==
    /\ disk' = d /\ t \in DOMAIN d /\ Len(d[t].index) > 0
    /\ LoadedAs(current', d, t) /\ last' = current'.last /\ l <= last'
    /\ IsFiniteSet(segments')
    /\ \A m \in DOMAIN d : m # t => \E f \in segments' : f.name = m
    /\ \A f \in segments' : f.name \in DOMAIN d /\ f.name # t /\ LoadedAs(f, d, f.name)
    /\ \A f, g \in segments' : f.name = g.name => f = g
    /\ \A m \in DOMAIN d : /\ m <= last' + 1
                           /\ Len(d[m].index) > 0 => m <= last'
                           /\ Len(d[m].index) = 0 => m = n
    /\ t # n => Len(d[n].index) = 0

LEMMA LegacyLoads ==
    ASSUME NEW n \in Nat \ {0}, NEW l \in Nat \ {0}, NEW d, Legacy(d, n, l), Load(d)
    PROVE  \E t \in DOMAIN d : LoadedWith(d, n, l, t)
<1>1. ASSUME NEW m \in DOMAIN d
      PROVE  \E w \in Nat, v \in Nat :
                /\ m \in Nat \ {0} /\ w = Len(d[m].index) /\ v = Len(d[m].data) /\ w <= v
                /\ m # n => w = v /\ 0 < v /\ m + v <= n
                /\ Opened(d, m) = [name |-> m, start |-> IF w = 0 THEN 0 ELSE m,
                                   last |-> IF w = 0 THEN 0 ELSE m + w - 1, at |-> w]
                /\ Opened(d, m) \in FileType
  <2>1. m \in Nat \ {0} /\ d[m] \in FilesType
        BY DEF Legacy
  <2>2. d[m].index \in Seq(SlotType) /\ d[m].data \in Seq(EntryType)
        BY <2>1 DEF FilesType
  <2>3. PICK w \in Nat, v \in Nat : w = Len(d[m].index) /\ v = Len(d[m].data)
        BY <2>2
  <2>4. /\ w <= v /\ \A q \in 1..w : d[m].index[q].index = m + q - 1
        /\ m # n => w = v /\ 0 < v /\ m + v <= n
        BY <2>3 DEF Legacy
  <2>5. /\ Opened(d, m) = [name |-> m, start |-> IF w = 0 THEN 0 ELSE m,
                           last |-> IF w = 0 THEN 0 ELSE m + w - 1, at |-> w]
        /\ Opened(d, m) \in FileType
        BY <2>1, <2>2, <2>3, <2>4, OpenedIs
  <2> QED  BY <2>1, <2>3, <2>4, <2>5
<1>2. /\ n \in DOMAIN d /\ DOMAIN d \subseteq Nat \ {0} /\ IsFiniteSet(DOMAIN d)
      /\ n <= l + 1 /\ l + 1 <= n + Len(d[n].index)
      BY DEF Legacy
<1>3. PICK wn \in Nat : wn = Len(d[n].index) /\ l + 1 <= n + wn
      BY <1>1, <1>2
\* The file that has the last entry and the greatest start.
<1>4. \E t \in DOMAIN d :
         /\ t \in Nat \ {0} /\ (t # n => wn = 0)
         /\ \E w \in Nat : w = Len(d[t].index) /\ 0 < w /\ l <= t + w - 1
         /\ \A m \in DOMAIN d : Len(d[m].index) > 0 => m <= t
         /\ wn = 0 => n = l + 1
  <2>1. CASE wn # 0
    <3>1. l <= n + wn - 1
          BY <1>3, <2>1
    <3>2. \A m \in DOMAIN d : m <= n
      <4> SUFFICES ASSUME NEW m \in DOMAIN d, m # n PROVE m <= n
          OBVIOUS
      <4>1. PICK v \in Nat : m \in Nat /\ m + v <= n
            BY <1>1
      <4> QED  BY <4>1
    <3> QED  BY <2>1, <3>1, <3>2, <1>2, <1>3
  <2>2. CASE wn = 0
    <3>1. n = l + 1
          BY <2>2, <1>2, <1>3
    <3>2. l \in 1..l
          OBVIOUS
    <3>3. PICK t \in DOMAIN d : t <= l /\ l < t + Len(d[t].data)
          BY <3>2 DEF Legacy
    <3>4. t # n /\ t \in Nat \ {0}
          BY <3>1, <3>3, <1>2
    <3>5. PICK w \in Nat : w = Len(d[t].index) /\ w = Len(d[t].data) /\ 0 < w /\ t + w <= n
          BY <3>4, <1>1
    <3>6. l <= t + w - 1
          BY <3>1, <3>3, <3>4, <3>5
    <3>7. ASSUME NEW m \in DOMAIN d, Len(d[m].index) > 0 PROVE m <= t
      <4> SUFFICES ASSUME t < m PROVE FALSE
          BY <3>4, <1>2
      <4>1. m # n
            BY <2>2, <3>7, <1>3
      <4>2. PICK v \in Nat : m \in Nat /\ 0 < v /\ m + v <= n
            BY <4>1, <1>1
      <4>3. t + Len(d[t].data) <= m
            BY DEF Legacy
      <4>4. t + w <= m
            BY <4>3, <3>5
      <4> QED  BY <4>2, <4>4, <3>1, <3>4, <3>6
    <3> QED  BY <2>2, <3>1, <3>4, <3>5, <3>6, <3>7
  <2> QED  BY <2>1, <2>2
<1>5. PICK t \in DOMAIN d :
         /\ t \in Nat \ {0} /\ (t # n => wn = 0)
         /\ \E w \in Nat : w = Len(d[t].index) /\ 0 < w /\ l <= t + w - 1
         /\ \A m \in DOMAIN d : Len(d[m].index) > 0 => m <= t
         /\ wn = 0 => n = l + 1
      BY <1>4
<1>6. PICK w \in Nat : w = Len(d[t].index) /\ 0 < w /\ l <= t + w - 1
      BY <1>5
<1>7. PICK z \in Nat : z = t + w - 1 /\ l <= z /\ t <= z
      BY <1>5, <1>6
<1>8. Opened(d, t) = [name |-> t, start |-> t, last |-> z, at |-> w]
      BY <1>1, <1>6, <1>7
<1>9. \A m \in DOMAIN d : Opened(d, m).start = (IF Len(d[m].index) = 0 THEN 0 ELSE m)
  <2>1. ASSUME NEW m \in DOMAIN d
        PROVE  Opened(d, m).start = IF Len(d[m].index) = 0 THEN 0 ELSE m
    <3>1. PICK a \in Nat : a = Len(d[m].index)
                           /\ Opened(d, m) = [name |-> m, start |-> IF a = 0 THEN 0 ELSE m,
                                              last |-> IF a = 0 THEN 0 ELSE m + a - 1, at |-> a]
          BY <1>1
    <3> QED  BY <3>1
  <2> QED  BY <2>1
<1>10. \A m \in DOMAIN d : Len(d[m].index) = 0 => m = n
  <2>1. ASSUME NEW m \in DOMAIN d, m # n PROVE Len(d[m].index) # 0
    <3>1. PICK a \in Nat : a = Len(d[m].index) /\ 0 < a
          BY <2>1, <1>1
    <3> QED  BY <3>1
  <2> QED  BY <2>1
<1>11. \A m \in DOMAIN d : Len(d[m].index) \in Nat
       BY <1>1
<1>12. \A m \in DOMAIN d : Opened(d, m).start \in Nat /\ Opened(d, m).start <= Opened(d, t).start
  <2>1. Opened(d, t).start = t
        BY <1>8
  <2> QED  BY <2>1, <1>2, <1>5, <1>9, <1>11
<1>13. \A k, m \in DOMAIN d : Opened(d, k).start = Opened(d, m).start => k = m
  <2>1. ASSUME NEW k \in DOMAIN d, NEW m \in DOMAIN d, Opened(d, k).start = Opened(d, m).start
        PROVE  k = m
    <3>1. k # 0 /\ m # 0
          BY <1>2
    <3>2. CASE Len(d[k].index) = 0 \/ Len(d[m].index) = 0
          BY <2>1, <3>1, <3>2, <1>9, <1>10
    <3>3. CASE Len(d[k].index) # 0 /\ Len(d[m].index) # 0
          BY <2>1, <3>3, <1>9
    <3> QED  BY <3>2, <3>3
  <2> QED  BY <2>1
<1>14. /\ disk' = d /\ last' = Opened(d, t).last
       /\ current' = [Opened(d, t) EXCEPT !.at = 0]
       /\ segments' = {Opened(d, m) : m \in DOMAIN d \ {t}}
  <2>1. d # <<>> /\ DOMAIN d \subseteq Nat
        BY <1>2
  <2> QED  BY <2>1, <1>12, <1>13, LoadIs
<1>15. current' = [name |-> t, start |-> t, last |-> z, at |-> 0] /\ last' = z
  <2>1. PICK f : f = Opened(d, t)
        OBVIOUS
  <2>2. f = [name |-> t, start |-> t, last |-> z, at |-> w]
        BY <2>1, <1>8
  <2>5. f.last = z
        BY <2>2
  <2>3. PICK o : o = 0
        OBVIOUS
  <2>4. [f EXCEPT !.at = o] = [name |-> t, start |-> t, last |-> z, at |-> o]
        BY <2>2, FieldsReplaced
  <2> QED  BY <2>1, <2>3, <2>4, <2>5, <1>14, Zenon
<1>16. LoadedAs(current', d, t)
       BY <1>5, <1>6, <1>7, <1>15 DEF LoadedAs, FileType
<1>17. \A m \in DOMAIN d : LoadedAs(Opened(d, m), d, m)
  <2>1. ASSUME NEW m \in DOMAIN d PROVE LoadedAs(Opened(d, m), d, m)
    <3>1. PICK a \in Nat : /\ a = Len(d[m].index) /\ Opened(d, m) \in FileType
                           /\ Opened(d, m) = [name |-> m, start |-> IF a = 0 THEN 0 ELSE m,
                                              last |-> IF a = 0 THEN 0 ELSE m + a - 1, at |-> a]
          BY <1>1
    <3> QED  BY <3>1 DEF LoadedAs
  <2> QED  BY <2>1
<1>18. IsFiniteSet(segments')
  <2>1. IsFiniteSet(DOMAIN d \ {t})
        BY <1>2, FS_Difference
  <2> DEFINE F == [m \in DOMAIN d \ {t} |-> Opened(d, m)]
  <2>2. F \in [DOMAIN d \ {t} -> FileType]
        BY <1>17 DEF LoadedAs
  <2>3. {F[m] : m \in DOMAIN d \ {t}} = segments'
        BY <1>14
  <2> HIDE DEF F
  <2>4. IsFiniteSet({F[m] : m \in DOMAIN d \ {t}})
        BY <2>1, <2>2, FiniteImage
  <2> QED  BY <2>3, <2>4
<1>19. \A m \in DOMAIN d : m # t => \E f \in segments' : f.name = m
       BY <1>14, <1>17 DEF LoadedAs
<1>20. \A f \in segments' : /\ f.name \in DOMAIN d /\ f.name # t /\ LoadedAs(f, d, f.name)
                            /\ f = Opened(d, f.name)
       BY <1>14, <1>17 DEF LoadedAs
<1>21. \A f, g \in segments' : f.name = g.name => f = g
       BY <1>20
<1>22. \A m \in DOMAIN d : m <= z + 1 /\ (Len(d[m].index) > 0 => m <= z)
  <2>1. ASSUME NEW m \in DOMAIN d, Len(d[m].index) > 0 PROVE m <= z
    <3>1. m \in Nat /\ m <= t
          BY <2>1, <1>2, <1>5
    <3> QED  BY <3>1, <1>5, <1>7
  <2>2. ASSUME NEW m \in DOMAIN d, ~(Len(d[m].index) > 0) PROVE m <= z + 1
    <3>1. Len(d[m].index) = 0
          BY <2>2, <1>11
    <3>2. m = n /\ wn = 0
          BY <3>1, <1>3, <1>10
    <3> QED  BY <3>2, <1>5, <1>7
  <2>3. \A m \in DOMAIN d : m \in Nat
        BY <1>2
  <2> QED  BY <2>1, <2>2, <2>3
<1>23. l <= last' /\ last' = current'.last /\ Len(d[t].index) > 0
       BY <1>6, <1>7, <1>15
<1>24. t # n => Len(d[n].index) = 0
       BY <1>3, <1>5
<1>25. LoadedWith(d, n, l, t)
       BY <1>10, <1>14, <1>15, <1>16, <1>18, <1>19, <1>20, <1>21, <1>22, <1>23, <1>24 DEF LoadedWith
<1> QED  BY <1>25

LEMMA LoadFound ==
    ASSUME Fresh, Stops, acked # <<>>, writes \in Nat, NEW d, Left(d), Load(d),
           use = {"restart"} => d = disk,
           owed' = 0, loaded' = Len(acked), acked' = acked, setting' = setting,
           writes' \in {writes, writes + 1}
    PROVE  Found'
<1>1. /\ last \in Nat \ {0} /\ Len(acked) = last /\ IsOpen(current)
      /\ Legacy(d, current.name, last) /\ DOMAIN d = DOMAIN disk
      /\ Len(Data(current)) \in Nat /\ Len(Index(current)) = Len(Data(current))
      /\ current.name + Len(Data(current)) = last + 1
      BY LeftIs
<1>2. PICK l \in Nat \ {0} : l = last /\ l = Len(acked) /\ l = loaded'
      BY <1>1
<1>3. Sliced /\ First = 1
      BY DEF Fresh
<1>4. PICK n \in Nat \ {0} : n = current.name
      BY <1>1, <1>3, SlicedFacts
<1>5. /\ Legacy(d, n, l)
      /\ n \in DOMAIN d /\ DOMAIN d \subseteq Nat \ {0} /\ d \in [DOMAIN d -> FilesType]
      /\ n <= l + 1 /\ l + 1 <= n + Len(d[n].index)
      /\ \A k, m \in DOMAIN d : k < m => k + Len(d[k].data) <= m
      BY <1>1, <1>2, <1>4 DEF Legacy
<1>6. PICK t \in DOMAIN d : LoadedWith(d, n, l, t)
  <2>1. \E t \in DOMAIN d : LoadedWith(d, n, l, t)
        BY <1>5, LegacyLoads
  <2> QED  BY <2>1
<1>7. /\ disk' = d /\ LoadedAs(current', d, t) /\ last' = current'.last /\ l <= last'
      /\ Len(d[t].index) > 0
      /\ \A m \in DOMAIN d : m # t => \E f \in segments' : f.name = m
      /\ \A f \in segments' : f.name \in DOMAIN d /\ f.name # t /\ LoadedAs(f, d, f.name)
      /\ \A f, g \in segments' : f.name = g.name => f = g
      /\ \A m \in DOMAIN d : /\ m <= last' + 1
                             /\ Len(d[m].index) > 0 => m <= last'
                             /\ Len(d[m].index) = 0 => m = n
      /\ t # n => Len(d[n].index) = 0
      BY <1>6 DEF LoadedWith
\* What a file has.
<1>8. ASSUME NEW m \in DOMAIN d
      PROVE  \E w \in Nat, v \in Nat :
                /\ m \in Nat \ {0} /\ w = Len(d[m].index) /\ v = Len(d[m].data) /\ w <= v
                /\ m # n => w = v /\ 0 < v /\ m + v <= n
                /\ w = 0 => m = n /\ n = l + 1
                /\ m = n => l + 1 <= n + w
                /\ use = {"restart"} => w = v /\ (m = n => n + v = l + 1)
  <2>1. d[m].index \in Seq(SlotType) /\ d[m].data \in Seq(EntryType) /\ m \in Nat \ {0}
        BY <1>5 DEF FilesType
  <2>2. PICK w \in Nat, v \in Nat : w = Len(d[m].index) /\ v = Len(d[m].data)
        BY <2>1
  <2>3. w <= v /\ (m # n => w = v /\ 0 < v /\ m + v <= n)
        BY <1>5, <2>2 DEF Legacy
  <2>4. m = n => l + 1 <= n + w
        BY <1>5, <2>2
  <2>5. w = 0 => m = n /\ n = l + 1
        BY <2>3, <2>4, <1>5
  <2>6. ASSUME use = {"restart"} PROVE w = v /\ (m = n => n + v = l + 1)
    <3>1. d = disk
          BY <2>6
    <3>2. m = n => v = Len(Data(current)) /\ w = Len(Index(current))
          BY <3>1, <2>2, <1>4 DEF Data, Index
    <3>3. CASE m = n
          BY <3>2, <3>3, <1>1, <1>2, <1>4
    <3>4. CASE m # n
          BY <3>4, <2>3
    <3> QED  BY <3>3, <3>4
  <2> QED  BY <2>1, <2>2, <2>3, <2>4, <2>5, <2>6
<1>9. ASSUME NEW f \in Files'
      PROVE  /\ f.name \in DOMAIN d /\ LoadedAs(f, d, f.name) /\ f \in FileType
             /\ f = current' <=> f.name = t
             /\ f.start = 0 \/ f.start = f.name
             /\ f.start = 0 <=> Len(d[f.name].index) = 0
  <2>1. f.name \in DOMAIN d /\ LoadedAs(f, d, f.name) /\ f \in FileType
        BY <1>7 DEF Files, LoadedAs
  <2>2. f = current' <=> f.name = t
        BY <1>7 DEF Files, LoadedAs
  <2>3. f.name # 0
        BY <2>1, <1>5
  <2> QED  BY <2>1, <2>2, <2>3 DEF LoadedAs
<1>10. /\ current' \in Files' /\ current'.name = t /\ current'.start = t
       /\ \A m \in DOMAIN d : \E f \in Files' : f.name = m
       /\ \A f, g \in Files' : f.name = g.name => f = g
  <2>1. current' \in Files' /\ current'.name = t
        BY <1>7 DEF Files, LoadedAs
  <2>2. Len(d[t].index) # 0
        BY <1>7
  <2>3. current'.start = t
        BY <2>1, <2>2, <1>9
  <2>4. \A m \in DOMAIN d : \E f \in Files' : f.name = m
        BY <2>1, <1>7 DEF Files
  <2>5. \A f, g \in Files' : f.name = g.name => f = g
        BY <1>7, <1>9 DEF Files
  <2> QED  BY <2>1, <2>3, <2>4, <2>5
<1>11. Safe' = l /\ loaded' = l /\ Len(acked') = l /\ last' \in Nat
  <2>1. last' \in Nat
        BY <1>7 DEF LoadedAs, FileType
  <2> QED  BY <2>1, <1>2 DEF Safe
<1>12. \A f : Data(f)' = d[f.name].data /\ End(f)' = f.name + Len(d[f.name].data)
       BY <1>7 DEF Data, End
<1>13. FoundTypes'
  <2>1. acked' \in Seq(EntryType) /\ Len(acked') <= writes'
    <3>1. acked \in Seq(EntryType) /\ Len(acked) <= writes
          BY <1>3 DEF Sliced, PlainTypes
    <3>2. writes' \in Nat /\ writes <= writes'
          OBVIOUS
    <3> QED  BY <3>1, <3>2, <1>2
  <2>2. loaded' \in 1..Len(acked')
        BY <1>11
  <2>3. IsFiniteSet(segments')
        BY <1>6 DEF LoadedWith
  <2>4. \A f \in Files' : Sound(f)' /\ IsOpen(f)
        BY <1>5, <1>7, <1>9 DEF Sound, IsOpen
  <2>5. disk' \in [DOMAIN disk' -> FilesType] /\ DOMAIN disk' \subseteq Nat
        BY <1>5, <1>7
  <2> QED  BY <2>1, <2>2, <2>3, <2>4, <2>5, <1>7, <1>11 DEF FoundTypes
<1>14. Told'
  <2>1. \A m \in DOMAIN disk' : m <= last' + 1
        BY <1>7
  <2>2. current' \notin segments'
        BY <1>7, <1>10
  <2>3. ASSUME NEW f \in Files', NEW g \in Files', f.start = g.start
        PROVE  f = g \/ f.start = 0
    <3>1. f.start # 0 => f.name = g.name
          BY <2>3, <1>9
    <3> QED  BY <3>1, <1>10
  <2>4. ASSUME NEW f \in segments', NEW g \in segments', f.start = g.start PROVE f = g
    <3>1. f \in Files' /\ g \in Files'
          BY DEF Files
    <3>2. f.start = 0 => f.name = n /\ g.name = n
          BY <3>1, <2>4, <1>7, <1>9
    <3>3. f.start # 0 => f.name = g.name
          BY <3>1, <2>4, <1>9
    <3> QED  BY <3>1, <3>2, <3>3, <1>10
  <2>5. ASSUME NEW f \in Files' PROVE f.start <= last' /\ (f.start = 0 => f.last = 0)
    <3>1. PICK w \in Nat : w = Len(d[f.name].index)
          BY <1>8, <1>9
    <3>2. CASE w = 0
      <4>1. f.start = 0 /\ f.last = 0
            BY <3>1, <3>2, <1>9 DEF LoadedAs
      <4> QED  BY <4>1, <1>11
    <3>3. CASE w # 0
      <4>1. f.start = f.name /\ f.start # 0
            BY <3>1, <3>3, <1>9
      <4>2. f.name <= last'
            BY <3>1, <3>3, <1>7, <1>9
      <4> QED  BY <4>1, <4>2
    <3> QED  BY <3>2, <3>3
  <2> QED  BY <2>1, <2>2, <2>3, <2>4, <2>5, <1>10 DEF Told, Apart
\* A tile is a file that has a slot, and a name among the entries.
<1>15. ASSUME NEW f \in Tiles'
       PROVE  /\ f \in Files' /\ f.name \in DOMAIN d /\ f.start = f.name
              /\ f.name \in 1..l /\ Len(d[f.name].index) # 0
  <2>1. f \in Files' /\ f.start \in 1..l
        BY <1>11 DEF Tiles
  <2>2. f.start # 0
        BY <2>1
  <2> QED  BY <2>1, <2>2, <1>9
<1>16. ASSUME NEW f \in Tiles'
       PROVE  Tile(f)' /\ (use = {"restart"} => f.last = End(f)' - 1 /\ End(f)' <= l + 1)
  <2>1. PICK m \in DOMAIN d : m = f.name /\ f.start = m /\ m \in 1..l /\ m \in Nat \ {0}
        BY <1>5, <1>15
  <2>2. PICK w \in Nat, v \in Nat :
           /\ w = Len(d[m].index) /\ v = Len(d[m].data) /\ w <= v /\ w # 0
           /\ m # n => w = v /\ 0 < v /\ m + v <= n
           /\ m = n => l + 1 <= n + w
           /\ use = {"restart"} => w = v /\ (m = n => n + v = l + 1)
        BY <1>8, <1>15, <2>1
  <2>3. f.last = m + w - 1
        BY <2>1, <2>2, <1>9, <1>15 DEF LoadedAs
  <2>4. Data(f)' = d[m].data /\ End(f)' = m + v
        BY <1>12, <2>1, <2>2
  <2>5. \A q \in 1..v : m - 1 + q <= l => d[m].data[q] = acked[m - 1 + q]
        BY <1>5, <2>2 DEF Legacy
  <2>6. ASSUME m + v <= l PROVE f # current' /\ f.last = m + v - 1
    <3>1. m # n
          BY <2>1, <2>2, <2>6
    <3>2. w = v
          BY <3>1, <2>2
    <3>3. f # current'
      <4> SUFFICES ASSUME f = current' PROVE FALSE
          OBVIOUS
      <4>1. last' = m + w - 1
            BY <2>3, <1>7
      <4> QED  BY <4>1, <3>2, <2>1, <2>6, <1>7
    <3> QED  BY <3>2, <3>3, <2>3
  <2>7. f.start <= f.last
        BY <2>1, <2>2, <2>3
  <2>8. Tile(f)'
        BY <2>1, <2>2, <2>4, <2>5, <2>6, <2>7, <1>2, <1>11 DEF Tile
  <2>9. use = {"restart"} => f.last = End(f)' - 1 /\ End(f)' <= l + 1
    <3>1. m + v <= l + 1 \/ m = n
          BY <2>1, <2>2, <1>5
    <3>2. PICK e \in Nat : e = m + v /\ e = End(f)'
          BY <2>1, <2>4
    <3>3. ASSUME use = {"restart"} PROVE m + w - 1 = e - 1 /\ e <= l + 1
      <4>1. w = v /\ (m = n => n + v = l + 1)
            BY <3>3, <2>2
      <4>2. m + v <= l + 1
            BY <3>1, <4>1
      <4> QED  BY <2>1, <3>2, <4>1, <4>2
    <3> QED  BY <3>2, <3>3, <2>3
  <2> QED  BY <2>8, <2>9
<1>17. Covered'
  <2>1. ASSUME NEW f \in Tiles', NEW g \in Tiles', f.start < g.start
        PROVE  End(f)' <= g.start
    <3>1. f.name \in DOMAIN d /\ g.name \in DOMAIN d /\ f.name < g.name
          BY <2>1, <1>15
    <3>2. f.name + Len(d[f.name].data) <= g.name
          BY <3>1, <1>5
    <3> QED  BY <3>2, <1>12, <1>15
  <2>2. ASSUME NEW k \in 1..l PROVE \E f \in Tiles' : f.start <= k /\ k < End(f)'
    <3>1. PICK m \in DOMAIN d : m <= k /\ k < m + Len(d[m].data)
          BY <1>5 DEF Legacy
    <3>2. PICK f \in Files' : f.name = m
          BY <1>10
    <3>3. PICK w \in Nat : m \in Nat \ {0} /\ w = Len(d[m].index) /\ (w = 0 => m = l + 1)
          BY <1>8
    <3>4. w # 0
          BY <3>1, <3>3
    <3>5. f.start = m
          BY <3>2, <3>3, <3>4, <1>9
    <3>6. f.start \in 1..l
          BY <3>1, <3>3, <3>5
    <3>7. f \in Tiles'
          BY <3>2, <3>6, <1>11 DEF Tiles
    <3> QED  BY <3>1, <3>2, <3>5, <3>7, <1>12
  <2> QED  BY <2>1, <2>2, <1>11, <1>16 DEF Covered
<1>18. Clean'
  <2> SUFFICES ASSUME use = {"restart"}
               PROVE  /\ last' = Len(acked') /\ \A k \in DOMAIN acked' : acked'[k].index = k
                      /\ \A f \in Tiles' : f.last = End(f)' - 1 /\ End(f)' <= last' + 1
                      /\ End(current)' = last' + 1
                      /\ current'.start = 0 => Data(current)' = <<>>
      BY DEF Clean, use
  <2>1. PICK w \in Nat, v \in Nat :
           /\ w = Len(d[t].index) /\ v = Len(d[t].data) /\ w = v /\ t \in Nat \ {0}
           /\ t # n => t + v <= n
           /\ t = n => n + v = l + 1
        BY <1>8
  <2>2. last' = t + w - 1 /\ w # 0
    <3>1. w # 0
          BY <2>1, <1>7
    <3>2. current'.last = t + w - 1
          BY <3>1, <2>1, <1>7 DEF LoadedAs
    <3> QED  BY <3>1, <3>2, <1>7
  <2>3. last' = l
    <3>1. CASE t = n
          BY <3>1, <2>1, <2>2
    <3>2. CASE t # n
      <4>1. Len(d[n].index) = 0
            BY <3>2, <1>7
      <4>2. PICK a \in Nat : a = Len(d[n].index) /\ (a = 0 => n = l + 1)
            BY <1>5, <1>8
      <4>3. n = l + 1 /\ t + w <= n
            BY <4>1, <4>2, <3>2, <2>1
      <4>4. l <= t + w - 1
            BY <2>2, <1>7
      <4> QED  BY <4>3, <4>4, <2>1, <2>2
    <3> QED  BY <3>1, <3>2
  <2>4. End(current)' = t + v
    <3>1. End(current)' = current'.name + Len(d[current'.name].data)
          BY <1>7 DEF End, Data
    <3> QED  BY <3>1, <2>1, <1>10
  <2>5. End(current)' = last' + 1
        BY <2>1, <2>2, <2>4
  <2>6. \A k \in DOMAIN acked' : acked'[k].index = k
    <3>1. acked \in Seq(EntryType) /\ \A k \in DOMAIN acked : acked[k].index = First + k - 1
          BY <1>3 DEF Sliced, PlainTypes, Numbered
    <3>2. \A k \in DOMAIN acked : First + k - 1 = k
          BY <1>3, <3>1
    <3> QED  BY <3>1, <3>2
  <2>7. current'.start # 0
        BY <1>10, <2>1
  <2> QED  BY <2>3, <2>5, <2>6, <2>7, <1>11, <1>16
<1> QED  BY <1>13, <1>14, <1>17, <1>18 DEF Found

LEMMA AppendIs ==
    ASSUME NEW S, NEW x \in Seq(S), NEW e \in S, NEW v \in Nat, v = Len(x)
    PROVE  /\ Append(x, e) \in Seq(S) /\ Len(Append(x, e)) = v + 1 /\ Append(x, e)[v + 1] = e
           /\ \A q \in 1..v : Append(x, e)[q] = x[q]
OBVIOUS

\* What a crash inside write leaves, too.
LEMMA CrashLeaves ==
    ASSUME Fresh, acked # <<>>, writes \in Nat, NEW i \in Nat \ {0}, i = last + 1
    PROVE  /\ Left(disk) /\ Created(disk, Target(i).name) = disk
           /\ Left(DataWritten(i)) /\ Left(Written(i))
<1>1. Sliced /\ owed = 0 /\ IsOpen(current)
  <2>1. Sliced /\ owed = 0
        BY DEF Fresh
  <2>2. IsOpen(current)
        BY <2>1 DEF Sliced, OnDisk
  <2> QED  BY <2>1, <2>2
<1>2. Target(i) = current /\ i = NextIndex
      BY <1>1 DEF Target, NextIndex
<1>3. PICK n \in Nat \ {0} : n = current.name /\ n \in DOMAIN disk /\ current \in OpenFiles
      BY <1>1, SlicedFacts
<1>4. /\ disk \in [DOMAIN disk -> FilesType] /\ disk[n] \in FilesType
      /\ Created(disk, n) = disk /\ Old(i) = disk[n] /\ current \in FileType
      BY <1>1, <1>2, <1>3 DEF Created, Old, Sliced, PlainTypes
<1>5. PICK x \in Seq(EntryType), y \in Seq(SlotType) :
         disk[n] = [data |-> x, index |-> y] /\ x = Data(current) /\ y = Index(current)
  <2>1. PICK x \in Seq(EntryType), y \in Seq(SlotType) : disk[n] = [data |-> x, index |-> y]
        BY <1>4 DEF FilesType
  <2>2. x = Data(current) /\ y = Index(current)
        BY <2>1, <1>3 DEF Data, Index
  <2> QED  BY <2>1, <2>2
<1>6. PICK v \in Nat : v = Len(x) /\ v = Len(y) /\ v = current.at /\ n + v = i
                       /\ \A q \in 1..v : y[q].index = n + q - 1
  <2>1. Slice(current) /\ End(current) = NextIndex
        BY <1>1, <1>3 DEF Sliced, CurrentFits
  <2>2. Len(x) \in Nat
        OBVIOUS
  <2> QED  BY <2>1, <2>2, <1>2, <1>3, <1>5 DEF Slice, End
<1>7. PICK e \in EntryType, s \in SlotType : e = Entry(i) /\ s = NewSlot(i) /\ s.index = i
  <2>1. Entry(i) \in EntryType /\ NewSlot(i) \in SlotType
        BY <1>2, <1>3, <1>4, WriteOne
  <2>2. NewSlot(i).index = i
        BY DEF NewSlot
  <2> QED  BY <2>1, <2>2
<1>8. NewIndex(i) = Append(y, s)
  <2>1. ~(current.at < Len(Old(i).index)) /\ Old(i).index = y
    <3>1. Old(i).index = y
          BY <1>4, <1>5
    <3>2. ~(current.at < Len(y))
      <4>1. current.at = v /\ Len(y) = v
            BY <1>6
      <4> QED  BY <4>1
    <3> QED  BY <3>1, <3>2
  <2> QED  BY <2>1, <1>2, <1>7 DEF NewIndex
<1>9. /\ DataWritten(i) = [disk EXCEPT ![n] = [data |-> Append(x, e), index |-> y]]
      /\ Written(i) = [disk EXCEPT ![n] = [data |-> Append(x, e), index |-> Append(y, s)]]
  <2>1. Old(i).data = x /\ Old(i).index = y
        BY <1>4, <1>5
  <2>2. /\ Old(i) \in FilesType /\ Target(i) \in FileType /\ Target(i).name = n
        /\ Target(i).name \in DOMAIN Created(disk, Target(i).name)
        BY <1>2, <1>3, <1>4
  <2>3. /\ DataWritten(i) = [disk EXCEPT ![n] =
              [data |-> Append(Old(i).data, Entry(i)), index |-> Old(i).index]]
        /\ Written(i) = [disk EXCEPT ![n] =
              [data |-> Append(Old(i).data, Entry(i)), index |-> NewIndex(i)]]
        BY <2>2, <1>4, WriteOne
  <2> QED  BY <2>1, <2>3, <1>7, <1>8
<1>a. /\ Append(x, e) \in Seq(EntryType) /\ Len(Append(x, e)) = v + 1
      /\ \A q \in 1..v : Append(x, e)[q] = x[q]
  <2>1. x \in Seq(EntryType) /\ e \in EntryType /\ v \in Nat /\ v = Len(x)
        BY <1>5, <1>6, <1>7
  <2> QED  BY <2>1, AppendIs
<1>b. /\ Append(y, s) \in Seq(SlotType) /\ Len(Append(y, s)) = v + 1
      /\ Append(y, s)[v + 1] = s /\ \A q \in 1..v : Append(y, s)[q] = y[q]
  <2>1. y \in Seq(SlotType) /\ s \in SlotType /\ v \in Nat /\ v = Len(y)
        BY <1>5, <1>6, <1>7
  <2> QED  BY <2>1, AppendIs
\* A record more, and its slot or not.
<1>10. ASSUME NEW p \in Seq(EntryType), NEW z \in Seq(SlotType), NEW d,
              d = [disk EXCEPT ![n] = [data |-> p, index |-> z]],
              p = x \/ p = Append(x, e), z = y \/ z = Append(y, s), Len(z) <= Len(p)
       PROVE  Left(d)
  <2>1. PICK r : r = [data |-> p, index |-> z] /\ r \in FilesType
    <3>1. [data |-> p, index |-> z] \in FilesType
          BY DEF FilesType
    <3> QED  BY <3>1
  <2>2. d \in [DOMAIN disk -> FilesType] /\ d[n] = r /\ \A m \in DOMAIN disk : m # n => d[m] = disk[m]
    <3>1. d = [disk EXCEPT ![n] = r]
          BY <2>1, <1>10
    <3> QED  BY <3>1, <2>1, <1>3, <1>4
  <2>3. d[n].data = p /\ d[n].index = z
        BY <2>1, <2>2
  <2>4. \A q \in 1..v : p[q] = x[q]
    <3>1. CASE p = x
          BY <3>1
    <3>2. CASE p = Append(x, e)
          BY <3>2, <1>a
    <3> QED  BY <3>1, <3>2, <1>10
  <2>5. v <= Len(z) /\ \A q \in 1..Len(z) : z[q].index = n + q - 1
    <3>1. CASE z = y
          BY <3>1, <1>6
    <3>2. CASE z = Append(y, s)
      <4>1. Len(z) = v + 1
            BY <3>2, <1>b
      <4>2. ASSUME NEW q \in 1..v + 1 PROVE z[q].index = n + q - 1
        <5>1. CASE q = v + 1
          <6>1. z[q] = s
                BY <5>1, <3>2, <1>b
          <6> QED  BY <6>1, <5>1, <1>6, <1>7
        <5>2. CASE q # v + 1
          <6>1. q \in 1..v
                BY <5>2
          <6>2. z[q] = y[q]
                BY <6>1, <3>2, <1>b
          <6> QED  BY <6>1, <6>2, <1>6
        <5> QED  BY <5>1, <5>2
      <4> QED  BY <4>1, <4>2
    <3> QED  BY <3>1, <3>2, <1>10
  <2> QED  BY <2>2, <2>3, <2>4, <2>5, <1>3, <1>5, <1>6, <1>10 DEF Left
<1>11. Left(disk)
  <2>1. disk[n].data = x /\ disk[n].index = y
        BY <1>5
  <2>2. /\ Len(x) <= Len(y) /\ Len(y) <= Len(x)
        /\ \A q \in 1..Len(y) : y[q].index = n + q - 1
    <3>1. Len(x) = v /\ Len(y) = v
          BY <1>6
    <3> QED  BY <3>1, <1>6
  <2> QED  BY <2>1, <2>2, <1>3, <1>4, <1>5 DEF Left
<1>12. Left(DataWritten(i))
  <2>1. Append(x, e) \in Seq(EntryType) /\ Len(y) <= Len(Append(x, e))
        BY <1>6, <1>a
  <2> QED  BY <2>1, <1>9, <1>10
<1>13. Left(Written(i))
  <2>1. /\ Append(x, e) \in Seq(EntryType) /\ Append(y, s) \in Seq(SlotType)
        /\ Len(Append(y, s)) <= Len(Append(x, e))
        BY <1>a, <1>b
  <2> QED  BY <2>1, <1>9, <1>10
<1> QED  BY <1>2, <1>3, <1>4, <1>11, <1>12, <1>13

LEMMA FoundLoaded ==
    ASSUME Fresh, Stops, Counted, acked # <<>>, Restart \/ Crash
    PROVE  Found'
<1>1. owed = 0 /\ last \in Nat /\ writes \in Nat
      BY DEF Fresh, Counted, Sliced, PlainTypes
<1>2. PICK i \in Nat \ {0} : i = last + 1
      BY <1>1
<1>3. /\ Left(disk) /\ Created(disk, Target(i).name) = disk
      /\ Left(DataWritten(i)) /\ Left(Written(i))
      BY <1>1, <1>2, CrashLeaves
<1>4. CASE Restart
      BY <1>1, <1>3, <1>4, LoadFound DEF Restart
<1>5. CASE Crash
  <2>1. use # {"restart"}
    <3>1. "crash" \in use
          BY <1>5 DEF Crash
    <3> QED  BY <3>1
  <2>2. /\ owed' = 0 /\ loaded' = Len(acked) /\ acked' = acked /\ setting' = setting
        /\ writes' = writes + 1
        /\ Load(disk) \/ Load(DataWritten(i)) \/ Load(Written(i))
    <3>1. (IF owed # 0 THEN owed ELSE last + 1) = i
          BY <1>1, <1>2
    <3> QED  BY <3>1, <1>3, <1>5 DEF Crash
  <2>3. PICK d : Left(d) /\ Load(d)
        BY <2>2, <1>3
  <2> QED  BY <2>1, <2>2, <2>3, <1>1, LoadFound
<1> QED  BY <1>4, <1>5

-----------------------------------------------------------------------------
(* Before it is stopped the log is as above; so it is after, if it was empty. *)

LEMMA FreshInit == Init => FreshInv /\ FoundInv
<1> SUFFICES ASSUME Init PROVE FreshInv /\ FoundInv
    OBVIOUS
<1>1. /\ current = Closed /\ last = 0 /\ acked = <<>> /\ cut = {} /\ owed = 0 /\ loaded = 0
      /\ restarts = 0
      BY DEF Init
<1>2. FoundInv
      BY <1>1 DEF FoundInv
<1>3. ASSUME Stops PROVE Sliced
  <2>1. Plain
        BY <1>1, <1>3 DEF Plain, Stops
  <2> QED  BY <2>1, PlainInit DEF PlainInv
<1>4. First = 1
      BY <1>1 DEF First, NextIndex
<1> QED  BY <1>1, <1>2, <1>3, <1>4 DEF FreshInv, Fresh

\* Starting without files is like the first start.
LEMMA EmptyLoaded ==
    ASSUME Fresh, Counted, acked = <<>>, Restart
    PROVE  Fresh'
<1>1. Sliced /\ current = Closed /\ cut = {}
      BY DEF Fresh
<1>2. /\ Load(disk) /\ owed' = 0 /\ loaded' = Len(acked) /\ acked' = acked /\ cut' = cut
      /\ writes' = writes /\ writes \in Nat
      BY DEF Restart, Counted
<1>3. disk = <<>>
  <2>1. OpenFiles = {}
        BY <1>1 DEF Sliced, OnDisk, OpenFiles, Files, IsOpen, Closed
  <2>2. DOMAIN disk = {} /\ disk \in [DOMAIN disk -> FilesType]
        BY <1>1, <2>1 DEF Sliced, OnDisk, PlainTypes
  <2> QED  BY <2>2
<1>4. /\ disk' = <<>> /\ current' = Closed /\ segments' = {} /\ last' = 0
      /\ owed' = 0 /\ acked' = <<>> /\ cut' = {} /\ loaded' = 0
      BY <1>1, <1>2, <1>3 DEF Load
<1>5. OpenFiles' = {} /\ NextIndex' = 1 /\ First' = 1
  <2>1. OpenFiles' = {}
        BY <1>4 DEF OpenFiles, Files, IsOpen, Closed
  <2>2. NextIndex' = 1
        BY <1>4 DEF NextIndex
  <2>3. First' = NextIndex' - Len(acked')
        BY DEF First
  <2> QED  BY <2>1, <2>2, <2>3, <1>4
<1>6. PlainTypes'
  <2>1. disk' \in [DOMAIN disk' -> FilesType]
        BY <1>4
  <2>2. acked' \in Seq(EntryType) /\ Len(acked') <= writes'
        BY <1>2, <1>4
  <2>3. IsFiniteSet(segments')
        BY <1>4, FS_EmptySet
  <2>4. current' \in FileType
        BY <1>4 DEF Closed, FileType
  <2> QED  BY <2>1, <2>2, <2>3, <2>4, <1>4, <1>5 DEF PlainTypes
<1>7. Sliced'
  <2>1. ~IsOpen(current)' /\ DOMAIN disk' = {}
        BY <1>4 DEF IsOpen, Closed
  <2>2. OnDisk' /\ CurrentFits'
        BY <2>1, <1>4, <1>5 DEF OnDisk, CurrentFits
  <2>3. Numbered'
        BY <1>4, <1>5 DEF Numbered
  <2>4. Tiled'
    <3>1. \A k \in First' .. NextIndex' - 1 : FALSE
          BY <1>5
    <3> QED  BY <3>1, <1>5 DEF Tiled
  <2> QED  BY <2>2, <2>3, <2>4, <1>4, <1>5, <1>6 DEF Sliced
<1> QED  BY <1>4, <1>5, <1>7 DEF Fresh

LEMMA FreshWrite ==
    ASSUME Fresh, Counted, WriteEntry
    PROVE  Fresh'
<1>1. Sliced /\ owed = 0 /\ cut = {} /\ loaded = 0 /\ First = 1
      BY DEF Fresh
<1>2. last \in Nat /\ acked \in Seq(EntryType)
      BY <1>1 DEF Sliced, PlainTypes
<1>3. /\ owed' = 0 /\ cut' = cut /\ loaded' = loaded /\ last' = last + 1
      /\ acked' = Append(acked, Entry(last + 1))
      BY <1>1 DEF WriteEntry, Write
<1>4. Entry(last + 1) \in EntryType
  <2>1. writes + 1 \in Nat \ {0} /\ last + 1 \in Nat \ {0}
        BY <1>2 DEF Counted
  <2> QED  BY <2>1 DEF Entry, EntryType
<1>5. PICK L \in Nat : L = Len(acked) /\ (last + 1) - L = 1
  <2>1. Len(acked) \in Nat /\ NextIndex = last + 1
        BY <1>1, <1>2 DEF NextIndex
  <2> QED  BY <2>1, <1>1 DEF First
<1>6. Len(acked') = L + 1 /\ acked' # <<>>
  <2>1. Len(acked') = L + 1
        BY <1>2, <1>3, <1>4, <1>5, AppendIs
  <2> QED  BY <2>1
<1>7. First' = 1
  <2>1. NextIndex' = last' + 1
        BY <1>3 DEF NextIndex
  <2>2. First' = NextIndex' - Len(acked')
        BY DEF First
  <2> QED  BY <2>1, <2>2, <1>2, <1>3, <1>5, <1>6
<1>8. Sliced'
      BY <1>1, PlainWrite
<1> QED  BY <1>1, <1>3, <1>6, <1>7, <1>8 DEF Fresh

LEMMA StopsNext ==
    ASSUME Counted, FreshInv, FoundInv, [Next]_vars
    PROVE  FreshInv' /\ FoundInv'
<1>1. setting' = setting /\ restarts \in Nat
      BY DEF Next, WriteEntry, Read, Restart, Crash, DropPrefix, DropSuffix, Clear,
             vars, history, Counted
<1>2. use' = use
      BY <1>1 DEF use
<1> SUFFICES ASSUME Stops PROVE FreshInv' /\ FoundInv'
    BY <1>2 DEF FreshInv, FoundInv, Stops
<1>3. NothingLoaded => Fresh
      BY DEF FreshInv
<1>4. restarts = 1 /\ loaded # 0 => Found
      BY DEF FoundInv
<1>5. CASE WriteEntry
  <2>1. restarts' = restarts /\ loaded' = loaded
        BY <1>5 DEF WriteEntry
  <2>2. NothingLoaded' => Fresh'
        BY <2>1, <1>2, <1>3, <1>5, FreshWrite DEF NothingLoaded
  <2>3. restarts' = 1 /\ loaded' # 0 => Found'
        BY <2>1, <1>4, <1>5, FoundWrite
  <2> QED  BY <2>2, <2>3 DEF FreshInv, FoundInv
<1>6. CASE Read
  <2>1. restarts' = restarts /\ loaded' = loaded
        BY <1>6 DEF Read, history
  <2>2. ~NothingLoaded
    <3> SUFFICES ASSUME NothingLoaded PROVE FALSE
        OBVIOUS
    <3>1. Sliced
          BY <1>3 DEF Fresh
    <3>2. IsOpen(current) /\ current.at < Len(disk[current.name].index)
          BY <1>6 DEF Read
    <3>3. current.at = Len(Index(current)) /\ Len(Index(current)) \in Nat
          BY <3>1, <3>2, SlicedFacts DEF Sliced, Slice
    <3> QED  BY <3>2, <3>3 DEF Index
  <2>3. ~NothingLoaded'
        BY <2>1, <2>2, <1>2 DEF NothingLoaded
  <2>4. restarts' = 1 /\ loaded' # 0 => Found'
        BY <2>1, <1>4, <1>6, FoundRead
  <2> QED  BY <2>3, <2>4 DEF FreshInv, FoundInv
<1>7. CASE Restart \/ Crash
  <2>1. restarts' = restarts + 1 /\ loaded' = Len(acked)
        BY <1>7 DEF Restart, Crash
  <2>2. ASSUME restarts' = 1 PROVE Fresh
    <3>1. restarts = 0
          BY <2>1, <2>2, <1>1
    <3> QED  BY <3>1, <1>3 DEF NothingLoaded
  <2>3. ASSUME NothingLoaded' PROVE Fresh'
    <3>1. restarts' = 1 /\ loaded' = 0 /\ use = {"restart"}
      <4>1. restarts' # 0
            BY <2>1, <1>1
      <4> QED  BY <4>1, <2>3, <1>2 DEF NothingLoaded
    <3>2. Fresh
          BY <3>1, <2>2
    <3>3. acked = <<>>
      <4>1. acked \in Seq(EntryType)
            BY <3>2 DEF Fresh, Sliced, PlainTypes
      <4> QED  BY <4>1, <3>1, <2>1, EmptySeq
    <3>4. Restart
          BY <3>1, <1>7 DEF Crash
    <3> QED  BY <3>2, <3>3, <3>4, EmptyLoaded
  <2>4. ASSUME restarts' = 1, loaded' # 0 PROVE Found'
    <3>1. Fresh /\ acked # <<>>
          BY <2>1, <2>2, <2>4
    <3> QED  BY <3>1, <1>7, FoundLoaded
  <2> QED  BY <2>3, <2>4 DEF FreshInv, FoundInv
<1>8. CASE DropPrefix \/ DropSuffix \/ Clear
      BY <1>8 DEF DropPrefix, DropSuffix, Clear, Stops
<1>9. CASE UNCHANGED vars
  <2>1. /\ disk' = disk /\ current' = current /\ segments' = segments /\ last' = last
        /\ setting' = setting /\ owed' = owed /\ acked' = acked /\ cut' = cut
        /\ loaded' = loaded /\ writes' = writes /\ restarts' = restarts
        BY <1>9 DEF vars, state, history
  <2>2. NothingLoaded' => NothingLoaded
        BY <2>1, <1>2 DEF NothingLoaded
  <2>3. Fresh => Fresh'
        BY <2>1 DEF Fresh, Sliced, PlainTypes, Numbered, OnDisk, CurrentFits,
           Tiled, Slice, ClosedFits, OpenFiles, Files, End, Data, Index, NextIndex, First, Sound
  <2>4. Found => Found'
        BY <2>1, <1>2 DEF Found, FoundTypes, Told, Covered, Clean, Tile, Tiles, Safe,
           Files, End, Data, Sound
  <2> QED  BY <2>1, <2>2, <2>3, <2>4, <1>3, <1>4 DEF FreshInv, FoundInv
<1> QED  BY <1>5, <1>6, <1>7, <1>8, <1>9 DEF Next

LEMMA StopsAlways == Spec => [](Counted /\ FreshInv /\ FoundInv)
<1>1. Init => Counted /\ FreshInv /\ FoundInv
      BY CountedInit, FreshInit
<1>2. Counted /\ FreshInv /\ FoundInv /\ [Next]_vars => (Counted /\ FreshInv /\ FoundInv)'
      BY CountedNext, StopsNext
<1> QED  BY <1>1, <1>2, PTL DEF Spec

\* AckedAreFound: after one stop and restart between two calls, every entry is
\* read, written before it or after it, and the indexes only grow.
THEOREM FilelogAckedAreFound == Spec => []AckedAreFound
<1>1. Counted /\ FreshInv /\ FoundInv => AckedAreFound
  <2> SUFFICES ASSUME Counted, FreshInv, FoundInv, use = {"restart"}, restarts <= 1
               PROVE  /\ ToSet(acked) \subseteq ToSet(Entries)
                      /\ \A j, k \in DOMAIN acked : j < k => acked[j].index < acked[k].index
      BY DEF AckedAreFound
  <2>1. Stops /\ restarts \in {0, 1} /\ writes \in Nat
        BY DEF Stops, Counted
  <2>2. NothingLoaded \/ (restarts = 1 /\ loaded # 0)
        BY <2>1 DEF NothingLoaded
  <2>3. CASE Fresh
    <3>1. Sliced /\ First = 1 /\ acked \in Seq(EntryType)
          BY <2>3 DEF Fresh, Sliced, PlainTypes
    <3>2. Entries = acked
          BY <3>1, <2>1, EntriesAreAcked
    <3>3. \A k \in DOMAIN acked : k \in Nat /\ acked[k].index = k
      <4>1. \A k \in DOMAIN acked : k \in Nat /\ acked[k].index = First + k - 1
            BY <3>1 DEF Sliced, Numbered
      <4> QED  BY <4>1, <3>1
    <3> QED  BY <3>2, <3>3
  <2>4. CASE Found
    <3>1. acked \in Seq(EntryType) /\ DOMAIN acked = 1..Len(acked)
          BY <2>4 DEF Found, FoundTypes
    <3>2. Safe = Len(acked)
          BY DEF Safe
    <3>3. \A k \in DOMAIN acked : acked[k] \in ToSet(Entries)
          BY <3>1, <3>2, <2>1, <2>4, SafeAreRead
    <3>4. \A k \in DOMAIN acked : k \in Nat /\ acked[k].index = k
          BY <3>1, <2>4 DEF Found, Clean
    <3>5. ToSet(acked) \subseteq ToSet(Entries)
      <4>1. ASSUME NEW e \in ToSet(acked) PROVE \E k \in DOMAIN acked : e = acked[k]
            BY DEF ToSet
      <4> QED  BY <4>1, <3>3
    <3> QED  BY <3>4, <3>5
  <2> QED  BY <2>1, <2>2, <2>3, <2>4 DEF FreshInv, FoundInv
<1> QED  BY <1>1, StopsAlways, PTL

\* AckedSurvive: the entries that were written before the process died inside
\* write are read when it has started again, whatever is written behind them.
THEOREM FilelogAckedSurvive == Spec => []AckedSurvive
<1>1. Counted /\ FreshInv /\ FoundInv => AckedSurvive
  <2> SUFFICES ASSUME Counted, FreshInv, FoundInv, use = {"crash"}, restarts <= 1
               PROVE  ToSet(SubSeq(acked, 1, loaded)) \subseteq ToSet(Entries)
      BY DEF AckedSurvive
  <2>1. Stops /\ restarts \in {0, 1} /\ writes \in Nat /\ use # {"restart"}
        BY DEF Stops, Counted
  <2>2. CASE loaded = 0
    <3>1. SubSeq(acked, 1, loaded) = <<>>
          BY <2>2, SubSeqEmpty
    <3>2. ToSet(<<>>) = {}
          BY DEF ToSet
    <3> QED  BY <3>1, <3>2
  <2>3. CASE Found
    <3>1. PICK m \in Nat \ {0} : m = loaded /\ m = Safe /\ m <= Len(acked)
          BY <2>1, <2>3, FoundFacts DEF Safe
    <3>2. acked \in Seq(EntryType)
          BY <2>3 DEF Found, FoundTypes
    <3>3. PICK n \in Nat \ {0} : n = 1
          OBVIOUS
    <3>4. PICK s : s = SubSeq(acked, n, m)
          OBVIOUS
    <3>5. s \in Seq(EntryType) /\ Len(s) = m - n + 1 /\ \A k \in 1..m - n + 1 : s[k] = acked[n + k - 1]
      <4>1. n <= m + 1
            BY <3>3
      <4> QED  BY <4>1, <3>1, <3>2, <3>4, PartTaken
    <3>6. m - n + 1 = m /\ \A k \in 1..m : n + k - 1 = k
          BY <3>3
    <3>7. DOMAIN s = 1..m /\ \A k \in 1..m : s[k] = acked[k]
          BY <3>5, <3>6
    <3>8. \A k \in 1..m : acked[k] \in ToSet(Entries)
          BY <3>1, <2>1, <2>3, SafeAreRead
    <3>9. ToSet(s) \subseteq ToSet(Entries)
      <4>1. ASSUME NEW e \in ToSet(s) PROVE \E k \in DOMAIN s : e = s[k]
            BY DEF ToSet
      <4> QED  BY <4>1, <3>7, <3>8
    <3> QED  BY <3>1, <3>3, <3>4, <3>9
  <2>4. loaded = 0 \/ Found
    <3>1. restarts = 0 => Fresh
          BY <2>1 DEF FreshInv, NothingLoaded
    <3> QED  BY <3>1, <2>1 DEF FoundInv, Fresh
  <2> QED  BY <2>2, <2>3, <2>4
<1> QED  BY <1>1, StopsAlways, PTL
=============================================================================
