----------------------- MODULE SnapshotTransferProofs -----------------------
(***************************************************************************)
(* Theorems about SnapshotTransfer, for every size of the files, the chunk   *)
(* and the head, every position of the two logs and every bound.             *)
(*                                                                          *)
(* Whole is inductive with no word on the order of what happens: a request,  *)
(* however late, carries the pieces of one snapshot from its offset on, so    *)
(* what the follower has collected are pieces 1 .. n, each of some snapshot.  *)
(* It gives InstalledIsWhole.  Ordered adds what holds while no call is       *)
(* handled late: the follower's log is what is behind its snapshot, and       *)
(* neither the chunks under way nor those collected are of a snapshot behind  *)
(* what it holds.  It gives MatchIsStored and StoredStays.                    *)
(***************************************************************************)
EXTENDS SnapshotTransfer, SequenceTheorems, TLAPS

\* The pieces of snapshot s that a chunk at this offset carries.
Pieces(s, offset) == SubSeq(File(s), offset + 1, Min({fileSize, offset + ChunkSize}))

\* A request to install a part of a snapshot, as the peer thread makes it.
ChunkOK(req) ==
    /\ req.snap \in FirstSnapshot .. snap /\ req.offset \in Nat
    /\ req.data = Pieces(req.snap, req.offset)
    /\ req.done <=> Len(req.data) # ChunkSize
    /\ made = 0 => req.snap = FirstSnapshot

\* The leader's snapshots only move on, and never pass its log.
SizesOK ==
    /\ fileSize \in Nat \ {0} /\ made \in Nat
    /\ snap \in Nat /\ last \in Nat /\ FirstSnapshot <= snap /\ snap <= last
    /\ made = 0 => snap = FirstSnapshot

\* The peer thread reads a snapshot that the leader has made.
ReaderOK ==
    /\ reader \in [snap : Nat, at : Nat] /\ reader.snap <= snap
    /\ pc = "transfer" \/ call.req.type = "chunk" => FirstSnapshot <= reader.snap
    /\ made = 0 => reader.snap \in {0, FirstSnapshot}
    /\ call.req.type = "chunk" /\ call.resp # None => call.resp.stored \in Nat

\* What the follower may be given to handle.
Requests == late \union {call.req}
RequestsOK == \A req \in Requests : req.type = "chunk" => ChunkOK(req)

\* What the follower has collected: the pieces of a file from the first on, each
\* of a snapshot the leader has made.  More than nothing is only ever there when
\* the file takes more than one chunk.
WriterOK ==
    LET data == writer.data IN
    /\ writer \in [open : BOOLEAN, name : Nat, data : Seq(Nat \X Nat)]
    /\ Len(data) <= fileSize
    /\ ~writer.open => data = <<>>
    /\ \A k \in 1 .. Len(data) : data[k][2] = k /\ data[k][1] \in FirstSnapshot .. snap
    /\ data # <<>> => ChunkSize <= fileSize
    /\ made = 0 => \A k \in 1 .. Len(data) : data[k][1] = FirstSnapshot

\* The peer thread is waiting for a call exactly when one is under way.
PcOK == /\ pc \in {"append", "transfer", "call", "deposed"}
        /\ (pc = "call" <=> call.req # None)
        /\ call = [req |-> call.req, resp |-> call.resp]
        /\ (call.req = None => call.resp = None)
        /\ call.req.type \in {"none", "append", "chunk"}
        /\ (call.req.type = "none" => call.req = None)
        /\ \A req \in late : req.type \in {"append", "chunk"}

Whole == PcOK /\ SizesOK /\ ReaderOK /\ RequestsOK /\ WriterOK /\ fsnap \in 0 .. snap /\ InstalledIsWhole

-----------------------------------------------------------------------------
LEMMA MinOfTwo ==
    ASSUME NEW a \in Nat, NEW b \in Nat
    PROVE  Min({a, b}) = IF a <= b THEN a ELSE b
  BY DEF Min

\* What a chunk carries.
LEMMA ChunkShape ==
    ASSUME NEW s \in Nat, NEW o \in Nat, fileSize \in Nat
    PROVE  /\ Pieces(s, o) \in Seq(Nat \X Nat)
           /\ Len(Pieces(s, o)) = IF o >= fileSize THEN 0
                                  ELSE IF o + ChunkSize <= fileSize THEN ChunkSize ELSE fileSize - o
           /\ \A k \in 1 .. Len(Pieces(s, o)) : Pieces(s, o)[k] = <<s, o + k>>
<1> DEFINE e == Min({fileSize, o + ChunkSize})
<1>1. e = IF fileSize <= o + ChunkSize THEN fileSize ELSE o + ChunkSize
  BY MinOfTwo, TransferSizes
<1>2. e \in 0 .. fileSize
  BY <1>1, TransferSizes
<1>3. Pieces(s, o) = SubSeq(File(s), o + 1, e)
  BY DEF Pieces
<1> HIDE DEF e
<1>4. \A k \in o + 1 .. e : File(s)[k] = <<s, k>> /\ File(s)[k] \in Nat \X Nat
  BY <1>2 DEF File
<1>5. /\ Pieces(s, o) \in Seq(Nat \X Nat)
      /\ Len(Pieces(s, o)) = IF o + 1 <= e THEN e - (o + 1) + 1 ELSE 0
      /\ \A k \in 1 .. e - (o + 1) + 1 : Pieces(s, o)[k] = File(s)[(o + 1) + k - 1]
  BY <1>2, <1>3, <1>4, SubSeqProperties
<1>6. Len(Pieces(s, o)) = IF o >= fileSize THEN 0
                          ELSE IF o + ChunkSize <= fileSize THEN ChunkSize ELSE fileSize - o
  BY <1>1, <1>2, <1>5, TransferSizes
<1>7. ASSUME NEW k \in 1 .. Len(Pieces(s, o))  PROVE Pieces(s, o)[k] = <<s, o + k>>
  <2>1. k \in 1 .. e - (o + 1) + 1 /\ (o + 1) + k - 1 = o + k /\ o + k \in o + 1 .. e
    BY <1>2, <1>5
  <2> QED BY <2>1, <1>4, <1>5
<1> QED BY <1>5, <1>6, <1>7

LEMMA AWriter ==
    ASSUME NEW S, NEW e \in S, NEW n \in Nat, NEW r, r = [open |-> TRUE, name |-> n, data |-> e]
    PROVE  r \in [open : BOOLEAN, name : Nat, data : S] /\ r.open
  OBVIOUS

LEMMA DataReplaced ==
    ASSUME NEW S, NEW x \in S, NEW r \in [open : BOOLEAN, name : Nat, data : S]
    PROVE  /\ [r EXCEPT !.data = x] \in [open : BOOLEAN, name : Nat, data : S]
           /\ [r EXCEPT !.data = x].data = x
           /\ [r EXCEPT !.data = x].open = r.open
  BY SMT

LEMMA WriterTyped ==
    ASSUME WriterOK, NEW req, req.snap \in Nat
    PROVE  Writer(req) \in [open : BOOLEAN, name : Nat, data : Seq(Nat \X Nat)] /\ Writer(req).open
<1>1. writer \in [open : BOOLEAN, name : Nat, data : Seq(Nat \X Nat)]
  BY DEF WriterOK
<1>3. <<>> \in Seq(Nat \X Nat)
  BY EmptySeq
<1>4. CASE writer.open
  BY <1>1, <1>4, Zenon DEF Writer
<1>5. CASE ~writer.open
  <2> DEFINE empty == <<>>
  <2>1. Writer(req) = [open |-> TRUE, name |-> req.snap, data |-> empty]
    BY <1>5, Zenon DEF Writer
  <2>2. empty \in Seq(Nat \X Nat)
    BY <1>3
  <2> HIDE DEF empty
  <2> QED BY <2>1, <2>2, AWriter, Zenon
<1> QED BY <1>4, <1>5

LEMMA NoWriterOK ==
    ASSUME SizesOK, UNCHANGED leader, writer' = NoWriter
    PROVE  WriterOK'
<1> DEFINE empty == <<>>
<1>1. empty \in Seq(Nat \X Nat) /\ Len(empty) = 0
  BY EmptySeq
<1>2. NoWriter = [open |-> FALSE, name |-> 0, data |-> empty]
  BY DEF NoWriter
<1> HIDE DEF empty
<1>3. NoWriter \in [open : BOOLEAN, name : Nat, data : Seq(Nat \X Nat)] /\ ~NoWriter.open
      /\ NoWriter.data = empty
  BY <1>1, <1>2
<1> QED BY <1>1, <1>3 DEF WriterOK, empty, SizesOK, leader

\* What the file in the making is once a chunk that fits is stored.
LEMMA Grown ==
    ASSUME SizesOK, WriterOK, NEW req, ChunkOK(req), Fits(req)
    PROVE  LET data == Stored(req).data IN
           /\ Stored(req) \in [open : BOOLEAN, name : Nat, data : Seq(Nat \X Nat)]
           /\ Stored(req).open
           /\ Len(data) <= fileSize /\ (req.done => Len(data) = fileSize)
           /\ \A k \in 1 .. Len(data) : data[k][2] = k /\ data[k][1] \in FirstSnapshot .. snap
           /\ made = 0 => \A k \in 1 .. Len(data) : data[k][1] = FirstSnapshot
           /\ ~req.done => ChunkSize <= fileSize
           /\ writer.data = <<>> => \A k \in 1 .. Len(data) : data[k][1] = req.snap
           /\ data = writer.data \o req.data
           /\ Len(data) = Len(writer.data) + Len(req.data)
<1> DEFINE w == writer.data
           d == Stored(req).data
<1>1. w \in Seq(Nat \X Nat) /\ Writer(req).data = w
  BY DEF WriterOK, Writer
<1>2. Writer(req) \in [open : BOOLEAN, name : Nat, data : Seq(Nat \X Nat)] /\ Writer(req).open
  <2>1. req.snap \in Nat
    BY TransferLogs DEF ChunkOK, SizesOK
  <2> QED BY <2>1, WriterTyped
<1>3. req.snap \in Nat /\ req.offset \in Nat /\ req.offset = Len(w)
  BY <1>1, TransferLogs DEF ChunkOK, Fits, SizesOK
<1>4. /\ req.data \in Seq(Nat \X Nat)
      /\ Len(req.data) = IF Len(w) >= fileSize THEN 0
                         ELSE IF Len(w) + ChunkSize <= fileSize THEN ChunkSize ELSE fileSize - Len(w)
      /\ \A k \in 1 .. Len(req.data) : req.data[k] = <<req.snap, Len(w) + k>>
  <2>1. req.data = Pieces(req.snap, Len(w)) /\ fileSize \in Nat
    BY <1>3 DEF ChunkOK, SizesOK
  <2>2. Len(w) \in Nat
    BY <1>3
  <2> DEFINE o == Len(w)
  <2> HIDE DEF o
  <2>3. /\ Pieces(req.snap, o) \in Seq(Nat \X Nat)
        /\ Len(Pieces(req.snap, o)) = IF o >= fileSize THEN 0
                         ELSE IF o + ChunkSize <= fileSize THEN ChunkSize ELSE fileSize - o
        /\ \A k \in 1 .. Len(Pieces(req.snap, o)) : Pieces(req.snap, o)[k] = <<req.snap, o + k>>
    BY <2>1, <2>2, <1>3, ChunkShape DEF o
  <2> QED BY <2>1, <2>3, Zenon DEF o
<1>5. w \o req.data \in Seq(Nat \X Nat)
  BY <1>1, <1>4, ConcatProperties
<1>6. /\ d = w \o req.data
      /\ Stored(req) \in [open : BOOLEAN, name : Nat, data : Seq(Nat \X Nat)]
      /\ Stored(req).open = Writer(req).open
  <2>1. Stored(req) = [Writer(req) EXCEPT !.data = w \o req.data]
    BY <1>1, Zenon DEF Stored
  <2> QED BY <1>2, <1>5, <2>1, DataReplaced, Zenon
<1> HIDE DEF w, d
<1>7. Len(w) \in Nat /\ Len(req.data) \in Nat /\ Len(w) <= fileSize /\ fileSize \in Nat
  BY <1>1, <1>4 DEF WriterOK, SizesOK, w
<1>8. /\ Len(d) = Len(w) + Len(req.data) /\ d \in Seq(Nat \X Nat)
      /\ \A k \in 1 .. Len(w) + Len(req.data) : d[k] = IF k <= Len(w) THEN w[k] ELSE req.data[k - Len(w)]
  BY SMTT(20), <1>1, <1>4, <1>6, ConcatProperties
<1>9. \A k \in 1 .. Len(d) : d[k] = IF k <= Len(w) THEN w[k] ELSE req.data[k - Len(w)]
  BY <1>8
<1>10. Len(d) <= fileSize /\ (req.done => Len(d) = fileSize) /\ (~req.done => ChunkSize <= fileSize)
  BY <1>4, <1>7, <1>8, TransferSizes DEF ChunkOK
<1>11. \A k \in 1 .. Len(d) :
          \/ k \in 1 .. Len(w) /\ d[k] = w[k]
          \/ k > Len(w) /\ d[k] = <<req.snap, k>>
  <2> TAKE k \in 1 .. Len(d)
  <2>0. k \in Nat /\ k >= 1 /\ k <= Len(w) + Len(req.data)
    BY <1>7, <1>8
  <2>1. CASE k <= Len(w)
    <3>1. d[k] = w[k]
      BY <1>9, <2>1
    <3>2. k \in 1 .. Len(w)
      BY <2>0, <2>1, <1>7
    <3> QED BY <3>1, <3>2, Zenon
  <2>2. CASE k > Len(w)
    <3>1. k - Len(w) \in 1 .. Len(req.data) /\ Len(w) + (k - Len(w)) = k /\ ~(k <= Len(w))
      BY <1>7, <2>0, <2>2
    <3>2. d[k] = req.data[k - Len(w)]
      BY <1>9, <3>1, Zenon
    <3>3. req.data[k - Len(w)] = <<req.snap, Len(w) + (k - Len(w))>>
      BY <3>1, <1>4
    <3> QED BY <2>2, <3>1, <3>2, <3>3, Zenon
  <2> QED BY <2>0, <2>1, <2>2, <1>7
<1>12. \A k \in 1 .. Len(d) : d[k][2] = k /\ d[k][1] \in FirstSnapshot .. snap
  BY SMTT(20), <1>11 DEF WriterOK, ChunkOK, w
<1>13. made = 0 => \A k \in 1 .. Len(d) : d[k][1] = FirstSnapshot
  BY SMTT(20), <1>11 DEF WriterOK, ChunkOK, w
<1>14. w = <<>> => \A k \in 1 .. Len(d) : d[k][1] = req.snap
  <2>1. w = <<>> => Len(w) = 0
    OBVIOUS
  <2> QED BY <1>11, <2>1
<1> QED BY <1>2, <1>6, <1>8, <1>10, <1>12, <1>13, <1>14 DEF w, d

\* A chunk, handled now or late, leaves the follower with pieces of snapshots, and what
\* it installs, if it does, is whole.
LEMMA ChunkHandled ==
    ASSUME Whole, UNCHANGED leader, NEW req, ChunkOK(req), HandleChunk(req)
    PROVE  WriterOK' /\ fsnap' \in 0 .. snap /\ InstalledIsWhole' /\ ChunkResponse(req).stored \in Nat
<1> USE DEF leader
<1>1. WriterOK /\ SizesOK
  BY DEF Whole
<1>2. Writer(req).data = writer.data
  BY <1>1 DEF WriterOK, Writer
<1>3. Writer(req) \in [open : BOOLEAN, name : Nat, data : Seq(Nat \X Nat)] /\ Writer(req).open
  <2>1. req.snap \in Nat
    BY <1>1, TransferLogs DEF ChunkOK, SizesOK
  <2> QED BY <1>1, <2>1, WriterTyped
<1>4. ChunkResponse(req).stored \in Nat
  <2>1. Len(Writer(req).data) \in Nat
    BY <1>3
  <2>2. Fits(req) => Len(Stored(req).data) \in Nat
    BY <1>1, Grown
  <2> QED BY <2>1, <2>2 DEF ChunkResponse
<1>5. CASE UNCHANGED <<fsnap, installed>>
  <2>1. fsnap' \in 0 .. snap /\ InstalledIsWhole'
    BY <1>5 DEF Whole, InstalledIsWhole, OneSource, File
  <2>2. CASE writer' = writer
    BY <1>1, <1>4, <2>1, <2>2 DEF WriterOK
  <2>3. CASE writer' = Writer(req)
    BY <1>1, <1>2, <1>3, <1>4, <2>1, <2>3 DEF WriterOK
  <2>4. CASE writer' = Stored(req) /\ Fits(req) /\ ~req.done
    <3> DEFINE d == Stored(req).data
    <3>1. /\ Stored(req) \in [open : BOOLEAN, name : Nat, data : Seq(Nat \X Nat)]
          /\ Stored(req).open /\ Len(d) <= fileSize /\ ChunkSize <= fileSize
          /\ \A k \in 1 .. Len(d) : d[k][2] = k /\ d[k][1] \in FirstSnapshot .. snap
          /\ made = 0 => \A k \in 1 .. Len(d) : d[k][1] = FirstSnapshot
      BY <1>1, <2>4, Grown, Zenon
    <3> QED BY <3>1, <1>4, <2>1, <2>4, Zenon DEF WriterOK
  <2>5. CASE writer' = NoWriter
    <3>1. WriterOK'
      BY <1>1, <2>5, NoWriterOK
    <3> QED BY <1>4, <2>1, <3>1
  <2> QED BY <1>5, <2>2, <2>3, <2>4, <2>5 DEF HandleChunk, Install
<1>6. CASE Fits(req) /\ req.done /\ writer' = NoWriter /\ Install(Stored(req).data)
  <2> DEFINE d == Stored(req).data
  <2>1. /\ d \in Seq(Nat \X Nat) /\ Len(d) = fileSize
        /\ \A k \in 1 .. Len(d) : d[k][2] = k /\ d[k][1] \in FirstSnapshot .. snap
        /\ made = 0 => \A k \in 1 .. Len(d) : d[k][1] = FirstSnapshot
        /\ writer.data = <<>> => \A k \in 1 .. Len(d) : d[k][1] = req.snap
    BY <1>1, <1>6, Grown
  <2>2. fsnap' = d[1][1] /\ installed' = d
    BY <1>6 DEF Install
  <2> HIDE DEF d
  <2>3. 1 \in 1 .. Len(d) /\ fileSize \in Nat \ {0} /\ snap \in Nat
    BY <1>1, <2>1 DEF SizesOK
  <2>4. fsnap' \in FirstSnapshot .. snap
    BY <2>1, <2>2, <2>3
  <2>5. fsnap' \in 0 .. snap /\ fsnap' # 0
    BY <2>3, <2>4, TransferLogs
  <2>6. ASSUME OneSource  PROVE d = File(fsnap')
    <3>1. \A k \in 1 .. Len(d) : d[k][1] = fsnap'
      <4>1. CASE made = 0
        BY <2>1, <2>2, <2>3, <4>1
      <4>2. CASE fileSize < ChunkSize
        <5>1. writer.data = <<>>
          BY <1>1, <4>2, TransferSizes DEF WriterOK, SizesOK
        <5> QED BY <2>1, <2>2, <2>3, <5>1
      <4> QED BY <2>6, <4>1, <4>2 DEF OneSource
    <3>2. \A k \in 1 .. Len(d) : d[k] = <<fsnap', k>>
      <4> SUFFICES ASSUME NEW k \in 1 .. Len(d)  PROVE d[k] = <<fsnap', k>>
        OBVIOUS
      <4>1. d[k] \in Nat \X Nat
        BY <2>1
      <4>2. d[k] = <<d[k][1], d[k][2]>>
        BY <4>1
      <4> QED BY <2>1, <3>1, <4>2
    <3>3. d = [k \in 1 .. fileSize |-> d[k]]
      BY <2>1
    <3> QED BY <2>1, <3>2, <3>3 DEF File
  <2>7. InstalledIsWhole'
    BY <2>2, <2>5, <2>6 DEF InstalledIsWhole, OneSource, File
  <2>8. WriterOK'
    BY <1>1, <1>6, NoWriterOK
  <2> QED BY <1>4, <2>5, <2>7, <2>8
<1> QED BY <1>5, <1>6 DEF HandleChunk

\* What the leader does to its log and its snapshots.
LEMMA LeaderStep ==
    ASSUME Whole, Next
    PROVE  SizesOK' /\ fileSize' = fileSize /\ snap <= snap' /\ made <= made'
<1> USE DEF Whole, SizesOK, leader
<1>1. CASE Replicate
  BY <1>1, TransferLogs DEF Replicate
<1>2. CASE MakeSnapshot
  BY <1>2, TransferLogs DEF MakeSnapshot
<1>3. CASE UNCHANGED leader
  BY <1>3
<1> QED BY <1>1, <1>2, <1>3
        DEF Next, AppendTurn, SendChunk, Answer, CallFails, Serve, ServeLate, NewTerm

\* A request stays what it was when it was made.
LEMMA RequestsStay ==
    ASSUME Whole, Next, NEW req \in Requests, req.type = "chunk"
    PROVE  ChunkOK(req)'
<1>1. ChunkOK(req)
  BY DEF Whole, RequestsOK
<1>2. SizesOK' /\ fileSize' = fileSize /\ snap <= snap' /\ made <= made' /\ SizesOK
  BY LeaderStep DEF Whole
<1>3. Pieces(req.snap, req.offset)' = Pieces(req.snap, req.offset)
  BY <1>2 DEF Pieces, File
<1>4. req.snap \in FirstSnapshot .. snap'
  BY <1>1, <1>2, TransferLogs DEF ChunkOK, SizesOK
<1>5. made' = 0 => made = 0
  BY <1>2 DEF SizesOK
<1> QED BY <1>1, <1>3, <1>4, <1>5 DEF ChunkOK

\* A step that leaves the follower alone.
LEMMA FollowerStill ==
    ASSUME Whole, Next, UNCHANGED <<writer, fsnap, installed>>
    PROVE  WriterOK' /\ fsnap' \in 0 .. snap' /\ InstalledIsWhole'
<1>1. SizesOK' /\ SizesOK /\ fileSize' = fileSize /\ snap <= snap' /\ made <= made'
  BY LeaderStep DEF Whole
<1>2. WriterOK /\ fsnap \in 0 .. snap /\ InstalledIsWhole
  BY DEF Whole
<1>3. (made' = 0 => made = 0) /\ (FirstSnapshot .. snap \subseteq FirstSnapshot .. snap')
  BY <1>1, TransferLogs DEF SizesOK
<1>4. WriterOK'
  BY <1>1, <1>2, <1>3 DEF WriterOK
<1>5. fsnap' \in 0 .. snap'
  BY <1>1, <1>2 DEF SizesOK
<1>6. InstalledIsWhole'
  BY <1>1, <1>2, <1>3 DEF InstalledIsWhole, OneSource, File
<1> QED BY <1>4, <1>5, <1>6

LEMMA ResponsePut ==
    ASSUME NEW c, NEW r, c = [req |-> c.req, resp |-> c.resp]
    PROVE  LET d == [c EXCEPT !.resp = r]
           IN  d.req = c.req /\ d.resp = r /\ d = [req |-> d.req, resp |-> d.resp]
  OBVIOUS

LEMMA WholeInit == Init => Whole
<1> SUFFICES ASSUME Init PROVE Whole
  OBVIOUS
<1> USE DEF Init, None
<1>1. PcOK
  BY DEF PcOK
<1>2. SizesOK
  BY TransferSizes, TransferLogs DEF SizesOK
<1>3. ReaderOK
  BY <1>2 DEF ReaderOK, SizesOK
<1>4. RequestsOK
  BY DEF RequestsOK, Requests
<1>5. WriterOK
  <2> DEFINE empty == <<>>
  <2>1. empty \in Seq(Nat \X Nat) /\ Len(empty) = 0
    BY EmptySeq
  <2>2. writer = [open |-> FALSE, name |-> 0, data |-> empty]
    BY DEF NoWriter
  <2> HIDE DEF empty
  <2>3. writer \in [open : BOOLEAN, name : Nat, data : Seq(Nat \X Nat)] /\ ~writer.open
        /\ writer.data = empty
    BY <2>1, <2>2
  <2> QED BY <1>2, <2>1, <2>3 DEF WriterOK, empty, SizesOK
<1>6. fsnap \in 0 .. snap /\ InstalledIsWhole
  BY <1>2 DEF InstalledIsWhole, SizesOK
<1> QED BY <1>1, <1>2, <1>3, <1>4, <1>5, <1>6 DEF Whole

LEMMA WholeStep == Whole /\ [Next]_vars => Whole'
<1> SUFFICES ASSUME Whole, [Next]_vars PROVE Whole'
  OBVIOUS
<1>u. CASE UNCHANGED vars
  <2> USE <1>u DEF vars, leader, peer, follower, network
  <2>1. PcOK'
    BY DEF Whole, PcOK
  <2>2. SizesOK'
    BY DEF Whole, SizesOK
  <2>3. ReaderOK'
    BY DEF Whole, ReaderOK
  <2>4. RequestsOK'
    BY DEF Whole, RequestsOK, Requests, ChunkOK, Pieces, File
  <2>5. WriterOK'
    BY DEF Whole, WriterOK
  <2>6. fsnap' \in 0 .. snap' /\ InstalledIsWhole'
    BY DEF Whole, InstalledIsWhole, OneSource, File
  <2> QED BY <2>1, <2>2, <2>3, <2>4, <2>5, <2>6 DEF Whole
<1>n. CASE Next
  <2> USE <1>n
  <2>1. /\ PcOK /\ SizesOK /\ ReaderOK
        /\ SizesOK' /\ fileSize' = fileSize /\ snap <= snap' /\ made <= made'
        /\ (made' = 0 => made = 0)
    BY LeaderStep DEF Whole, SizesOK
  <2>2. \A req \in Requests : req.type = "chunk" => ChunkOK(req)'
    BY RequestsStay
  <2> SUFFICES PcOK' /\ ReaderOK' /\ RequestsOK' /\ WriterOK' /\ fsnap' \in 0 .. snap' /\ InstalledIsWhole'
    BY <2>1 DEF Whole
  <2>3. UNCHANGED <<pc, peer, call>> /\ late' \subseteq late => PcOK' /\ ReaderOK' /\ RequestsOK'
    <3> SUFFICES ASSUME UNCHANGED <<pc, peer, call>>, late' \subseteq late
                 PROVE  PcOK' /\ ReaderOK' /\ RequestsOK'
      OBVIOUS
    <3>1. PcOK'
      BY <2>1 DEF PcOK
    <3>2. ReaderOK'
      BY <2>1 DEF ReaderOK, peer, SizesOK
    <3>3. RequestsOK'
      BY <2>2 DEF RequestsOK, Requests
    <3> QED BY <3>1, <3>2, <3>3
  <2>4. Requests' \subseteq Requests => RequestsOK'
    BY <2>2 DEF RequestsOK
  <2>5. CASE Replicate
    BY <2>3, <2>5, FollowerStill DEF Replicate, follower, network
  <2>6. CASE MakeSnapshot
    BY <2>3, <2>6, FollowerStill DEF MakeSnapshot, follower, network
  <2>7. CASE AppendTurn
    <3>1. UNCHANGED <<writer, fsnap, installed>>
      BY <2>7 DEF AppendTurn, follower
    <3>2. pc = "append" /\ call.req = None /\ call.resp = None
      BY <2>1, <2>7 DEF AppendTurn, PcOK
    <3>3. CASE pc' = "transfer" /\ reader' = [snap |-> snap, at |-> 0] /\ UNCHANGED call
      <4>1. PcOK'
        BY <2>1, <2>7, <3>2, <3>3 DEF PcOK, AppendTurn, network
      <4>2. ReaderOK'
        BY <2>1, <2>7, <3>2, <3>3 DEF ReaderOK, SizesOK, None, AppendTurn, leader
      <4>3. RequestsOK'
        BY <2>4, <2>7, <3>3 DEF AppendTurn, Requests, network
      <4> QED BY <3>1, <4>1, <4>2, <4>3, FollowerStill
    <3>4. ASSUME NEW n, call' = [req |-> AppendRequest(n), resp |-> None], pc' = "call", UNCHANGED reader
          PROVE  PcOK' /\ ReaderOK' /\ RequestsOK'
      <4>1. /\ call'.req.type = "append" /\ call'.req = AppendRequest(n) /\ call'.resp = None
            /\ call' = [req |-> call'.req, resp |-> call'.resp] /\ AppendRequest(n).type = "append"
        BY <3>4 DEF AppendRequest
      <4>2. call'.req # None
        BY <4>1 DEF None
      <4>3. PcOK'
        BY <2>1, <2>7, <3>4, <4>1, <4>2 DEF PcOK, AppendTurn, network
      <4>4. ReaderOK'
        BY <2>1, <2>7, <3>4, <4>1 DEF ReaderOK, SizesOK, AppendTurn, leader
      <4>5. Requests' \subseteq Requests \union {AppendRequest(n)}
        BY <2>7, <4>1 DEF AppendTurn, Requests, network
      <4>6. RequestsOK'
        BY <2>2, <4>1, <4>5 DEF RequestsOK
      <4> QED BY <4>3, <4>4, <4>6
    <3> QED BY <2>7, <3>1, <3>3, <3>4, FollowerStill DEF AppendTurn
  <2>8. CASE SendChunk
    <3> DEFINE o == reader.at
               chunk == Pieces(reader.snap, o)
               new == [type |-> "chunk", snap |-> reader.snap, offset |-> o,
                       data |-> chunk, done |-> Len(chunk) # ChunkSize]
    <3>1. /\ UNCHANGED <<writer, fsnap, installed, leader, late>> /\ pc = "transfer" /\ pc' = "call"
          /\ call' = [req |-> new, resp |-> None]
          /\ reader' = [reader EXCEPT !.at = @ + Len(chunk)]
      BY <2>8 DEF SendChunk, follower, network, Pieces
    <3>2. /\ reader.snap \in Nat /\ o \in Nat /\ FirstSnapshot <= reader.snap /\ reader.snap <= snap
          /\ made = 0 => reader.snap = FirstSnapshot
      BY <2>1, <3>1, TransferLogs DEF ReaderOK
    <3>3. Len(chunk) \in Nat
      BY <2>1, <3>2, ChunkShape DEF SizesOK
    <3> HIDE DEF chunk
    <3>4. /\ new.type = "chunk" /\ new.snap = reader.snap /\ new.offset = o /\ new.data = chunk
          /\ new.done = (Len(chunk) # ChunkSize)
      OBVIOUS
    <3> HIDE DEF new
    <3>5. call'.req = new /\ call'.resp = None /\ call' = [req |-> call'.req, resp |-> call'.resp]
      BY <3>1
    <3>6. new # None
      BY <3>4 DEF None
    <3>7. PcOK'
      BY <2>1, <3>1, <3>4, <3>5, <3>6 DEF PcOK
    <3>8. reader'.snap = reader.snap /\ reader' \in [snap : Nat, at : Nat]
      BY <2>1, <3>1, <3>2, <3>3 DEF ReaderOK
    <3>9. ReaderOK'
      BY <2>1, <3>1, <3>2, <3>5, <3>8 DEF ReaderOK, leader
    <3>10. ChunkOK(new)
      <4>1. new.snap \in FirstSnapshot .. snap
        BY <3>2, <3>4, <2>1, TransferLogs DEF SizesOK
      <4>2. new.data = Pieces(new.snap, new.offset)
        BY <3>4 DEF chunk
      <4> QED BY <3>2, <3>4, <4>1, <4>2 DEF ChunkOK
    <3>11. ASSUME NEW req \in Requests', req.type = "chunk"  PROVE ChunkOK(req)'
      <4>1. CASE req \in Requests
        BY <2>2, <3>11, <4>1
      <4>2. CASE req = new
        BY <3>1, <3>10, <4>2 DEF ChunkOK, leader, Pieces, File
      <4>3. Requests' \subseteq Requests \union {new}
        BY <3>1, <3>5 DEF Requests
      <4> QED BY <4>1, <4>2, <4>3
    <3>12. RequestsOK'
      BY <3>11 DEF RequestsOK
    <3> QED BY <3>1, <3>7, <3>9, <3>12, FollowerStill
  <2>9. CASE Answer
    <3>1. /\ UNCHANGED <<writer, fsnap, installed, leader, late>> /\ pc = "call"
          /\ call' = [req |-> None, resp |-> None]
          /\ \/ pc' = "deposed" /\ UNCHANGED reader
             \/ pc' = "append" /\ UNCHANGED reader
             \/ /\ call.req.type = "chunk" /\ call.resp # None
                /\ pc' = "transfer"
                /\ UNCHANGED reader \/ reader' = [reader EXCEPT !.at = Resume(call.resp.stored)]
      BY <2>1, <2>9 DEF Answer, follower, network, peer, AppendAnswered, ChunkAnswered, PcOK, None
    <3>2. PcOK'
      BY <2>1, <3>1 DEF PcOK, None
    <3>3. reader' \in [snap : Nat, at : Nat] /\ reader'.snap = reader.snap
      <4>1. CASE call.req.type = "chunk" /\ call.resp # None
        <5>1. Resume(call.resp.stored) \in Nat
          BY <2>1, <4>1, TransferSizes DEF ReaderOK, Resume
        <5> HIDE DEF Resume
        <5> QED BY <2>1, <3>1, <5>1 DEF ReaderOK
      <4> QED BY <2>1, <3>1, <4>1 DEF ReaderOK
    <3>4. ReaderOK'
      BY <2>1, <3>1, <3>3 DEF ReaderOK, leader, None
    <3>5. ASSUME NEW req \in Requests', req.type = "chunk"  PROVE ChunkOK(req)'
      BY <2>2, <3>1, <3>5 DEF Requests, None
    <3>6. RequestsOK'
      BY <3>5 DEF RequestsOK
    <3> QED BY <3>1, <3>2, <3>4, <3>6, FollowerStill
  <2>10. CASE CallFails
    <3>1. /\ UNCHANGED <<writer, fsnap, installed, leader, reader>> /\ pc' = "append"
          /\ call' = [req |-> None, resp |-> None] /\ late' \subseteq Requests /\ pc = "call"
      BY <2>10 DEF CallFails, follower, peer, Requests
    <3>2. PcOK'
      BY <2>1, <3>1 DEF PcOK, None, Requests
    <3>3. ReaderOK'
      BY <2>1, <3>1 DEF ReaderOK, leader, None
    <3>4. ASSUME NEW req \in Requests', req.type = "chunk"  PROVE ChunkOK(req)'
      BY <2>2, <3>1, <3>4 DEF Requests, None
    <3>5. RequestsOK'
      BY <3>4 DEF RequestsOK
    <3> QED BY <3>1, <3>2, <3>3, <3>5, FollowerStill
  <2>11. CASE Serve
    <3> DEFINE resp == IF call.req.type = "append" THEN AppendResponse(call.req)
                       ELSE ChunkResponse(call.req)
    <3>1. /\ UNCHANGED <<leader, pc, reader, late>> /\ pc = "call" /\ Handle(call.req)
          /\ call' = [call EXCEPT !.resp = resp]
          /\ call = [req |-> call.req, resp |-> call.resp]
          /\ call.req # None
      BY <2>1, <2>11 DEF Serve, network, peer, PcOK
    <3> HIDE DEF resp
    <3>2. call'.req = call.req /\ call'.resp = resp /\ call' = [req |-> call'.req, resp |-> call'.resp]
      BY <3>1, ResponsePut
    <3>3. PcOK'
      BY <2>1, <3>1, <3>2 DEF PcOK
    <3>4. RequestsOK'
      BY <2>4, <3>1, <3>2 DEF Requests
    <3>5. CASE call.req.type = "append"
      <4>1. ReaderOK'
        BY <2>1, <3>1, <3>2, <3>5 DEF ReaderOK, leader
      <4>2. UNCHANGED <<writer, fsnap, installed>>
        BY <3>1, <3>5 DEF Handle, HandleAppend
      <4> QED BY <3>3, <3>4, <4>1, <4>2, FollowerStill
    <3>6. CASE call.req.type = "chunk"
      <4>1. HandleChunk(call.req) /\ resp = ChunkResponse(call.req)
        BY <3>1, <3>6 DEF Handle, resp
      <4>2. ChunkOK(call.req)
        BY <3>6 DEF Whole, RequestsOK, Requests
      <4>3. WriterOK' /\ fsnap' \in 0 .. snap /\ InstalledIsWhole' /\ resp.stored \in Nat
        BY <3>1, <4>1, <4>2, ChunkHandled
      <4>4. ReaderOK'
        BY <2>1, <3>1, <3>2, <4>3 DEF ReaderOK, leader
      <4> QED BY <3>1, <3>3, <3>4, <4>3, <4>4 DEF leader
    <3> QED BY <2>1, <3>1, <3>5, <3>6 DEF PcOK
  <2>12. CASE ServeLate
    <3> PICK req \in late : Handle(req)
      BY <2>12 DEF ServeLate
    <3>1. UNCHANGED <<leader, pc, peer, call>> /\ late' \subseteq late
      BY <2>12 DEF ServeLate
    <3>2. CASE req.type = "chunk"
      <4>1. ChunkOK(req)
        BY <3>2 DEF Whole, RequestsOK, Requests
      <4>2. HandleChunk(req)
        BY <3>2 DEF Handle
      <4>3. WriterOK' /\ fsnap' \in 0 .. snap /\ InstalledIsWhole'
        BY <3>1, <4>1, <4>2, ChunkHandled
      <4> QED BY <2>3, <3>1, <4>3 DEF leader
    <3>3. CASE req.type = "append"
      <4>1. UNCHANGED <<writer, fsnap, installed>>
        BY <3>3 DEF Handle, HandleAppend
      <4> QED BY <2>3, <3>1, <4>1, FollowerStill
    <3> QED BY <2>1, <3>2, <3>3 DEF PcOK
  <2>13. CASE NewTerm
    <3>1. /\ UNCHANGED <<leader, pc, peer, call, fsnap, installed>> /\ writer' = NoWriter
          /\ late' \subseteq late
      BY <2>13 DEF NewTerm, network
    <3>2. WriterOK'
      BY <2>1, <3>1, NoWriterOK
    <3>3. fsnap' \in 0 .. snap' /\ InstalledIsWhole'
      BY <3>1 DEF Whole, InstalledIsWhole, OneSource, File, leader
    <3> QED BY <2>3, <3>1, <3>2, <3>3
  <2> QED BY <2>5, <2>6, <2>7, <2>8, <2>9, <2>10, <2>11, <2>12, <2>13 DEF Next
<1> QED BY <1>u, <1>n
\* InstalledIsWhole, for every size of the file, the chunk and the head, and however
\* many calls fail or are handled late.
THEOREM InstallsWholeSnapshots == Spec => []InstalledIsWhole
<1>1. Spec => []Whole
  BY WholeInit, WholeStep, PTL DEF Spec
<1>2. Whole => InstalledIsWhole
  BY DEF Whole
<1> QED BY <1>1, <1>2, PTL

-----------------------------------------------------------------------------
\* The last entry that the follower has, in its log or in its snapshot.
Top == IF fsnap > flast THEN fsnap ELSE flast

\* The follower's log is what is behind its snapshot.
FollowerOK ==
    /\ flast \in 0 .. last /\ held = fsnap + 1 .. flast
    /\ term \in Nat /\ (call.resp # None => call.resp.term \in Nat)

\* The leader knows no more of the follower than there is, and when it would send a
\* snapshot, that snapshot is not behind what the follower has.
NextOK ==
    /\ next \in Nat /\ (next # 0 /\ next <= snap => Top <= snap)
    /\ match \in Nat /\ (OneSource => match <= Top)

\* The entries that the peer thread would send next are in the snapshot only.
Behind == next # 0 /\ next <= snap /\ next < last

\* An entries request, as the peer thread makes it: what it carries is next, and
\* the follower cannot yet have more.
EntriesOK(req) ==
    \/ req.entries = {}
    \/ \E top \in 1 .. last :
         /\ req.entries = req.prev + 1 .. top
         /\ req.prev < top
         /\ next = req.prev + 1
         /\ (next <= snap => top <= snap)
         /\ (call.resp = None => flast <= top)

\* The append_entries call under way gives the follower nothing that its snapshot
\* covers, and is answered with how far its log goes.
AppendOK ==
    call.req.type = "append" =>
        /\ call.req.prev \in Nat /\ fsnap <= call.req.prev
        /\ EntriesOK(call.req)
        /\ (call.resp # None /\ call.resp.term = 0 =>
              /\ call.resp.last \in Nat
              /\ flast <= call.resp.last /\ call.resp.last <= last
              /\ (call.resp.success => call.resp.last <= Top))

\* The snapshot being sent is not behind what the follower has.
TransferOK ==
    pc = "transfer" \/ call.req.type = "chunk" =>
        Behind /\ Top <= reader.snap

\* Where a chunk is read: at the start, where the writer is, or a head too far.
At(offset) == offset \in {0, Len(writer.data), Len(writer.data) + HeadSize}

\* The follower took the last chunk.
Complete == /\ call.req.done
            /\ call.resp.stored = call.req.offset + Len(call.req.data)

\* The chunk under way, and what its answer says of the file collected so far.
ResponseOK ==
    call.req.type = "chunk" =>
        /\ call.req.snap = reader.snap
        /\ reader.at = call.req.offset + Len(call.req.data)
        /\ (term = 0 /\ call.resp = None => At(call.req.offset))
        /\ (call.resp # None /\ call.resp.term = 0 =>
             /\ (term = 0 /\ ~Complete => call.resp.stored = Len(writer.data))
             /\ (Complete => writer.data = <<>> /\ (OneSource => reader.snap <= fsnap)))

\* A file is being collected only while the transfer goes on or will go on, and of
\* snapshots that are not behind what the follower has.
WriterBehind ==
    writer.data # <<>> =>
        /\ Behind /\ call.req.type # "append"
        /\ Top <= writer.data[1][1] /\ writer.data[1][1] <= reader.snap

\* Where the next chunk is read from.
ReaderAt == pc = "transfer" /\ term = 0 => At(reader.at)

InOrder ==
    /\ late = {} /\ FollowerOK /\ NextOK /\ AppendOK /\ TransferOK /\ ResponseOK
    /\ WriterBehind /\ ReaderAt
Ordered == lates \in Nat /\ (lates = 0 => InOrder)

LEMMA RangeEnds ==
    ASSUME NEW a \in Int, NEW b \in Int, a <= b
    PROVE  Min(a .. b) = a /\ Max(a .. b) = b
  BY DEF Min, Max

\* What an append_entries request does to a follower whose log is what is behind
\* its snapshot, when it is given nothing that its snapshot covers.
LEMMA AppendHandled ==
    ASSUME term = 0, fsnap \in Nat, flast \in Nat, held = fsnap + 1 .. flast,
           NEW req, req.prev \in Nat, fsnap <= req.prev, HandleAppend(req),
           NEW top \in Nat,
           \/ req.entries = {}
           \/ req.entries = req.prev + 1 .. top /\ req.prev < top /\ flast <= top
    PROVE  LET a == AppendResponse(req) IN
           /\ held' = fsnap + 1 .. flast' /\ flast <= flast'
           /\ flast' = flast \/ (flast' = top /\ req.entries # {})
           /\ a.term = 0
           /\ a.last \in Nat /\ flast' <= a.last /\ a.last \in {flast', fsnap}
           /\ a.success => a.last = flast'
<1> DEFINE a == AppendResponse(req)
<1>1. ~Obsolete
  BY DEF Obsolete
<1>2. /\ a.term = 0 /\ (a.success => Refusal(req) = <<>>)
      /\ a.last = IF Refusal(req) # <<>> THEN Refusal(req)[1]
                  ELSE IF Lacking(req) = {} THEN flast ELSE Max(req.entries)
  BY <1>1 DEF AppendResponse
<1> HIDE DEF a
<1>3. CASE Refusal(req) # <<>>
  <2>1. flast' = flast /\ held' = held
    BY <1>1, <1>3 DEF HandleAppend
  <2>2. (Refusal(req) = <<fsnap>> /\ flast < fsnap) \/ Refusal(req) = <<flast>>
    BY <1>3 DEF Refusal
  <2>3. ~a.success /\ a.last = Refusal(req)[1]
    BY <1>2, <1>3
  <2>4. a.last \in {flast', fsnap} /\ flast <= a.last
    BY <2>1, <2>2, <2>3
  <2> QED BY <1>2, <2>1, <2>3, <2>4 DEF a
<1>4. CASE Refusal(req) = <<>>
  <2>1. (fsnap > flast /\ req.prev = fsnap) \/ (fsnap <= flast /\ req.prev <= flast)
    BY <1>4 DEF Refusal
  <2>2. Lacking(req) = IF req.entries = {} THEN {}
                       ELSE {i \in req.prev + 1 .. top : i \notin held}
    <3>1. \A i \in req.entries : i >= LogStart
      <4>1. CASE held = {}
        BY <4>1 DEF LogStart
      <4>2. CASE held # {}
        <5>1. fsnap + 1 <= flast
          BY <4>2
        <5>2. Min(held) = fsnap + 1
          <6> DEFINE b == fsnap + 1
          <6>1. b \in Int /\ flast \in Int /\ b <= flast
            BY <5>1
          <6> HIDE DEF b
          <6>2. Min(b .. flast) = b
            BY <6>1, RangeEnds, Zenon
          <6> QED BY <6>2 DEF b
        <5> QED BY <4>2, <5>2 DEF LogStart
      <4> QED BY <4>1, <4>2
    <3> QED BY <3>1 DEF Lacking
  <2>3. CASE Lacking(req) = {}
    <3>1. flast' = flast /\ held' = held
      BY <2>3 DEF HandleAppend
    <3> QED BY <1>2, <1>4, <2>3, <3>1 DEF a
  <2>4. CASE Lacking(req) # {}
    <3>1. req.entries = req.prev + 1 .. top /\ req.prev < top /\ flast <= top /\ req.entries # {}
      BY <2>2, <2>4
    <3>2. Max(req.entries) = top
      <4> DEFINE b == req.prev + 1
      <4>1. b \in Int /\ b <= top
        BY <3>1
      <4>2. req.entries = b .. top
        BY <3>1
      <4> HIDE DEF b
      <4>3. top \in Int
        OBVIOUS
      <4>4. Max(b .. top) = top
        BY <4>1, <4>3, RangeEnds, Zenon
      <4> QED BY <4>2, <4>4, Zenon
    <3>3. flast' = top /\ held' = {i \in held : i < Min(Lacking(req))} \union Min(Lacking(req)) .. top
      BY <1>1, <1>4, <2>4, <3>2 DEF HandleAppend
    <3>4. CASE fsnap > flast
      <4>1. Lacking(req) = fsnap + 1 .. top
        <5>1. held = {} /\ req.prev = fsnap
          BY <2>1, <3>4
        <5>2. Lacking(req) = req.prev + 1 .. top
          BY <2>2, <3>1, <5>1
        <5> QED BY <5>1, <5>2, Zenon
      <4>2. Min(Lacking(req)) = fsnap + 1
        <5> DEFINE b == fsnap + 1
        <5>1. b \in Int /\ top \in Int /\ b <= top
          BY <2>1, <3>1, <3>4
        <5> HIDE DEF b
        <5>2. Min(b .. top) = b
          BY <5>1, RangeEnds, Zenon
        <5> QED BY <4>1, <5>2, Zenon DEF b
      <4> QED BY <1>2, <1>4, <2>4, <3>1, <3>2, <3>3, <3>4, <4>2 DEF a
    <3>5. CASE fsnap <= flast
      <4>1. Lacking(req) = flast + 1 .. top
        <5>1. \A i : i \in Lacking(req) <=> i \in flast + 1 .. top
          <6>1. fsnap <= req.prev /\ req.prev <= flast
            BY <2>1, <3>5
          <6>2. \A i : i \in Lacking(req) <=> i \in req.prev + 1 .. top /\ i \notin fsnap + 1 .. flast
            BY <2>2, <3>1
          <6> HIDE <3>1
          <6> QED BY <6>1, <6>2
        <5> QED BY <5>1
      <4>2. flast < top
        BY <2>4, <4>1
      <4>3. Min(Lacking(req)) = flast + 1
        <5> DEFINE b == flast + 1
        <5>1. b \in Int /\ top \in Int /\ b <= top
          BY <4>2
        <5> HIDE DEF b
        <5>2. Min(b .. top) = b
          BY <5>1, RangeEnds, Zenon
        <5> QED BY <4>1, <5>2, Zenon DEF b
      <4>4. held' = fsnap + 1 .. top
        BY <3>3, <4>2, <4>3, <3>5
      <4> QED BY <1>2, <1>4, <2>4, <3>1, <3>2, <3>3, <4>4, <4>3 DEF a
    <3> QED BY <3>4, <3>5
  <2> QED BY <2>3, <2>4
<1> QED BY <1>3, <1>4

\* What a chunk does to the follower when it is of a snapshot that is not behind what
\* the follower holds, and is at the start, where the file ends or a head behind it.
LEMMA ChunkInOrder ==
    ASSUME Whole, UNCHANGED leader, NEW req, ChunkOK(req), HandleChunk(req),
           term = 0, flast \in Nat, Top <= req.snap, At(req.offset),
           writer.data # <<>> => Top <= writer.data[1][1] /\ writer.data[1][1] <= req.snap
    PROVE  LET a == ChunkResponse(req)
               complete == req.done /\ a.stored = req.offset + Len(req.data)
           IN  /\ a.term = 0 /\ flast' = flast
               /\ ~complete => UNCHANGED <<fsnap, held>> /\ a.stored = Len(writer'.data)
               /\ complete => /\ writer'.data = <<>> /\ held' = {}
                              /\ Top <= fsnap' /\ fsnap' <= req.snap
                              /\ OneSource => fsnap' = req.snap
               /\ writer'.data # <<>> => Top <= writer'.data[1][1] /\ writer'.data[1][1] <= req.snap
<1> DEFINE a == ChunkResponse(req)
           complete == req.done /\ a.stored = req.offset + Len(req.data)
           w == writer.data
<1>1. ~Obsolete /\ flast' = flast /\ SizesOK /\ WriterOK
  BY DEF Obsolete, HandleChunk, Whole
<1>2. w \in Seq(Nat \X Nat) /\ Writer(req).data = w
  BY <1>1 DEF WriterOK, Writer
<1>3. Len(w) \in Nat /\ Len(w) <= fileSize /\ fileSize \in Nat \ {0} /\ snap \in Nat
  BY <1>1, <1>2 DEF WriterOK, SizesOK, w
<1>4. req.snap \in Nat /\ req.offset \in Nat /\ fsnap \in Nat /\ Top \in Nat
  BY <1>1, <1>3, TransferLogs DEF ChunkOK, Whole, Top
<1>5. /\ req.data \in Seq(Nat \X Nat)
      /\ Len(req.data) = IF req.offset >= fileSize THEN 0
                         ELSE IF req.offset + ChunkSize <= fileSize THEN ChunkSize ELSE fileSize - req.offset
  <2>1. req.data = Pieces(req.snap, req.offset)
    BY DEF ChunkOK
  <2> DEFINE o == req.offset
             s == req.snap
  <2>2. s \in Nat /\ o \in Nat /\ fileSize \in Nat
    BY <1>3, <1>4
  <2> HIDE DEF o, s
  <2>3. /\ Pieces(s, o) \in Seq(Nat \X Nat)
        /\ Len(Pieces(s, o)) = IF o >= fileSize THEN 0
                               ELSE IF o + ChunkSize <= fileSize THEN ChunkSize ELSE fileSize - o
    BY <2>2, ChunkShape
  <2> QED BY <2>1, <2>3, Zenon DEF o, s
<1>6. a.term = 0 /\ a.stored = IF Fits(req) THEN Len(Stored(req).data) ELSE Len(w)
  BY <1>1, <1>2 DEF ChunkResponse
<1> HIDE DEF a, w
<1>7. CASE ~Fits(req)
  <2>1. writer' = Writer(req) /\ UNCHANGED <<fsnap, held>>
    BY <1>1, <1>7 DEF HandleChunk
  <2>2. writer'.data = w
    BY <1>2, <2>1
  <2>3. req.offset # Len(w)
    BY <1>2, <1>7 DEF Fits
  <2>4. ~complete
    <3>1. CASE req.offset = Len(w) + HeadSize
      <4>1. a.stored = Len(w) /\ Len(req.data) \in Nat
        BY <1>5, <1>6, <1>7, Zenon, LenProperties
      <4>2. a.stored # req.offset + Len(req.data)
        <5> DEFINE x == Len(w)
                   y == Len(req.data)
        <5>1. HeadSize \in Nat /\ HeadSize > 0
          BY TransferSizes
        <5>2. x \in Nat /\ y \in Nat
          BY <1>3, <4>1
        <5> HIDE DEF x, y
        <5>3. (x + HeadSize) + y # x
          BY <5>1, <5>2
        <5> QED BY <3>1, <4>1, <5>3, Zenon DEF x, y
      <4> QED BY <4>2, Zenon
    <3>2. CASE req.offset = 0
      <4>1. w # <<>>
        BY <2>3, <3>2, EmptySeq
      <4>2. ChunkSize <= fileSize
        BY <1>1, <4>1 DEF WriterOK, w
      <4>3. Len(req.data) = ChunkSize
        BY <1>3, <1>5, <3>2, <4>2, TransferSizes
      <4> QED BY <4>3, Zenon DEF ChunkOK
    <3> QED BY <2>3, <3>1, <3>2 DEF At, w
  <2> QED BY <1>1, <1>6, <1>7, <2>1, <2>2, <2>4, Zenon DEF a, w
<1>8. CASE Fits(req)
  <2> DEFINE d == Stored(req).data
  <2> HIDE DEF d
  <2>1. /\ Len(d) <= fileSize /\ (req.done => Len(d) = fileSize)
        /\ d \in Seq(Nat \X Nat)
        /\ \A k \in 1 .. Len(d) : d[k][2] = k /\ d[k][1] \in FirstSnapshot .. snap
        /\ made = 0 => \A k \in 1 .. Len(d) : d[k][1] = FirstSnapshot
        /\ w = <<>> => \A k \in 1 .. Len(d) : d[k][1] = req.snap
        /\ d = w \o req.data
        /\ Len(d) = Len(w) + Len(req.data)
    BY <1>1, <1>2, <1>8, Grown DEF d, w
  <2>2. a.stored = Len(d) /\ req.offset = Len(w) /\ Len(d) = req.offset + Len(req.data)
    BY <1>2, <1>6, <1>8, <2>1 DEF Fits, d
  <2>3. complete <=> req.done
    BY <2>2
  <2>4. d # <<>> => Top <= d[1][1] /\ d[1][1] <= req.snap
    <3> SUFFICES ASSUME d # <<>>  PROVE Top <= d[1][1] /\ d[1][1] <= req.snap
      OBVIOUS
    <3>1. 1 \in 1 .. Len(d)
      BY <2>1
    <3>2. CASE w = <<>>
      BY <1>4, <2>1, <3>1, <3>2
    <3>3. CASE w # <<>>
      <4>1. 1 \in 1 .. Len(w) /\ 1 <= Len(w)
        BY <1>2, <3>3
      <4>3. \A k \in 1 .. Len(w) + Len(req.data) :
               (w \o req.data)[k] = IF k <= Len(w) THEN w[k] ELSE req.data[k - Len(w)]
        BY <1>2, <1>5, ConcatProperties
      <4>4. d[1] = w[1]
        BY <2>1, <3>1, <4>1, <4>3
      <4> QED BY <3>3, <4>4 DEF w
    <3> QED BY <3>2, <3>3
  <2>5. CASE ~req.done
    <3>1. writer' = Stored(req) /\ UNCHANGED <<fsnap, held>>
      BY <1>1, <1>8, <2>5 DEF HandleChunk
    <3> QED BY <1>1, <1>6, <2>2, <2>3, <2>4, <2>5, <3>1, Zenon DEF a, d
  <2>6. CASE req.done
    <3>1. d # <<>> /\ Len(d) = fileSize /\ 1 \in 1 .. Len(d)
      <4>1. Len(d) = fileSize
        BY <2>1, <2>6
      <4>2. Len(d) # 0 /\ 1 \in 1 .. Len(d)
        BY <1>3, <4>1
      <4> QED BY <4>1, <4>2, EmptySeq
    <3>2. Top <= d[1][1] /\ d[1][1] <= req.snap
      BY <2>4, <3>1
    <3>3. fsnap <= Top
      BY <1>4 DEF Top
    <3>4. ~(req.snap < fsnap)
      BY <1>4, <3>3
    <3>5. writer' = NoWriter /\ fsnap' = d[1][1] /\ held' = {}
      BY <1>1, <1>8, <2>6, <3>4 DEF HandleChunk, Install, d
    <3>6. writer'.data = <<>>
      BY <3>5 DEF NoWriter
    <3>7. OneSource => d[1][1] = req.snap
      <4>1. CASE made = 0
        BY <2>1, <3>1, <4>1 DEF ChunkOK
      <4>2. CASE fileSize < ChunkSize
        <5>1. w = <<>>
          BY <1>1, <1>3, <4>2, TransferSizes DEF WriterOK, w
        <5> QED BY <2>1, <3>1, <5>1
      <4> QED BY <4>1, <4>2 DEF OneSource
    <3> QED BY <1>1, <1>6, <2>3, <2>6, <3>2, <3>5, <3>6, <3>7, Zenon DEF a
  <2> QED BY <2>5, <2>6
<1> QED BY <1>7, <1>8

\* What every step below needs of the invariant of whole snapshots.
LEMMA Bounds ==
    ASSUME Whole, FollowerOK
    PROVE  /\ snap \in Nat /\ last \in Nat /\ snap <= last /\ fsnap \in Nat /\ fsnap <= snap
           /\ flast \in Nat /\ flast <= last /\ Top \in Nat /\ Top <= last
           /\ fsnap <= Top /\ flast <= Top
           /\ reader \in [snap : Nat, at : Nat] /\ reader.snap <= snap
           /\ Len(writer.data) \in Nat
<1>1. snap \in Nat /\ last \in Nat /\ snap <= last /\ fsnap \in Nat /\ fsnap <= snap
  BY TransferLogs DEF Whole, SizesOK
<1>2. flast \in Nat /\ flast <= last
  BY <1>1 DEF FollowerOK
<1>3. reader \in [snap : Nat, at : Nat] /\ reader.snap <= snap
  BY DEF Whole, ReaderOK
<1>4. Len(writer.data) \in Nat
  BY DEF Whole, WriterOK
<1> QED BY <1>1, <1>2, <1>3, <1>4 DEF Top

LEMMA OrderedInit == Init => Ordered
<1> SUFFICES ASSUME Init PROVE Ordered
  OBVIOUS
<1>1. Whole
  BY WholeInit
<1> USE DEF Init, None
<1>2. FollowerOK
  BY TransferLogs DEF FollowerOK
<1>3. NextOK
  BY <1>1, <1>2, Bounds DEF NextOK
<1>4. AppendOK /\ TransferOK /\ ResponseOK /\ ReaderAt
  BY DEF AppendOK, TransferOK, ResponseOK, ReaderAt
<1>5. WriterBehind
  BY DEF WriterBehind, NoWriter
<1> QED BY <1>2, <1>3, <1>4, <1>5 DEF Ordered, InOrder

\* The steps of the leader and of its peer thread.
LEMMA PeerOrdered ==
    ASSUME Whole, Whole', InOrder, lates = 0, lates' = 0,
           \/ Replicate \/ MakeSnapshot \/ AppendTurn \/ SendChunk \/ Answer \/ CallFails
    PROVE  InOrder'
<1>1. UNCHANGED follower /\ UNCHANGED term /\ late' = {}
  BY DEF Replicate, MakeSnapshot, AppendTurn, SendChunk, Answer, CallFails, network, InOrder
<1>2. /\ FollowerOK /\ NextOK /\ AppendOK /\ TransferOK /\ ResponseOK /\ WriterBehind /\ ReaderAt
      /\ PcOK
  BY DEF InOrder, Whole
<1>3. /\ snap \in Nat /\ last \in Nat /\ snap <= last /\ fsnap \in Nat /\ fsnap <= snap
      /\ flast \in Nat /\ flast <= last /\ Top \in Nat /\ Top <= last
      /\ fsnap <= Top /\ flast <= Top
      /\ reader \in [snap : Nat, at : Nat] /\ reader.snap <= snap
      /\ Len(writer.data) \in Nat
  BY <1>2, Bounds
<1>4. Top' = Top /\ Len(writer.data)' = Len(writer.data)
  BY <1>1 DEF Top, follower
<1>5. CASE Replicate
  <2>1. /\ last' = last + 1 /\ UNCHANGED <<snap, made, fileSize, pc, next, match, reader, call>>
    BY <1>5 DEF Replicate, peer
  <2>2. FollowerOK'
    BY <1>1, <1>2, <1>3, <2>1 DEF FollowerOK, follower
  <2>3. NextOK'
    BY <1>2, <1>4, <2>1 DEF NextOK, OneSource
  <2>4. AppendOK'
    <3>1. EntriesOK(call.req) => EntriesOK(call.req)'
      BY <1>1, <1>3, <2>1 DEF EntriesOK, follower
    <3> QED BY <1>1, <1>2, <1>3, <1>4, <2>1, <3>1 DEF AppendOK, follower
  <2>5. TransferOK'
    BY <1>2, <1>3, <1>4, <2>1 DEF TransferOK, Behind, NextOK
  <2>6. ResponseOK'
    BY <1>1, <1>2, <2>1 DEF ResponseOK, Complete, At, OneSource, follower
  <2>7. WriterBehind'
    BY <1>1, <1>2, <1>3, <1>4, <2>1 DEF WriterBehind, Behind, follower, NextOK
  <2>8. ReaderAt'
    BY <1>1, <1>2, <2>1 DEF ReaderAt, At, follower
  <2> QED BY <1>1, <2>2, <2>3, <2>4, <2>5, <2>6, <2>7, <2>8 DEF InOrder
<1>6. CASE MakeSnapshot
  <2>1. /\ snap' = last /\ made' = made + 1 /\ snap < last
        /\ UNCHANGED <<last, fileSize, pc, next, match, reader, call>>
        /\ (OneSource' => OneSource)
    BY <1>6 DEF MakeSnapshot, peer, OneSource, Whole, SizesOK
  <2>2. FollowerOK'
    BY <1>1, <1>2, <1>3, <2>1 DEF FollowerOK, follower
  <2>3. NextOK'
    BY <1>2, <1>3, <1>4, <2>1 DEF NextOK
  <2>4. AppendOK'
    <3>1. EntriesOK(call.req) => EntriesOK(call.req)'
      BY <1>1, <1>3, <2>1 DEF EntriesOK, follower
    <3> QED BY <1>1, <1>2, <1>3, <1>4, <2>1, <3>1 DEF AppendOK, follower
  <2>5. TransferOK'
    BY <1>2, <1>3, <1>4, <2>1 DEF TransferOK, Behind, NextOK
  <2>6. ResponseOK'
    BY <1>1, <1>2, <2>1 DEF ResponseOK, Complete, At, follower
  <2>7. WriterBehind'
    BY <1>1, <1>2, <1>3, <1>4, <2>1 DEF WriterBehind, Behind, follower, NextOK
  <2>8. ReaderAt'
    BY <1>1, <1>2, <2>1 DEF ReaderAt, At, follower
  <2> QED BY <1>1, <2>2, <2>3, <2>4, <2>5, <2>6, <2>7, <2>8 DEF InOrder
<1>7. CASE AppendTurn
  <2> PICK n : /\ n = IF next = 0 \/ next > last THEN last ELSE next
               /\ next' = n
               /\ IF AppendRequest(n).entries = {} /\ n < last
                  THEN /\ reader' = [snap |-> snap, at |-> 0]
                       /\ pc' = "transfer" /\ UNCHANGED call
                  ELSE /\ call' = [req |-> AppendRequest(n), resp |-> None]
                       /\ pc' = "call" /\ UNCHANGED reader
    BY <1>7 DEF AppendTurn
  <2> DEFINE req == AppendRequest(n)
  <2>1. pc = "append" /\ UNCHANGED <<snap, last, made, fileSize, match>> /\ (OneSource' <=> OneSource)
    BY <1>7 DEF AppendTurn, leader, OneSource
  <2>2. n \in Nat /\ n <= last /\ (next # 0 /\ next < last => n = next)
    BY <1>2, <1>3 DEF NextOK
  <2>3. call.req = None /\ call.resp = None /\ call.req.type = "none"
    BY <1>2, <2>1 DEF PcOK, None
  <2>4. /\ req.type = "append"
        /\ req.prev = IF n > snap THEN n - 1 ELSE snap
        /\ req.entries = IF n > snap THEN n .. last ELSE {}
    BY DEF AppendRequest
  <2> HIDE DEF req
  <2>5. NextOK'
    BY <1>2, <1>3, <1>4, <2>1, <2>2 DEF NextOK
  <2>6. CASE req.entries = {} /\ n < last
    <3>1. reader' = [snap |-> snap, at |-> 0] /\ pc' = "transfer" /\ UNCHANGED call
      BY <2>6 DEF req
    <3>2. n <= snap
      <4>1. n > snap => n \in req.entries
        BY <1>3, <2>2, <2>4
      <4> QED BY <1>3, <2>2, <2>6, <4>1
    <3>3. n = next /\ next # 0
      BY <2>2, <2>6
    <3>4. Behind' /\ Behind /\ Top <= snap
      BY <1>2, <2>1, <2>6, <3>2, <3>3 DEF Behind, NextOK
    <3>5. reader'.snap = snap /\ reader'.at = 0
      BY <3>1
    <3>6. FollowerOK' /\ AppendOK' /\ ResponseOK'
      BY <1>1, <1>2, <2>1, <2>3, <3>1 DEF FollowerOK, follower, AppendOK, ResponseOK, None
    <3>7. TransferOK' /\ ReaderAt'
      BY <1>4, <3>4, <3>5 DEF TransferOK, ReaderAt, At
    <3>8. WriterBehind'
      <4>1. writer.data # <<>> => writer.data[1][1] <= snap
        <5>1. writer.data # <<>> => 1 \in 1 .. Len(writer.data)
          BY DEF Whole, WriterOK
        <5> QED BY SMTT(20), <1>3, <5>1, TransferLogs DEF Whole, WriterOK
      <4> QED BY <1>1, <1>2, <1>4, <2>1, <2>3, <3>1, <3>4, <3>5, <4>1 DEF WriterBehind, follower
    <3> QED BY <1>1, <2>5, <3>6, <3>7, <3>8 DEF InOrder
  <2>7. CASE ~(req.entries = {} /\ n < last)
    <3>1. call' = [req |-> req, resp |-> None] /\ pc' = "call" /\ UNCHANGED reader
      BY <2>7 DEF req
    <3>2. call'.req = req /\ call'.resp = None
      BY <3>1
    <3>3. writer.data = <<>>
      <4> SUFFICES ASSUME Behind PROVE FALSE
        BY <1>2 DEF WriterBehind
      <4>1. n = next /\ n <= snap /\ n < last
        BY <1>2, <1>3, <2>2 DEF Behind, NextOK
      <4> QED BY <1>3, <2>2, <2>4, <2>7, <4>1
    <3>4. FollowerOK'
      BY <1>1, <1>2, <1>3, <2>1, <3>2 DEF FollowerOK, follower
    <3> PICK r : r = req
      OBVIOUS
    <3>5. EntriesOK(r)'
      <4>1. CASE n > snap
        <5>1. last \in 1 .. last'
          BY <1>3, <2>1, <4>1, <2>2
        <5>2. /\ req.entries = req.prev + 1 .. last /\ req.prev < last /\ next' = req.prev + 1
              /\ (next' <= snap' => last <= snap') /\ flast' <= last
          BY <1>1, <1>3, <2>1, <2>2, <2>4, <4>1 DEF follower
        <5> QED BY <2>1, <3>2, <5>1, <5>2 DEF EntriesOK
      <4>2. CASE ~(n > snap)
        BY <2>4, <4>2 DEF EntriesOK
      <4> QED BY <4>1, <4>2
    <3>6. AppendOK'
      <4>1. req.prev \in Nat /\ fsnap <= req.prev
        BY <1>3, <2>2, <2>4
      <4>2. EntriesOK(call.req)'
        BY <3>2, <3>5 DEF EntriesOK
      <4> QED BY <1>1, <3>2, <4>1, <4>2 DEF AppendOK, follower
    <3>7. TransferOK' /\ ReaderAt' /\ ResponseOK'
      BY <2>4, <3>1, <3>2 DEF TransferOK, ReaderAt, ResponseOK
    <3>8. WriterBehind'
      BY <1>1, <3>3 DEF WriterBehind, follower
    <3> QED BY <1>1, <2>5, <3>4, <3>6, <3>7, <3>8 DEF InOrder
  <2> QED BY <2>6, <2>7
<1>8. CASE SendChunk
  <2> DEFINE chunk == Pieces(reader.snap, reader.at)
             new == [type |-> "chunk", snap |-> reader.snap, offset |-> reader.at,
                     data |-> chunk, done |-> Len(chunk) # ChunkSize]
  <2>1. /\ pc = "transfer" /\ pc' = "call"
        /\ UNCHANGED <<snap, last, made, fileSize, match, next>> /\ (OneSource' <=> OneSource)
        /\ call' = [req |-> new, resp |-> None]
        /\ reader' = [reader EXCEPT !.at = @ + Len(chunk)]
    BY <1>8 DEF SendChunk, Pieces, leader, OneSource
  <2>2. Len(chunk) \in Nat
    BY <1>3, ChunkShape DEF Whole, SizesOK
  <2> HIDE DEF chunk
  <2>3. /\ new.type = "chunk" /\ new.snap = reader.snap /\ new.offset = reader.at /\ new.data = chunk
    OBVIOUS
  <2> HIDE DEF new
  <2>4. call'.req = new /\ call'.resp = None
    BY <2>1
  <2>5. reader'.snap = reader.snap /\ reader'.at = reader.at + Len(chunk)
    BY <1>3, <2>1, <2>2
  <2>6. FollowerOK' /\ NextOK' /\ AppendOK'
    BY <1>1, <1>2, <1>4, <2>1, <2>3, <2>4 DEF FollowerOK, NextOK, AppendOK, follower
  <2>7. TransferOK' /\ ReaderAt'
    BY <1>2, <1>4, <2>1, <2>5 DEF TransferOK, ReaderAt, Behind
  <2>8. ResponseOK'
    BY <1>1, <1>2, <1>4, <2>1, <2>3, <2>4, <2>5 DEF ResponseOK, ReaderAt, At, follower
  <2>9. WriterBehind'
    BY <1>1, <1>2, <1>4, <2>1, <2>3, <2>4, <2>5 DEF WriterBehind, Behind, follower
  <2> QED BY <1>1, <2>6, <2>7, <2>8, <2>9 DEF InOrder
<1>9. CASE CallFails
  <2>1. /\ UNCHANGED <<snap, last, made, fileSize, match, next, reader>> /\ pc' = "append"
        /\ call' = [req |-> None, resp |-> None] /\ (OneSource' <=> OneSource)
    BY <1>9 DEF CallFails, leader, peer, OneSource
  <2>2. call'.req = None /\ call'.resp = None /\ call'.req.type = "none"
    BY <2>1 DEF None
  <2>3. FollowerOK' /\ NextOK' /\ AppendOK'
    BY <1>1, <1>2, <1>4, <2>1, <2>2 DEF FollowerOK, NextOK, AppendOK, follower
  <2>4. TransferOK' /\ ReaderAt' /\ ResponseOK' /\ WriterBehind'
    BY <1>1, <1>2, <1>4, <2>1, <2>2 DEF TransferOK, ReaderAt, ResponseOK, WriterBehind, Behind, follower
  <2> QED BY <1>1, <2>3, <2>4 DEF InOrder
<1>10. CASE Answer
  <2>1. /\ UNCHANGED <<snap, last, made, fileSize>> /\ (OneSource' <=> OneSource)
        /\ call' = [req |-> None, resp |-> None] /\ pc = "call" /\ call.resp # None
    BY <1>10 DEF Answer, leader, OneSource
  <2>2. call'.req = None /\ call'.resp = None /\ call'.req.type = "none"
    BY <2>1 DEF None
  <2>3. FollowerOK' /\ AppendOK' /\ ResponseOK'
    BY <1>1, <1>2, <2>1, <2>2 DEF FollowerOK, AppendOK, ResponseOK, follower
  <2>4. call.req.type # "append" \/ writer.data = <<>>
    BY <1>2 DEF WriterBehind
  <2> SUFFICES NextOK' /\ TransferOK' /\ WriterBehind' /\ ReaderAt'
    BY <1>1, <2>3 DEF InOrder
  <2>5. CASE call.resp.term > 0
    <3>1. pc' = "deposed" /\ UNCHANGED <<next, match, reader>>
      BY <1>10, <2>5 DEF Answer, peer
    <3>2. NextOK'
      BY <1>1, <1>2, <1>4, <2>1, <3>1 DEF NextOK
    <3> QED BY <1>1, <1>2, <1>4, <2>1, <2>2, <3>1, <3>2
            DEF TransferOK, ReaderAt, WriterBehind, Behind, follower
  <2>6. CASE call.resp.term = 0 /\ call.req.type = "append"
    <3>1. /\ match' = IF call.resp.success THEN call.resp.last ELSE 0
          /\ next' = call.resp.last + 1 /\ pc' = "append" /\ UNCHANGED reader
      BY <1>10, <2>6 DEF Answer, AppendAnswered
    <3>2. /\ call.resp.last \in Nat /\ flast <= call.resp.last /\ call.resp.last <= last
          /\ (call.resp.success => call.resp.last <= Top)
      BY <1>2, <2>1, <2>6 DEF AppendOK
    <3>3. NextOK'
      <4>1. match' \in Nat /\ match' <= Top
        BY <1>3, <3>1, <3>2
      <4>2. next' \in Nat /\ (next' <= snap => Top <= snap)
        BY <1>3, <3>1, <3>2 DEF Top
      <4> QED BY <1>4, <2>1, <4>1, <4>2 DEF NextOK
    <3> QED BY <1>1, <2>2, <2>4, <2>6, <3>1, <3>3 DEF TransferOK, ReaderAt, WriterBehind, follower
  <2>7. CASE call.resp.term = 0 /\ call.req.type = "chunk"
    <3> DEFINE complete == call.resp.stored = call.req.offset + Len(call.req.data)
    <3>1. Behind /\ Top <= reader.snap
      BY <1>2, <2>7 DEF TransferOK
    <3>2. /\ call.req.snap = reader.snap /\ reader.at = call.req.offset + Len(call.req.data)
          /\ (term = 0 /\ ~Complete => call.resp.stored = Len(writer.data))
          /\ (Complete => writer.data = <<>> /\ (OneSource => reader.snap <= fsnap))
      BY <1>2, <2>1, <2>7 DEF ResponseOK
    <3>3. CASE ~complete
      <4>1. /\ reader' = [reader EXCEPT !.at = Resume(call.resp.stored)]
            /\ pc' = "transfer" /\ UNCHANGED <<next, match>>
        BY <1>10, <2>7, <3>3 DEF Answer, ChunkAnswered
      <4>2. reader'.snap = reader.snap /\ reader'.at = call.resp.stored + HeadSize
        BY <1>3, <4>1 DEF Resume
      <4>3. ReaderAt'
        BY <1>1, <3>2, <3>3, <4>2 DEF ReaderAt, At, Complete, follower
      <4> QED BY <1>1, <1>2, <1>4, <2>1, <2>2, <3>1, <4>1, <4>2, <4>3
              DEF NextOK, TransferOK, WriterBehind, Behind, follower
    <3>4. CASE complete /\ call.req.done
      <4>1. match' = reader.snap /\ next' = reader.snap + 1 /\ pc' = "append" /\ UNCHANGED reader
        BY <1>10, <2>7, <3>4 DEF Answer, ChunkAnswered
      <4>2. writer.data = <<>> /\ (OneSource => reader.snap <= fsnap)
        BY <3>2, <3>4 DEF Complete
      <4>3. NextOK'
        BY <1>3, <1>4, <2>1, <3>1, <4>1, <4>2 DEF NextOK
      <4> QED BY <1>1, <2>2, <4>1, <4>2, <4>3 DEF TransferOK, WriterBehind, ReaderAt, follower
    <3>5. CASE complete /\ ~call.req.done
      <4>1. pc' = "transfer" /\ UNCHANGED <<next, match, reader>>
        BY <1>10, <2>7, <3>5 DEF Answer, ChunkAnswered, peer
      <4>2. ReaderAt'
        BY <1>1, <3>2, <3>5, <4>1 DEF ReaderAt, At, Complete, follower
      <4> QED BY <1>1, <1>2, <1>4, <2>1, <2>2, <3>1, <4>1, <4>2
              DEF NextOK, TransferOK, WriterBehind, Behind, follower
    <3> QED BY <3>3, <3>4, <3>5
  <2> QED BY <1>2, <2>1, <2>5, <2>6, <2>7 DEF FollowerOK, PcOK
<1> QED BY <1>5, <1>6, <1>7, <1>8, <1>9, <1>10

\* The follower hears of a new term.
LEMMA TermOrdered ==
    ASSUME Whole, InOrder, NewTerm
    PROVE  InOrder'
<1>1. /\ term' = term + 1 /\ writer' = NoWriter
      /\ UNCHANGED <<snap, last, made, fileSize, pc, next, match, reader, call,
                     flast, held, fsnap, late>>
  BY DEF NewTerm, leader, peer, network
<1>2. /\ FollowerOK /\ NextOK /\ AppendOK /\ TransferOK /\ ResponseOK /\ WriterBehind /\ ReaderAt
      /\ late = {}
  BY DEF InOrder
<1>3. writer'.data = <<>> /\ term' # 0 /\ Top' = Top
  BY <1>1, <1>2 DEF NoWriter, FollowerOK, Top
<1>4. FollowerOK' /\ NextOK' /\ TransferOK' /\ WriterBehind' /\ ReaderAt'
  BY <1>1, <1>2, <1>3
     DEF FollowerOK, NextOK, OneSource, TransferOK, Behind, WriterBehind, ReaderAt
<1>5. AppendOK'
  BY <1>1, <1>2, <1>3 DEF AppendOK, EntriesOK
<1>6. ResponseOK'
  BY <1>1, <1>2, <1>3 DEF ResponseOK, Complete, OneSource
<1> QED BY <1>1, <1>2, <1>4, <1>5, <1>6 DEF InOrder

\* The follower serves the call that is under way: nothing it holds is lost.
LEMMA ServeOrdered ==
    ASSUME Whole, InOrder, Serve
    PROVE  InOrder' /\ Top <= Top'
<1>2. /\ FollowerOK /\ NextOK /\ AppendOK /\ TransferOK /\ ResponseOK /\ WriterBehind /\ ReaderAt
      /\ PcOK /\ late = {}
  BY DEF InOrder, Whole
<1>3. /\ snap \in Nat /\ last \in Nat /\ snap <= last /\ fsnap \in Nat /\ fsnap <= snap
      /\ flast \in Nat /\ flast <= last /\ Top \in Nat /\ Top <= last
      /\ fsnap <= Top /\ flast <= Top
      /\ reader \in [snap : Nat, at : Nat] /\ reader.snap <= snap
      /\ Len(writer.data) \in Nat
  BY <1>2, Bounds
<1> PICK req : req = call.req
  OBVIOUS
<1> DEFINE a == IF req.type = "append" THEN AppendResponse(req) ELSE ChunkResponse(req)
<1>4. /\ UNCHANGED <<snap, last, made, fileSize, pc, next, match, reader, term, late>>
      /\ pc = "call" /\ call.resp = None /\ Handle(req)
      /\ call' = [call EXCEPT !.resp = a]
  BY DEF Serve, leader, peer, network
<1> HIDE DEF a
<1>5. call'.req = req /\ call'.resp = a /\ (OneSource' <=> OneSource)
  <2>1. call = [req |-> call.req, resp |-> call.resp]
    BY <1>2 DEF PcOK
  <2> QED BY <1>4, <2>1, ResponsePut, Zenon DEF OneSource
<1>6. req.type \in {"append", "chunk"} /\ pc' # "transfer"
  BY <1>2, <1>4 DEF PcOK
<1>7. CASE term > 0
  <2>1. UNCHANGED <<flast, held, fsnap, writer>>
    BY <1>4, <1>7 DEF Handle, HandleAppend, HandleChunk, Obsolete
  <2>2. a.term = term
    BY DEF a, AppendResponse, ChunkResponse
  <2>3. Top' = Top
    BY <2>1 DEF Top
  <2>4. FollowerOK' /\ NextOK' /\ TransferOK' /\ WriterBehind' /\ ReaderAt'
    BY <1>2, <1>4, <1>5, <1>6, <2>1, <2>2, <2>3
       DEF FollowerOK, NextOK, TransferOK, Behind, WriterBehind, ReaderAt
  <2>5. AppendOK'
    <3>1. EntriesOK(call.req) => EntriesOK(call.req)'
      BY <1>4, <1>5, <2>1 DEF EntriesOK
    <3> QED BY <1>2, <1>4, <1>5, <1>7, <2>1, <2>2, <3>1 DEF AppendOK
  <2>6. ResponseOK'
    BY <1>2, <1>4, <1>5, <1>7, <2>1, <2>2 DEF ResponseOK
  <2> QED BY <1>2, <1>3, <1>4, <2>3, <2>4, <2>5, <2>6 DEF InOrder
<1>8. CASE term = 0 /\ req.type = "append"
  <2>1. HandleAppend(req) /\ a = AppendResponse(req)
    BY <1>4, <1>8 DEF Handle, a
  <2>2. /\ req.prev \in Nat /\ fsnap <= req.prev /\ EntriesOK(call.req)
    BY <1>2, <1>8 DEF AppendOK
  <2>3. writer.data = <<>> /\ UNCHANGED <<fsnap, writer>>
    BY <1>2, <1>8, <2>1 DEF WriterBehind, HandleAppend
  <2> PICK top : /\ top \in Nat /\ top <= last
                 /\ \/ req.entries = {}
                    \/ /\ req.entries = req.prev + 1 .. top /\ req.prev < top
                       /\ top \in 1 .. last /\ next = req.prev + 1
                       /\ (next <= snap => top <= snap) /\ flast <= top
    <3>1. CASE req.entries = {}
      BY <1>3, <3>1
    <3>2. CASE req.entries # {}
      BY <1>3, <1>4, <2>2, <3>2 DEF EntriesOK
    <3> QED BY <3>1, <3>2
  <2>4. /\ held' = fsnap + 1 .. flast' /\ flast <= flast'
        /\ flast' = flast \/ (flast' = top /\ req.entries # {})
        /\ a.term = 0
        /\ a.last \in Nat /\ flast' <= a.last /\ a.last \in {flast', fsnap}
        /\ a.success => a.last = flast'
    BY <1>2, <1>3, <1>8, <2>1, <2>2, AppendHandled DEF FollowerOK
  <2>5. flast' \in Nat /\ flast' <= last /\ Top <= Top' /\ flast' <= Top' /\ Top' \in Nat
    <3>1. flast' \in Nat /\ flast' <= last
      BY <1>3, <2>4
    <3>2. fsnap' = fsnap /\ flast <= flast'
      BY <2>3, <2>4
    <3> QED BY <1>3, <3>1, <3>2 DEF Top
  <2>6. FollowerOK'
    BY <1>2, <1>3, <1>4, <1>5, <2>3, <2>4, <2>5 DEF FollowerOK
  <2>7. NextOK'
    <3>1. next # 0 /\ next <= snap => Top' <= snap
      BY <1>2, <1>3, <2>3, <2>4 DEF NextOK, Top
    <3>2. OneSource => match <= Top'
      BY <1>2, <1>3, <2>5 DEF NextOK
    <3> QED BY <1>2, <1>4, <1>5, <3>1, <3>2 DEF NextOK
  <2>8. AppendOK'
    <3>1. a # None /\ EntriesOK(call.req)'
      <4>1. a # None
        BY <2>1 DEF AppendResponse, None
      <4>2. CASE req.entries = {}
        BY <1>5, <4>1, <4>2 DEF EntriesOK
      <4>3. CASE req.entries # {}
        BY <1>4, <1>5, <4>1, <4>3 DEF EntriesOK
      <4> QED BY <4>1, <4>2, <4>3
    <3>2. a.last <= last /\ (a.success => a.last <= Top')
      BY <1>3, <2>4, <2>5
    <3> QED BY <1>4, <1>5, <2>2, <2>3, <2>4, <3>1, <3>2 DEF AppendOK
  <2>9. TransferOK' /\ ReaderAt' /\ ResponseOK' /\ WriterBehind'
    BY <1>5, <1>6, <1>8, <2>3 DEF TransferOK, ReaderAt, ResponseOK, WriterBehind
  <2> QED BY <1>2, <1>4, <2>5, <2>6, <2>7, <2>8, <2>9 DEF InOrder
<1>9. CASE term = 0 /\ req.type = "chunk"
  <2>1. HandleChunk(req) /\ a = ChunkResponse(req) /\ ChunkOK(req)
    BY <1>4, <1>9 DEF Handle, a, Whole, RequestsOK, Requests
  <2>2. Behind /\ Top <= reader.snap
    BY <1>2, <1>9 DEF TransferOK
  <2>3. req.snap = reader.snap /\ reader.at = req.offset + Len(req.data) /\ At(req.offset)
    BY <1>2, <1>4, <1>9 DEF ResponseOK
  <2> DEFINE complete == req.done /\ a.stored = req.offset + Len(req.data)
  <2>4. /\ a.term = 0 /\ flast' = flast
        /\ ~complete => UNCHANGED <<fsnap, held>> /\ a.stored = Len(writer'.data)
        /\ complete => /\ writer'.data = <<>> /\ held' = {}
                       /\ Top <= fsnap' /\ fsnap' <= req.snap
                       /\ OneSource => fsnap' = req.snap
        /\ writer'.data # <<>> => Top <= writer'.data[1][1] /\ writer'.data[1][1] <= req.snap
    <3>1. writer.data # <<>> => Top <= writer.data[1][1] /\ writer.data[1][1] <= req.snap
      BY <1>2, <2>3 DEF WriterBehind
    <3>2. UNCHANGED leader /\ Top <= req.snap
      BY <1>4, <2>2, <2>3 DEF leader
    <3> QED BY <1>3, <1>9, <2>1, <2>3, <3>1, <3>2, ChunkInOrder
  <2>5. Complete' <=> complete
    BY <1>5 DEF Complete
  <2> HIDE DEF complete
  <2>6. /\ Top <= Top' /\ Top' <= reader.snap /\ fsnap' \in Nat /\ held' = fsnap' + 1 .. flast
    <3>1. CASE complete
      <4>1. fsnap' \in Int
        BY <2>1, <2>4, <3>1, ChunkHandled, <1>3, <1>4 DEF leader
      <4>2. flast <= fsnap'
        BY <1>3, <2>4, <3>1, <4>1
      <4>3. flast' = flast /\ held' = {} /\ Top <= fsnap' /\ fsnap' <= reader.snap
        BY <2>3, <2>4, <3>1
      <4>4. Top' = fsnap'
        BY <1>3, <4>1, <4>2, <4>3 DEF Top
      <4>5. fsnap' + 1 .. flast = {}
        <5> DEFINE f == fsnap'
        <5>1. f \in Int /\ flast \in Int /\ flast <= f
          BY <1>3, <4>1, <4>2
        <5> HIDE DEF f
        <5>2. f + 1 .. flast = {}
          BY <5>1
        <5> QED BY <5>2 DEF f
      <4>6. held' = fsnap' + 1 .. flast
        BY <4>3, <4>5, Zenon
      <4>7. fsnap' \in Nat /\ Top <= Top' /\ Top' <= reader.snap
        BY <1>3, <4>1, <4>3, <4>4
      <4> QED BY <4>6, <4>7, Zenon
    <3>2. CASE ~complete
      BY <1>2, <1>3, <2>2, <2>4, <3>2 DEF Top, FollowerOK
    <3> QED BY <3>1, <3>2
  <2>7. FollowerOK'
    BY <1>2, <1>3, <1>4, <1>5, <2>4, <2>6 DEF FollowerOK
  <2>8. NextOK'
    <3>1. Top' \in Nat
      BY <1>3, <2>4, <2>6 DEF Top
    <3>2. Top' <= snap
      BY <1>3, <2>6, <3>1
    <3>3. OneSource => match <= Top'
      BY <1>2, <1>3, <2>6, <3>1 DEF NextOK
    <3> QED BY <1>2, <1>4, <1>5, <3>2, <3>3 DEF NextOK
  <2>9. AppendOK' /\ ReaderAt'
    BY <1>5, <1>6, <1>9 DEF AppendOK, ReaderAt
  <2>10. TransferOK'
    BY <1>4, <2>2, <2>6 DEF TransferOK, Behind
  <2>11. ResponseOK'
    <3>1. a # None
      BY <2>1 DEF ChunkResponse, None
    <3>2. complete => (OneSource => reader.snap <= fsnap')
      BY <1>3, <2>3, <2>4
    <3> QED BY <1>4, <1>5, <2>3, <2>4, <2>5, <3>1, <3>2 DEF ResponseOK
  <2>12. WriterBehind'
    <3>1. writer'.data # <<>> => Top' = Top
      BY <2>4 DEF Top
    <3> QED BY <1>4, <1>5, <1>9, <2>2, <2>3, <2>4, <3>1 DEF WriterBehind, Behind
  <2> QED BY <1>2, <1>4, <2>6, <2>7, <2>8, <2>9, <2>10, <2>11, <2>12 DEF InOrder
<1>10. term > 0 \/ term = 0
  BY <1>2 DEF FollowerOK
<1> QED BY <1>6, <1>7, <1>8, <1>9, <1>10

LEMMA OrderedStep == Whole /\ Whole' /\ Ordered /\ [Next]_vars => Ordered'
<1> SUFFICES ASSUME Whole, Whole', Ordered, [Next]_vars  PROVE Ordered'
  OBVIOUS
<1>1. lates \in Nat /\ (lates = 0 => InOrder)
  BY DEF Ordered
<1>2. lates' \in Nat /\ (lates' = 0 => lates = 0)
  BY <1>1 DEF Next, Replicate, MakeSnapshot, AppendTurn, SendChunk, Answer, CallFails, Serve,
              ServeLate, NewTerm, vars, network
<1> SUFFICES ASSUME lates' = 0, lates = 0, InOrder  PROVE InOrder'
  BY <1>1, <1>2 DEF Ordered
<1>3. CASE Replicate \/ MakeSnapshot \/ AppendTurn \/ SendChunk \/ Answer \/ CallFails
  BY <1>3, PeerOrdered
<1>4. CASE Serve
  BY <1>4, ServeOrdered
<1>5. CASE ServeLate
  BY <1>5 DEF ServeLate, InOrder
<1>6. CASE NewTerm
  BY <1>6, TermOrdered
<1>7. CASE UNCHANGED vars
  BY <1>7 DEF vars, leader, peer, follower, network, InOrder, FollowerOK, NextOK, Top, OneSource,
              AppendOK, EntriesOK, TransferOK, Behind, ResponseOK, Complete, At, WriterBehind, ReaderAt
<1> QED BY <1>3, <1>4, <1>5, <1>6, <1>7 DEF Next

\* What the follower has is all up to Top.
LEMMA HasIsTop ==
    ASSUME Whole, FollowerOK, NEW i \in Nat \ {0}
    PROVE  Has(i) <=> i <= Top
<1>1. fsnap \in Nat /\ flast \in Nat /\ held = fsnap + 1 .. flast
  BY Bounds DEF FollowerOK
<1> QED BY <1>1 DEF Has, Top

LEMMA TransferInv == Spec => [](Whole /\ Ordered)
<1>1. Init => Whole /\ Ordered
  BY WholeInit, OrderedInit
<1>2. Whole /\ Ordered /\ [Next]_vars => (Whole /\ Ordered)'
  BY WholeStep, OrderedStep
<1> QED BY <1>1, <1>2, PTL DEF Spec

\* MatchIsStored: the leader counts no entry as stored that the follower has neither
\* in its log nor in its snapshot.
THEOREM MatchesAreStored == Spec => []MatchIsStored
<1>1. Whole /\ Ordered => MatchIsStored
  <2> SUFFICES ASSUME Whole, Ordered, OneSource, lates = 0, NEW i \in 1 .. match  PROVE Has(i)
    BY DEF MatchIsStored
  <2>1. FollowerOK /\ match \in Nat /\ match <= Top
    BY DEF Ordered, InOrder, NextOK
  <2>2. i \in Nat \ {0} /\ i <= Top
    BY <2>1, Bounds
  <2> QED BY <2>1, <2>2, HasIsTop
<1> QED BY <1>1, TransferInv, PTL

\* StoredStays: no step takes an entry from the follower, in its log and its snapshot.
THEOREM StoredEntriesStay == Spec => StoredStays
<1> DEFINE Stays == lates = 0 => \A i \in 1 .. last : Has(i) => Has(i)'
<1>1. Whole /\ Whole' /\ Ordered /\ [Next]_vars => [Stays]_vars
  <2> SUFFICES ASSUME Whole, Whole', Ordered, Next, lates = 0, NEW i \in 1 .. last, Has(i)
               PROVE  Has(i)'
    OBVIOUS
  <2>1. InOrder
    BY DEF Ordered
  <2>2. CASE Serve
    <3>1. InOrder' /\ Top <= Top'
      BY <2>1, <2>2, ServeOrdered
    <3>2. FollowerOK /\ FollowerOK' /\ Whole
      BY <2>1, <3>1 DEF InOrder
    <3>3. last \in Nat /\ Top \in Nat
      BY <3>2, Bounds
    <3>4. i <= Top
      BY <3>2, <3>3, HasIsTop
    <3>5. fsnap' \in Nat /\ flast' \in Nat /\ held' = fsnap' + 1 .. flast'
      BY <3>2, TransferLogs DEF FollowerOK, Whole, SizesOK
    <3>6. i <= Top'
      BY <3>1, <3>3, <3>4, <3>5 DEF Top
    <3>7. i \in Int /\ i \in 1 .. last
      BY <3>3
    <3>8. i <= fsnap' \/ i \in fsnap' + 1 .. flast'
      <4> DEFINE f == fsnap'
                 l == flast'
      <4>1. f \in Nat /\ l \in Nat /\ i \in Int /\ i <= IF f > l THEN f ELSE l
        BY <3>5, <3>6, <3>7 DEF Top
      <4> HIDE DEF f, l
      <4>2. i <= f \/ i \in f + 1 .. l
        BY <4>1
      <4> QED BY <4>2 DEF f, l
    <3> QED BY <3>5, <3>8, Zenon DEF Has
  <2>3. CASE ServeLate
    BY <2>1, <2>3 DEF ServeLate, InOrder
  <2>4. CASE UNCHANGED <<held, fsnap>>
    BY <2>4 DEF Has
  <2> QED BY <2>2, <2>3, <2>4
          DEF Next, Replicate, MakeSnapshot, AppendTurn, SendChunk, Answer, CallFails, NewTerm, follower
<1>2. Spec => [][Whole /\ Whole' /\ Ordered /\ [Next]_vars]_vars
  BY TransferInv, PTL DEF Spec
<1> QED BY <1>1, <1>2, PTL DEF StoredStays
=============================================================================
