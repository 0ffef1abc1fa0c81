-------------------------- MODULE SnapshotTransfer --------------------------
(***************************************************************************)
(* A leader brings a follower up to date that needs entries which are no    *)
(* longer in the leader's log: raft_peer::send_install_snapshot_req sends    *)
(* the snapshot file in chunks, raft::handle_install_snapshot stores and     *)
(* installs it, and the append_entries loop sends what is behind it.  One    *)
(* peer thread, one follower, one RPC at a time; a call may fail before or   *)
(* after it is handled, and a failed call may be handled later.              *)
(*                                                                          *)
(* A file is a sequence of pieces <<snapshot, k>>; a head is HeadSize        *)
(* pieces, and offsets and chunks are counted in pieces.                     *)
(***************************************************************************)
EXTENDS Integers, Sequences, FiniteSets, FiniteSetsExt

CONSTANTS
    HeadSize,      \* sizeof(snapshot_head)
    ChunkSize,     \* request.data_.resize
    FileSizes,     \* sizes of snapshot files, the head included
    FirstSnapshot, \* last_included_index_ of the leader's snapshot at the start
    LeaderLast,    \* last_index_ of the leader's log at the start
    FollowerLast,  \* last_index_ of the follower's log at the start
    MaxLast,       \* bound: entries in all
    MaxSnapshots,  \* bound: snapshots the leader makes while this goes on
    MaxFailures,   \* bound: RPCs that fail
    MaxLate,       \* bound: failed RPCs that are handled later
    MaxTerms       \* bound: new terms the follower learns of elsewhere

ASSUME TransferSizes == HeadSize \in Nat \ {0} /\ ChunkSize \in Nat \ {0}
                        /\ \A n \in FileSizes: n \in Nat /\ HeadSize <= n
ASSUME TransferLogs == {FollowerLast, FirstSnapshot, LeaderLast, MaxLast} \subseteq Nat
                       /\ FollowerLast < FirstSnapshot
                       /\ FirstSnapshot <= LeaderLast /\ LeaderLast <= MaxLast

VARIABLES
    \* the leader: its log holds the entries behind the snapshot
    snap, last, made,
    fileSize,   \* of every snapshot it makes
    \* its peer thread
    pc,         \* "append", "transfer", "call" or "deposed"
    next, match,
    reader,     \* the snapshot being sent, and the position in its file
    call,       \* the RPC under way: its request and the response, if there is one
    \* the follower
    term,       \* how many terms later than the leader's its current_term_ is
    flast, held,     \* last_index_ and the indexes in its log
    fsnap,      \* last_snapshot_index_
    writer,     \* snapshot_writer_
    installed,  \* what install_snapshot_callback_ was last given
    \* the network
    late, failures, lates

leader == <<snap, last, made, fileSize>>
peer == <<next, match, reader>>
follower == <<flast, held, fsnap, writer, installed>>
network == <<late, failures, lates>>
vars == <<leader, pc, peer, call, term, follower, network>>

File(s) == [k \in 1 .. fileSize |-> <<s, k>>]
None == [type |-> "none"]
NoWriter == [open |-> FALSE, name |-> 0, data |-> <<>>]

Init ==
    /\ snap = FirstSnapshot /\ last = LeaderLast /\ made = 0
    /\ fileSize \in FileSizes
    /\ pc = "append" /\ next = 0 /\ match = 0 /\ reader = [snap |-> 0, at |-> 0]
    /\ call = [req |-> None, resp |-> None]
    /\ term = 0 /\ flast = FollowerLast /\ held = 1 .. FollowerLast /\ fsnap = 0
    /\ writer = NoWriter /\ installed = <<>>
    /\ late = {} /\ failures = 0 /\ lates = 0

-----------------------------------------------------------------------------
(* The leader.                                                               *)

Replicate ==
    /\ last < MaxLast
    /\ last' = last + 1
    /\ UNCHANGED <<snap, made, fileSize, pc, peer, call, term, follower, network>>

\* The files of older snapshots are removed; an open reader keeps its own.
MakeSnapshot ==
    /\ made < MaxSnapshots /\ snap < last
    /\ snap' = last /\ made' = made + 1
    /\ UNCHANGED <<last, fileSize, pc, peer, call, term, follower, network>>

\* The request that build_append_entries_request makes for n.  An index that the
\* snapshot covers yields no entries, and the snapshot for what precedes them.
AppendRequest(n) ==
    [type |-> "append",
     prev |-> IF n > snap THEN n - 1 ELSE snap,
     entries |-> IF n > snap THEN n .. last ELSE {}]

\* One turn of the loop in do_append_entries.
AppendTurn ==
    LET n == IF next = 0 \/ next > last THEN last ELSE next
        request == AppendRequest(n)
    IN  /\ pc = "append"
        /\ next' = n
        /\ IF request.entries = {} /\ n < last
           THEN /\ reader' = [snap |-> snap, at |-> 0]
                /\ pc' = "transfer" /\ UNCHANGED call
           ELSE /\ call' = [req |-> request, resp |-> None]
                /\ pc' = "call" /\ UNCHANGED reader
        /\ UNCHANGED <<leader, match, term, follower, network>>

\* One turn of the loop in send_install_snapshot_req.
SendChunk ==
    LET end == Min({fileSize, reader.at + ChunkSize})
        chunk == SubSeq(File(reader.snap), reader.at + 1, end)
    IN  /\ pc = "transfer"
        /\ call' = [req |-> [type |-> "chunk", snap |-> reader.snap, offset |-> reader.at,
                             data |-> chunk, done |-> Len(chunk) # ChunkSize],
                    resp |-> None]
        /\ reader' = [reader EXCEPT !.at = @ + Len(chunk)]
        /\ pc' = "call"
        /\ UNCHANGED <<leader, next, match, term, follower, network>>

MutAppendAnswered(resp) ==
    /\ match' = IF resp.success THEN resp.last + 1 ELSE 0
    /\ next' = match' + 1
    /\ pc' = "append" /\ UNCHANGED reader

AppendAnswered(resp) ==
    /\ match' = IF resp.success THEN resp.last ELSE 0
    /\ next' = resp.last + 1
    /\ pc' = "append" /\ UNCHANGED reader

\* After a chunk the follower has stored elsewhere, seek takes the offset for
\* one that does not count the head.
Resume(stored) == stored + HeadSize

ChunkAnswered(req, resp) ==
    IF resp.stored # req.offset + Len(req.data)
    THEN /\ reader' = [reader EXCEPT !.at = Resume(resp.stored)]
         /\ pc' = "transfer" /\ UNCHANGED <<next, match>>
    ELSE IF req.done
    THEN /\ match' = reader.snap /\ next' = reader.snap + 1
         /\ pc' = "append" /\ UNCHANGED reader
    ELSE pc' = "transfer" /\ UNCHANGED peer

Answer ==
    /\ pc = "call" /\ call.resp # None
    /\ call' = [req |-> None, resp |-> None]
    /\ IF call.resp.term > 0 THEN pc' = "deposed" /\ UNCHANGED peer
       ELSE IF call.req.type = "append" THEN AppendAnswered(call.resp)
       ELSE ChunkAnswered(call.req, call.resp)
    /\ UNCHANGED <<leader, term, follower, network>>

\* The call throws, out of the transfer too, and the loop goes on.  If it was not
\* handled yet, it may be handled later.
CallFails ==
    /\ pc = "call" /\ failures < MaxFailures
    /\ failures' = failures + 1
    /\ \/ UNCHANGED <<late, lates>>
       \/ /\ call.resp = None /\ lates < MaxLate
          /\ late' = late \union {call.req} /\ lates' = lates + 1
    /\ call' = [req |-> None, resp |-> None]
    /\ pc' = "append"
    /\ UNCHANGED <<leader, peer, term, follower>>

-----------------------------------------------------------------------------

(* The follower.  A request is handled under mtx_, in one step.              *)

Obsolete == term > 0
LogStart == IF held = {} THEN 0 ELSE Min(held)

\* handle_append_entries_request: what the log must hold before the entries.
\* Entries with equal indexes agree, except that the default entry, which
\* get_entry returns for an index the log does not hold, agrees with none.
MutRefusal(req) == IF req.prev > flast THEN <<flast>> ELSE <<>>
Refusal(req) ==
    IF fsnap > flast THEN IF req.prev = fsnap THEN <<>> ELSE <<fsnap>>
    ELSE IF req.prev > flast THEN <<flast>>
    ELSE IF req.prev # fsnap /\ req.prev > LogStart /\ req.prev \notin held
    THEN <<req.prev - 1>>
    ELSE <<>>

\* From the first entry that the log lacks on, all are written.
Lacking(req) == {i \in req.entries: i >= LogStart /\ i \notin held}

HandleAppend(req) ==
    /\ IF Obsolete \/ Refusal(req) # <<>> \/ Lacking(req) = {} THEN UNCHANGED <<flast, held>>
       ELSE /\ flast' = Max(req.entries)
            /\ held' = {i \in held: i < Min(Lacking(req))} \union Min(Lacking(req)) .. Max(req.entries)
    /\ UNCHANGED <<fsnap, writer, installed>>

AppendResponse(req) ==
    [term |-> term,
     success |-> ~Obsolete /\ Refusal(req) = <<>>,
     last |-> IF Obsolete THEN 0
              ELSE IF Refusal(req) # <<>> THEN Refusal(req)[1]
              ELSE IF Lacking(req) = {} THEN flast ELSE Max(req.entries)]

\* handle_install_snapshot.  A writer that is not open is opened for the file
\* that the request names, which is emptied.
Writer(req) == IF writer.open THEN writer ELSE [open |-> TRUE, name |-> req.snap, data |-> <<>>]
MutFits(req) == req.offset <= Len(Writer(req).data)
Fits(req) == req.offset = Len(Writer(req).data)
Stored(req) == [Writer(req) EXCEPT !.data = @ \o req.data]

\* load_snapshot.  The head names the snapshot; clear empties the log and leaves
\* last_index_ alone.
MutInstall(data) == held' = {} /\ installed' = data /\ UNCHANGED fsnap
Install(data) ==
    /\ fsnap' = data[1][1]
    /\ installed' = data
    /\ held' = {}

HandleChunk(req) ==
    /\ IF Obsolete THEN UNCHANGED <<writer, fsnap, installed, held>>
       ELSE IF ~Fits(req) THEN writer' = Writer(req) /\ UNCHANGED <<fsnap, installed, held>>
       ELSE IF ~req.done THEN writer' = Stored(req) /\ UNCHANGED <<fsnap, installed, held>>
       ELSE /\ writer' = NoWriter
            /\ IF req.snap < fsnap THEN UNCHANGED <<fsnap, installed, held>>   \* discarded
               ELSE Install(Stored(req).data)
    /\ UNCHANGED flast

ChunkResponse(req) ==
    [term |-> term,
     stored |-> IF Obsolete THEN 0 ELSE Len((IF Fits(req) THEN Stored(req) ELSE Writer(req)).data)]

Handle(req) == IF req.type = "append" THEN HandleAppend(req) ELSE HandleChunk(req)

Serve ==
    /\ pc = "call" /\ call.resp = None
    /\ Handle(call.req)
    /\ call' = [call EXCEPT !.resp = IF call.req.type = "append" THEN AppendResponse(call.req)
                                     ELSE ChunkResponse(call.req)]
    /\ UNCHANGED <<leader, pc, peer, term, network>>

ServeLate ==
    \E req \in late:
        /\ Handle(req)
        /\ late' = late \ {req}
        /\ UNCHANGED <<leader, pc, peer, call, term, failures, lates>>

\* Another node asks for a vote in a new term: step_down discards the writer.
NewTerm ==
    /\ term < MaxTerms
    /\ term' = term + 1
    /\ writer' = NoWriter
    /\ UNCHANGED <<leader, pc, peer, call, flast, held, fsnap, installed, network>>

-----------------------------------------------------------------------------
Next ==
    \/ Replicate \/ MakeSnapshot
    \/ AppendTurn \/ SendChunk \/ Answer \/ CallFails
    \/ Serve \/ ServeLate \/ NewTerm

\* The peer thread and the follower's server keep running.
Fairness == WF_vars(AppendTurn) /\ WF_vars(SendChunk) /\ WF_vars(Answer) /\ WF_vars(Serve)

Spec == Init /\ [][Next]_vars
FairSpec == Spec /\ Fairness

-----------------------------------------------------------------------------
\* The fields that the handlers tell apart are there, and indexes are numbers.
TypeOK ==
    /\ pc \in {"append", "transfer", "call", "deposed"}
    /\ (pc = "call") = (call.req # None) /\ call.req.type \in {"none", "append", "chunk"}
    /\ snap \in FirstSnapshot .. last /\ last \in FirstSnapshot .. MaxLast
    /\ next \in 0 .. last + 1 /\ match \in 0 .. last /\ reader.at \in Nat
    /\ held \subseteq 1 .. last /\ flast \in 0 .. last /\ fsnap \in 0 .. snap

\* What the state machine is given is one whole snapshot, whatever was lost,
\* repeated or handled late, and last_snapshot_index_ is its index.  (If every snapshot fits in one
\* chunk, or the leader makes no other one meanwhile: handle_install_snapshot
\* compares the offset only, and not which snapshot a chunk is of.)
OneSource == fileSize < ChunkSize \/ made = 0
InstalledIsWhole ==
    OneSource => installed = IF fsnap = 0 THEN <<>> ELSE File(fsnap)

\* The leader counts an entry as stored when the follower has it in its log or in
\* its snapshot.  (From one source as above: a file in the making that ends as
\* another snapshot is counted as that one.  And unless a failed call is handled
\* late: a last chunk that comes again installs the snapshot again and empties the
\* log.)
Has(i) == i <= fsnap \/ i \in held
MatchIsStored == OneSource /\ lates = 0 => \A i \in 1 .. match: Has(i)

\* Unless a call is handled late, what was stored stays stored, in the log or in
\* the snapshot: an installation empties the log, but only of what it covers.
StoredStays == [][lates = 0 => \A i \in 1 .. last: Has(i) => Has(i)']_vars

\* A follower that lacks entries gets them all, unless the leader is deposed.  (If
\* the snapshot is sent in two chunks at most: see Resume.  And if the leader has an
\* entry behind its snapshot: a transfer begins only below last_index_.)
CaughtUp == \A i \in 1 .. last: Has(i)
CatchesUp ==
    fileSize < 2 * ChunkSize =>
        <>[](CaughtUp \/ pc = "deposed" \/ last = snap \/ lates > 0 \/ made > 0)
=============================================================================
