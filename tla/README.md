# A verification project for xkv / xraft

xkv is a key-value server (`unit_test/server`) on top of `xraft`, a header-only
implementation of Raft in C++ (`include/raft`). This directory holds TLA+
models of it, TLC configurations, and proofs for TLAPS. The repository has no
design document: everything here is translated from the code; its assertions
and unit tests are the only statements of intent, and are quoted where a run
contradicts one.

## 1. Inventory

| Component (source) | State | Operations | Talks to |
|---|---|---|---|
| `raft` (raft.hpp) | `current_term_`, `voted_for_`, `state_`, `vote_responses_`, `committed_index_`, `append_log_callbacks_`, `election_timer_id_`, snapshot index and term | `replicate`, handlers of `vote_request`, `append_entries_request`, `install_snapshot_request`, handlers of their answers, timer actions | everything below; handlers run under `mtx_` |
| `raft_peer` (raft_peer.hpp), one thread per peer | `cmd_queue_`, `next_index_`, `match_index_`, `send_heartbeat_`, the connection | `run`, `do_election`, `do_append_entries`, `send_install_snapshot_req` | `raft` through callbacks, the peer's `rpc_server` |
| `timer` (timer.hpp), one thread | `actions_` by deadline | `set_timer`, `cancel`, `run` | runs actions without its mutex; they take `raft::mtx_` |
| `committer` (committer.hpp), one thread | `queue_` | `push`, `run` | runs the callbacks of requests and the apply tasks, without `raft::mtx_` |
| `filelog` (filelog.hpp) | the open segment, closed segments, `last_index_`, a cache | `write`, `get_entry(ies)`, `truncate_prefix/suffix`, `init` | files |
| `metadata` (metadata.hpp) | two maps, a log file, snapshot and marker files | `set`, `del`, `get`, `init`, snapshots | files; used by `raft` and by the server |
| snapshot (snapshot.hpp) | a file being written or read | `snapshot_builder::make_snapshot`, writer, reader | the committer thread, `filelog` |
| server (unit_test/server) | its own `metadata` | `set`, `get`, `del` | `check_leader`, `replicate` |
| messages, encoding, helpers (raft_proto, endec, utils, functors) | none | conversions, `lock_queue`, file helpers | all of the above |
| xutil, xsimple_rpc, xtest (external) | | file streams, RPC, test runner | |

What makes it hard, and what each part must get right:

- *Elections.* Timer thread, peer threads and RPC threads meet in `mtx_`. The
  timer's action does not ask whether the node has become leader since it was
  dequeued; votes outlive terms; a candidate does not record its own vote. One
  grant per voter and term, a leader only with a vote of its own term, a node
  that is not leader always with a timer.
- *Replication.* A peer thread reads the log, the term and the commit index one
  after the other and without `mtx_`; failed RPCs leave requests on open
  connections; followers apply on another thread. Logs of followers are
  prefixes of the leader's; what is committed is on a majority; followers apply
  exactly what was committed.
- *Callbacks.* Acknowledgements, the append timeout and `step_down` compete for
  the callback of a request: exactly one answer.
- *Files.* Crashes between the steps of a metadata snapshot and of a write to the
  log; the offsets in the index file of a segment that is cut or opened again;
  names sorted as strings. What was acknowledged is found, no index is given twice.
- *Restarts.* Of term and vote one is stored and one is not always: no vote twice in
  a term, no candidacy twice in a term.
- *Threads of peers.* A command queue, a condition variable whose notification may
  come between a look and a wait, and commands that run inside the loop of another
  command: none is left behind, none continues an office that is over.
- *Snapshots.* Built from a map that moves while the log grows; asked for by a
  trigger that one thread clears and another sets; transferred in pieces with a
  resume position over calls that fail or come late.
- *Server.* A handler waits for a callback on another thread, which a timeout or a
  change of leader may answer first: an answer tells of a change that was made, and
  the stores of both servers agree.

`PROJECT.json` lists the hazards one by one, with their lines and properties.

## 2. Modules

| Module | What it is |
|---|---|
| `SegmentLog` | operators: the log of one node while one segment is open, from `filelog` |
| `Raft` | state machine: `raft`, the `raft_peer`, timer and committer threads, callers of `replicate`, RPCs |
| `RaftProperties` | type invariant, safety, liveness, fairness |
| `MCRaft` | symmetry for TLC; the `MCRaft_*.cfg` give the constants |
| `RaftProofs` | elections: types of terms, one grant per term, leaders have votes, the election timer covers, peer threads serve while a node leads and stop after; data: every variable is typed, every caller is answered once, no callback is left without its timer; under one leader, logs are prefixes of its log, what counts as stored is, a majority has what is committed; with one caller at a time commit indexes grow, and without failed RPCs followers apply what is committed, in order |
| `DurableMap` | abstract: a map that outlives its process, and what a crash may cost |
| `Metadata` | state machine: `detail::metadata` with its files, split at every change of the disk; refines `DurableMap` |
| `MetadataProofs` | the files can be loaded after a crash between calls; the store implements `DurableMap` |
| `EntryLog` | abstract: a sequence of consecutive entries, extended at its end and cut at either end |
| `Filelog` | state machine: `detail::filelog` with its segments and files; refines `EntryLog`, and agrees with `SegmentLog` on one file |
| `FilelogProofs` | while one file is open it agrees with `SegmentLog`; in one life without rewriting it refines `EntryLog`, and entries are read as written; after one stop or crash they are found |
| `Votes` | state machine: terms and votes in memory and in the metadata, with crashes and restarts |
| `VotesProofs` | types; a double vote needs a forgotten term; a node stands once in a term |
| `PeerThread` | state machine: one `raft_peer`, its queue, its condition variable and its thread |
| `PeerThreadProofs` | types; the thread sends as its last command says |
| `SnapshotTransfer` | state machine: one leader brings one follower up to date, by a snapshot in chunks and by entries |
| `SnapshotTransferProofs` | what is installed is whole, what is counted is stored, what is stored stays |
| `SnapshotBuild` | state machine: trigger, builder and cut of the log on one node |
| `SnapshotBuildProofs` | the trigger is never lost |
| `KvStore` | abstract: a store whose calls take effect in one moment, are refused, or never end |
| `KvServer` | state machine: the server's handlers and callbacks over raft, and its follower; refines `KvStore` |
| `KvServerProofs` | the stores of leader and follower agree; the server implements `KvStore` |
| `MCMetadata`, `MCFilelog`, `MCVotes`, `MCPeerThread`, `MCSnapshotTransfer`, `MCSnapshotBuild`, `MCKvServer` | the modules above for TLC |

`Raft` is built on `SegmentLog`, and `Filelog` shows that `SegmentLog` is what the
files do. `PeerThread`, `SnapshotTransfer`, `SnapshotBuild`, `Votes` and `KvServer` each
look at one part of what `Raft` has in one step or leaves out, with the rest reduced
to what that part sees of it.

### Raft and the code

Variables are functions of nodes (fields of `raft`) or of pairs `<<n, p>>` (fields
of the `raft_peer` that node n keeps for p). Each action names its function in
the comment before it, and `map` in `PROJECT.json` gives the lines. In short:

- A handler under `raft::mtx_` is one action: `HandleVoteRequest`,
  `HandleAppendRequest` (with the apply task it pushes), `VoteResponse`,
  `AppendSuccess` (`append_entries_callback`), `HandleNewTerm`,
  `ElectionCallback`, `AppendTimeout`. `StepDown` is `step_down` with everything
  it calls.
- A peer thread has a program counter, `mode`: `run`, `sleep` (e_sleep popped,
  not yet waiting), `asleep`, `election`, `append` (top of the loop), `build`
  (past `try_execute_cmd`), `calling`, `newterm` (has compared terms, waits for
  `mtx_`). It is split exactly where it holds no lock and another thread can get
  in: between the pop of a command and the wait, between the check for commands
  and the building of the request, between request, handling and answer, and
  between the comparison of terms and `handle_new_term`.
- `replicate` is three steps: `CheckLeader` (the server's), `WriteEntry`
  (`log_.write` under the log's own mutex, and `set_timeout`), `InsertCallback`.
- The timer thread dequeues the election timer (`ElectionTimeout`) before its
  action runs (`ElectionCallback`); while it waits for `mtx_` no other action
  fires.
- The committer runs queued answers (`RunReply`), reads the entries of an apply
  task (`ReadEntries`) and applies them one by one (`ApplyEntry`), interleaved
  with everything else. A failed assertion or an exception that leaves the
  thread ends the process (`abort`).
- A call that fails (`CallFails`) may leave its request behind (`late`), to be
  handled at any later time or never (`ServeLate`). A vote call is then tried
  again; the append loop starts over.

Abstractions, all of them on purpose:

- `replicate` writes the log without `mtx_`, so that a handler that reads the log
  several times can see it grow; handlers are atomic here. `append_entries`
  writes its entries one by one; they appear at once.
- `ApplyEntry` joins the call of the application and the assignment of
  `committed_index_`.
- `AppendTimeout` dequeues and runs the action in one step; condition variables
  do not wake spuriously.
- `leader_id_`, `log_ok_` and `last_applied_index_` are left out: nothing reads
  them except to copy or to store them. `e_connect`, `e_interrupt_vote` and
  `e_exit`, `close()` and the length of intervals are left out too.
- No restart (`Votes`) and no snapshot (`SnapshotTransfer`, `SnapshotBuild`):
  `last_snapshot_index_` is 0 and one segment is open.
- `LastTerm` is 0 because the cache of `filelog` is always empty
  (`max_cache_size_` is one byte); the up-to-date check of a vote request thus
  compares lengths only, in the model as in the code.

### Metadata and the code

The two maps are one function here, from slots (a type and a key) to values;
a record of the log is a slot and its new value, `None` for `e_del`. `snaps`,
`logs` and `marks` are the files by generation, `torn` says which log ends in a
length without its record. Calls exclude each other by `mtx_`; `pc` tells where
the one under way is, one step per change of the disk:

- `set` is `Set`, `WriteLength`, `WriteRecord`, then possibly a snapshot, and
  `Return`, which assigns the map; `del` erases from the map first (`Del`) and
  writes a record for each type. Without an open log `write_log` throws: `set`
  then changes nothing, `del` has erased the key (`DelThrows`).
- `make_snapshot` is `StartSnapshot` (the file is created), `WriteSnapshot` (an
  entry), `NewLog` and `TouchNew` (`reopen_log`), `RemoveLog`, `RemoveData`,
  `RemoveMark` (`rm_old_files`). The destructor is `BeginClose`, these steps,
  and `Closed`.
- `clear` unlinks the files one by one in any order (`Unlink`), then opens a new
  log. `init` is `Open`: it reads every generation with a marker, in the order
  of the names, and opens the log of the last one it read.
- `Crash` can come between any two steps. What memory held is gone, the files
  stay.

Assumed of `xutil::file_stream`, which is not part of the repository: what
`write` has returned from survives the process (not a power failure: the code
never syncs the log), and a file opened without `OPEN_TRUNC` is positioned at its
end. Left out: `write_snapshot`, which changes nothing; a failed `init` followed by
the destructor; `write` failing; `load_snapshot` takes no mutex in the code, here
it does not run inside another call. It is given a file of `write_snapshot`, one
string in the model.

`DurableMap` promises less than one might expect, because the code does: a `set`
that fills the log makes its snapshot before the map has the new value, so the
value is in memory only until the next snapshot (`doubt`); the same goes for what
`load_snapshot` brings in; a crash inside a call may leave files that `init`
refuses (`status = "lost"`).

### Filelog and the code

`disk` maps the name of a segment to its data and index file, `current` and `segments`
are the `file` objects (`log_index_start_`, `last_log_index_` and the position in the
index file), `last` is `last_index_`. A call holds `mtx_`, so each is one action:
`WriteEntry` (with the roll-over), `Read` (which a get of the last index amounts to: it
moves the position in the index file), `DropPrefix`, `DropSuffix`, `Clear`, `Restart`
(`init` over the files), and `Crash`, which dies inside `write` before the data, before
the index record, or before the next file is open. `setting` says what the log is used
for besides writing: raft truncates, a test rewrites, a process restarts or crashes.

Assumed: a file is opened at its end, `trunc` leaves the stream at the new end, what
was written survives the process; records have one size, so that offsets count
records. `log_entries_cache_` is left out: every entry is larger than
`max_cache_size_`, which is one byte, so it is empty whenever it is read.

### Votes and the code

`currentTerm` is memory, `storedTerm` the metadata, `votedFor` both: `set_voted_for` and
`set_term` store, `step_down` stores the cleared vote and not the term. Handlers are
those of `Raft` without logs (whether a request's log is long enough is a choice) and
without answers. Requests stay in the network for ever. `Crash` may come between any two
handlers and inside `step_down`. `metadata_.set` is taken to be durable when it
returns; what `DurableMap` says of snapshots of the metadata does not enter here.

### PeerThread and the code

`at` is where the thread is, `callers` the loops that `try_execute_cmd` was called from:
`run`, the loop of `do_append_entries`, the loop of the transfer. A push and its
notification are two steps, and so are a look at the queue or at the log and the
`wait_for` that follows. `told` is history. RPCs end in an answer, a refusal, a failure
or a later term; the last three are bounded by `MaxFailures`. Whether the peer needs a
snapshot at first is a choice of `Init`. Left out: `next_index_` and the entries
themselves, `e_interrupt_vote` and `e_exit`, which nobody sends.

### SnapshotTransfer and the code

A file is a sequence of pieces `<<snapshot, k>>`, a head is `HeadSize` of them, and offsets
and chunks are counted in pieces, so that a mixed file shows. `AppendTurn` and
`SendChunk` are turns of the two loops of the peer thread, `Serve` the handler on the
follower (`handle_append_entries_request` or `handle_install_snapshot` with
`load_snapshot`, both under `mtx_`), `Answer` what the thread makes of the response.
`CallFails` may leave the request behind, `ServeLate` handles it later. `NewTerm` is a
vote request of a later term at the follower. Terms of entries are left out (one
leader wrote them), and the files of the follower other than the one it receives.

### SnapshotBuild and the code

`Write` is `filelog::write` up to the call of the trigger, `ClearTrigger` what follows
under the same mutex; `Begin`, `Build`, `Rearm` and `Cut` are `do_make_snapshot` with
`make_snapshot_done_callback` between its calls of the log, on the committer thread,
which also runs `Apply`. `ChangeRole` is anything that makes a node a leader or not.
Entries are counted, files are of `FileSize` entries.

### KvServer and the code

Each client is one handler of the rpc server: `Check`, then `Read`, or `Write` and `Insert`
(the two halves of `replicate`), `Woken` and `Return`. `Begin` and `Finish` are the
callback of `set` and `del` on the committer thread: it locks the item, takes the
status, changes the store, notifies. `Acknowledge`, `Timeout` and `StepDown` are what raft
does to the callbacks, `Replicate` is `commit_entry_callback` on the other server.
The model begins with a leader and ends with its office; acknowledgements come in the
order of the log, as those of one peer thread do. The store is a function, since
`Metadata` is about its files.

## 3. Runs

`tlc -workers 2 -config MCRaft_elections.cfg MCRaft` and so on. Sizes are of
distinct states.

| Run | Bounds | Question |
|---|---|---|
| `elections` | 3 nodes, no request, 2 timeouts, 1 failure; 800 000 | Can two nodes lead a term, can a leader be without a vote, a node without a timer, a leader with an idle peer thread, a deposed one that goes on sending? |
| `replication` | 3 nodes, 2 requests in turn, 1 timeout; 120 000 | Is what a peer takes for stored stored; is a committed entry on a majority; do followers apply what was committed, in order; does the commit index move forward only? |
| `callbacks` | 2 nodes, 2 requests at once, 2 timeouts or 1 and a failure; 390 000 | Is every request answered at most once, no callback dropped, every callback with its timeout? Is the follower's log a prefix although requests are lost, repeated and late? Types. |
| `liveness` | 2 nodes, 1 request, 2 timeouts or 1 and a failure, fair; 27 000 | Is every caller answered, an unopposed candidate elected, and applied everywhere what an undisturbed leader acknowledged? |
| `truncate` (violation) | 2 nodes, 2 requests, 3 timeouts | the assertion of raft.hpp:283 |
| `votes` | 3 nodes, 2 terms, 1 crash; 180 000 | Does a voter vote twice only in a term it forgot; does a node stand once in a term? |
| `metadata` | 1 key of 2 types, 1 value, log of 3 records, 3 generations, 2 crashes; 700 000 | Does `metadata` implement `DurableMap`, also when the second crash meets what the first has left? Can the files be loaded after a crash between calls? |
| `log` | 7 entries, segments of 3 truncated at either end and cleared; one file with rewritten entries; segments of 2 and a restart; segments of 3 and a crash; 15 000 | Does `filelog` implement `EntryLog`, is what was acknowledged found, is an index given once, is `SegmentLog` right? |
| `peer` | 3 elections, 2 entries, 2 failures, with a snapshot to send or without, fair; 480 000 | Does the thread send only for the office it was told of; are entries, heartbeats, commands and `stop` ever held back for good? |
| `transfer` | files of 1, 3 and 5 pieces, chunks of 2, head of 1; 4 entries, 1 more snapshot, 3 failures, 2 of them late, 1 new term, fair; 360 000 | Is what is received, installed and counted as stored one snapshot; is nothing stored lost; does the follower catch up? |
| `snapshot` | 9 entries in files of 2, at most 1 closed file, 1 failing build, fair; 65 000 | Is the trigger set again, does a snapshot shorten the log? |
| `server` | 2 clients, 1 key, 2 values, 2 entries, fair; 160 000 | Is the server a `KvStore`, do the stores agree, do calls return? |

Bounds are named constants: `MaxElections` (election timeouts in all),
`MaxFails` (failing RPCs), `MaxTrouble` (both together), `Concurrency` (threads inside
`replicate`), `MaxBacklog` (apply tasks queued on a node, without which every heartbeat
that finds the committer behind adds one), the sets `Node` and `Request`; `MaxWrites`,
`MaxRestarts`, `MaxCrashes`, `MaxTerm`, `MaxLast`, `MaxLog`, `MaxSnapshots`,
`MaxFailures`, `MaxLate`, `MaxTerms`, `MaxIndex` in the other modules. Why they are enough:

- Two timeouts give a second candidate, in the same term or a later one, which is all
  the election properties need; three nodes are the smallest majority that is not
  everybody; two requests give a prefix relation something to get wrong, and a
  failure a request that overtakes another. `main` of the server runs two nodes.
- Two crashes of `metadata` meet the leftovers of the first; a log of three records is
  the smallest in which both records of a `del` fit behind a snapshot that holds its
  key; the third generation is a snapshot over the files of an earlier crash. One
  value is enough, because values are only copied, and a stale one shows against none.
- Seven entries give three segments, of which one is closed on both sides.
- Files of one, three and five pieces are sent in one, two and three chunks; the
  second failure can hit the retry of the first, the third another chunk.
- Nine entries in files of two let a second snapshot begin after the first has cut.

The runs check the types of `Raft`; `RaftTyped`, `VotesTyped` and `ThreadTyped` prove
those of `Raft`, `Votes` and `PeerThread`. `TypeOK` of `Filelog`, `KvServer`,
`SnapshotBuild` and `SnapshotTransfer` documents the state and holds with the same
configurations, one line `INVARIANT TypeOK` added.

`CHECK_DEADLOCK FALSE` is set where the bounds or a failed assertion end every behaviour,
where a thread has ended or sleeps for ever, and where a `set` waits for ever.

What the properties leave out, because the code does not keep it:

- Properties named `Stable...` speak of behaviours with one leader. With several a
  conflicting suffix is not removed from the open segment (`TruncateSuffix`), and the
  up-to-date check ignores terms. `StableCommitNeverRewinds` and
  `StableFollowersApplyCommitted` are checked and proved with one caller of `replicate` at a
  time; with two, acknowledgements in another order set `committed_index_` back
  (raft.hpp:660). The second also needs that no RPC fails (`MaxFails = 0`): with two
  nodes, three requests and one failure TLC finds it violated. An append request that is
  handled late names an older commit index, its task waits behind the one of a newer
  request, `leader_commit_ - committed_index_` (raft.hpp:297) wraps, and the
  follower applies all its log holds, committed or not. With `EarlyTimeout = TRUE`, an append timeout between `set_timeout` and
  `insert_callback` leaves a callback without a timer, and `CallbackCanTimeOut` fails.
- `AnsweredOnce` excepts a request whose callback found its index taken (`Collides`).
  It takes three nodes, three elections and two threads in `replicate`: n writes a
  request, is deposed before `insert_callback` and inserts late; its log then ends
  lower, because a conflicting suffix is rewritten behind the end of a log that
  `truncate_suffix` has not cut; n leads again, another request gets the index, and
  `emplace` inserts nothing. That request has no callback of its own, and its timer,
  which looks for the index, answers the other one. No run reaches it; the proof of
  `CallersAnsweredOnce` is where it came up.
- `StableCommittedOnMajority` holds up to three nodes. A heartbeat carries the last entry
  again (raft_peer.hpp:90), and `append_entries_callback` counts answers, not peers
  (raft.hpp:657). With four nodes, one request and no failure TLC finds an entry
  committed that the leader and one follower have.
- `LeaderHasGrant` and `TwoLeadersSharedAVote` hold up to three nodes. With four, votes
  of an older term, never cleared, can complete a majority.
- `UnopposedWins` and `FollowersCatchUp` have a state in which nobody disturbs as their
  premise: two candidates of a term can vote each other out, and a request of a lost
  election of the same term deposes a leader, which has recorded no vote (raft.hpp:333).
- `UncutIsReadable` excepts files that `truncate_prefix` has cut (their offsets are
  stale, filelog.hpp:128; the assertion of unit_test/filelog.cpp:173 fails behind a
  cut); `AckedAreFound` and `AckedSurvive` speak of one restart (the first write after it
  overwrites an index record, filelog.hpp:150; after a second restart the first entry of
  the segment is gone, against unit_test/filelog.cpp:43) and no truncation before it
  (filelog.hpp:408 can remove the open file, and indexes begin again).
- `SendsAsTold` excepts peers that need a snapshot: a command that runs inside a transfer
  returns to the loop that sends. `StopEnds` excepts threads in the append loop, which
  never looks at `stop_`, and `CommandsAreTaken` the sleep of a hundred years.
- `InstalledIsWhole` and `MatchIsStored` except a follower that begins
  with one snapshot and goes on with another: only the offset is compared, the mixed
  file is installed, and the leader counts it as its newer one. `MatchIsStored` and
  `StoredStays` except calls handled late: a last chunk that comes again empties the log.
  `CatchesUp` holds up to two chunks (the resume position counts the head twice) and
  where the leader has an entry behind its snapshot (raft_peer.hpp:99).
- `TriggerNotLost` excepts a node that did not lead when the trigger was called, and
  builds that failed. The head of a snapshot names the last index of the log, committed
  or not (raft.hpp:133), and the log is cut at the index read again after the build
  (snapshot.hpp:177): entries written in between are in neither.
- `StoresAgree` compares stores that have applied the same entries: an entry whose
  callback was told of a failure is applied by the follower only. `CallsReturn`
  promises a `set` only where its callback reports success: otherwise `set` never returns.

### The violations

- `truncate`: a leader commits an entry; the peer thread of an older leader,
  past `try_execute_cmd` when its node learns the new term, builds a request
  with its own entries and the new term. The new leader takes it for one of its
  term and runs into `assert(committed_index_ < itr.index_)`.

Not a run, but the same kind: the assertion `itr.index_ == committed_index_ + 1` of
raft.hpp:300 fails too. A follower's apply task is queued when the node is elected; as
leader it commits an index itself, and the task's next turn aborts (`abort = "order"`
in the model).

Not a run, because no text of the repository says otherwise, but worth knowing:
with `Start = 9`, `MaxIndex = 11`, `MaxLog = 1`, one value and two crashes TLC finds
`KeepsPromise` violated. A crash in the middle of `rm_old_files` leaves two
generations. Below 10 `init` ends with the older one, whose next snapshot replaces
the newer. Of 9 and 10 it ends with 10, and 9 is never removed: its values come
back after they have been deleted and the store was shut down in order.

### Fairness

Each `FairSpec` adds weak fairness for what runs by itself in a living process, and for
nothing else: nobody needs to call, no RPC needs to fail, no late request needs to be
handled.

- `RaftProperties`: the work of a link (its peer thread, the service of its call, the
  arrival of what a handler threw: one after the other), the timer thread, the
  committer thread, the thread of a call of `replicate`. All loops in the code use timed
  waits or wake on the next command, and none waits for another except through mutexes
  held for a bounded time.
- `PeerThread`: the thread, whose RPCs and timed waits end, and the notification of
  whoever has pushed. The hundred years of `e_sleep` do not end by themselves.
- `SnapshotTransfer`: the turns of the peer thread, the follower's handler, the answer.
- `SnapshotBuild`: the end of `write` and the committer thread. Entries need not come.
- `KvServer`: each handler, the committer thread, and the append timeout of an entry.

### Mutants

For every property of a passing run `PROJECT.json` names a definition and a mutated
form of it (`Mut...`, defined just before it): a plausible slip in that code, under
which the run finds the property violated.

## 4. Proofs

| Theorem | Statement | Assumes |
|---|---|---|
| `TermTypesCorrect` | `Spec => []TermTypeOK` | the ASSUMEs of Raft |
| `GrantsAreUnique` | `Spec => []OneGrantPerTerm` | the same |
| `LeadersAreElected` | `Spec => []LeaderHasGrant` | at most three nodes |
| `SplitLeadersSharedAVote` | `Spec => []TwoLeadersSharedAVote` | at most three nodes |
| `ElectionTimerAlwaysCovers` | `Spec => []ElectionTimerCovers` | the ASSUMEs of Raft |
| `LeadersAreServing` | `Spec => []LeaderIsServing` | the same |
| `DeposedThreadsStop` | `Spec => []DeposedStops` | the same |
| `RaftTyped` | `Spec => []TypeOK` of `Raft` | the same |
| `CallersAnsweredOnce` | `Spec => []AnsweredOnce` | the same |
| `CallbacksTimeOut` | `Spec => []CallbackCanTimeOut` | `EarlyTimeout = FALSE` |
| `LogsFollowTheLeader` | `Spec => []StableLogsArePrefixes` | the ASSUMEs of Raft |
| `MatchIndexIsStored` | `Spec => []StableMatchIsStored` | the same |
| `CommittedIsOnMajority` | `Spec => []StableCommittedOnMajority` | at most three nodes |
| `CommitIndexGrows` | `Spec => StableCommitNeverRewinds` | `Concurrency = 1` |
| `FollowersApplyWhatIsCommitted` | `Spec => []StableFollowersApplyCommitted` | `Concurrency = 1` and `MaxFails = 0` |
| `IdleStoresOpen` | `Spec => []IdleStoreOpens` of `Metadata` | nothing |
| `MetadataKeepsPromise` | `Spec => KeepsPromise` | generations of one digit: `Start <= 9`, `MaxIndex <= 9` |
| `FilelogAgreesWithSegmentLog` | `Spec => []AgreesWithSegmentLog` of `Filelog` | the ASSUMEs of Filelog |
| `FilelogUncutIsReadable` | `Spec => []UncutIsReadable` | the same |
| `FilelogImplementsEntryLog` | `Spec => ImplementsEntryLog` | the same |
| `FilelogAckedAreFound` | `Spec => []AckedAreFound` | the same |
| `FilelogAckedSurvive` | `Spec => []AckedSurvive` | the same |
| `VotesTyped` | `Spec => []TypeOK` of `Votes` | the ASSUMEs of Votes |
| `DoubleVotesNeedForgottenTerms` | `Spec => []DoubleVotesWereForgotten` | the same |
| `CampaignsAreUnique` | `Spec => CampaignsOnce` | the same |
| `ThreadTyped` | `Spec => []TypeOK` of `PeerThread` | the ASSUMEs of PeerThread |
| `ThreadSendsAsTold` | `Spec => []SendsAsTold` | the same |
| `InstallsWholeSnapshots` | `Spec => []InstalledIsWhole` of `SnapshotTransfer` | the ASSUMEs of SnapshotTransfer |
| `MatchesAreStored` | `Spec => []MatchIsStored` | the same |
| `StoredEntriesStay` | `Spec => StoredStays` | the same |
| `TriggerIsNeverLost` | `Spec => []TriggerNotLost` of `SnapshotBuild` | the ASSUMEs of SnapshotBuild |
| `StoresAlwaysAgree` | `Spec => []StoresAgree` of `KvServer` | the ASSUMEs of KvServer |
| `ServerImplementsStore` | `Spec => ImplementsKvStore` | the same |

They hold for any number of nodes (where not said otherwise), requests, elections,
failures, terms and crashes; clients, keys, values and entries; sizes and numbers of
files, chunks and snapshots.

- *One grant* (`VoteInv`). `OneGrantPerTerm` is not inductive: a new grant must
  be compared with what the voter has stored. The invariant adds that a grant's
  term is at most the voter's current term, and that for a grant of the current
  term `voted_for_` is its candidate. `voted_for_` changes only when the term
  grows or when it was empty, which the steps that change it are checked for.
- *Leaders* (`LeaderInv`). A vote counted in `votes` may be of an older term. The
  invariant says that with three nodes there is no such vote between two handlers
  (`NoVoteKept`: the first granted answer already elects), that a granted answer
  in transit has its grant in `grants` (`AnswersBacked`), and that whoever leads a
  term was granted a vote of it. Two leaders of a term with a third voter each
  would make that voter grant twice, which `OneGrantPerTerm` excludes.
- *Timer* (`TimerInv`). Every action that makes a node something else than leader
  sets the timer; the only one that removes it without running its action is
  `become_leader`. The invariant (`Covered`) says so of a process that has failed
  an assertion as well.
- *Peer threads of a node* (`ThreadInv`). The office of a node is known to its peer
  threads (`OfficeKnown`): the last command in the queue is `append` exactly if the node
  leads; with an empty queue the thread of a leader is in the append loop, and that of
  any other node is not, or is about to call `handle_new_term`, which leaves the loop.
  `CallFits` says which message may be in transit in which place of the thread.
- *Types and answers* (`KnownTypes` and `DataInv`). `TypeOK` needs what
  the handlers' loops over entries, indexes and callbacks return. Each loop is a
  recursive function of the number of turns; `TurnsExist` shows that there is one,
  `TurnsStay` that what every turn keeps holds at the end, both from the
  well-foundedness of `<` on the naturals (`SetInduction`). `AnsweredOnce` follows from
  `RequestInv`: a request is in one place, with its caller before it is written, in one
  callback, in one queued answer, or answered (`CallersKnown`, `CallbacksKnown`,
  `RepliesKnown`, `WaitersKnown`). A handler moves callbacks from the map to the
  queue (`Handed`), which keeps that. `CallbackCanTimeOut` adds that an index for
  which a callback is in the map or about to be inserted has a timer (`TimersKnown`).
- *One leader's log* (`Offices` and `OneLogInv`). Only a node that has
  been leader, though it may be leader no more, has an append command queued, a thread in
  the append loop, a request on its way or handled late, or a caller inside
  `replicate` (`Offices`). If that is one node, then (`OneLog`) its entries are numbered from 1,
  every log is a beginning of its log, every request on its way holds entries of that
  log behind `prev_log` (`FromLog`), a successful answer names nothing that the
  follower lacks (`Says`), and `next_index_` is within the log when a request is built.
  `StoreEntriesFromLog` shows that a handler given such a request, however old, only
  makes a log longer: no term differs, nothing is truncated, nothing is read past the end. The
  commit index is one that an answer has named (`CountAcksCommit`), so that one
  follower has it, and two nodes make a majority up to three.
- *Commit indexes grow* (`CallerInv`). That the commit index does not go back is not
  inductive: it is set to the index of any callback that is counted down. With one call
  of `replicate` at a time (`OneCaller`) there is one callback at most, and the commit
  index is no larger than the index of the request that is being replicated
  (`NothingPassed`), because that was written behind the whole log. A request whose callback
  timed out, or was answered by `step_down`, leaves nothing that a late acknowledgement
  could count.
- *Followers apply what is committed* (`FollowInv`). For each follower (`Follows`): it has no
  callbacks; the commit indexes of the request on its way, of the tasks in its committer
  queue and of the entries already read are in order, none above the leader's (`InTurn`, with
  `Queued` for the queue); and what was given to the application, followed by what was
  read, is a beginning of its log (`Applies`). So no task finds `committed_index_` past the
  index it carries, and the subtraction at raft.hpp:297 does not wrap. The order is lost
  as soon as a request can be handled late, which `MaxFails = 0` excludes (`NoneLate`), or
  the leader's commit index goes back. What is proved about both needs no bound on nodes,
  requests or elections.
- *Files* (`DiskInv`). That the files can be loaded between calls follows from what
  they are at each step of a call: loadable, except while a record is half
  written, while the old generation is half removed, and during `clear`; a
  marker is only touched once its log is there.
- *The store is a durable map* (`KeepsPromise`, from `IInv` of `MetadataProofs`). What `init`
  finds is a fold over the marks on disk. `MarksFit` says which there can be: none, one,
  or two neighbours, the older of which is the open generation; `RecoveredFrom` unfolds
  the fold for these. `SnapshotFits`, `RolledFits` and `RecordsFit` say what the files of
  the open and of the next generation hold at each step of a call, and `Agrees` what they
  mean: for a slot that is neither in the call under way nor in doubt, the older
  generation gives what memory has, and if it is silent on the slot, so does the newer
  (`Right`). A step of the code is then a step of the map or a stutter: the doubt of
  `DurableMap` is what memory alone holds. The names of generations are compared as
  strings, so that 9 comes after 10; the proof needs one digit, and with two the
  refinement fails (see *The violations*).
- *One file of the log* (`OneFileInv` of `FilelogProofs`). `AgreesWithSegmentLog` speaks of
  what is read; the invariant says what is stored while nothing has rolled over: slot k of
  the index file describes record k of the data file, at position k - 1, and `start` and
  `last` are the indexes of the first and the last record, however often entries were
  truncated and written again behind.
- *The files of the log* (`PlainInv`). With many files a read is a loop over them in the
  order of their starts, and needs an invariant over all. The entries in the log are
  numbered (`Numbered`); every open file is on disk and nothing else is (`OnDisk`); each
  file holds a slice of the entries from the one it is named after, and its index says
  where, unless the file was cut (`Slice`); the slices follow one another without overlap
  and reach from the first entry to the next to be written (`Tiled`); `ClosedFits` and
  `CurrentFits` say that the cached `start` and `last` are those of the slice, except
  that of an empty current file and that of a file `truncate_suffix` has reopened, whose
  `last` is too large until the caller writes the entry it owes. `LineExists` shows
  that the files have an order, `ReadsExist` that the loop has a result, and `Progress` is
  what each turn keeps: what was read so far is what was asked for, up to the end of the
  last file looked into. `UncutIsReadable` is the case of one entry and those behind it.
  For the refinement it is enough to read from the first entry there is: the first slot
  of a file is not looked up, so that a cut file, whose offsets are wrong, is still read
  right from its beginning, and the mapped `entries` are the ones in the log.
- *The log after a stop or a crash* (`FreshInv` and `FoundInv`). Until then, and if there
  was nothing to load, the log is as in one life. What a crash inside `write` leaves is what
  was there, but that the last file may have a record more, with or without its slot
  (`Left`); what `init` makes of such files is `LoadedWith`: the file with the greatest
  start, which has the last entry, becomes the current one. Afterwards less is true than in
  one life, because the first write overwrites the first slot of that file's index: nothing
  is said of the offsets, nor of the records behind the entries that must be found
  (`Safe`: all of them after a stop, those acknowledged before a crash). What remains is
  that the files with a slot tile those entries (`Covered`): the first record of each is
  the entry it is named after, the others follow, and only the current one may reach
  further; that no other file can be taken for one of them (`Told`); and, after a
  stop, that files and memory agree on where the log ends (`Clean`). As each file is read
  from its first record, whose slot is not looked up, a read from the beginning finds the
  entries (`SafeAreRead`).
- *Votes and restarts* (`IInv` of `VotesProofs`). A grant is remembered (`GrantRemembered`)
  as long as the voter's term is at most the grant's and its vote says so, or its term
  is in `forgotten`; a campaign's term is at most the stored one (`CampaignsStored`), so
  that a restart cannot fall behind it. The double vote is then the case in which
  memory was lost.
- *One peer thread* (`IInv` of `PeerThreadProofs`). Commands run inside the loops of other
  commands, and return to them. The invariant says which stacks of loops there are
  (`Placed`: `run` is at the bottom and nowhere else, and no transfer is on it unless the
  peer needs a snapshot), and that, without transfers, whoever is anywhere in the append
  loop was told to by its last command (`ServesAsTold`).
- *Transfer* (`Whole` and `Ordered`, in `SnapshotTransferProofs`). `Whole` says what every
  chunk is, also one that comes late, and what the follower has collected: the pieces
  of a file from the first on, each in its place, of snapshots the leader has made.
  `Ordered` speaks of behaviours without late calls: the follower's log is what is behind
  its snapshot (`FollowerOK`), a request carries what comes next, or a snapshot not
  behind the follower's last entry (`AppendOK`, `TransferOK`), and chunks and their
  answers agree with the length of the file (`ResponseOK`, `ReaderAt`), so that the
  last chunk finds all others.
- *Trigger* (`IInv` of `SnapshotBuildProofs`). Between the call of the trigger and its
  clearing a task is queued (`CalledIsQueued`): the committer thread needs the mutex of
  the log to begin it, so what it sets is never cleared by the call that asked for it.
- *Stores* (`IInv` of `KvServerProofs`). `StoresAgree` says nothing while one server is
  ahead. The invariant says what each store is: for every key, what the last of the
  entries applied to it says (`Reflects`); on the leader these are the entries whose
  callbacks succeeded, on the follower the first `replicated` ones. That a success is
  applied in the order of the log (`InOrder`), and only once, is what makes the
  leader's store a function of that set: successes enter the queue in the order of
  acknowledgements, and each is larger than all that were applied.
- *The server is a store* (`ServerInv`, with `IInv`). A call takes effect in `Finish`, or in
  `Read`, or is refused in `Check` or, a `del`, in `Finish`; every other step is a stutter.
  That needs: a callback that is yet to end is for a handler that still waits, for the
  call it was written for (`CallbacksAwaited`), and no handler has two
  (`CallbacksApart`); a handler that has its status but was not called is the one
  whose mutex the callback holds (`HandlersKnown`), so it cannot wake in between.
  The proof uses that no value is the string the refinement takes for "no answer yet"
  (`KvAnswers`).

Out of reach of the provers and left to TLC: liveness under fairness.

## 5. Not modelled, and the plan

Only model-checked: all liveness, and the violation that run `truncate` finds. Every
safety property that a passing run checks is also a theorem.

Planned, most important first:

1. Replication across restarts: `committed_index_` is stored before the entry is applied
   (raft.hpp:660), so that a crash in between takes it from the application, and
   `load_snapshot` stores the index of the snapshot before it has emptied the log
   (raft.hpp:416).
2. `timer`: the multimap of deadlines, `set_timer` against the thread's `wait_for`.
3. The snapshot files of a node: names, `clear_old_snapshot_files`, the choice of the
   newest one while another is being written.

Not modelled and not planned: byte encodings (`endec`, `raft_proto`), directory
helpers (`functors`, but for what `Filelog` and `Metadata` use), torn records, the end
of a server (its `metadata_` goes before its `raft_`), the command line client, and the
external libraries. Power failures are left out because the code makes no claim about
them.
