-------------------------------- MODULE Raft --------------------------------
(***************************************************************************)
(* Elections, replication and commitment of xraft: the class raft of        *)
(* raft.hpp, one raft_peer thread per pair of nodes, the timer thread and    *)
(* the committer thread of each node, the threads that call replicate, and   *)
(* the RPCs between nodes.  Handlers run under raft::mtx_ and are one step   *)
(* each; what the threads do outside that mutex is split where another       *)
(* thread can get in between.                                                *)
(*                                                                          *)
(* The model covers a cluster before its first snapshot and between          *)
(* restarts: last_snapshot_index_ is 0 and the log is one open segment       *)
(* (SegmentLog).                                                            *)
(***************************************************************************)
EXTENDS SegmentLog, SequencesExt

CONSTANTS
    Node,          \* the members of raft_config_mgr_
    Request,       \* the calls of replicate that clients make, one entry each
    Nil,           \* an empty voted_for_
    Concurrency,   \* how many threads are inside replicate at once
    EarlyTimeout,  \* can append_log_timeout_ elapse before insert_callback?
    MaxElections,  \* bound: how often an election timer expires
    MaxFails,      \* bound: how many RPCs fail
    MaxTrouble,    \* bound: both together
    MaxBacklog     \* bound: apply tasks in the committer queue of a node

ASSUME NodeAssumption == IsFiniteSet(Node) /\ Cardinality(Node) >= 2
ASSUME NilAssumption == Nil \notin Node
ASSUME BoundAssumption ==
    /\ Concurrency \in Nat /\ MaxElections \in Nat /\ MaxFails \in Nat
    /\ MaxTrouble \in Nat /\ MaxBacklog \in Nat
    /\ EarlyTimeout \in BOOLEAN

Follower  == "follower"
Candidate == "candidate"
Leader    == "leader"

\* One raft_peer, with its thread, per ordered pair of nodes.
Link == {l \in Node \X Node : l[1] # l[2]}

\* get_majority
MutHalf == Cardinality(Node) \div 2
Majority == Cardinality(Node) \div 2 + 1

\* The limit a peer passes to get_entries.
Batch == 100

VARIABLES
    \* raft, per node
    currentTerm,    \* current_term_
    votedFor,       \* voted_for_
    state,          \* state_
    votes,          \* how many of vote_responses_ have vote_granted_
    electionTimer,  \* is an action of election_timer_id_ in timer::actions_?
    firing,         \* has the timer thread dequeued it, and waits for mtx_?
    appendTimers,   \* the requests with an append timeout in timer::actions_
    log,            \* log_
    committed,      \* committed_index_
    callbacks,      \* append_log_callbacks_
    committer,      \* commiter_.queue_
    applying,       \* entries the committer thread has read and not yet applied
    applied,        \* what the application was given, in order
    abort,          \* why the process died: "none" while it runs
    \* raft_peer, per link
    mode,           \* where the peer thread is
    cmds,           \* cmd_queue_
    next,           \* next_index_
    match,          \* match_index_
    beat,           \* send_heartbeat_
    call,           \* the RPC the thread waits for
    \* the callers of replicate, and the environment
    req,            \* per request: where its thread is
    late,           \* requests whose caller gave up, still on their connection
    elections, fails,
    \* history
    grants,         \* every granted vote
    leaders         \* every <<node, term>> that become_leader ran for

raftVars  == <<currentTerm, votedFor, state, votes>>
timerVars == <<electionTimer, firing, appendTimers>>
logVars   == <<log, committed, callbacks, committer, applying, applied>>
peerVars  == <<mode, cmds, next, match, beat, call>>
envVars   == <<abort, req, late, elections, fails>>
history   == <<grants, leaders>>
vars == <<raftVars, timerVars, logVars, peerVars, envVars, history>>

NoCall == [type |-> "none"]

Init ==
    /\ currentTerm = [n \in Node |-> 0]
    /\ votedFor = [n \in Node |-> Nil]
    /\ state = [n \in Node |-> Follower]
    /\ votes = [n \in Node |-> 0]
    /\ electionTimer = [n \in Node |-> TRUE]
    /\ firing = [n \in Node |-> FALSE]
    /\ appendTimers = [n \in Node |-> {}]
    /\ log = [n \in Node |-> <<>>]
    /\ committed = [n \in Node |-> 0]
    /\ callbacks = [n \in Node |-> {}]
    /\ committer = [n \in Node |-> <<>>]
    /\ applying = [n \in Node |-> <<>>]
    /\ applied = [n \in Node |-> <<>>]
    /\ abort = [n \in Node |-> "none"]
    /\ mode = [l \in Link |-> "run"]
    /\ cmds = [l \in Link |-> <<>>]
    /\ next = [l \in Link |-> 0]
    /\ match = [l \in Link |-> 0]
    /\ beat = [l \in Link |-> FALSE]
    /\ call = [l \in Link |-> NoCall]
    /\ req = [r \in Request |-> [pc |-> "new", node |-> Nil, index |-> 0]]
    /\ late = {}
    /\ elections = 0
    /\ fails = 0
    /\ grants = {}
    /\ leaders = {}

Alive(n) == abort[n] = "none"

-----------------------------------------------------------------------------
(* send_cmd to every peer of n, and what notify does to a waiting thread.   *)

\* cmd_queue_.push for every peer of n
Push(n, cmd) ==
    [l \in Link |-> IF l[1] = n THEN Append(cmds[l], cmd) ELSE cmds[l]]

\* cv_.notify_one wakes a thread inside wait_for; a thread that has popped
\* e_sleep and is not yet inside it ("sleep") misses the notification.  The
\* other waits are timed, at most a second long, and need no wake-up.
Wake(n, md) ==
    [l \in Link |-> IF l[1] = n /\ md[l] = "asleep" THEN "run" ELSE md[l]]

\* An item for the committer thread.
Reply(r, ok)  == [op |-> "reply", req |-> r, ok |-> ok]
ApplyTo(upTo) == [op |-> "apply", upTo |-> upTo]

\* How many callbacks of the set have a lower index than c.
Before(c, waiting) == Cardinality({d \in waiting : d.index < c.index})

MutFailNone(n) == <<>>

\* notify_noleader_error: std::map visits the callbacks by index.
FailAll(n) ==
    [i \in 1..Cardinality(callbacks[n]) |->
        LET c == CHOOSE d \in callbacks[n] : Before(d, callbacks[n]) = i - 1
        IN  Reply(c.req, FALSE)]

\* The vote a node still holds once step_down(term) has returned.
VoteIn(n, term) == IF currentTerm[n] < term THEN Nil ELSE votedFor[n]

\* The current term once step_down(term) has returned.
TermAfter(n, term) == IF currentTerm[n] < term THEN term ELSE currentTerm[n]

\* set_election_timer
MutNoTimer(n) == UNCHANGED electionTimer
SetElectionTimer(n) == electionTimer' = [electionTimer EXCEPT ![n] = TRUE]

\* sleep_peer_threads
MutNoSleep(n) == cmds
SleepPeers(n) == Push(n, "sleep")

(* step_down(term) followed by an optional set_voted_for(vote); md is where
   the calling thread leaves the links. *)
StepDown(n, term, vote, md) ==
    /\ currentTerm' = [currentTerm EXCEPT ![n] = TermAfter(n, term)]
    /\ votedFor' = [votedFor EXCEPT ![n] = vote]
    /\ votes' = [votes EXCEPT ![n] = IF state[n] = Candidate THEN 0 ELSE @]
    /\ cmds' = IF state[n] = Leader THEN SleepPeers(n) ELSE cmds
    /\ mode' = IF state[n] = Leader THEN Wake(n, md) ELSE md
    /\ state' = [state EXCEPT ![n] = Follower]
    /\ callbacks' = [callbacks EXCEPT ![n] = {}]
    /\ SetElectionTimer(n)

-----------------------------------------------------------------------------
(* The election timer.                                                      *)

\* timer::run finds the election timer due, removes it from actions_ and
\* unlocks; the action then waits for raft::mtx_.
ElectionTimeout(n) ==
    /\ Alive(n)
    /\ electionTimer[n] /\ ~firing[n]
    /\ elections < MaxElections /\ elections + fails < MaxTrouble
    /\ elections' = elections + 1
    /\ electionTimer' = [electionTimer EXCEPT ![n] = FALSE]
    /\ firing' = [firing EXCEPT ![n] = TRUE]
    /\ UNCHANGED <<raftVars, appendTimers, logVars, peerVars,
                   abort, req, late, fails, history>>

\* The action of set_election_timer.  It asks nobody whether the node became
\* leader in the meantime, and leaves voted_for_ and vote_responses_ alone.
ElectionCallback(n) ==
    /\ Alive(n)
    /\ firing[n]
    /\ firing' = [firing EXCEPT ![n] = FALSE]
    /\ currentTerm' = [currentTerm EXCEPT ![n] = @ + 1]
    /\ state' = [state EXCEPT ![n] = Candidate]
    /\ cmds' = Push(n, "election")
    /\ mode' = Wake(n, mode)
    /\ SetElectionTimer(n)
    /\ UNCHANGED <<votedFor, votes, appendTimers, logVars, next, match, beat,
                   call, envVars, history>>

-----------------------------------------------------------------------------
(* The peer thread: commands and elections.                                 *)

\* build_vote_request
VoteRequest(n) ==
    [type |-> "vote", stage |-> "request", term |-> currentTerm[n],
     lastIndex |-> LastIndex(log[n]), lastTerm |-> LastTerm(log[n])]

MutPopLast(n, p, cmd) ==
    /\ Alive(n)
    /\ mode[<<n, p>>] \in {"run", "append"}
    /\ cmds[<<n, p>>] # <<>> /\ Last(cmds[<<n, p>>]) = cmd
    /\ cmds' = [cmds EXCEPT ![<<n, p>>] = Front(@)]

\* try_execute_cmd finds a command, in run or at the top of the loop of
\* do_append_entries, which the command then ends.
PopCommand(n, p, cmd) ==
    /\ Alive(n)
    /\ mode[<<n, p>>] \in {"run", "append"}
    /\ cmds[<<n, p>>] # <<>> /\ Head(cmds[<<n, p>>]) = cmd
    /\ cmds' = [cmds EXCEPT ![<<n, p>>] = Tail(@)]

\* e_sleep: do_sleep for a hundred years
PopSleep(n, p) ==
    /\ PopCommand(n, p, "sleep")
    /\ mode' = [mode EXCEPT ![<<n, p>>] = "sleep"]
    /\ UNCHANGED <<raftVars, timerVars, logVars, next, match, beat, call,
                   envVars, history>>

\* do_sleep is inside cv_.wait_for; it does not look at the queue again.
FallAsleep(n, p) ==
    /\ Alive(n)
    /\ mode[<<n, p>>] = "sleep"
    /\ mode' = [mode EXCEPT ![<<n, p>>] = "asleep"]
    /\ UNCHANGED <<raftVars, timerVars, logVars, cmds, next, match, beat, call,
                   envVars, history>>

\* e_election: do_election sends the request it builds now
PopElection(n, p) ==
    /\ PopCommand(n, p, "election")
    /\ mode' = [mode EXCEPT ![<<n, p>>] = "election"]
    /\ call' = [call EXCEPT ![<<n, p>>] = VoteRequest(n)]
    /\ UNCHANGED <<raftVars, timerVars, logVars, next, match, beat,
                   envVars, history>>

\* e_append_entries: do_append_entries starts
PopAppend(n, p) ==
    /\ PopCommand(n, p, "append")
    /\ mode' = [mode EXCEPT ![<<n, p>>] = "append"]
    /\ next' = [next EXCEPT ![<<n, p>>] = 0]
    /\ match' = [match EXCEPT ![<<n, p>>] = 0]
    /\ beat' = [beat EXCEPT ![<<n, p>>] = FALSE]
    /\ UNCHANGED <<raftVars, timerVars, logVars, call, envVars, history>>

-----------------------------------------------------------------------------
(* handle_vote_request, at node p, of a request q from node n.               *)

MutLogLonger(p, q) == q.lastIndex > LastIndex(log[p])
LogOk(p, q) ==
    \/ q.lastTerm > LastTerm(log[p])
    \/ q.lastTerm = LastTerm(log[p]) /\ q.lastIndex >= LastIndex(log[p])

MutNewVote(p, q) == q.term >= currentTerm[p] /\ LogOk(p, q)

\* The request earns a new vote: it is of the current term (after step_down),
\* its log is long enough, and no vote is held.
NewVote(p, q) ==
    q.term >= currentTerm[p] /\ LogOk(p, q) /\ VoteIn(p, q.term) = Nil

VoteAfter(p, n, q) == IF NewVote(p, q) THEN n ELSE VoteIn(p, q.term)

VoteAnswer(p, n, q) ==
    [type |-> "vote", stage |-> "response",
     term |-> TermAfter(p, q.term),
     granted |-> q.term >= currentTerm[p] /\ VoteAfter(p, n, q) = n]

HandleVoteRequest(p, n, q) ==
    /\ Alive(p)
    /\ IF q.term > currentTerm[p] \/ NewVote(p, q)
       THEN /\ StepDown(p, q.term, VoteAfter(p, n, q), mode)
            /\ committer' = [committer EXCEPT ![p] = @ \o FailAll(p)]
       ELSE UNCHANGED <<raftVars, electionTimer, callbacks, committer, cmds, mode>>
    /\ grants' = IF VoteAnswer(p, n, q).granted
                 THEN grants \union
                      {[voter |-> p, term |-> q.term, candidate |-> n]}
                 ELSE grants
    /\ UNCHANGED <<firing, appendTimers, log, committed, applying, applied,
                   next, match, beat, abort, req, elections, fails, leaders>>

\* The rpc_server of p runs the handler for the call that n's thread waits for.
ServeVote(n, p) ==
    /\ call[<<n, p>>].type = "vote" /\ call[<<n, p>>].stage = "request"
    /\ HandleVoteRequest(p, n, call[<<n, p>>])
    /\ call' = [call EXCEPT ![<<n, p>>] = VoteAnswer(p, n, call[<<n, p>>])]
    /\ UNCHANGED late

\* handle_vote_response
VoteResponse(n, p) ==
    LET answer == call[<<n, p>>]
        back   == [mode EXCEPT ![<<n, p>>] = "run"]
        higher == answer.term > currentTerm[n]
        stored == (IF higher THEN 0 ELSE votes[n])
                      + (IF answer.granted THEN 1 ELSE 0)
    IN
    /\ Alive(n)
    /\ answer.type = "vote" /\ answer.stage = "response"
    /\ call' = [call EXCEPT ![<<n, p>>] = NoCall]
    /\ IF state[n] # Candidate \/ answer.term < currentTerm[n]
       THEN /\ mode' = back
            /\ UNCHANGED <<raftVars, electionTimer, callbacks, committer, cmds,
                           leaders>>
       ELSE /\ currentTerm' = [currentTerm EXCEPT ![n] = answer.term]
            /\ votedFor' = [votedFor EXCEPT ![n] = VoteIn(n, answer.term)]
            /\ callbacks' = [callbacks EXCEPT ![n] = IF higher THEN {} ELSE @]
            /\ committer' = [committer EXCEPT ![n] =
                                 IF higher THEN @ \o FailAll(n) ELSE @]
            /\ IF 1 + stored >= Majority
               THEN /\ state' = [state EXCEPT ![n] = Leader]
                    /\ votes' = [votes EXCEPT ![n] = 0]
                    /\ electionTimer' = [electionTimer EXCEPT ![n] = FALSE]
                    /\ cmds' = Push(n, "append")
                    /\ mode' = Wake(n, back)
                    /\ leaders' = leaders \union {<<n, answer.term>>}
               ELSE /\ state' = [state EXCEPT ![n] =
                                     IF higher THEN Follower ELSE @]
                    /\ votes' = [votes EXCEPT ![n] = stored]
                    /\ electionTimer' = [electionTimer EXCEPT ![n] = @ \/ higher]
                    /\ mode' = back
                    /\ UNCHANGED <<cmds, leaders>>
    /\ UNCHANGED <<firing, appendTimers, log, committed, applying, applied,
                   next, match, beat, envVars, grants>>

-----------------------------------------------------------------------------
(* The peer thread: do_append_entries.                                      *)

\* next_index_ at the top of the loop
NextAtTop(n, p) ==
    IF next[<<n, p>>] = 0 \/ next[<<n, p>>] > LastIndex(log[n])
    THEN LastIndex(log[n]) ELSE next[<<n, p>>]

\* No command is queued.  Either the thread waits for the next heartbeat, or
\* it goes on to build a request, without a lock on raft.
AppendLoop(n, p) ==
    /\ Alive(n)
    /\ mode[<<n, p>>] = "append" /\ cmds[<<n, p>>] = <<>>
    /\ next' = [next EXCEPT ![<<n, p>>] = NextAtTop(n, p)]
    /\ IF LastIndex(log[n]) = match[<<n, p>>] /\ beat[<<n, p>>]
       THEN beat' = [beat EXCEPT ![<<n, p>>] = FALSE] /\ UNCHANGED mode
       ELSE mode' = [mode EXCEPT ![<<n, p>>] = "build"] /\ UNCHANGED beat
    /\ UNCHANGED <<raftVars, timerVars, logVars, cmds, match, call, envVars,
                   history>>

\* The index build_append_entries_request(i) starts reading at: the entry
\* before i serves as prev_log.
ReadFrom(i) == IF i > 1 THEN i - 1 ELSE i

\* build_append_entries_request(i) with last_snapshot_index_ = 0
AppendRequest(n, i) ==
    LET read    == GetEntries(log[n], ReadFrom(i), Batch)
        hasPrev == Len(read) > 1 /\ i > 1
    IN  [type |-> "append", stage |-> "request", term |-> currentTerm[n],
         commit |-> committed[n],
         prevIndex |-> IF hasPrev THEN read[1].index ELSE 0,
         prevTerm |-> IF hasPrev THEN read[1].term ELSE 0,
         entries |-> IF hasPrev THEN Tail(read) ELSE read]

\* The request is built and sent, unless reading the log throws or nothing is
\* there to read (send_install_snapshot_req then finds no snapshot file):
\* either way the loop starts over.
SendAppend(n, p) ==
    LET i == next[<<n, p>>]
        q == AppendRequest(n, i)
    IN
    /\ Alive(n)
    /\ mode[<<n, p>>] = "build"
    /\ IF \/ Throws(log[n], ReadFrom(i))
          \/ q.entries = <<>> /\ i < LastIndex(log[n])
       THEN mode' = [mode EXCEPT ![<<n, p>>] = "append"] /\ UNCHANGED call
       ELSE /\ mode' = [mode EXCEPT ![<<n, p>>] = "calling"]
            /\ call' = [call EXCEPT ![<<n, p>>] = q]
    /\ UNCHANGED <<raftVars, timerVars, logVars, cmds, next, match, beat,
                   envVars, history>>

-----------------------------------------------------------------------------
(* handle_append_entries_request, at node p, of a request q.                 *)

\* The checks of prev_log that fail, in the order of the code: the log is too
\* short, or the term differs.  The entry at the start of the log, and the
\* index 0, are taken without a look at the term.
TooShort(p, q) == q.prevIndex > LastIndex(log[p])
ChecksTerm(p, q) == q.prevIndex # 0 /\ q.prevIndex > LogStart(log[p])
TermDiffers(p, q) ==
    ChecksTerm(p, q) /\ GetEntry(log[p], q.prevIndex).term # q.prevTerm

\* The loop over request.entries_ checks this entry against the log: st.check
\* is check_log, st.log the log so far.
MutStored(st, e) == st.check /\ e.index < LastIndex(st.log)
Stored(st, e) == st.check /\ e.index <= LastIndex(st.log)

\* One turn of that loop; st.end says how it ended early.
StoreEntry(commit, st, e) ==
    CASE st.end # "none" -> st
      [] st.end = "none" /\ st.check /\ e.index < LogStart(st.log) -> st
      [] st.end = "none" /\ Stored(st, e) /\ e.index >= LogStart(st.log) ->
            IF Throws(st.log, e.index) THEN [st EXCEPT !.end = "throw"]
            ELSE IF GetEntry(st.log, e.index).term = e.term THEN st
            ELSE IF commit >= e.index THEN [st EXCEPT !.end = "truncate"]
            ELSE [log |-> Write(TruncateSuffix(st.log, e.index), e),
                  check |-> FALSE, end |-> "none"]
      [] OTHER -> [st EXCEPT !.log = Write(@, e)]

StoreEntries(p, q) ==
    LET turn[i \in 0..Len(q.entries)] ==
            IF i = 0 THEN [log |-> log[p], check |-> TRUE, end |-> "none"]
            ELSE StoreEntry(committed[p], turn[i - 1], q.entries[i])
    IN  turn[Len(q.entries)]

\* What the handler returns, as a response or an exception, and to which log
\* it leads.  A failed assertion ends the process instead.
AppendOutcome(p, q) ==
    IF q.term < currentTerm[p]
    THEN [end |-> "none", log |-> log[p], success |-> FALSE, lastIndex |-> 0]
    ELSE IF TooShort(p, q)
    THEN [end |-> "none", log |-> log[p], success |-> FALSE,
          lastIndex |-> LastIndex(log[p])]
    ELSE IF ChecksTerm(p, q) /\ Throws(log[p], q.prevIndex)
    THEN [end |-> "throw", log |-> log[p], success |-> FALSE, lastIndex |-> 0]
    ELSE IF TermDiffers(p, q)
    THEN [end |-> "none", log |-> log[p], success |-> FALSE,
          lastIndex |-> q.prevIndex - 1]
    ELSE LET st == StoreEntries(p, q)
         IN  [end |-> st.end, log |-> st.log, success |-> st.end = "none",
              lastIndex |-> LastIndex(st.log)]

AppendAnswer(p, q) ==
    LET out == AppendOutcome(p, q)
    IN  IF out.end = "throw"
        THEN [type |-> "append", stage |-> "exception"]
        ELSE [type |-> "append", stage |-> "response",
              term |-> TermAfter(p, q.term),
              success |-> out.success, lastIndex |-> out.lastIndex,
              sent |-> [i \in DOMAIN q.entries |-> q.entries[i].index]]

\* Every heartbeat that finds the committer behind queues another task.
Backlog(p) == Len(SelectSeq(committer[p], LAMBDA item : item.op = "apply"))

MutApplyStored(p, q, out) ==
    IF out.success THEN <<ApplyTo(LastIndex(out.log))>> ELSE <<>>
MutApplyLate(p, q, out) ==
    IF out.success /\ committed[p] + 1 < q.commit
    THEN <<ApplyTo(q.commit)>> ELSE <<>>

\* The task that the request brings for the committer, once it is accepted.
ToApply(p, q, out) ==
    IF out.success /\ committed[p] < q.commit
    THEN <<ApplyTo(q.commit)>> ELSE <<>>

HandleAppendRequest(p, q) ==
    LET out == AppendOutcome(p, q)
        toApply == ToApply(p, q, out)
    IN
    /\ Alive(p)
    /\ Backlog(p) < MaxBacklog
    /\ log' = [log EXCEPT ![p] = out.log]
    /\ abort' = [abort EXCEPT ![p] =
                     IF out.end = "truncate" THEN "truncate" ELSE @]
    /\ IF q.term > currentTerm[p]
       THEN /\ StepDown(p, q.term, Nil, mode)
            /\ committer' = [committer EXCEPT ![p] = @ \o FailAll(p) \o toApply]
       ELSE /\ committer' = [committer EXCEPT ![p] = @ \o toApply]
            /\ electionTimer' = [electionTimer EXCEPT ![p] =
                                     @ \/ q.term = currentTerm[p]]
            /\ UNCHANGED <<raftVars, callbacks, cmds, mode>>
    /\ UNCHANGED <<firing, appendTimers, committed, applying, applied,
                   next, match, beat, req, elections, fails, history>>

ServeAppend(n, p) ==
    /\ call[<<n, p>>].type = "append" /\ call[<<n, p>>].stage = "request"
    /\ HandleAppendRequest(p, call[<<n, p>>])
    /\ call' = [call EXCEPT ![<<n, p>>] = AppendAnswer(p, call[<<n, p>>])]
    /\ UNCHANGED late

-----------------------------------------------------------------------------
(* The peer thread: the answer to append_entries.                           *)

MutKeepCallback(st, i) ==
    LET found == {c \in st.callbacks : c.index = i} IN
    IF found = {} THEN st
    ELSE [st EXCEPT !.committed = i,
                    !.done = Append(@, (CHOOSE c \in found : TRUE).req)]
MutCountTwice(st, i) ==
    LET found == {c \in st.callbacks : c.index = i} IN
    [st EXCEPT !.callbacks =
        (@ \ found) \union {[c EXCEPT !.waits = @ - 1] : c \in found}]

\* One turn of the loop of append_entries_callback: st has the callbacks left,
\* the commit index, and the requests whose callback waits no longer.
CountAck(st, i) ==
    LET found == {c \in st.callbacks : c.index = i} IN
    IF found = {} THEN st
    ELSE LET c == CHOOSE c \in found : TRUE IN
         IF c.waits = 1
         THEN [callbacks |-> st.callbacks \ {c}, committed |-> i,
               done |-> Append(st.done, c.req)]
         ELSE [st EXCEPT !.callbacks =
                   (@ \ {c}) \union {[c EXCEPT !.waits = @ - 1]}]

CountAcks(n, indexes) ==
    LET turn[i \in 0..Len(indexes)] ==
            IF i = 0 THEN [callbacks |-> callbacks[n],
                           committed |-> committed[n], done |-> <<>>]
            ELSE CountAck(turn[i - 1], indexes[i])
    IN  turn[Len(indexes)]

AppendSuccess(n, p) ==
    LET answer == call[<<n, p>>]
        acks == CountAcks(n, answer.sent)
    IN
    /\ Alive(n)
    /\ answer.type = "append" /\ answer.stage = "response" /\ answer.success
    /\ call' = [call EXCEPT ![<<n, p>>] = NoCall]
    /\ mode' = [mode EXCEPT ![<<n, p>>] = "append"]
    /\ beat' = [beat EXCEPT ![<<n, p>>] = TRUE]
    /\ match' = [match EXCEPT ![<<n, p>>] = answer.lastIndex]
    /\ next' = [next EXCEPT ![<<n, p>>] = answer.lastIndex + 1]
    /\ callbacks' = [callbacks EXCEPT ![n] = acks.callbacks]
    /\ committed' = [committed EXCEPT ![n] = acks.committed]
    /\ committer' = [committer EXCEPT ![n] =
           @ \o [i \in DOMAIN acks.done |-> Reply(acks.done[i], TRUE)]]
    /\ appendTimers' = [appendTimers EXCEPT ![n] = @ \ ToSet(acks.done)]
    /\ UNCHANGED <<raftVars, electionTimer, firing, log, applying, applied,
                   cmds, envVars, history>>

\* A refusal: another try from the index the follower names, or, when
\* get_current_term_ reads a lower term than the answer's, handle_new_term.
AppendFailure(n, p) ==
    LET answer == call[<<n, p>>]
        newTerm == currentTerm[n] < answer.term
    IN
    /\ Alive(n)
    /\ mode[<<n, p>>] = "calling"
    /\ answer.type = "append" /\ answer.stage = "response" /\ ~answer.success
    /\ beat' = [beat EXCEPT ![<<n, p>>] = TRUE]
    /\ match' = [match EXCEPT ![<<n, p>>] = 0]
    /\ mode' = [mode EXCEPT ![<<n, p>>] = IF newTerm THEN "newterm" ELSE "append"]
    /\ next' = [next EXCEPT ![<<n, p>>] = IF newTerm THEN @ ELSE answer.lastIndex + 1]
    /\ call' = [call EXCEPT ![<<n, p>>] = IF newTerm THEN @ ELSE NoCall]
    /\ UNCHANGED <<raftVars, timerVars, logVars, cmds, envVars, history>>

\* handle_new_term takes raft::mtx_ only now, and steps down even if the term
\* is no longer new; do_append_entries is over.
HandleNewTerm(n, p) ==
    LET term == call[<<n, p>>].term IN
    /\ Alive(n)
    /\ mode[<<n, p>>] = "newterm"
    /\ call[<<n, p>>].type = "append" /\ call[<<n, p>>].stage = "response"
    /\ StepDown(n, term, VoteIn(n, term), [mode EXCEPT ![<<n, p>>] = "run"])
    /\ committer' = [committer EXCEPT ![n] = @ \o FailAll(n)]
    /\ call' = [call EXCEPT ![<<n, p>>] = NoCall]
    /\ UNCHANGED <<firing, appendTimers, log, committed, applying, applied,
                   next, match, beat, envVars, history>>

-----------------------------------------------------------------------------
(* RPC failures.  rpc_client_.release() drops the connection without closing *)
(* it, so that a request already sent may still be handled, after later ones. *)

Threw(n, p) == call[<<n, p>>] # NoCall /\ call[<<n, p>>].stage = "exception"

\* do_election tries again with a new request, if it can connect; the loop of
\* do_append_entries catches the exception and starts over.
GiveUp(n, p) ==
    \/ /\ call[<<n, p>>].type = "append"
       /\ mode' = [mode EXCEPT ![<<n, p>>] = "append"]
       /\ call' = [call EXCEPT ![<<n, p>>] = NoCall]
    \/ /\ call[<<n, p>>].type = "vote"
       /\ call' = [call EXCEPT ![<<n, p>>] = VoteRequest(n)]
       /\ UNCHANGED mode
    \/ /\ call[<<n, p>>].type = "vote"
       /\ mode' = [mode EXCEPT ![<<n, p>>] = "run"]
       /\ call' = [call EXCEPT ![<<n, p>>] = NoCall]

\* The connection fails, or the handler threw and rpc_call passes that on.
CallFails(n, p) ==
    /\ Alive(n)
    /\ mode[<<n, p>>] # "newterm"
    /\ call[<<n, p>>] # NoCall
    /\ fails' = IF Threw(n, p) THEN fails ELSE fails + 1
    /\ fails' <= MaxFails /\ elections + fails' <= MaxTrouble
    /\ late' = IF call[<<n, p>>].stage = "request"
               THEN late \union {[from |-> n, to |-> p, request |-> call[<<n, p>>]]}
               ELSE late
    /\ GiveUp(n, p)
    /\ UNCHANGED <<raftVars, timerVars, logVars, cmds, next, match, beat,
                   abort, req, elections, history>>

\* A request whose caller gave up reaches its handler; the answer is lost.
ServeLate(m) ==
    /\ late' = late \ {m}
    /\ \/ m.request.type = "vote" /\ HandleVoteRequest(m.to, m.from, m.request)
       \/ m.request.type = "append" /\ HandleAppendRequest(m.to, m.request)
    /\ UNCHANGED call

-----------------------------------------------------------------------------
(* replicate, on the thread of request r.                                    *)

Busy == {r \in Request : req[r].pc \in {"checked", "written", "waiting"}}

\* check_leader, which the server asks before it calls replicate
CheckLeader(r, n) ==
    /\ Alive(n)
    /\ req[r].pc = "new" /\ Cardinality(Busy) < Concurrency
    /\ state[n] = Leader
    /\ req' = [req EXCEPT ![r] = [@ EXCEPT !.pc = "checked", !.node = n]]
    /\ UNCHANGED <<raftVars, timerVars, logVars, peerVars, abort, late,
                   elections, fails, history>>

\* do_relicate: log_.write under the log's own mutex, then set_timeout
WriteEntry(r) ==
    LET n == req[r].node IN
    /\ req[r].pc = "checked"
    /\ Alive(n)
    /\ log' = [log EXCEPT ![n] = WriteNew(@, currentTerm[n], r)]
    /\ appendTimers' = [appendTimers EXCEPT ![n] = @ \union {r}]
    /\ req' = [req EXCEPT ![r] = [@ EXCEPT !.pc = "written",
                                           !.index = LastIndex(log[n]) + 1]]
    /\ UNCHANGED <<raftVars, electionTimer, firing, committed, callbacks,
                   committer, applying, applied, peerVars, abort, late,
                   elections, fails, history>>

\* do_relicate: insert_callback, then notify_peers.  emplace inserts nothing
\* when the index already has a callback.
InsertCallback(r) ==
    LET n == req[r].node
        i == req[r].index
    IN
    /\ req[r].pc = "written"
    /\ Alive(n)
    /\ callbacks' = [callbacks EXCEPT ![n] =
           IF \E c \in @ : c.index = i THEN @
           ELSE @ \union {[index |-> i, waits |-> Majority - 1, req |-> r]}]
    /\ req' = [req EXCEPT ![r] = [@ EXCEPT !.pc = "waiting"]]
    /\ mode' = Wake(n, mode)
    /\ UNCHANGED <<raftVars, timerVars, log, committed, committer, applying,
                   applied, cmds, next, match, beat, call, abort, late,
                   elections, fails, history>>

\* The callback that the timeout of r finds: it is looked up by index.
MutTimedOut(n, r) == {c \in callbacks[n] : c.index = req[r].index + 1}
TimedOut(n, r) == {c \in callbacks[n] : c.index = req[r].index}

\* The action of set_timeout
AppendTimeout(n, r) ==
    LET found == TimedOut(n, r) IN
    /\ Alive(n)
    /\ r \in appendTimers[n] /\ ~firing[n]
    /\ EarlyTimeout \/ req[r].pc # "written"
    /\ appendTimers' = [appendTimers EXCEPT ![n] = @ \ {r}]
    /\ callbacks' = [callbacks EXCEPT ![n] = @ \ found]
    /\ committer' = [committer EXCEPT ![n] =
           IF found = {} THEN @
           ELSE Append(@, Reply((CHOOSE c \in found : TRUE).req, FALSE))]
    /\ UNCHANGED <<raftVars, electionTimer, firing, log, committed, applying,
                   applied, peerVars, envVars, history>>

-----------------------------------------------------------------------------
(* The committer thread.                                                    *)

NextItem(n, op) ==
    /\ Alive(n)
    /\ applying[n] = <<>>
    /\ committer[n] # <<>> /\ Head(committer[n]).op = op
    /\ committer' = [committer EXCEPT ![n] = Tail(@)]

\* The callback of a request: the server of a leader applies its entry here.
RunReply(n) ==
    LET item == Head(committer[n]) IN
    /\ NextItem(n, "reply")
    /\ req' = [req EXCEPT ![item.req] =
                   [@ EXCEPT !.pc = IF item.ok THEN "ok" ELSE "failed"]]
    /\ applied' = [applied EXCEPT ![n] =
                       IF item.ok THEN Append(@, item.req) ELSE @]
    /\ UNCHANGED <<raftVars, timerVars, log, committed, callbacks, applying,
                   peerVars, abort, late, elections, fails, history>>

\* The task that handle_append_entries_request pushed reads the entries to
\* apply; an exception here leaves the thread function and ends the process.
ReadEntries(n) ==
    LET first == committed[n] + 1
        count == Head(committer[n]).upTo - committed[n]
        fatal == count # 0 /\ Throws(log[n], first)
    IN
    /\ NextItem(n, "apply")
    /\ abort' = [abort EXCEPT ![n] = IF fatal THEN "terminate" ELSE @]
    /\ applying' = [applying EXCEPT ![n] =
           IF fatal THEN <<>> ELSE GetEntries(log[n], first, count)]
    /\ UNCHANGED <<raftVars, timerVars, log, committed, callbacks, applied,
                   peerVars, req, late, elections, fails, history>>

\* One turn of its loop, without raft::mtx_
ApplyEntry(n) ==
    LET e == Head(applying[n])
        inOrder == e.index = committed[n] + 1
    IN
    /\ Alive(n)
    /\ applying[n] # <<>>
    /\ applying' = [applying EXCEPT ![n] = Tail(@)]
    /\ IF inOrder
       THEN /\ applied' = [applied EXCEPT ![n] = Append(@, e.data)]
            /\ committed' = [committed EXCEPT ![n] = @ + 1]
            /\ UNCHANGED abort
       ELSE /\ abort' = [abort EXCEPT ![n] = "order"]
            /\ UNCHANGED <<applied, committed>>
    /\ UNCHANGED <<raftVars, timerVars, log, callbacks, committer, peerVars,
                   req, late, elections, fails, history>>

-----------------------------------------------------------------------------
PeerStep(n, p) ==
    \/ PopSleep(n, p) \/ FallAsleep(n, p)
    \/ PopElection(n, p) \/ PopAppend(n, p)
    \/ AppendLoop(n, p) \/ SendAppend(n, p)
    \/ VoteResponse(n, p) \/ AppendSuccess(n, p) \/ AppendFailure(n, p)
    \/ HandleNewTerm(n, p)

ServeCall(n, p) == ServeVote(n, p) \/ ServeAppend(n, p)

CommitterStep(n) == RunReply(n) \/ ReadEntries(n) \/ ApplyEntry(n)

TimerStep(n) ==
    \/ ElectionTimeout(n) \/ ElectionCallback(n)
    \/ \E r \in Request : AppendTimeout(n, r)

ReplicateStep(r) == WriteEntry(r) \/ InsertCallback(r)

Next ==
    \/ \E l \in Link : \/ PeerStep(l[1], l[2])
                       \/ ServeCall(l[1], l[2])
                       \/ CallFails(l[1], l[2])
    \/ \E n \in Node : TimerStep(n) \/ CommitterStep(n)
    \/ \E r \in Request : ReplicateStep(r) \/ \E n \in Node : CheckLeader(r, n)
    \/ \E m \in late : ServeLate(m)

Spec == Init /\ [][Next]_vars
=============================================================================
