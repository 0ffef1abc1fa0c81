---------------------------- MODULE PeerThread ----------------------------
(***************************************************************************)
(* One raft_peer: the queue of commands, the condition variable and what    *)
(* the peer's thread does with them.                                         *)
(*                                                                          *)
(* Raft takes a command and its notification for one step and has no        *)
(* snapshots.  Here send_cmd is split (push, then notify), the thread is     *)
(* split between its last look at the queue and wait_for, and commands run   *)
(* where the code runs them: try_execute_cmd is called by run, by the loop    *)
(* of do_append_entries and by the loop of the snapshot transfer, and each   *)
(* of them goes on differently when the command has returned.               *)
(***************************************************************************)
EXTENDS Integers, Sequences, SequencesExt

CONSTANTS
    MaxLast,      \* bound: entries of the log
    MaxElections, \* bound: elections this node starts
    MaxFailures   \* bound: RPCs that fail

ASSUME PeerBounds ==
    /\ MaxLast \in Nat \ {0} /\ MaxElections \in Nat /\ MaxFailures \in Nat

VARIABLES
    role, last,     \* raft: state_ and the last index of the log
    notifiers,      \* who has pushed or written, and has yet to call notify
    stopping,       \* stop_
    queue,          \* cmd_queue_
    at,             \* what the thread does now
    callers,        \* the loops that try_execute_cmd was called from
    match, beat,    \* match_index_ and send_heartbeat_
    sent,           \* the last index of the request the thread waits for
    lacking,        \* does the peer lack entries the log no longer has?
    \* history
    transfers,      \* did it at the start, so that it needs a snapshot?
    told,           \* is e_append_entries the last command that the thread took
                    \* up, but for e_connect?
    elections, failures

raftVars == <<role, last, stopping, elections, transfers>>
appendVars == <<match, beat, sent, lacking>>
vars == <<raftVars, notifiers, queue, at, callers, appendVars, told, failures>>

Caller == {"run", "append", "transfer"}
Waiting == {"asleep", "dozing", "resting"}
Place == Waiting \union Caller \union
    {"connect", "sleepy", "election", "vote", "idle", "drowsy",
     "build", "request", "chunk", "ended"}

Init ==
    /\ role = "follower" /\ last = 1 /\ stopping = FALSE
    /\ notifiers = {} /\ queue = <<"connect">>
    /\ at = "run" /\ callers = <<>>
    /\ match = 0 /\ beat = FALSE /\ sent = 0 /\ lacking \in BOOLEAN /\ transfers = lacking
    /\ told = FALSE /\ elections = 0 /\ failures = 0

-----------------------------------------------------------------------------
(* The other threads.  Whoever holds mtx_ of raft, or replicates, or stops   *)
(* the peer is one caller of notify at a time.                               *)

\* send_cmd: cmd_queue_.push, and notify is still to come.
Push(cmd) == queue' = Append(queue, cmd) /\ notifiers' = notifiers \union {"raft"}
Send(cmd) == "raft" \notin notifiers /\ Push(cmd)

Idle == UNCHANGED <<at, callers, appendVars, told, failures>>

\* The action of the election timer; it may have been dequeued when its node
\* became leader.
ElectionTimeout ==
    /\ ~stopping /\ elections < MaxElections
    /\ elections' = elections + 1
    /\ role' = "candidate"
    /\ Send("election")
    /\ UNCHANGED <<last, stopping, transfers>> /\ Idle

BecomeLeader ==
    /\ role = "candidate"
    /\ role' = "leader"
    /\ Send("append")
    /\ UNCHANGED <<last, stopping, elections, transfers>> /\ Idle

\* step_down sends e_sleep if this node is the leader.
StepDown ==
    /\ role # "follower" /\ "raft" \notin notifiers
    /\ role' = "follower"
    /\ IF role = "leader" THEN Push("sleep") ELSE UNCHANGED <<queue, notifiers>>
    /\ UNCHANGED <<last, stopping, elections, transfers>> /\ Idle

\* do_relicate writes the entry, then notifies the peers.
Replicate ==
    /\ ~stopping /\ role = "leader" /\ last < MaxLast /\ "client" \notin notifiers
    /\ last' = last + 1
    /\ notifiers' = notifiers \union {"client"}
    /\ UNCHANGED <<role, stopping, elections, transfers, queue>> /\ Idle

\* stop sets stop_, then notifies, and joins.
Stop ==
    /\ ~stopping
    /\ stopping' = TRUE
    /\ notifiers' = notifiers \union {"stop"}
    /\ UNCHANGED <<role, last, elections, transfers, queue>> /\ Idle

-----------------------------------------------------------------------------
(* What follows a command, or the end of a wait.                             *)

\* The command has returned true: run takes the next one, do_append_entries
\* leaves its loop and returns to its own caller, the transfer returns to the
\* loop of do_append_entries that it is part of.
Outer == SelectLastInSeq(callers, LAMBDA c: c # "append")
MutRunTop == "run"
RunTop == IF stopping THEN "ended" ELSE "run"
MutReturnTo == IF Last(callers) = "run" THEN RunTop ELSE "append"
ReturnTo == IF callers[Outer] = "transfer" THEN "append" ELSE RunTop
Return ==
    /\ at' = ReturnTo
    /\ callers' = SubSeq(callers, 1, Outer - 1)

Raised == at' = "append" /\ UNCHANGED callers

\* The wait that the thread is in ends.
WakeUp ==
    CASE at = "asleep"  -> Return
      [] at = "dozing"  -> at' = RunTop /\ UNCHANGED callers
      [] at = "resting" -> Raised

\* cv_.notify_one under the mutex of the wait.
Notify(a) ==
    /\ notifiers' = notifiers \ {a}
    /\ IF at \in Waiting THEN WakeUp ELSE UNCHANGED <<at, callers>>
    /\ UNCHANGED <<raftVars, queue, appendVars, told, failures>>

\* wait_for returns because the time is over; the wait of e_sleep takes a
\* hundred years.
MutTimed == {"dozing"}
MutDozing == {"resting"}
Timed == {"dozing", "resting"}
TimeOver ==
    /\ at \in Timed
    /\ WakeUp
    /\ UNCHANGED <<raftVars, notifiers, queue, appendVars, told, failures>>

\* wait_for may return for no reason.
Spurious ==
    /\ at = "asleep"
    /\ WakeUp
    /\ UNCHANGED <<raftVars, notifiers, queue, appendVars, told, failures>>

-----------------------------------------------------------------------------
(* The peer's thread.                                                        *)

Own == UNCHANGED <<raftVars, notifiers>>
Fail == failures < MaxFailures /\ failures' = failures + 1

\* try_execute_cmd, at the top of one of the three loops.
Started(cmd) == CASE cmd = "sleep" -> "sleepy"
                  [] cmd = "append" -> "append"
                  [] OTHER -> cmd
Pop ==
    /\ at \in Caller /\ queue # <<>>
    /\ queue' = Tail(queue)
    /\ at' = Started(Head(queue))
    /\ callers' = Append(callers, at)
    /\ told' = IF Head(queue) = "connect" THEN told ELSE Head(queue) = "append"
    /\ IF Head(queue) = "append"
       THEN match' = 0 /\ beat' = FALSE
       ELSE UNCHANGED <<match, beat>>
    /\ UNCHANGED <<sent, lacking, failures>> /\ Own

\* run finds no command.  Without a connection it comes back at once, with one
\* it sleeps for a second.
RunIdle ==
    /\ at = "run" /\ queue = <<>>
    /\ \/ at' = "idle" /\ UNCHANGED failures
       \/ at' = RunTop /\ Fail
    /\ UNCHANGED <<callers, queue, appendVars, told>> /\ Own

\* The thread starts to wait.
Wait ==
    /\ at \in {"idle", "sleepy", "drowsy"}
    /\ at' = CASE at = "idle" -> "dozing"
               [] at = "sleepy" -> "asleep"
               [] at = "drowsy" -> "resting"
    /\ UNCHANGED <<callers, queue, appendVars, told, failures>> /\ Own

\* do_connect, whether it fails or not.
Connect ==
    /\ at = "connect"
    /\ Return
    /\ UNCHANGED <<queue, appendVars, told, failures>> /\ Own

\* do_election: without a connection it gives up, a call that fails is tried
\* again, without end.
Election ==
    /\ \/ at = "election" /\ at' = "vote" /\ UNCHANGED <<callers, failures>>
       \/ at = "election" /\ Return /\ Fail
       \/ at = "vote" /\ Return /\ UNCHANGED failures
       \/ at = "vote" /\ at' = "election" /\ UNCHANGED callers /\ Fail
    /\ UNCHANGED <<queue, appendVars, told>> /\ Own

\* The top of do_append_entries when no command is queued: the last index is
\* read and compared with match_index_.
MutUpToDate == last = match
UpToDate == last = match /\ beat
AppendTop ==
    /\ at = "append" /\ queue = <<>>
    /\ at' = IF UpToDate THEN "drowsy" ELSE "build"
    /\ beat' = (beat /\ ~UpToDate)
    /\ UNCHANGED <<callers, queue, match, sent, lacking, told, failures>> /\ Own

\* The request is built from the log as it is now and sent; without a connection
\* it is not, and the loop begins again.
Build ==
    /\ at = "build"
    /\ \/ /\ lacking /\ at' = "transfer" /\ UNCHANGED <<sent, failures>>
       \/ /\ ~lacking /\ at' = "request" /\ sent' = last /\ UNCHANGED failures
       \/ /\ at' = "append" /\ Fail /\ UNCHANGED sent
    /\ UNCHANGED <<callers, queue, match, beat, lacking, told>> /\ Own

\* The answer to append_entries.  A refusal moves next_index_, which is not
\* modelled: refusals are as bounded as failures.
Answered ==
    /\ at = "request"
    /\ beat' = TRUE /\ match' = sent /\ Raised
    /\ UNCHANGED <<queue, sent, lacking, told, failures>> /\ Own
Refused ==
    /\ at = "request" /\ Fail
    /\ beat' = TRUE /\ match' = 0 /\ Raised
    /\ UNCHANGED <<queue, sent, lacking, told>> /\ Own
RequestFails ==
    /\ at \in {"request", "chunk"} /\ Fail
    /\ Raised
    /\ UNCHANGED <<queue, appendVars, told>> /\ Own

\* An answer of a later term: step_down, and do_append_entries returns.
\* The transfer returns to its loop.
NewTerm ==
    /\ at \in {"request", "chunk"} /\ "raft" \notin notifiers /\ Fail
    /\ role' = "follower"
    /\ IF role = "leader" THEN Push("sleep") ELSE UNCHANGED <<queue, notifiers>>
    /\ IF at = "request" THEN Return ELSE Raised
    /\ IF at = "request" THEN match' = 0 /\ beat' = TRUE ELSE UNCHANGED <<match, beat>>
    /\ UNCHANGED <<last, stopping, elections, transfers, sent, lacking, told>>

\* The snapshot, in one chunk that covers the first entry.
Chunk ==
    /\ at = "transfer" /\ queue = <<>>
    /\ at' = "chunk"
    /\ UNCHANGED <<callers, queue, appendVars, told, failures>> /\ Own
ChunkAnswered ==
    /\ at = "chunk"
    /\ match' = 1 /\ lacking' = FALSE /\ Raised
    /\ UNCHANGED <<queue, beat, sent, told, failures>> /\ Own

Thread ==
    \/ Pop \/ RunIdle \/ Wait \/ TimeOver \/ Connect \/ Election
    \/ AppendTop \/ Build \/ Answered \/ Refused \/ RequestFails
    \/ NewTerm \/ Chunk \/ ChunkAnswered

Next ==
    \/ ElectionTimeout \/ BecomeLeader \/ StepDown \/ Replicate \/ Stop
    \/ \E a \in notifiers: Notify(a)
    \/ Spurious
    \/ Thread

Spec == Init /\ [][Next]_vars

\* The thread runs, its RPCs and its timed waits end, and whoever has pushed
\* also notifies.
FairSpec ==
    /\ Spec
    /\ WF_vars(Thread)
    /\ \A a \in {"raft", "client", "stop"}: WF_vars(a \in notifiers /\ Notify(a))

-----------------------------------------------------------------------------
\* The state is typed, and each loop is entered from run and left to run.
TypeOK ==
    /\ role \in {"follower", "candidate", "leader"} /\ last \in 1 .. MaxLast
    /\ stopping \in BOOLEAN /\ elections \in 0 .. MaxElections
    /\ notifiers \subseteq {"raft", "client", "stop"}
    /\ queue \in Seq({"connect", "election", "append", "sleep"})
    /\ at \in Place /\ callers \in Seq(Caller)
    /\ (at \in {"run", "idle", "dozing", "ended"}) = (callers = <<>>)
    /\ callers # <<>> => Head(callers) = "run"
    /\ match \in 0 .. last /\ sent \in 0 .. last
    /\ beat \in BOOLEAN /\ lacking \in BOOLEAN /\ (lacking => transfers) /\ told \in BOOLEAN
    /\ failures \in 0 .. MaxFailures

\* The thread sends entries and heartbeats only between an e_append_entries and
\* the next command it takes up: not for an office that is over.  (If the peer
\* needs no snapshot: a command that runs inside a transfer returns to the loop
\* that sends.)
SendsAsTold == at \in {"request", "chunk"} => told \/ transfers

\* e_sleep waits for a hundred years whatever is queued behind it: the commands
\* stay there until the next notification.
Overslept == at = "asleep" /\ queue # <<>>

\* What a leader has in its log reaches the peer, although the notification may
\* come after the thread has looked at the log and before it waits.
EntriesAreSent ==
    role = "leader" /\ last > match
        ~> match = last \/ role # "leader" \/ Overslept \/ stopping

\* A leader without requests keeps sending heartbeats.
HeartbeatsGoOn ==
    []<>(at \in {"request", "chunk"} \/ role # "leader" \/ Overslept \/ stopping)

\* Every command is taken up, whatever loop the thread is in and however often its
\* calls fail, but for the long sleep and the end of the thread.
CommandsAreTaken == queue # <<>> ~> queue = <<>> \/ Overslept \/ stopping

\* stop ends a thread that works neither for a leader nor sleeps for one.  (It
\* never ends the loop of do_append_entries, which does not look at stop_, and
\* not a thread that takes up an e_sleep after it.)
Light ==
    /\ role = "follower"
    /\ ToSet(queue) \subseteq {"connect", "election"}
    /\ ToSet(callers) \subseteq {"run"}
    /\ at \in {"run", "idle", "dozing", "connect", "election", "vote"}
StopEnds == stopping /\ Light ~> at = "ended"
=============================================================================
