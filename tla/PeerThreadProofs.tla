-------------------------- MODULE PeerThreadProofs --------------------------
(***************************************************************************)
(* Proof that a peer's thread sends entries and heartbeats only as long as  *)
(* e_append_entries is the last command it took up.  What makes it hard is  *)
(* the return: a command goes back to the innermost loop that is not        *)
(* do_append_entries, so the proof needs to know which loops the thread is  *)
(* in, however the commands are nested.                                     *)
(***************************************************************************)
EXTENDS PeerThread, SequenceTheorems, WellFoundedInduction, TLAPS

Command == {"connect", "election", "append", "sleep"}

\* The places where the thread serves an office.
Serving == {"append", "drowsy", "resting", "build", "request", "chunk"}

\* Where the thread is, and in which loops: run is the outermost and there is no
\* other run, and a peer that needs no snapshot is never in the loop of the
\* transfer.
Placed(place, loops) ==
    /\ place \in Place /\ loops \in Seq(Caller)
    /\ (place \in {"run", "idle", "dozing", "ended"}) = (loops = <<>>)
    /\ loops # <<>> => Head(loops) = "run"
    /\ \A i \in DOMAIN loops : loops[i] = "run" <=> i = 1
    /\ ~transfers => /\ place # "transfer"
                     /\ \A i \in DOMAIN loops : loops[i] # "transfer"

\* The other variables.
DataOK ==
    /\ role \in {"follower", "candidate", "leader"} /\ last \in 1 .. MaxLast
    /\ stopping \in BOOLEAN /\ elections \in 0 .. MaxElections
    /\ notifiers \subseteq {"raft", "client", "stop"}
    /\ queue \in Seq(Command)
    /\ match \in 0 .. last /\ sent \in 0 .. last
    /\ beat \in BOOLEAN /\ lacking \in BOOLEAN /\ (lacking => transfers)
    /\ told \in BOOLEAN /\ transfers \in BOOLEAN
    /\ failures \in 0 .. MaxFailures

ServesAsTold == ~transfers /\ at \in Serving => told

IInv == DataOK /\ Placed(at, callers) /\ ServesAsTold

-----------------------------------------------------------------------------
(* Returning from a command.                                                 *)

\* Max of a set of positions is its largest member.
LEMMA LargestExists ==
    ASSUME NEW m \in Nat, NEW I \in SUBSET (1 .. m), I # {}
    PROVE  Max(I) \in I /\ \A i \in I : Max(I) >= i
<1> DEFINE T == {m - i : i \in I}
<1>1. \A i \in I : i \in Int /\ m - i \in Nat
      OBVIOUS
<1>2. T \subseteq Nat /\ T # {}
      BY <1>1
<1>3. PICK t \in T : \A u \in T : ~(<<u, t>> \in OpToRel(<, Nat))
      BY <1>2, NatLessThanWellFounded, WFMin
<1>4. \A u \in T : ~(u < t)
      BY <1>2, <1>3 DEF OpToRel
<1>5. PICK i \in I : t = m - i
      BY <1>3
<1>6. ASSUME NEW j \in I PROVE i >= j
  <2>1. ~(m - j < m - i)
        BY <1>4, <1>5
  <2> QED  BY <1>1, <2>1
<1> QED  BY <1>5, <1>6 DEF Max

\* As run is the outermost loop, there is always a loop to return to.
LEMMA OuterLoop ==
    ASSUME callers \in Seq(Caller), callers # <<>>, callers[1] = "run"
    PROVE  Outer \in 1 .. Len(callers) /\ callers[Outer] # "append"
<1> DEFINE I == {i \in 1 .. Len(callers) : callers[i] # "append"}
<1>1. 1 \in I /\ Len(callers) \in Nat
      OBVIOUS
<1>2. Max(I) \in I
  <2>1. I \in SUBSET (1 .. Len(callers)) /\ I # {}
        BY <1>1
  <2> HIDE DEF I
  <2> QED  BY <1>1, <2>1, LargestExists
<1>3. Outer = Max(I)
      BY <1>1 DEF Outer, SelectLastInSeq
<1> QED  BY <1>2, <1>3

LEMMA ReturnKeeps ==
    ASSUME Placed(at, callers), callers # <<>>, Return
    PROVE  Placed(at', callers') /\ (~transfers => at' \notin Serving)
<1> DEFINE k == Outer
<1>1. callers \in Seq(Caller) /\ callers[1] = "run" /\ Len(callers) \in Nat
      BY DEF Placed
<1>2. k \in 1 .. Len(callers) /\ callers[k] # "append"
      BY <1>1, OuterLoop
<1>3. /\ at' = (IF callers[k] = "transfer" THEN "append" ELSE RunTop)
      /\ callers' = SubSeq(callers, 1, k - 1)
      BY DEF Return, ReturnTo
<1> HIDE DEF k
<1>4. /\ callers' \in Seq(Caller) /\ Len(callers') = k - 1
      /\ \A i \in 1 .. k - 1 : callers'[i] = callers[i]
      BY <1>1, <1>2, <1>3
<1>5. DOMAIN callers' = 1 .. k - 1 /\ (callers' = <<>> <=> k = 1)
      BY <1>2, <1>4, EmptySeq
<1>6. callers[k] \in Caller /\ (callers[k] = "run" <=> k = 1)
      BY <1>1, <1>2 DEF Placed
<1>7. \A i \in DOMAIN callers' :
        /\ callers'[i] = "run" <=> i = 1
        /\ ~transfers => callers'[i] # "transfer"
      BY <1>1, <1>2, <1>4, <1>5 DEF Placed
<1>8. callers' # <<>> => Head(callers') = "run"
      BY <1>2, <1>4, <1>5, <1>7
<1>9. CASE callers[k] = "transfer"
  <2>1. at' = "append" /\ callers' # <<>> /\ transfers
        BY <1>1, <1>2, <1>3, <1>5, <1>6, <1>9 DEF Placed
  <2> QED  BY <1>4, <1>7, <1>8, <2>1 DEF Placed, Place, Caller
<1>10. CASE callers[k] = "run"
  <2>1. at' \in {"run", "ended"} /\ callers' = <<>>
        BY <1>3, <1>5, <1>6, <1>10 DEF RunTop
  <2> QED  BY <1>4, <1>7, <2>1 DEF Placed, Place, Caller, Serving
<1> QED  BY <1>2, <1>6, <1>9, <1>10 DEF Caller

-----------------------------------------------------------------------------
(* The steps.                                                                *)

\* A wait ends, or a command does: what the thread goes on with.
LEMMA WakeUpKeeps ==
    ASSUME IInv, at \in Waiting, WakeUp
    PROVE  /\ Placed(at', callers')
           /\ ~transfers /\ at' \in Serving => at \in Serving
<1>1. CASE at = "asleep"
  <2>1. Placed(at, callers) /\ callers # <<>> /\ Return
        BY <1>1 DEF IInv, Placed, WakeUp
  <2> QED  BY <2>1, ReturnKeeps
<1>2. CASE at = "dozing"
      BY <1>2 DEF IInv, Placed, WakeUp, RunTop, Place, Caller, Serving
<1>3. CASE at = "resting"
      BY <1>3 DEF IInv, Placed, WakeUp, Raised, Place, Caller, Serving
<1> QED  BY <1>1, <1>2, <1>3 DEF Waiting

\* The threads of raft only push and notify.
LEMMA OtherThreadsKeep ==
    ASSUME IInv,
           ElectionTimeout \/ BecomeLeader \/ StepDown \/ Replicate \/ Stop
    PROVE  IInv'
<1>1. UNCHANGED <<at, callers, transfers, told>>
      BY DEF ElectionTimeout, BecomeLeader, StepDown, Replicate, Stop, Idle
<1>2. Placed(at, callers)' /\ ServesAsTold'
      BY <1>1 DEF IInv, Placed, ServesAsTold
<1>3. DataOK'
  <2>1. ASSUME NEW cmd \in Command, Push(cmd)
        PROVE  queue' \in Seq(Command) /\ notifiers' \subseteq {"raft", "client", "stop"}
        BY <2>1 DEF IInv, DataOK, Push
  <2>2. CASE ElectionTimeout
        BY <2>1, <2>2, PeerBounds
           DEF ElectionTimeout, Send, Idle, IInv, DataOK, Command, appendVars
  <2>3. CASE BecomeLeader
        BY <2>1, <2>3 DEF BecomeLeader, Send, Idle, IInv, DataOK, Command, appendVars
  <2>4. CASE StepDown
        BY <2>1, <2>4 DEF StepDown, Idle, IInv, DataOK, Command, appendVars
  <2>5. CASE Replicate
        BY <2>5, PeerBounds DEF Replicate, Idle, IInv, DataOK, appendVars
  <2>6. CASE Stop
        BY <2>6 DEF Stop, Idle, IInv, DataOK, appendVars
  <2> QED  BY <2>2, <2>3, <2>4, <2>5, <2>6
<1> QED  BY <1>2, <1>3 DEF IInv

LEMMA WakingKeeps ==
    ASSUME IInv, TimeOver \/ Spurious \/ \E a \in notifiers : Notify(a)
    PROVE  IInv'
<1>1. /\ UNCHANGED <<raftVars, queue, appendVars, told, failures>>
      /\ notifiers' \subseteq notifiers
      BY DEF TimeOver, Spurious, Notify
<1>2. DataOK'
      BY <1>1 DEF IInv, DataOK, raftVars, appendVars
<1>3. \/ at \in Waiting /\ WakeUp
      \/ UNCHANGED <<at, callers>>
      BY DEF TimeOver, Spurious, Notify, Timed, Waiting
<1>4. /\ Placed(at', callers')
      /\ ~transfers /\ at' \in Serving => at \in Serving
      BY <1>3, WakeUpKeeps DEF IInv
<1>5. Placed(at, callers)' /\ ServesAsTold'
      BY <1>1, <1>4 DEF IInv, Placed, ServesAsTold, raftVars
<1> QED  BY <1>2, <1>5 DEF IInv

\* A command begins: the loop it was found in is now a caller.
LEMMA PopKeeps ==
    ASSUME IInv, Pop
    PROVE  IInv'
<1>1. /\ at \in Caller /\ queue # <<>> /\ queue' = Tail(queue)
      /\ at' = Started(Head(queue))
      /\ callers' = Append(callers, at)
      /\ told' = IF Head(queue) = "connect" THEN told ELSE Head(queue) = "append"
      /\ UNCHANGED <<role, last, stopping, elections, transfers, notifiers,
                     sent, lacking, failures>>
      BY DEF Pop, Own, raftVars
<1>2. Head(queue) \in Command /\ queue' \in Seq(Command)
      BY <1>1 DEF IInv, DataOK
<1>3. (match' = 0 /\ beat' = FALSE) \/ UNCHANGED <<match, beat>>
      BY DEF Pop
<1>4. DataOK'
  <2>1. match' \in 0 .. last
        BY <1>3 DEF IInv, DataOK
  <2>2. beat' \in BOOLEAN /\ told' \in BOOLEAN
        BY <1>1, <1>3 DEF IInv, DataOK
  <2> QED  BY <1>1, <1>2, <2>1, <2>2 DEF IInv, DataOK
<1>5. /\ callers \in Seq(Caller) /\ (at = "run" <=> callers = <<>>)
      /\ callers # <<>> => callers[1] = "run"
      /\ \A i \in DOMAIN callers : callers[i] = "run" <=> i = 1
      /\ ~transfers => at # "transfer" /\ \A i \in DOMAIN callers : callers[i] # "transfer"
      BY <1>1 DEF IInv, Placed, Caller
<1>6. /\ callers' \in Seq(Caller) /\ callers' # <<>>
      /\ Len(callers') = Len(callers) + 1 /\ Len(callers) \in Nat
      /\ \A i \in 1 .. Len(callers) : callers'[i] = callers[i]
      /\ callers'[Len(callers) + 1] = at
      BY <1>1, <1>5
<1>7. callers = <<>> <=> Len(callers) = 0
      BY <1>5, EmptySeq
<1>8. ASSUME NEW i \in DOMAIN callers'
      PROVE  /\ callers'[i] = "run" <=> i = 1
             /\ ~transfers => callers'[i] # "transfer"
  <2>1. i \in 1 .. Len(callers) + 1
        BY <1>6
  <2>2. CASE i \in 1 .. Len(callers)
        BY <1>5, <1>6, <2>2
  <2>3. CASE i = Len(callers) + 1
        BY <1>5, <1>6, <1>7, <2>3
  <2> QED  BY <1>6, <2>1, <2>2, <2>3
<1>9. Head(callers') = "run"
      BY <1>5, <1>6, <1>7
<1>10. at' \in {"connect", "sleepy", "election", "append"}
       BY <1>1, <1>2 DEF Started, Command
<1>11. Placed(at, callers)'
       BY <1>1, <1>6, <1>8, <1>9, <1>10 DEF Placed, Place, Caller
<1>12. ServesAsTold'
       BY <1>1, <1>2, <1>10 DEF ServesAsTold, Serving, Started, Command
<1> QED  BY <1>4, <1>11, <1>12 DEF IInv

\* The steps of a command that goes on: the loops stay the same.
LEMMA CommandGoesOn ==
    ASSUME IInv, UNCHANGED <<callers, transfers, told>>, DataOK',
           at' \in Place \ {"run", "idle", "dozing", "ended"},
           at \notin {"run", "idle", "dozing", "ended"},
           ~transfers => at' # "transfer",
           ~transfers /\ at' \in Serving => at \in Serving
    PROVE  IInv'
BY DEF IInv, Placed, ServesAsTold

\* A command returns.
LEMMA CommandReturns ==
    ASSUME IInv, UNCHANGED <<transfers, told>>, DataOK', Return,
           at \notin {"run", "idle", "dozing", "ended"}
    PROVE  IInv'
<1>1. Placed(at, callers) /\ callers # <<>>
      BY DEF IInv, Placed
<1>2. Placed(at', callers') /\ (~transfers => at' \notin Serving)
      BY <1>1, ReturnKeeps
<1>3. Placed(at, callers)' /\ ServesAsTold'
      BY <1>2 DEF Placed, ServesAsTold
<1> QED  BY <1>3 DEF IInv

LEMMA RunKeeps ==
    ASSUME IInv, RunIdle \/ Wait
    PROVE  IInv'
<1>1. UNCHANGED <<raftVars, notifiers, queue, appendVars, told, callers>>
      BY DEF RunIdle, Wait, Own
<1>2. failures' \in 0 .. MaxFailures
      BY PeerBounds DEF RunIdle, Wait, Fail, IInv, DataOK
<1>3. DataOK'
      BY <1>1, <1>2 DEF IInv, DataOK, raftVars, appendVars
<1>4. CASE RunIdle
  <2>1. at = "run" /\ at' \in {"idle", "run", "ended"}
        BY <1>4 DEF RunIdle, RunTop
  <2> QED  BY <1>1, <1>3, <2>1
              DEF IInv, Placed, ServesAsTold, Serving, raftVars, Place, Waiting, Caller
<1>5. CASE Wait
  <2>1. CASE at = "idle" /\ at' = "dozing"
        BY <1>1, <1>3, <2>1
           DEF IInv, Placed, ServesAsTold, Serving, raftVars, Place, Waiting
  <2>2. CASE at \in {"sleepy", "drowsy"} /\ at' = (IF at = "sleepy" THEN "asleep" ELSE "resting")
        BY <1>1, <1>3, <2>2, CommandGoesOn DEF raftVars, Place, Waiting, Serving
  <2> QED  BY <1>5, <2>1, <2>2 DEF Wait
<1> QED  BY <1>4, <1>5

LEMMA CommandsKeep ==
    ASSUME IInv,
           \/ Connect \/ Election \/ AppendTop \/ Build \/ Answered \/ Refused
           \/ RequestFails \/ NewTerm \/ Chunk \/ ChunkAnswered
    PROVE  IInv'
<1>1. UNCHANGED <<transfers, told>>
      BY DEF Connect, Election, AppendTop, Build, Answered, Refused,
             RequestFails, NewTerm, Chunk, ChunkAnswered, Own, raftVars, appendVars
<1>2. at \notin {"run", "idle", "dozing", "ended"}
      BY DEF Connect, Election, AppendTop, Build, Answered, Refused,
             RequestFails, NewTerm, Chunk, ChunkAnswered
<1>3. DataOK'
  <2>1. failures' \in 0 .. MaxFailures
        BY PeerBounds DEF Connect, Election, AppendTop, Build, Answered, Refused,
           RequestFails, NewTerm, Chunk, ChunkAnswered, Fail, IInv, DataOK
  <2>2. /\ queue' \in Seq(Command) /\ notifiers' \subseteq {"raft", "client", "stop"}
        /\ role' \in {"follower", "candidate", "leader"}
        /\ UNCHANGED <<last, stopping, elections>>
    <3>1. CASE NewTerm
      <4>1. Append(queue, "sleep") \in Seq(Command)
            BY DEF IInv, DataOK, Command
      <4> QED  BY <3>1, <4>1 DEF NewTerm, Push, IInv, DataOK
    <3>2. CASE UNCHANGED <<raftVars, notifiers, queue>>
          BY <3>2 DEF IInv, DataOK, raftVars
    <3> QED  BY <3>1, <3>2
             DEF Connect, Election, AppendTop, Build, Answered, Refused,
                 RequestFails, Chunk, ChunkAnswered, Own
  <2>3. /\ match' \in {match, sent, 0, 1} /\ sent' \in {sent, last}
        /\ lacking' \in {lacking, FALSE}
        BY DEF Connect, Election, AppendTop, Build, Answered, Refused, RequestFails,
               NewTerm, Chunk, ChunkAnswered, appendVars
  <2>4. beat' \in BOOLEAN
    <3>1. beat \in BOOLEAN
          BY DEF IInv, DataOK
    <3>2. beat' = TRUE \/ UNCHANGED beat \/ beat' = (beat /\ ~UpToDate)
          BY DEF Connect, Election, AppendTop, Build, Answered, Refused, RequestFails,
                 NewTerm, Chunk, ChunkAnswered, appendVars
    <3> QED  BY <3>1, <3>2
  <2>5. match' \in 0 .. last /\ sent' \in 0 .. last
        BY <2>3, PeerBounds DEF IInv, DataOK
  <2>6. lacking' \in BOOLEAN /\ (lacking' => transfers)
    <3>1. lacking \in BOOLEAN /\ (lacking => transfers)
          BY DEF IInv, DataOK
    <3>2. lacking' = lacking \/ lacking' = FALSE
          BY <2>3
    <3>3. CASE lacking' = lacking
          BY <3>1, <3>3, Zenon
    <3>4. CASE lacking' = FALSE
          BY <3>4
    <3> QED  BY <3>2, <3>3, <3>4
  <2> QED  BY <1>1, <2>1, <2>2, <2>3, <2>4, <2>5, <2>6 DEF IInv, DataOK
<1>4. CASE Return
      BY <1>1, <1>2, <1>3, <1>4, CommandReturns
<1>5. CASE UNCHANGED callers /\ at \in {"election", "vote"} /\ at' \in {"election", "vote"}
      BY <1>1, <1>3, <1>5, CommandGoesOn DEF Place, Serving, Waiting, Caller
<1>6. CASE UNCHANGED callers /\ at \in Serving /\ at' \in Serving
      BY <1>1, <1>2, <1>3, <1>6, CommandGoesOn DEF Place, Serving, Waiting, Caller
<1>7. CASE UNCHANGED callers /\ transfers
           /\ at' \in Serving \union {"transfer"}
      BY <1>1, <1>2, <1>3, <1>7, CommandGoesOn DEF Place, Serving, Waiting, Caller
<1>8. at = "transfer" => transfers
      BY DEF IInv, Placed
<1> QED  BY <1>4, <1>5, <1>6, <1>7, <1>8
            DEF Connect, Election, AppendTop, Build, Answered, Refused,
                RequestFails, NewTerm, Chunk, ChunkAnswered, Raised, Serving, IInv, DataOK

LEMMA IInvNext == IInv /\ [Next]_vars => IInv'
<1> SUFFICES ASSUME IInv, [Next]_vars PROVE IInv'
    OBVIOUS
<1>1. CASE UNCHANGED vars
      BY <1>1 DEF vars, raftVars, appendVars, IInv, DataOK, Placed, ServesAsTold
<1>2. CASE Next
      BY <1>2, OtherThreadsKeep, WakingKeeps, PopKeeps, RunKeeps, CommandsKeep
         DEF Next, Thread
<1> QED  BY <1>1, <1>2

LEMMA IInvInit == Init => IInv
<1> SUFFICES ASSUME Init PROVE IInv
    OBVIOUS
<1>1. DataOK
  <2>1. <<"connect">> \in Seq(Command)
        BY DEF Command
  <2>2. /\ last \in 1 .. MaxLast /\ elections \in 0 .. MaxElections
        /\ failures \in 0 .. MaxFailures /\ match \in 0 .. last /\ sent \in 0 .. last
        BY PeerBounds DEF Init
  <2> QED  BY <2>1, <2>2 DEF Init, DataOK
<1>2. Placed(at, callers) /\ ServesAsTold
      BY DEF Init, Placed, ServesAsTold, Place, Caller, Serving
<1> QED  BY <1>1, <1>2 DEF IInv

\* The variables keep their types, and each of the nested loops is entered from
\* run and left to it.
THEOREM ThreadTyped == Spec => []TypeOK
<1>1. IInv => TypeOK
      BY DEF IInv, DataOK, Placed, TypeOK, Command
<1> QED  BY IInvInit, IInvNext, <1>1, PTL DEF Spec

\* However its commands are queued and nested, and however its waits and calls
\* end, the thread of a peer that needs no snapshot sends for an office only
\* while e_append_entries is the last command it took up.
THEOREM ThreadSendsAsTold == Spec => []SendsAsTold
<1>1. IInv => SendsAsTold
      BY DEF IInv, DataOK, ServesAsTold, SendsAsTold, Serving
<1> QED  BY IInvInit, IInvNext, <1>1, PTL DEF Spec
=============================================================================
