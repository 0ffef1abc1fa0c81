------------------------ MODULE SnapshotBuildProofs ------------------------
(***************************************************************************)
(* The trigger of SnapshotBuild is not lost, whatever the size and number   *)
(* of the files of the log.                                                  *)
(***************************************************************************)
EXTENDS SnapshotBuild, TLAPS

Queue == tasks \in Seq({"apply", "snapshot"})

\* Between the call of the trigger and its end nobody takes up what it has pushed:
\* the committer thread waits for the mutex of the log.
CalledIsQueued == writing => idled \/ Pending # {}

IInv == Queue /\ writing \in BOOLEAN /\ CalledIsQueued /\ TriggerNotLost

\* A task that is appended is found, and the others stay where they are.
LEMMA Pushed ==
    ASSUME Queue, NEW t \in {"apply", "snapshot"}, tasks' = Append(tasks, t)
    PROVE  Queue' /\ (Pending # {} \/ t = "snapshot" => Pending' # {})
<1>1. Queue'
      BY DEF Queue
<1>2. Len(tasks') = Len(tasks) + 1 /\ tasks'[Len(tasks) + 1] = t
      BY DEF Queue
<1>3. \A i \in 1 .. Len(tasks): tasks'[i] = tasks[i]
      BY DEF Queue
<1>4. ASSUME NEW i \in Pending  PROVE i \in Pending'
      BY <1>2, <1>3, <1>4 DEF Pending, Queue
<1>5. t = "snapshot" => Len(tasks) + 1 \in Pending'
      BY <1>2 DEF Pending, Queue
<1> QED  BY <1>1, <1>4, <1>5

\* Taking an "apply" from the head leaves the snapshots in the queue.
LEMMA Popped ==
    ASSUME Queue, tasks # <<>>, tasks' = Tail(tasks)
    PROVE  Queue' /\ (Pending # {} /\ Head(tasks) = "apply" => Pending' # {})
<1>1. Queue'
      BY DEF Queue
<1>2. Len(tasks') = Len(tasks) - 1 /\ \A i \in 1 .. Len(tasks'): tasks'[i] = tasks[i + 1]
      BY DEF Queue
<1>3. ASSUME NEW i \in Pending, Head(tasks) = "apply"
      PROVE  i - 1 \in Pending'
  <2>1. i \in 1 .. Len(tasks) /\ tasks[i] = "snapshot"
        BY DEF Pending, Queue
  <2>2. i # 1
        BY <1>3, <2>1 DEF Queue
  <2>3. i - 1 \in 1 .. Len(tasks') /\ tasks'[i - 1] = "snapshot"
        BY <1>2, <2>1, <2>2 DEF Queue
  <2> QED  BY <1>1, <2>3 DEF Pending, Queue
<1> QED  BY <1>1, <1>3

LEMMA IInvInit == Init => IInv
<1> SUFFICES ASSUME Init  PROVE IInv
    OBVIOUS
<1>1. Queue
      BY DEF Init, Queue
<1>2. writing = FALSE /\ trigger = "first"
      BY DEF Init
<1> QED  BY <1>1, <1>2 DEF IInv, CalledIsQueued, TriggerNotLost

LEMMA IInvNext == IInv /\ [Next]_vars => IInv'
<1> SUFFICES ASSUME IInv, [Next]_vars  PROVE IInv'
    OBVIOUS
<1> USE DEF IInv, CalledIsQueued, TriggerNotLost
<1>1. CASE ChangeRole
      BY <1>1 DEF ChangeRole, logVars, buildVars, Pending, Queue
<1>2. CASE Write
  <2>1. CASE Pushes
    <3>1. Queue' /\ Pending' # {}
          BY <1>2, <2>1, Pushed DEF Write
    <3> QED  BY <1>2, <2>1, <3>1 DEF Write, Pushes, Calls
  <2>2. CASE ~Pushes
    <3>1. tasks' = tasks /\ trigger' = trigger /\ doing' = doing /\ failed' = failed
          BY <1>2, <2>2 DEF Write, buildVars
    <3>2. writing' = Calls /\ idled' = (idled \/ (Calls /\ ~Pushes))
          BY <1>2 DEF Write
    <3>3. Calls \in BOOLEAN
          BY DEF Calls
    <3> QED  BY <2>2, <3>1, <3>2, <3>3 DEF Pending, Queue
  <2> QED  BY <2>1, <2>2
<1>3. CASE ClearTrigger
      BY <1>3 DEF ClearTrigger, logVars, buildVars, Pending, Queue
<1>4. CASE Acknowledge
  <2>1. Queue' /\ (Pending # {} => Pending' # {})
        BY <1>4, Pushed DEF Acknowledge
  <2> QED  BY <1>4, <2>1 DEF Acknowledge, buildVars
<1>5. CASE Apply
  <2>1. Queue' /\ (Pending # {} => Pending' # {})
        BY <1>5, Popped DEF Apply
  <2> QED  BY <1>5, <2>1 DEF Apply, buildVars
<1>6. CASE Begin
  <2>1. Queue'
        BY <1>6, Popped DEF Begin
  <2> QED  BY <1>6, <2>1 DEF Begin, LogFree
<1>7. CASE Build \/ BuildFails \/ Rearm \/ Cut
      BY <1>7 DEF Build, BuildFails, Rearm, Cut, Pending, Queue
<1>8. CASE UNCHANGED vars
      BY <1>8 DEF vars, buildVars, Pending, Queue
<1> QED  BY <1>1, <1>2, <1>3, <1>4, <1>5, <1>6, <1>7, <1>8 DEF Next, Committer

\* For every size and number of files: the trigger that write calls and clears is
\* set again, unless it was called on a follower or a build failed.
THEOREM TriggerIsNeverLost == Spec => []TriggerNotLost
<1>1. IInv => TriggerNotLost
      BY DEF IInv
<1> QED  BY <1>1, IInvInit, IInvNext, PTL DEF Spec
=============================================================================
