----------------------------- MODULE DurableMap -----------------------------
(***************************************************************************)
(* What detail::metadata promises its users, raft and the server: a map     *)
(* whose contents outlive the process.  A call that is under way when the   *)
(* process dies may or may not have had its effect, and it may cost the     *)
(* whole store; a process that dies between calls costs nothing but what    *)
(* is in doubt: the set that rolled the log over last, and what             *)
(* load_snapshot has put into memory.                                       *)
(***************************************************************************)
CONSTANTS Slot,     \* a place for a value: a key of one of the two types
          Value,
          None      \* no value, not one of Value

VARIABLES
    store,    \* the contents; after a crash, what init will find
    status,   \* "idle", "busy" (inside a call), "down", "lost"
    busy,     \* the slots the call under way may change
    doubt     \* the slots that a crash may change as well

vars == <<store, status, busy, doubt>>

Init ==
    /\ store = [s \in Slot |-> None]
    /\ status = "down"
    /\ busy = {} /\ doubt = {}

\* Contents that differ from the store at most in the slots of T
Changed(T) ==
    {m \in [Slot -> Value \union {None}] : \A s \in Slot \ T : m[s] = store[s]}

\* A call that concerns the slots T starts; the destructor concerns none.
Begin(T) ==
    /\ status = "idle"
    /\ status' = "busy"
    /\ busy' = T
    /\ store' \in Changed(T)
    /\ UNCHANGED doubt

\* It returns.  Either its slots are no longer in doubt, or they are the only
\* ones that are.
End ==
    /\ status = "busy"
    /\ status' = "idle"
    /\ busy' = {}
    /\ store' \in Changed(busy)
    /\ doubt' \subseteq doubt \ busy \/ doubt' \subseteq busy

\* load_snapshot
Load(T) ==
    /\ status = "idle"
    /\ store' \in Changed(T)
    /\ doubt' = doubt \union T
    /\ UNCHANGED <<status, busy>>

\* The destructor has returned.
Close ==
    /\ status = "busy" /\ busy = {}
    /\ status' = "down"
    /\ busy' = {} /\ doubt' = {}
    /\ UNCHANGED store

Crash ==
    /\ \/ status = "idle" /\ status' = "down"
       \/ status = "busy" /\ status' \in {"down", "lost"}
    /\ status' = "lost" \/ store' \in Changed(busy \union doubt)
    /\ busy' = {}
    /\ doubt' \subseteq busy \union doubt

Open ==
    /\ status = "down"
    /\ status' = "idle"
    /\ UNCHANGED <<store, busy, doubt>>

Next ==
    \/ \E T \in SUBSET Slot : Begin(T) \/ Load(T)
    \/ End \/ Close \/ Crash \/ Open

Spec == Init /\ [][Next]_vars
=============================================================================
