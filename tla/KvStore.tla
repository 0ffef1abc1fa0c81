------------------------------ MODULE KvStore ------------------------------
(***************************************************************************)
(* What one server promises to its clients: a call takes effect at one      *)
(* moment between its beginning and its end, and its answer is what the     *)
(* store said at that moment; or it has no effect and is refused; or it      *)
(* never ends.                                                               *)
(***************************************************************************)
EXTENDS Integers

CONSTANTS Client, Key, Value, NoValue

VARIABLES
    store,    \* Key -> Value or NoValue
    call,     \* what each client has asked, or Nothing
    answer    \* what it is going to be told, or "none"

Nothing == [op |-> "none"]
Sets == [op: {"set"}, key: Key, value: Value]
Dels == [op: {"del"}, key: Key]
Gets == [op: {"get"}, key: Key]
Calls == Sets \union Dels \union Gets

Init ==
    /\ store = [k \in Key |-> NoValue]
    /\ call = [c \in Client |-> Nothing]
    /\ answer = [c \in Client |-> "none"]

Call(c, q) ==
    /\ call[c] = Nothing
    /\ call' = [call EXCEPT ![c] = q]
    /\ UNCHANGED <<store, answer>>

Asked(c) == call[c] # Nothing /\ answer[c] = "none"

Effect(s, q) ==
    CASE q.op = "set" -> [s EXCEPT ![q.key] = q.value]
      [] q.op = "del" -> [s EXCEPT ![q.key] = NoValue]
      [] OTHER -> s
Said(s, q) ==
    CASE q.op = "set" -> "ok"
      [] q.op = "del" -> IF s[q.key] = NoValue THEN "noexist" ELSE "ok"
      [] OTHER -> s[q.key]

Perform(c) ==
    /\ Asked(c)
    /\ store' = Effect(store, call[c])
    /\ answer' = [answer EXCEPT ![c] = Said(store, call[c])]
    /\ UNCHANGED call

Refuse(c) ==
    /\ Asked(c)
    /\ answer' = [answer EXCEPT ![c] = "refused"]
    /\ UNCHANGED <<store, call>>

Return(c) ==
    /\ answer[c] # "none"
    /\ call' = [call EXCEPT ![c] = Nothing]
    /\ answer' = [answer EXCEPT ![c] = "none"]
    /\ UNCHANGED store

Next ==
    \E c \in Client:
        \/ \E q \in Calls: Call(c, q)
        \/ Perform(c) \/ Refuse(c) \/ Return(c)

Spec == Init /\ [][Next]_<<store, call, answer>>
=============================================================================
