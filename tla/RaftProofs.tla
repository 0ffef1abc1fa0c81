----------------------------- MODULE RaftProofs -----------------------------
(***************************************************************************)
(* Proofs about Raft, for every set of nodes and requests, every bound and  *)
(* every number of lost, delayed and repeated calls.                        *)
(*                                                                          *)
(* The first part is about the elections: who is granted votes, who becomes *)
(* leader, who has its election timer set, and what the peer threads of a   *)
(* node do that leads, or leads no more.  Its invariants speak of terms,    *)
(* votes and timers only; nothing in it depends on what the logs contain.   *)
(*                                                                          *)
(* The second part is about the callers of replicate and the data: all      *)
(* variables have their types, every caller is answered once, and no caller *)
(* is left without an answer and without a timer.  While one node only has  *)
(* been leader, every log is a prefix of its log, a peer thread believes to *)
(* be stored what is stored, and in small clusters a majority has what the  *)
(* leader has committed.  With one call of replicate at a time commit       *)
(* indexes only grow and, if no RPC fails, followers apply what is          *)
(* committed, in its order.                                                 *)
(*                                                                          *)
(* The handlers loop over the entries of a request, over the indexes of an  *)
(* answer and over the callbacks of a node.  What a loop does is proved by  *)
(* an invariant of its turns (TurnsStay), on a function whose existence     *)
(* (TurnsExist) and induction (SetInduction) rest on < being well-founded   *)
(* on the natural numbers.                                                  *)
(***************************************************************************)
EXTENDS RaftProperties, FiniteSetTheorems, SequenceTheorems,
        WellFoundedInduction, TLAPS

\* The messages that carry a term: NoCall and a thrown exception do not.
HasTerm(m) ==
    m.type \in {"vote", "append"} /\ m.stage \in {"request", "response"}

\* The types that the proofs need.
TermTypeOK ==
    /\ currentTerm \in [Node -> Nat]
    /\ votedFor \in [Node -> Node \union {Nil}]
    /\ call = [l \in Link |-> call[l]]
    /\ \A l \in Link : HasTerm(call[l]) => call[l].term \in Nat
    /\ \A m \in late : m.from \in Node /\ m.to \in Node /\ m.request.term \in Nat
    /\ grants \subseteq [voter : Node, term : Nat, candidate : Node]

\* A node never falls behind a term in which it has granted its vote, and
\* while it is in that term voted_for_ still names the candidate.
GrantsKept ==
    \A g \in grants :
        /\ g.term <= currentTerm[g.voter]
        /\ g.term = currentTerm[g.voter] => votedFor[g.voter] = g.candidate

VoteInv == TermTypeOK /\ GrantsKept /\ OneGrantPerTerm

-----------------------------------------------------------------------------
LEMMA LinkNodes ==
    ASSUME NEW l \in Link
    PROVE  l[1] \in Node /\ l[2] \in Node /\ l[1] # l[2] /\ l = <<l[1], l[2]>>
BY DEF Link

\* What the two callers of handle_vote_request, an rpc_server and a late
\* delivery, have in common.
LEMMA VoteRequestStep ==
    ASSUME VoteInv, NEW p \in Node, NEW n \in Node, NEW q, q.term \in Nat,
           HandleVoteRequest(p, n, q)
    PROVE  /\ currentTerm' \in [Node -> Nat]
           /\ votedFor' \in [Node -> Node \union {Nil}]
           /\ grants' \subseteq [voter : Node, term : Nat, candidate : Node]
           /\ GrantsKept'
           /\ OneGrantPerTerm'
           /\ VoteAnswer(p, n, q).term \in Nat
<1> DEFINE new == [voter |-> p, term |-> q.term, candidate |-> n]
           granted == VoteAnswer(p, n, q).granted
<1>1. currentTerm \in [Node -> Nat] /\ votedFor \in [Node -> Node \union {Nil}]
      BY DEF VoteInv, TermTypeOK
<1>2. /\ currentTerm' = [currentTerm EXCEPT ![p] = TermAfter(p, q.term)]
      /\ votedFor' = [votedFor EXCEPT ![p] = VoteAfter(p, n, q)]
  <2>1. CASE q.term > currentTerm[p] \/ NewVote(p, q)
        BY <2>1 DEF HandleVoteRequest, StepDown
  <2>2. CASE ~(q.term > currentTerm[p] \/ NewVote(p, q))
    <3>1. UNCHANGED <<currentTerm, votedFor>>
          BY <2>2 DEF HandleVoteRequest, raftVars
    <3>2. TermAfter(p, q.term) = currentTerm[p]
          BY <1>1, <2>2 DEF TermAfter
    <3>3. VoteAfter(p, n, q) = votedFor[p]
          BY <1>1, <2>2 DEF VoteAfter, VoteIn
    <3> QED  BY <1>1, <3>1, <3>2, <3>3
  <2> QED  BY <2>1, <2>2
<1>3. TermAfter(p, q.term) \in Nat /\ VoteAfter(p, n, q) \in Node \union {Nil}
      BY <1>1 DEF TermAfter, VoteAfter, VoteIn
<1>4. currentTerm' \in [Node -> Nat] /\ votedFor' \in [Node -> Node \union {Nil}]
      BY <1>1, <1>2, <1>3
<1>5. grants' = IF granted THEN grants \union {new} ELSE grants
      BY DEF HandleVoteRequest
<1>6. granted => q.term >= currentTerm[p] /\ VoteAfter(p, n, q) = n
      BY DEF VoteAnswer
<1>7. grants' \subseteq [voter : Node, term : Nat, candidate : Node]
      BY <1>5 DEF VoteInv, TermTypeOK
\* The old grants of p stay good: p moves to a new term, or takes a vote only
\* when voted_for_ is empty, which none of its grants in this term allows.
<1>8. ASSUME NEW g \in grants
      PROVE  /\ g.term <= currentTerm'[g.voter]
             /\ g.term = currentTerm'[g.voter] => votedFor'[g.voter] = g.candidate
  <2>1. /\ g.voter \in Node /\ g.term \in Nat /\ g.candidate \in Node
        /\ g.term <= currentTerm[g.voter]
        /\ g.term = currentTerm[g.voter] => votedFor[g.voter] = g.candidate
        BY DEF VoteInv, TermTypeOK, GrantsKept
  <2>2. CASE g.voter # p
        BY <1>1, <1>2, <2>1, <2>2
  <2>3. CASE g.voter = p
    <3>1. currentTerm'[p] = TermAfter(p, q.term) /\ votedFor'[p] = VoteAfter(p, n, q)
          BY <1>1, <1>2
    <3>2. g.term <= TermAfter(p, q.term)
          BY <1>1, <2>1, <2>3 DEF TermAfter
    <3>3. ASSUME g.term = TermAfter(p, q.term)
          PROVE  VoteAfter(p, n, q) = g.candidate
      <4>1. g.term = currentTerm[p] /\ q.term <= currentTerm[p]
            BY <1>1, <2>1, <2>3, <3>3 DEF TermAfter
      <4>2. VoteIn(p, q.term) = g.candidate
            BY <1>1, <2>1, <2>3, <4>1 DEF VoteIn
      <4>3. ~NewVote(p, q)
            BY <2>1, <4>2, NilAssumption DEF NewVote
      <4> QED  BY <4>2, <4>3 DEF VoteAfter
    <3> QED  BY <2>3, <3>1, <3>2, <3>3
  <2> QED  BY <2>2, <2>3
<1>9. granted => new.term = currentTerm'[p] /\ votedFor'[p] = new.candidate
      BY <1>1, <1>2, <1>6 DEF TermAfter
<1>10. GrantsKept'
  <2>1. ASSUME NEW g \in grants'
        PROVE  /\ g.term <= currentTerm'[g.voter]
               /\ g.term = currentTerm'[g.voter] => votedFor'[g.voter] = g.candidate
    <3>1. CASE g \in grants
          BY <1>8, <3>1
    <3>2. CASE granted /\ g = new
          BY <1>4, <1>9, <3>2
    <3> QED  BY <1>5, <3>1, <3>2
  <2> QED  BY <2>1 DEF GrantsKept
<1>11. OneGrantPerTerm'
  <2>1. ASSUME NEW g \in grants, granted, g.voter = p, g.term = q.term
        PROVE  g.candidate = n
        BY <1>8, <1>9, <2>1
  <2> QED  BY <1>5, <2>1 DEF VoteInv, OneGrantPerTerm
<1>12. VoteAnswer(p, n, q).term \in Nat
       BY <1>3 DEF VoteAnswer
<1> QED  BY <1>4, <1>7, <1>10, <1>11, <1>12

\* handle_append_entries_request moves to the term of the request if that is
\* higher, and then holds no vote; otherwise it leaves both alone.
LEMMA AppendRequestStep ==
    ASSUME VoteInv, NEW p \in Node, NEW q, q.term \in Nat,
           HandleAppendRequest(p, q)
    PROVE  /\ currentTerm' \in [Node -> Nat]
           /\ votedFor' \in [Node -> Node \union {Nil}]
           /\ UNCHANGED grants
           /\ GrantsKept'
           /\ HasTerm(AppendAnswer(p, q)) => AppendAnswer(p, q).term \in Nat
<1>1. currentTerm \in [Node -> Nat] /\ votedFor \in [Node -> Node \union {Nil}]
      BY DEF VoteInv, TermTypeOK
<1>2. UNCHANGED grants
      BY DEF HandleAppendRequest, history
<1>3. \/ UNCHANGED <<currentTerm, votedFor>>
      \/ /\ q.term > currentTerm[p]
         /\ currentTerm' = [currentTerm EXCEPT ![p] = q.term]
         /\ votedFor' = [votedFor EXCEPT ![p] = Nil]
  <2>1. CASE q.term > currentTerm[p]
    <3>1. TermAfter(p, q.term) = q.term
          BY <1>1, <2>1 DEF TermAfter
    <3> QED  BY <2>1, <3>1 DEF HandleAppendRequest, StepDown
  <2>2. CASE ~(q.term > currentTerm[p])
        BY <2>2 DEF HandleAppendRequest, raftVars
  <2> QED  BY <2>1, <2>2
<1>4. currentTerm' \in [Node -> Nat] /\ votedFor' \in [Node -> Node \union {Nil}]
      BY <1>1, <1>3
<1>5. GrantsKept'
      BY <1>1, <1>2, <1>3 DEF VoteInv, TermTypeOK, GrantsKept
<1>6. HasTerm(AppendAnswer(p, q)) => AppendAnswer(p, q).term \in Nat
  <2>1. TermAfter(p, q.term) \in Nat
        BY <1>1 DEF TermAfter
  <2>2. CASE AppendOutcome(p, q).end = "throw"
        BY <2>2 DEF AppendAnswer, HasTerm
  <2>3. CASE AppendOutcome(p, q).end # "throw"
        BY <2>1, <2>3 DEF AppendAnswer
  <2> QED  BY <2>2, <2>3
<1> QED  BY <1>2, <1>4, <1>5, <1>6

\* A node that only moves to a term not lower than its own, and empties
\* voted_for_ when the term is higher, keeps its grants.
LEMMA NewTermStep ==
    ASSUME VoteInv, NEW n \in Node, NEW term \in Nat,
           currentTerm' = [currentTerm EXCEPT ![n] = TermAfter(n, term)],
           \/ votedFor' = [votedFor EXCEPT ![n] = VoteIn(n, term)]
           \/ UNCHANGED votedFor,
           UNCHANGED grants
    PROVE  /\ currentTerm' \in [Node -> Nat]
           /\ votedFor' \in [Node -> Node \union {Nil}]
           /\ GrantsKept'
           /\ OneGrantPerTerm'
<1>1. currentTerm \in [Node -> Nat] /\ votedFor \in [Node -> Node \union {Nil}]
      BY DEF VoteInv, TermTypeOK
<1>2. TermAfter(n, term) \in Nat /\ VoteIn(n, term) \in Node \union {Nil}
      BY <1>1 DEF TermAfter, VoteIn
<1>3. TermAfter(n, term) >= currentTerm[n]
      BY <1>1 DEF TermAfter
<1>4. TermAfter(n, term) = currentTerm[n] => VoteIn(n, term) = votedFor[n]
      BY <1>1 DEF TermAfter, VoteIn
<1>5. GrantsKept'
      BY <1>1, <1>2, <1>3, <1>4 DEF VoteInv, TermTypeOK, GrantsKept
<1>6. OneGrantPerTerm'
      BY DEF VoteInv, OneGrantPerTerm
<1> QED  BY <1>1, <1>2, <1>5, <1>6

\* The steps that touch neither the terms nor the votes, whatever they do to
\* calls, as long as these carry terms.
LEMMA OtherStep ==
    ASSUME VoteInv,
           UNCHANGED <<currentTerm, votedFor, grants>>,
           call' = [l \in Link |-> call'[l]],
           \A l \in Link : HasTerm(call'[l]) => call'[l].term \in Nat,
           \A m \in late' : m.from \in Node /\ m.to \in Node
                            /\ m.request.term \in Nat
    PROVE  VoteInv'
BY DEF VoteInv, TermTypeOK, GrantsKept, OneGrantPerTerm

\* The calls after an action that changes the call of one link.
LEMMA CallStep ==
    ASSUME VoteInv, NEW l \in Link, NEW c, HasTerm(c) => c.term \in Nat,
           call' = [call EXCEPT ![l] = c]
    PROVE  /\ call' = [k \in Link |-> call'[k]]
           /\ \A k \in Link : HasTerm(call'[k]) => call'[k].term \in Nat
BY DEF VoteInv, TermTypeOK

LEMMA NoCallHasNoTerm == ~HasTerm(NoCall)
BY DEF HasTerm, NoCall

-----------------------------------------------------------------------------
LEMMA VoteInvInit == Init => VoteInv
<1> SUFFICES ASSUME Init PROVE VoteInv
    OBVIOUS
<1>1. TermTypeOK
      BY NoCallHasNoTerm DEF Init, TermTypeOK
<1>2. GrantsKept /\ OneGrantPerTerm
      BY DEF Init, GrantsKept, OneGrantPerTerm
<1> QED  BY <1>1, <1>2 DEF VoteInv

LEMMA VoteInvPeerStep ==
    ASSUME VoteInv, NEW l \in Link, PeerStep(l[1], l[2])
    PROVE  VoteInv'
<1> DEFINE n == l[1]
           p == l[2]
<1>1. n \in Node /\ p \in Node /\ n # p /\ l = <<n, p>>
      BY LinkNodes
<1>2. /\ currentTerm \in [Node -> Nat]
      /\ votedFor \in [Node -> Node \union {Nil}]
      /\ call = [k \in Link |-> call[k]]
      /\ \A k \in Link : HasTerm(call[k]) => call[k].term \in Nat
      /\ \A m \in late : m.from \in Node /\ m.to \in Node
                         /\ m.request.term \in Nat
      BY DEF VoteInv, TermTypeOK
<1> HIDE DEF n, p
<1>3. CASE UNCHANGED <<currentTerm, votedFor, grants, call, late>>
      BY <1>2, <1>3, OtherStep
<1>4. CASE PopSleep(n, p) \/ FallAsleep(n, p) \/ PopAppend(n, p)
           \/ AppendLoop(n, p)
      BY <1>3, <1>4
         DEF PopSleep, FallAsleep, PopAppend, AppendLoop, raftVars, envVars,
             history
<1>5. CASE PopElection(n, p)
  <2>1. VoteRequest(n).term \in Nat
        BY <1>1, <1>2 DEF VoteRequest
  <2>2. /\ call' = [call EXCEPT ![l] = VoteRequest(n)]
        /\ UNCHANGED <<currentTerm, votedFor, grants, late>>
        BY <1>1, <1>5 DEF PopElection, raftVars, envVars, history
  <2> QED  BY <1>2, <2>1, <2>2, CallStep, OtherStep
<1>6. CASE SendAppend(n, p)
  <2>1. UNCHANGED <<currentTerm, votedFor, grants, late>>
        BY <1>6 DEF SendAppend, raftVars, envVars, history
  <2>2. \/ UNCHANGED call
        \/ call' = [call EXCEPT ![l] = AppendRequest(n, next[l])]
        BY <1>1, <1>6 DEF SendAppend
  <2>3. AppendRequest(n, next[l]).term \in Nat
        BY <1>1, <1>2 DEF AppendRequest
  <2> QED  BY <1>2, <2>1, <2>2, <2>3, CallStep, OtherStep
<1>7. CASE AppendSuccess(n, p)
  <2>1. /\ call' = [call EXCEPT ![l] = NoCall]
        /\ UNCHANGED <<currentTerm, votedFor, grants, late>>
        BY <1>1, <1>7 DEF AppendSuccess, raftVars, envVars, history
  <2> QED  BY <1>2, <2>1, NoCallHasNoTerm, CallStep, OtherStep
<1>8. CASE AppendFailure(n, p)
  <2>1. UNCHANGED <<currentTerm, votedFor, grants, late>>
        BY <1>8 DEF AppendFailure, raftVars, envVars, history
  <2>2. \/ call' = [call EXCEPT ![l] = call[l]]
        \/ call' = [call EXCEPT ![l] = NoCall]
        BY <1>1, <1>8 DEF AppendFailure
  <2> QED  BY <1>2, <2>1, <2>2, NoCallHasNoTerm, CallStep, OtherStep
<1>9. CASE VoteResponse(n, p)
  <2>1. /\ call' = [call EXCEPT ![l] = NoCall]
        /\ UNCHANGED <<grants, late>>
        /\ call[l].type = "vote" /\ call[l].stage = "response"
        BY <1>1, <1>9 DEF VoteResponse, envVars
  <2>2. call[l].term \in Nat
        BY <1>2, <2>1 DEF HasTerm
  <2>3. \/ UNCHANGED <<currentTerm, votedFor>>
        \/ /\ currentTerm' = [currentTerm EXCEPT ![n] = TermAfter(n, call[l].term)]
           /\ votedFor' = [votedFor EXCEPT ![n] = VoteIn(n, call[l].term)]
    <3>1. CASE state[n] # Candidate \/ call[l].term < currentTerm[n]
          BY <1>1, <1>9, <3>1 DEF VoteResponse, raftVars
    <3>2. CASE ~(state[n] # Candidate \/ call[l].term < currentTerm[n])
      <4>1. TermAfter(n, call[l].term) = call[l].term
            BY <1>1, <1>2, <2>2, <3>2 DEF TermAfter
      <4> QED  BY <1>1, <1>9, <3>2, <4>1 DEF VoteResponse
    <3> QED  BY <3>1, <3>2
  <2>4. /\ call' = [k \in Link |-> call'[k]]
        /\ \A k \in Link : HasTerm(call'[k]) => call'[k].term \in Nat
        BY <2>1, NoCallHasNoTerm, CallStep
  <2>5. CASE UNCHANGED <<currentTerm, votedFor>>
        BY <1>2, <2>1, <2>4, <2>5, OtherStep
  <2>6. CASE /\ currentTerm' = [currentTerm EXCEPT ![n] = TermAfter(n, call[l].term)]
             /\ votedFor' = [votedFor EXCEPT ![n] = VoteIn(n, call[l].term)]
    <3>1. /\ currentTerm' \in [Node -> Nat]
          /\ votedFor' \in [Node -> Node \union {Nil}]
          /\ GrantsKept' /\ OneGrantPerTerm'
          BY <1>1, <2>1, <2>2, <2>6, NewTermStep
    <3> QED  BY <2>1, <2>4, <3>1 DEF VoteInv, TermTypeOK
  <2> QED  BY <2>3, <2>5, <2>6
<1>10. CASE HandleNewTerm(n, p)
  <2>1. /\ call[l].type = "append" /\ call[l].stage = "response"
        /\ call' = [call EXCEPT ![l] = NoCall]
        /\ UNCHANGED <<grants, late>>
        /\ currentTerm' = [currentTerm EXCEPT ![n] = TermAfter(n, call[l].term)]
        /\ votedFor' = [votedFor EXCEPT ![n] = VoteIn(n, call[l].term)]
        BY <1>1, <1>10 DEF HandleNewTerm, StepDown, envVars, history
  <2>2. call[l].term \in Nat
        BY <1>2, <2>1 DEF HasTerm
  <2>3. /\ call' = [k \in Link |-> call'[k]]
        /\ \A k \in Link : HasTerm(call'[k]) => call'[k].term \in Nat
        BY <2>1, NoCallHasNoTerm, CallStep
  <2>4. /\ currentTerm' \in [Node -> Nat]
        /\ votedFor' \in [Node -> Node \union {Nil}]
        /\ GrantsKept' /\ OneGrantPerTerm'
        BY <1>1, <2>1, <2>2, NewTermStep
  <2> QED  BY <2>1, <2>3, <2>4 DEF VoteInv, TermTypeOK
<1> QED  BY <1>4, <1>5, <1>6, <1>7, <1>8, <1>9, <1>10 DEF PeerStep, n, p

LEMMA VoteInvServeCall ==
    ASSUME VoteInv, NEW l \in Link, ServeCall(l[1], l[2])
    PROVE  VoteInv'
<1> DEFINE n == l[1]
           p == l[2]
<1>1. n \in Node /\ p \in Node /\ l = <<n, p>>
      BY LinkNodes
<1>2. \A k \in Link : HasTerm(call[k]) => call[k].term \in Nat
      BY DEF VoteInv, TermTypeOK
<1> HIDE DEF n, p
<1>3. CASE ServeVote(n, p)
  <2>1. /\ call[l].type = "vote" /\ call[l].stage = "request"
        /\ HandleVoteRequest(p, n, call[l])
        /\ call' = [call EXCEPT ![l] = VoteAnswer(p, n, call[l])]
        /\ UNCHANGED late
        BY <1>1, <1>3 DEF ServeVote
  <2>2. call[l].term \in Nat
        BY <1>2, <2>1 DEF HasTerm
  <2>3. /\ currentTerm' \in [Node -> Nat]
        /\ votedFor' \in [Node -> Node \union {Nil}]
        /\ grants' \subseteq [voter : Node, term : Nat, candidate : Node]
        /\ GrantsKept' /\ OneGrantPerTerm'
        /\ VoteAnswer(p, n, call[l]).term \in Nat
        BY <1>1, <2>1, <2>2, VoteRequestStep
  <2>4. /\ call' = [k \in Link |-> call'[k]]
        /\ \A k \in Link : HasTerm(call'[k]) => call'[k].term \in Nat
        BY <2>1, <2>3, CallStep
  <2> QED  BY <2>1, <2>3, <2>4 DEF VoteInv, TermTypeOK
<1>4. CASE ServeAppend(n, p)
  <2>1. /\ call[l].type = "append" /\ call[l].stage = "request"
        /\ HandleAppendRequest(p, call[l])
        /\ call' = [call EXCEPT ![l] = AppendAnswer(p, call[l])]
        /\ UNCHANGED late
        BY <1>1, <1>4 DEF ServeAppend
  <2>2. call[l].term \in Nat
        BY <1>2, <2>1 DEF HasTerm
  <2>3. /\ currentTerm' \in [Node -> Nat]
        /\ votedFor' \in [Node -> Node \union {Nil}]
        /\ UNCHANGED grants
        /\ GrantsKept'
        /\ HasTerm(AppendAnswer(p, call[l])) => AppendAnswer(p, call[l]).term \in Nat
        BY <1>1, <2>1, <2>2, AppendRequestStep
  <2>4. /\ call' = [k \in Link |-> call'[k]]
        /\ \A k \in Link : HasTerm(call'[k]) => call'[k].term \in Nat
        BY <2>1, <2>3, CallStep
  <2> QED  BY <2>1, <2>3, <2>4 DEF VoteInv, TermTypeOK, OneGrantPerTerm
<1> QED  BY <1>3, <1>4 DEF ServeCall, n, p

LEMMA VoteInvCallFails ==
    ASSUME VoteInv, NEW l \in Link, CallFails(l[1], l[2])
    PROVE  VoteInv'
<1> DEFINE n == l[1]
           p == l[2]
           failed == [from |-> n, to |-> p, request |-> call[l]]
<1>1. n \in Node /\ p \in Node /\ l = <<n, p>>
      BY LinkNodes
<1>2. /\ currentTerm \in [Node -> Nat]
      /\ call = [k \in Link |-> call[k]]
      /\ \A k \in Link : HasTerm(call[k]) => call[k].term \in Nat
      /\ \A m \in late : m.from \in Node /\ m.to \in Node
                         /\ m.request.term \in Nat
      BY DEF VoteInv, TermTypeOK
<1> HIDE DEF n, p
<1>3. /\ UNCHANGED <<currentTerm, votedFor, grants>>
      /\ late' = IF call[l].stage = "request" THEN late \union {failed} ELSE late
      /\ call[l].type \in {"vote", "append"}
      /\ \/ call' = [call EXCEPT ![l] = NoCall]
         \/ call' = [call EXCEPT ![l] = VoteRequest(n)]
      BY <1>1 DEF CallFails, GiveUp, raftVars, history, n, p
<1>4. VoteRequest(n).term \in Nat
      BY <1>1, <1>2 DEF VoteRequest
<1>5. /\ call' = [k \in Link |-> call'[k]]
      /\ \A k \in Link : HasTerm(call'[k]) => call'[k].term \in Nat
      BY <1>3, <1>4, NoCallHasNoTerm, CallStep
<1>6. \A m \in late' : m.from \in Node /\ m.to \in Node /\ m.request.term \in Nat
  <2>1. call[l].stage = "request" => call[l].term \in Nat
        BY <1>2, <1>3 DEF HasTerm
  <2> QED  BY <1>1, <1>2, <1>3, <2>1
<1> QED  BY <1>3, <1>5, <1>6, OtherStep

LEMMA VoteInvServeLate ==
    ASSUME VoteInv, NEW m \in late, ServeLate(m)
    PROVE  VoteInv'
<1>1. m.from \in Node /\ m.to \in Node /\ m.request.term \in Nat
      BY DEF VoteInv, TermTypeOK
<1>2. late' \subseteq late /\ UNCHANGED call
      BY DEF ServeLate
<1>3. CASE HandleVoteRequest(m.to, m.from, m.request)
  <2>1. /\ currentTerm' \in [Node -> Nat]
        /\ votedFor' \in [Node -> Node \union {Nil}]
        /\ grants' \subseteq [voter : Node, term : Nat, candidate : Node]
        /\ GrantsKept' /\ OneGrantPerTerm'
        BY <1>1, <1>3, VoteRequestStep
  <2> QED  BY <1>2, <2>1 DEF VoteInv, TermTypeOK
<1>4. CASE HandleAppendRequest(m.to, m.request)
  <2>1. /\ currentTerm' \in [Node -> Nat]
        /\ votedFor' \in [Node -> Node \union {Nil}]
        /\ UNCHANGED grants
        /\ GrantsKept'
        BY <1>1, <1>4, AppendRequestStep
  <2> QED  BY <1>2, <2>1 DEF VoteInv, TermTypeOK, OneGrantPerTerm
<1> QED  BY <1>3, <1>4 DEF ServeLate

LEMMA VoteInvTimerStep ==
    ASSUME VoteInv, NEW n \in Node, TimerStep(n)
    PROVE  VoteInv'
<1>1. /\ currentTerm \in [Node -> Nat]
      /\ call = [k \in Link |-> call[k]]
      /\ \A k \in Link : HasTerm(call[k]) => call[k].term \in Nat
      /\ \A m \in late : m.from \in Node /\ m.to \in Node
                         /\ m.request.term \in Nat
      BY DEF VoteInv, TermTypeOK
<1>2. CASE ElectionTimeout(n)
      BY <1>1, <1>2, OtherStep
         DEF ElectionTimeout, raftVars, peerVars, history
<1>3. CASE ElectionCallback(n)
  <2>1. /\ currentTerm' = [currentTerm EXCEPT ![n] = @ + 1]
        /\ UNCHANGED <<votedFor, grants, call, late>>
        BY <1>3 DEF ElectionCallback, envVars, history
  <2>2. currentTerm[n] + 1 \in Nat /\ TermAfter(n, currentTerm[n] + 1) = currentTerm[n] + 1
        BY <1>1 DEF TermAfter
  <2>3. currentTerm' = [currentTerm EXCEPT ![n] = TermAfter(n, currentTerm[n] + 1)]
        BY <2>1, <2>2
  <2>4. /\ currentTerm' \in [Node -> Nat]
        /\ votedFor' \in [Node -> Node \union {Nil}]
        /\ GrantsKept' /\ OneGrantPerTerm'
        BY <2>1, <2>2, <2>3, NewTermStep
  <2> QED  BY <2>1, <2>4 DEF VoteInv, TermTypeOK
<1>4. CASE \E r \in Request : AppendTimeout(n, r)
      BY <1>1, <1>4, OtherStep
         DEF AppendTimeout, raftVars, peerVars, envVars, history
<1> QED  BY <1>2, <1>3, <1>4 DEF TimerStep

LEMMA VoteInvClientStep ==
    ASSUME VoteInv,
           \/ \E n \in Node : CommitterStep(n)
           \/ \E r \in Request : ReplicateStep(r)
           \/ \E r \in Request, n \in Node : CheckLeader(r, n)
    PROVE  VoteInv'
<1>1. UNCHANGED <<currentTerm, votedFor, grants, call, late>>
  <2>1. ASSUME NEW n \in Node, CommitterStep(n)
        PROVE  UNCHANGED <<currentTerm, votedFor, grants, call, late>>
        BY <2>1 DEF CommitterStep, RunReply, ReadEntries, ApplyEntry, raftVars,
                    peerVars, history
  <2>2. ASSUME NEW r \in Request, ReplicateStep(r)
        PROVE  UNCHANGED <<currentTerm, votedFor, grants, call, late>>
        BY <2>2 DEF ReplicateStep, WriteEntry, InsertCallback, raftVars,
                    peerVars, history
  <2>3. ASSUME NEW r \in Request, NEW n \in Node, CheckLeader(r, n)
        PROVE  UNCHANGED <<currentTerm, votedFor, grants, call, late>>
        BY <2>3 DEF CheckLeader, raftVars, peerVars, history
  <2> QED  BY <2>1, <2>2, <2>3
<1> QED  BY <1>1, OtherStep DEF VoteInv, TermTypeOK

LEMMA VoteInvNext == VoteInv /\ [Next]_vars => VoteInv'
<1> SUFFICES ASSUME VoteInv, [Next]_vars PROVE VoteInv'
    OBVIOUS
<1>1. CASE Next
      BY <1>1, VoteInvPeerStep, VoteInvServeCall, VoteInvCallFails,
         VoteInvServeLate, VoteInvTimerStep, VoteInvClientStep DEF Next
<1>2. CASE UNCHANGED vars
      BY <1>2, OtherStep
         DEF vars, raftVars, peerVars, envVars, history, VoteInv, TermTypeOK
<1> QED  BY <1>1, <1>2

\* Types of what an election is decided by.
THEOREM TermTypesCorrect == Spec => []TermTypeOK
<1>1. VoteInv => TermTypeOK
      BY DEF VoteInv
<1> QED  BY VoteInvInit, VoteInvNext, <1>1, PTL DEF Spec

\* A node grants its vote to at most one candidate of a term, in clusters of
\* every size and whatever happens to the calls: handle_vote_request is right
\* about the votes it gives to others.
THEOREM GrantsAreUnique == Spec => []OneGrantPerTerm
<1>1. VoteInv => OneGrantPerTerm
      BY DEF VoteInv
<1> QED  BY VoteInvInit, VoteInvNext, <1>1, PTL DEF Spec

-----------------------------------------------------------------------------
(* Who becomes leader in clusters of two and three nodes, where one vote of  *)
(* another node makes the majority.                                          *)

Grant(voter, term, candidate) ==
    [voter |-> voter, term |-> term, candidate |-> candidate]

\* A peer thread that holds the answer "granted" holds it for a grant of the
\* node it asked, in the term of the answer.
AnswersBacked ==
    \A l \in Link :
        call[l].type = "vote" /\ call[l].stage = "response" /\ call[l].granted
            => Grant(l[2], call[l].term, l[1]) \in grants

\* vote_responses_ never holds a granted vote between two handlers: the first
\* one makes the candidate leader and clears it.
NoVoteKept == votes = [n \in Node |-> 0]

LeaderInv == VoteInv /\ AnswersBacked /\ NoVoteKept /\ LeaderHasGrant

-----------------------------------------------------------------------------
LEMMA SmallMajority ==
    ASSUME Cardinality(Node) <= 3
    PROVE  Majority = 2
<1>1. Cardinality(Node) \in Nat
      BY NodeAssumption, FS_CardinalityType
<1>2. Cardinality(Node) = 2 \/ Cardinality(Node) = 3
      BY <1>1, NodeAssumption
<1> QED  BY <1>2 DEF Majority

LEMMA LeaderInvInit == Init => LeaderInv
<1> SUFFICES ASSUME Init PROVE LeaderInv
    OBVIOUS
<1>1. VoteInv
      BY VoteInvInit
<1>2. AnswersBacked
      BY DEF Init, AnswersBacked, NoCall
<1>3. NoVoteKept /\ LeaderHasGrant
      BY DEF Init, NoVoteKept, LeaderHasGrant
<1> QED  BY <1>1, <1>2, <1>3 DEF LeaderInv

\* No handler but handle_vote_response adds to vote_responses_ or to the
\* leaders, and no grant is ever taken back.
LEMMA KeptByHandlers ==
    ASSUME LeaderInv, NEW p \in Node, NEW q,
           \/ \E n \in Node : HandleVoteRequest(p, n, q)
           \/ HandleAppendRequest(p, q)
    PROVE  NoVoteKept' /\ UNCHANGED leaders /\ grants \subseteq grants'
<1>1. UNCHANGED leaders /\ grants \subseteq grants'
      BY DEF HandleVoteRequest, HandleAppendRequest, history
<1>2. UNCHANGED votes \/ votes' = [votes EXCEPT ![p] = IF state[p] = Candidate THEN 0 ELSE @]
      BY DEF HandleVoteRequest, HandleAppendRequest, StepDown, raftVars
<1>3. NoVoteKept'
      BY <1>2 DEF LeaderInv, NoVoteKept
<1> QED  BY <1>1, <1>3

\* Steps after which every answer was there before, is no vote, or is backed.
LEMMA KeptByCalls ==
    ASSUME LeaderInv, grants \subseteq grants',
           \A l \in Link :
               \/ call'[l] = call[l]
               \/ call'[l].type # "vote" \/ call'[l].stage # "response"
               \/ call'[l].granted =>
                      Grant(l[2], call'[l].term, l[1]) \in grants'
    PROVE  AnswersBacked'
BY DEF LeaderInv, AnswersBacked

LEMMA KeptGrants ==
    ASSUME LeaderInv, grants \subseteq grants', UNCHANGED leaders
    PROVE  LeaderHasGrant'
BY DEF LeaderInv, LeaderHasGrant

LEMMA NoCallIsNoAnswer == NoCall.type # "vote"
BY DEF NoCall

LEMMA LeaderInvVoteResponse ==
    ASSUME LeaderInv, Cardinality(Node) <= 3,
           NEW l \in Link, VoteResponse(l[1], l[2])
    PROVE  AnswersBacked' /\ NoVoteKept' /\ LeaderHasGrant'
<1> DEFINE n == l[1]
           p == l[2]
           answer == call[l]
           higher == answer.term > currentTerm[n]
           stored == (IF higher THEN 0 ELSE votes[n])
                         + (IF answer.granted THEN 1 ELSE 0)
<1>1. n \in Node /\ p \in Node /\ n # p /\ l = <<n, p>>
      BY LinkNodes
<1>2. /\ call = [k \in Link |-> call[k]]
      /\ votes = [k \in Node |-> 0]
      BY DEF LeaderInv, VoteInv, TermTypeOK, NoVoteKept
<1> HIDE DEF n, p
<1>3. /\ call' = [call EXCEPT ![l] = NoCall]
      /\ UNCHANGED grants
      /\ answer.type = "vote" /\ answer.stage = "response"
      BY <1>1 DEF VoteResponse, n, p
<1>4. AnswersBacked'
      BY <1>2, <1>3, NoCallIsNoAnswer, KeptByCalls
<1>5. stored = IF answer.granted THEN 1 ELSE 0
      BY <1>1, <1>2
<1>6. CASE UNCHANGED <<votes, leaders>>
      BY <1>2, <1>3, <1>4, <1>6, KeptGrants DEF NoVoteKept
<1>7. CASE ~UNCHANGED <<votes, leaders>>
  <2>1. IF 1 + stored >= Majority
        THEN /\ votes' = [votes EXCEPT ![n] = 0]
             /\ leaders' = leaders \union {<<n, answer.term>>}
        ELSE /\ votes' = [votes EXCEPT ![n] = stored]
             /\ UNCHANGED leaders
        BY <1>1, <1>7 DEF VoteResponse, raftVars, n, p
  <2> HIDE DEF answer, stored
  <2>2. CASE answer.granted
    <3>1. votes' = [votes EXCEPT ![n] = 0] /\ leaders' = leaders \union {<<n, answer.term>>}
          BY <1>5, <2>1, <2>2, SmallMajority
    <3>2. Grant(p, answer.term, n) \in grants
          BY <1>1, <1>3, <2>2 DEF LeaderInv, AnswersBacked, answer, n, p
    <3>3. LeaderHasGrant'
          BY <1>1, <1>3, <3>1, <3>2 DEF LeaderInv, LeaderHasGrant, Grant
    <3> QED  BY <1>2, <1>4, <3>1, <3>3 DEF NoVoteKept
  <2>3. CASE ~answer.granted
    <3>1. votes' = [votes EXCEPT ![n] = 0] /\ UNCHANGED leaders
          BY <1>5, <2>1, <2>3, SmallMajority
    <3> QED  BY <1>2, <1>3, <1>4, <3>1, KeptGrants DEF NoVoteKept
  <2> QED  BY <2>2, <2>3
<1> QED  BY <1>6, <1>7

LEMMA LeaderInvPeerStep ==
    ASSUME LeaderInv, Cardinality(Node) <= 3,
           NEW l \in Link, PeerStep(l[1], l[2])
    PROVE  AnswersBacked' /\ NoVoteKept' /\ LeaderHasGrant'
<1> DEFINE n == l[1]
           p == l[2]
<1>1. n \in Node /\ p \in Node /\ l = <<n, p>>
      BY LinkNodes
<1>2. /\ call = [k \in Link |-> call[k]]
      /\ votes = [k \in Node |-> 0]
      BY DEF LeaderInv, VoteInv, TermTypeOK, NoVoteKept
<1> HIDE DEF n, p
<1>3. CASE VoteResponse(n, p)
      BY <1>3, LeaderInvVoteResponse DEF n, p
<1>4. CASE UNCHANGED <<votes, grants, leaders>>
           /\ (\/ UNCHANGED call
               \/ \E c : call' = [call EXCEPT ![l] = c]
                         /\ (\/ c = call[l]
                             \/ c.type # "vote" \/ c.stage # "response"))
  <2>1. AnswersBacked'
        BY <1>2, <1>4, KeptByCalls
  <2>2. LeaderHasGrant'
        BY <1>4, KeptGrants
  <2> QED  BY <1>2, <1>4, <2>1, <2>2 DEF NoVoteKept
<1>5. CASE PopSleep(n, p) \/ FallAsleep(n, p) \/ PopAppend(n, p)
           \/ AppendLoop(n, p)
      BY <1>4, <1>5
         DEF PopSleep, FallAsleep, PopAppend, AppendLoop, raftVars, history
<1>6. CASE PopElection(n, p)
  <2>1. VoteRequest(n).stage # "response"
        BY DEF VoteRequest
  <2>2. /\ call' = [call EXCEPT ![l] = VoteRequest(n)]
        /\ UNCHANGED <<votes, grants, leaders>>
        BY <1>1, <1>6 DEF PopElection, raftVars, history
  <2> QED  BY <1>4, <2>1, <2>2
<1>7. CASE SendAppend(n, p)
  <2>1. AppendRequest(n, next[l]).type # "vote"
        BY DEF AppendRequest
  <2>2. /\ \/ UNCHANGED call
           \/ call' = [call EXCEPT ![l] = AppendRequest(n, next[l])]
        /\ UNCHANGED <<votes, grants, leaders>>
        BY <1>1, <1>7 DEF SendAppend, raftVars, history
  <2> QED  BY <1>4, <2>1, <2>2
<1>8. CASE AppendSuccess(n, p)
  <2>1. /\ call' = [call EXCEPT ![l] = NoCall]
        /\ UNCHANGED <<votes, grants, leaders>>
        BY <1>1, <1>8 DEF AppendSuccess, raftVars, history
  <2> QED  BY <1>4, <2>1, NoCallIsNoAnswer
<1>9. CASE AppendFailure(n, p)
  <2>1. UNCHANGED <<votes, grants, leaders>>
        BY <1>9 DEF AppendFailure, raftVars, history
  <2>2. \/ call' = [call EXCEPT ![l] = call[l]]
        \/ call' = [call EXCEPT ![l] = NoCall]
        BY <1>1, <1>9 DEF AppendFailure
  <2> QED  BY <1>4, <2>1, <2>2, NoCallIsNoAnswer
<1>10. CASE HandleNewTerm(n, p)
  <2>1. /\ call' = [call EXCEPT ![l] = NoCall]
        /\ UNCHANGED <<grants, leaders>>
        /\ votes' = [votes EXCEPT ![n] = IF state[n] = Candidate THEN 0 ELSE @]
        BY <1>1, <1>10 DEF HandleNewTerm, StepDown, history
  <2>2. UNCHANGED votes
        BY <1>1, <1>2, <2>1
  <2> QED  BY <1>4, <2>1, <2>2, NoCallIsNoAnswer
<1> QED  BY <1>3, <1>5, <1>6, <1>7, <1>8, <1>9, <1>10 DEF PeerStep, n, p

LEMMA LeaderInvServe ==
    ASSUME LeaderInv,
           \/ \E l \in Link : ServeCall(l[1], l[2])
           \/ \E m \in late : ServeLate(m)
    PROVE  AnswersBacked' /\ NoVoteKept' /\ LeaderHasGrant'
<1>1. /\ call = [k \in Link |-> call[k]]
      /\ \A k \in Link : HasTerm(call[k]) => call[k].term \in Nat
      /\ currentTerm \in [Node -> Nat]
      /\ \A m \in late : m.from \in Node /\ m.to \in Node
      BY DEF LeaderInv, VoteInv, TermTypeOK
<1>2. ASSUME NEW l \in Link, ServeVote(l[1], l[2])
      PROVE  AnswersBacked' /\ NoVoteKept' /\ LeaderHasGrant'
  <2> DEFINE q == call[l]
             answer == VoteAnswer(l[2], l[1], q)
  <2>1. l[1] \in Node /\ l[2] \in Node /\ l = <<l[1], l[2]>>
        BY LinkNodes
  <2>2. /\ q.type = "vote" /\ q.stage = "request"
        /\ HandleVoteRequest(l[2], l[1], q)
        /\ call' = [call EXCEPT ![l] = answer]
        BY <1>2, <2>1 DEF ServeVote
  <2>3. q.term \in Nat
        BY <1>1, <2>2 DEF HasTerm
  <2>4. NoVoteKept' /\ UNCHANGED leaders /\ grants \subseteq grants'
        BY <2>1, <2>2, KeptByHandlers
  <2>5. answer.granted => Grant(l[2], answer.term, l[1]) \in grants'
    <3>1. answer.granted => answer.term = q.term
      <4>1. answer.granted => q.term >= currentTerm[l[2]]
            BY DEF VoteAnswer
      <4>2. answer.term = TermAfter(l[2], q.term)
            BY DEF VoteAnswer
      <4>3. q.term >= currentTerm[l[2]] => TermAfter(l[2], q.term) = q.term
            BY <1>1, <2>1, <2>3 DEF TermAfter
      <4> QED  BY <4>1, <4>2, <4>3
    <3>2. answer.granted => Grant(l[2], q.term, l[1]) \in grants'
          BY <2>2 DEF HandleVoteRequest, Grant
    <3> QED  BY <3>1, <3>2
  <2> HIDE DEF answer
  <2>6. AnswersBacked'
        BY <1>1, <2>2, <2>4, <2>5, KeptByCalls
  <2> QED  BY <2>4, <2>6, KeptGrants
<1>3. ASSUME NEW l \in Link, ServeAppend(l[1], l[2])
      PROVE  AnswersBacked' /\ NoVoteKept' /\ LeaderHasGrant'
  <2>1. l[1] \in Node /\ l[2] \in Node /\ l = <<l[1], l[2]>>
        BY LinkNodes
  <2>2. /\ HandleAppendRequest(l[2], call[l])
        /\ call' = [call EXCEPT ![l] = AppendAnswer(l[2], call[l])]
        BY <1>3, <2>1 DEF ServeAppend
  <2>3. NoVoteKept' /\ UNCHANGED leaders /\ grants \subseteq grants'
        BY <2>1, <2>2, KeptByHandlers
  <2>4. AppendAnswer(l[2], call[l]).type # "vote"
        BY DEF AppendAnswer
  <2>5. AnswersBacked'
        BY <1>1, <2>2, <2>3, <2>4, KeptByCalls
  <2> QED  BY <2>3, <2>5, KeptGrants
<1>4. ASSUME NEW m \in late, ServeLate(m)
      PROVE  AnswersBacked' /\ NoVoteKept' /\ LeaderHasGrant'
  <2>1. /\ UNCHANGED call
        /\ \/ HandleVoteRequest(m.to, m.from, m.request)
           \/ HandleAppendRequest(m.to, m.request)
        BY <1>4 DEF ServeLate
  <2>2. NoVoteKept' /\ UNCHANGED leaders /\ grants \subseteq grants'
        BY <1>1, <2>1, KeptByHandlers
  <2> QED  BY <2>1, <2>2, KeptByCalls, KeptGrants
<1> QED  BY <1>2, <1>3, <1>4 DEF ServeCall

LEMMA LeaderInvOtherStep ==
    ASSUME LeaderInv,
           \/ \E l \in Link : CallFails(l[1], l[2])
           \/ \E n \in Node : TimerStep(n) \/ CommitterStep(n)
           \/ \E r \in Request : ReplicateStep(r)
           \/ \E r \in Request, n \in Node : CheckLeader(r, n)
           \/ UNCHANGED vars
    PROVE  AnswersBacked' /\ NoVoteKept' /\ LeaderHasGrant'
<1>1. UNCHANGED <<votes, grants, leaders>>
  <2>1. ASSUME NEW l \in Link, CallFails(l[1], l[2])
        PROVE  UNCHANGED <<votes, grants, leaders>>
        BY <2>1 DEF CallFails, raftVars, history
  <2>2. ASSUME NEW n \in Node, TimerStep(n) \/ CommitterStep(n)
        PROVE  UNCHANGED <<votes, grants, leaders>>
        BY <2>2 DEF TimerStep, ElectionTimeout, ElectionCallback, AppendTimeout,
                    CommitterStep, RunReply, ReadEntries, ApplyEntry,
                    raftVars, history
  <2>3. ASSUME NEW r \in Request, ReplicateStep(r)
        PROVE  UNCHANGED <<votes, grants, leaders>>
        BY <2>3 DEF ReplicateStep, WriteEntry, InsertCallback, raftVars, history
  <2>4. ASSUME NEW r \in Request, NEW n \in Node, CheckLeader(r, n)
        PROVE  UNCHANGED <<votes, grants, leaders>>
        BY <2>4 DEF CheckLeader, raftVars, history
  <2>5. CASE UNCHANGED vars
        BY <2>5 DEF vars, raftVars, history
  <2> QED  BY <2>1, <2>2, <2>3, <2>4, <2>5
<1>2. \A l \in Link : \/ call'[l] = call[l]
                      \/ call'[l].type # "vote" \/ call'[l].stage # "response"
  <2>1. ASSUME NEW l \in Link, CallFails(l[1], l[2])
        PROVE  \A k \in Link : \/ call'[k] = call[k]
                               \/ call'[k].type # "vote"
                               \/ call'[k].stage # "response"
    <3>1. call = [k \in Link |-> call[k]]
          BY DEF LeaderInv, VoteInv, TermTypeOK
    <3>2. l = <<l[1], l[2]>>
          BY LinkNodes
    <3>3. \/ call' = [call EXCEPT ![l] = NoCall]
          \/ call' = [call EXCEPT ![l] = VoteRequest(l[1])]
          BY <2>1, <3>2 DEF CallFails, GiveUp
    <3>4. VoteRequest(l[1]).stage # "response"
          BY DEF VoteRequest
    <3> QED  BY <3>1, <3>3, <3>4, NoCallIsNoAnswer
  <2>2. ASSUME NEW n \in Node, TimerStep(n) \/ CommitterStep(n)
        PROVE  UNCHANGED call
        BY <2>2 DEF TimerStep, ElectionTimeout, ElectionCallback, AppendTimeout,
                    CommitterStep, RunReply, ReadEntries, ApplyEntry, peerVars
  <2>3. ASSUME NEW r \in Request, ReplicateStep(r)
        PROVE  UNCHANGED call
        BY <2>3 DEF ReplicateStep, WriteEntry, InsertCallback, peerVars
  <2>4. ASSUME NEW r \in Request, NEW n \in Node, CheckLeader(r, n)
        PROVE  UNCHANGED call
        BY <2>4 DEF CheckLeader, peerVars
  <2>5. CASE UNCHANGED vars
        BY <2>5 DEF vars, peerVars
  <2> QED  BY <2>1, <2>2, <2>3, <2>4, <2>5
<1>3. AnswersBacked'
      BY <1>1, <1>2, KeptByCalls
<1>4. LeaderHasGrant'
      BY <1>1, KeptGrants
<1> QED  BY <1>1, <1>3, <1>4 DEF LeaderInv, NoVoteKept

LEMMA LeaderInvNext ==
    ASSUME Cardinality(Node) <= 3
    PROVE  LeaderInv /\ [Next]_vars => LeaderInv'
<1> SUFFICES ASSUME LeaderInv, [Next]_vars PROVE LeaderInv'
    OBVIOUS
<1>1. VoteInv'
      BY VoteInvNext DEF LeaderInv
<1>2. AnswersBacked' /\ NoVoteKept' /\ LeaderHasGrant'
      BY LeaderInvPeerStep, LeaderInvServe, LeaderInvOtherStep DEF Next
<1> QED  BY <1>1, <1>2 DEF LeaderInv

\* In a cluster of two or three nodes every leader has the vote of another
\* node in its very term: a vote of an earlier term never counts.
THEOREM LeadersAreElected ==
    ASSUME Cardinality(Node) <= 3
    PROVE  Spec => []LeaderHasGrant
<1>1. LeaderInv /\ [Next]_vars => LeaderInv'
      BY LeaderInvNext
<1>2. LeaderInv => LeaderHasGrant
      BY DEF LeaderInv
<1> QED  BY LeaderInvInit, <1>1, <1>2, PTL DEF Spec

-----------------------------------------------------------------------------
LEMMA FourDistinct ==
    ASSUME NEW a, NEW b, NEW c, NEW d,
           a # b, a # c, a # d, b # c, b # d, c # d
    PROVE  Cardinality({a, b, c, d}) = 4
<1>1. IsFiniteSet({a}) /\ Cardinality({a}) = 1
      BY FS_Singleton
<1>2. IsFiniteSet({a, b}) /\ Cardinality({a, b}) = 2
      BY <1>1, FS_AddElement, {a, b} = {a} \union {b}
<1>3. IsFiniteSet({a, b, c}) /\ Cardinality({a, b, c}) = 3
      BY <1>2, FS_AddElement, {a, b, c} = {a, b} \union {c}
<1>4. Cardinality({a, b, c, d}) = 4
      BY <1>3, FS_AddElement, {a, b, c, d} = {a, b, c} \union {d}
<1> QED  BY <1>4

\* Of four nodes in a cluster of three, two are the same.
LEMMA AtMostThree ==
    ASSUME Cardinality(Node) <= 3,
           NEW a \in Node, NEW b \in Node, NEW c \in Node, NEW d \in Node
    PROVE  a = b \/ a = c \/ a = d \/ b = c \/ b = d \/ c = d
<1> SUFFICES ASSUME a # b, a # c, a # d, b # c, b # d, c # d PROVE FALSE
    OBVIOUS
<1>1. {a, b, c, d} \subseteq Node
      OBVIOUS
<1>2. Cardinality({a, b, c, d}) <= Cardinality(Node)
      BY <1>1, NodeAssumption, FS_Subset
<1>3. Cardinality(Node) \in Nat
      BY NodeAssumption, FS_CardinalityType
<1>4. Cardinality({a, b, c, d}) = 4
      BY FourDistinct
<1> QED  BY <1>2, <1>3, <1>4

LEMMA SharedVoteFollows ==
    ASSUME Cardinality(Node) <= 3, LeaderInv
    PROVE  TwoLeadersSharedAVote
<1> SUFFICES ASSUME NEW k \in leaders, NEW l \in leaders,
                    k[2] = l[2], k[1] # l[1]
             PROVE  \E g \in grants : g.term = k[2]
                                      /\ {g.voter, g.candidate} = {k[1], l[1]}
    BY DEF TwoLeadersSharedAVote
<1>1. PICK g \in grants : g.candidate = k[1] /\ g.term = k[2] /\ g.voter # k[1]
      BY DEF LeaderInv, LeaderHasGrant
<1>2. PICK h \in grants : h.candidate = l[1] /\ h.term = l[2] /\ h.voter # l[1]
      BY DEF LeaderInv, LeaderHasGrant
<1>3. g.voter \in Node /\ g.candidate \in Node /\ h.voter \in Node /\ h.candidate \in Node
      BY DEF LeaderInv, VoteInv, TermTypeOK
<1>4. g.voter # h.voter
      BY <1>1, <1>2 DEF LeaderInv, VoteInv, OneGrantPerTerm
<1>5. g.voter = l[1] \/ h.voter = k[1]
  <2>1. k[1] \in Node /\ l[1] \in Node
        BY <1>1, <1>2, <1>3
  <2> QED  BY <1>1, <1>2, <1>3, <1>4, <2>1, AtMostThree
<1> QED  BY <1>1, <1>2, <1>5

\* In a cluster of two or three nodes two leaders of one term have one cause
\* only: one of them granted the other the vote it counts for itself.
THEOREM SplitLeadersSharedAVote ==
    ASSUME Cardinality(Node) <= 3
    PROVE  Spec => []TwoLeadersSharedAVote
<1>1. LeaderInv /\ [Next]_vars => LeaderInv'
      BY LeaderInvNext
<1>2. LeaderInv => TwoLeadersSharedAVote
      BY SharedVoteFollows
<1> QED  BY LeaderInvInit, <1>1, <1>2, PTL DEF Spec

-----------------------------------------------------------------------------
(* A node without the lead always has its election timer: the timer thread,  *)
(* step_down, become_leader and the handlers, each of which cancels or sets  *)
(* the timer, leave no gap between them.                                     *)

TimerTypeOK ==
    /\ state \in [Node -> {Follower, Candidate, Leader}]
    /\ electionTimer \in [Node -> BOOLEAN]
    /\ firing \in [Node -> BOOLEAN]

\* ElectionTimerCovers without Alive: it holds of a dead process as well.
Covered ==
    \A n \in Node : state[n] # Leader => electionTimer[n] \/ firing[n]

TimerInv == TimerTypeOK /\ Covered

-----------------------------------------------------------------------------
\* A step that sets the timer of every node whose state it changes, unless
\* it makes it leader, and cancels no timer but that of a leader.
LEMMA TimerKept ==
    ASSUME TimerInv,
           state' \in [Node -> {Follower, Candidate, Leader}],
           electionTimer' \in [Node -> BOOLEAN],
           UNCHANGED firing,
           \A n \in Node :
               \/ state'[n] = Leader
               \/ electionTimer'[n]
               \/ state'[n] = state[n] /\ electionTimer'[n] = electionTimer[n]
    PROVE  TimerInv'
<1>1. TimerTypeOK'
      BY DEF TimerInv, TimerTypeOK
<1>2. ASSUME NEW n \in Node, state'[n] # Leader
      PROVE  electionTimer'[n] \/ firing'[n]
  <2>1. CASE electionTimer'[n]
        BY <2>1
  <2>2. CASE state'[n] = state[n] /\ electionTimer'[n] = electionTimer[n]
    <3>1. electionTimer[n] \/ firing[n]
          BY <1>2, <2>2 DEF TimerInv, Covered
    <3> QED  BY <2>2, <3>1
  <2> QED  BY <1>2, <2>1, <2>2
<1> QED  BY <1>1, <1>2 DEF TimerInv, Covered

\* step_down ends with set_election_timer, in whatever state it began.
LEMMA StepDownKeeps ==
    ASSUME TimerInv, NEW n \in Node, NEW term, NEW vote, NEW md,
           StepDown(n, term, vote, md), UNCHANGED firing
    PROVE  TimerInv'
<1>1. /\ state' = [state EXCEPT ![n] = Follower]
      /\ electionTimer' = [electionTimer EXCEPT ![n] = TRUE]
      BY DEF StepDown, SetElectionTimer
<1> QED  BY <1>1, TimerKept DEF TimerInv, TimerTypeOK

LEMMA UnchangedKeeps ==
    ASSUME TimerInv, UNCHANGED <<state, electionTimer, firing>>
    PROVE  TimerInv'
BY DEF TimerInv, TimerTypeOK, Covered

LEMMA HandlersKeep ==
    ASSUME TimerInv, NEW p \in Node, NEW q,
           \/ \E n \in Node : HandleVoteRequest(p, n, q)
           \/ HandleAppendRequest(p, q)
    PROVE  TimerInv'
<1>1. ASSUME NEW n \in Node, HandleVoteRequest(p, n, q)
      PROVE  TimerInv'
  <2>1. UNCHANGED firing
        BY <1>1 DEF HandleVoteRequest
  <2>2. CASE q.term > currentTerm[p] \/ NewVote(p, q)
        BY <1>1, <2>1, <2>2, StepDownKeeps DEF HandleVoteRequest
  <2>3. CASE ~(q.term > currentTerm[p] \/ NewVote(p, q))
        BY <1>1, <2>1, <2>3, UnchangedKeeps DEF HandleVoteRequest, raftVars
  <2> QED  BY <2>2, <2>3
<1>2. CASE HandleAppendRequest(p, q)
  <2>1. UNCHANGED firing
        BY <1>2 DEF HandleAppendRequest
  <2>2. CASE q.term > currentTerm[p]
        BY <1>2, <2>1, <2>2, StepDownKeeps DEF HandleAppendRequest
  <2>3. CASE ~(q.term > currentTerm[p])
    <3>1. /\ UNCHANGED state
          /\ electionTimer' = [electionTimer EXCEPT ![p] =
                                   @ \/ q.term = currentTerm[p]]
          BY <1>2, <2>3 DEF HandleAppendRequest, raftVars
    <3>2. CASE q.term = currentTerm[p]
      <4>1. electionTimer' = [electionTimer EXCEPT ![p] = TRUE]
            BY <3>1, <3>2
      <4> QED  BY <2>1, <3>1, <4>1, TimerKept DEF TimerInv, TimerTypeOK
    <3>3. CASE q.term # currentTerm[p]
      <4>1. UNCHANGED electionTimer
            BY <3>1, <3>3 DEF TimerInv, TimerTypeOK
      <4> QED  BY <2>1, <3>1, <4>1, UnchangedKeeps
    <3> QED  BY <3>2, <3>3
  <2> QED  BY <2>2, <2>3
<1> QED  BY <1>1, <1>2

\* become_leader cancels the timer, and nothing else in handle_vote_response
\* does; a response of a higher term sets it.
LEMMA VoteResponseKeeps ==
    ASSUME TimerInv, NEW l \in Link, VoteResponse(l[1], l[2])
    PROVE  TimerInv'
<1> DEFINE n == l[1]
           answer == call[<<l[1], l[2]>>]
           higher == answer.term > currentTerm[n]
           elected == 1 + ((IF higher THEN 0 ELSE votes[n])
                              + (IF answer.granted THEN 1 ELSE 0)) >= Majority
<1>1. n \in Node
      BY DEF Link
<1>2. UNCHANGED firing
      BY DEF VoteResponse
<1>3. CASE state[n] # Candidate \/ answer.term < currentTerm[n]
      BY <1>2, <1>3, UnchangedKeeps DEF VoteResponse, raftVars
<1>4. CASE ~(state[n] # Candidate \/ answer.term < currentTerm[n]) /\ elected
  <2>1. /\ state' = [state EXCEPT ![n] = Leader]
        /\ electionTimer' = [electionTimer EXCEPT ![n] = FALSE]
        BY <1>4 DEF VoteResponse
  <2> QED  BY <1>1, <1>2, <2>1, TimerKept DEF TimerInv, TimerTypeOK
<1>5. CASE ~(state[n] # Candidate \/ answer.term < currentTerm[n]) /\ ~elected
  <2>1. /\ state' = [state EXCEPT ![n] = IF higher THEN Follower ELSE @]
        /\ electionTimer' = [electionTimer EXCEPT ![n] = @ \/ higher]
        BY <1>5 DEF VoteResponse
  <2>2. CASE higher
    <3>1. /\ state' = [state EXCEPT ![n] = Follower]
          /\ electionTimer' = [electionTimer EXCEPT ![n] = TRUE]
          BY <2>1, <2>2
    <3> QED  BY <1>1, <1>2, <3>1, TimerKept DEF TimerInv, TimerTypeOK
  <2>3. CASE ~higher
    <3>1. UNCHANGED <<state, electionTimer>>
          BY <2>1, <2>3 DEF TimerInv, TimerTypeOK
    <3> QED  BY <1>2, <3>1, UnchangedKeeps
  <2> QED  BY <2>2, <2>3
<1> QED  BY <1>3, <1>4, <1>5

LEMMA PeerStepKeeps ==
    ASSUME TimerInv, NEW l \in Link, PeerStep(l[1], l[2])
    PROVE  TimerInv'
<1> DEFINE n == l[1]
           p == l[2]
<1>1. n \in Node
      BY DEF Link
<1>2. CASE VoteResponse(n, p)
      BY <1>2, VoteResponseKeeps
<1>3. CASE HandleNewTerm(n, p)
      BY <1>1, <1>3, StepDownKeeps DEF HandleNewTerm
<1>4. CASE PopSleep(n, p) \/ FallAsleep(n, p) \/ PopElection(n, p)
           \/ PopAppend(n, p)
      BY <1>4, UnchangedKeeps
         DEF PopSleep, FallAsleep, PopElection, PopAppend, raftVars, timerVars
<1>5. CASE AppendLoop(n, p) \/ SendAppend(n, p) \/ AppendSuccess(n, p)
           \/ AppendFailure(n, p)
      BY <1>5, UnchangedKeeps
         DEF AppendLoop, SendAppend, AppendSuccess, AppendFailure, raftVars,
             timerVars
<1> QED  BY <1>2, <1>3, <1>4, <1>5 DEF PeerStep

\* The timer thread takes the timer out of its map and marks it as firing; the
\* action that follows sets it again.
LEMMA TimerStepKeeps ==
    ASSUME TimerInv, NEW n \in Node, TimerStep(n)
    PROVE  TimerInv'
<1>1. CASE ElectionTimeout(n)
  <2>1. /\ UNCHANGED state
        /\ electionTimer' = [electionTimer EXCEPT ![n] = FALSE]
        /\ firing' = [firing EXCEPT ![n] = TRUE]
        BY <1>1 DEF ElectionTimeout, raftVars
  <2> QED  BY <2>1 DEF TimerInv, TimerTypeOK, Covered
<1>2. CASE ElectionCallback(n)
  <2>1. /\ state' = [state EXCEPT ![n] = Candidate]
        /\ electionTimer' = [electionTimer EXCEPT ![n] = TRUE]
        /\ firing' = [firing EXCEPT ![n] = FALSE]
        BY <1>2 DEF ElectionCallback, SetElectionTimer
  <2> QED  BY <2>1 DEF TimerInv, TimerTypeOK, Covered
<1>3. CASE \E r \in Request : AppendTimeout(n, r)
      BY <1>3, UnchangedKeeps DEF AppendTimeout, raftVars
<1> QED  BY <1>1, <1>2, <1>3 DEF TimerStep

LEMMA OtherStepKeeps ==
    ASSUME TimerInv,
           \/ \E l \in Link : CallFails(l[1], l[2])
           \/ \E n \in Node : CommitterStep(n)
           \/ \E r \in Request : ReplicateStep(r)
           \/ \E r \in Request, n \in Node : CheckLeader(r, n)
           \/ UNCHANGED vars
    PROVE  TimerInv'
<1>1. ASSUME NEW l \in Link, CallFails(l[1], l[2])
      PROVE  TimerInv'
      BY <1>1, UnchangedKeeps DEF CallFails, raftVars, timerVars
<1>2. ASSUME NEW n \in Node, CommitterStep(n)
      PROVE  TimerInv'
      BY <1>2, UnchangedKeeps
         DEF CommitterStep, RunReply, ReadEntries, ApplyEntry, raftVars,
             timerVars
<1>3. ASSUME NEW r \in Request, ReplicateStep(r)
      PROVE  TimerInv'
      BY <1>3, UnchangedKeeps
         DEF ReplicateStep, WriteEntry, InsertCallback, raftVars, timerVars
<1>4. ASSUME NEW r \in Request, NEW n \in Node, CheckLeader(r, n)
      PROVE  TimerInv'
      BY <1>4, UnchangedKeeps DEF CheckLeader, raftVars, timerVars
<1>5. CASE UNCHANGED vars
      BY <1>5, UnchangedKeeps DEF vars, raftVars, timerVars
<1> QED  BY <1>1, <1>2, <1>3, <1>4, <1>5

LEMMA ServeKeeps ==
    ASSUME TimerInv, VoteInv,
           \/ \E l \in Link : ServeCall(l[1], l[2])
           \/ \E m \in late : ServeLate(m)
    PROVE  TimerInv'
<1>1. ASSUME NEW l \in Link, ServeCall(l[1], l[2])
      PROVE  TimerInv'
      BY <1>1, HandlersKeep DEF ServeCall, ServeVote, ServeAppend, Link
<1>2. ASSUME NEW m \in late, ServeLate(m)
      PROVE  TimerInv'
      BY <1>2, HandlersKeep DEF ServeLate, VoteInv, TermTypeOK
<1> QED  BY <1>1, <1>2

LEMMA TimerInvNext == VoteInv /\ TimerInv /\ [Next]_vars => TimerInv'
<1> SUFFICES ASSUME VoteInv, TimerInv, [Next]_vars PROVE TimerInv'
    OBVIOUS
<1> QED  BY PeerStepKeeps, TimerStepKeeps, OtherStepKeeps, ServeKeeps DEF Next

LEMMA TimerInvInit == Init => TimerInv
BY DEF Init, TimerInv, TimerTypeOK, Covered

\* Every running node that is not leader has its election timer set, or the
\* timer's action is about to run: a cluster that loses its leader always has
\* somebody left who will notice.
THEOREM ElectionTimerAlwaysCovers == Spec => []ElectionTimerCovers
<1>1. TimerInv => ElectionTimerCovers
      BY DEF TimerInv, Covered, ElectionTimerCovers
<1> QED  BY VoteInvInit, VoteInvNext, TimerInvInit, TimerInvNext, <1>1, PTL
            DEF Spec

-----------------------------------------------------------------------------
(* The peer threads of a leader replicate its log, and those of a node which *)
(* is leader no more have been told to stop.  A thread takes its commands    *)
(* from a queue, and holds the answers of one call at a time: the invariant  *)
(* says what the queue tells of the office that the node has, whatever is     *)
(* still in it, and which answers a thread can be given in which mode.       *)

Modes == {"run", "sleep", "asleep", "election", "append", "build", "calling",
          "newterm"}
Commands == {"election", "append", "sleep"}

ThreadTypeOK ==
    /\ state \in [Node -> {Follower, Candidate, Leader}]
    /\ mode \in [Link -> Modes]
    /\ cmds \in [Link -> Seq(Commands)]
    /\ call = [l \in Link |-> call[l]]

\* The mode of a thread that waits for an RPC tells which: an answer to a vote
\* request never reaches do_append_entries.
CallFits(l) ==
    /\ call[l].type = "vote" => mode[l] = "election"
    /\ call[l].type = "append" => mode[l] \in {"calling", "newterm"}
    /\ mode[l] = "newterm" =>
          call[l].type = "append" /\ call[l].stage = "response" /\ ~call[l].success

\* The last command in a queue tells the office: e_append_entries of a leader,
\* another one of any other node.  With an empty queue the thread tells it.
OfficeKnown(l) ==
    IF cmds[l] = <<>>
    THEN IF state[l[1]] = Leader THEN mode[l] \in Sending
         ELSE mode[l] \in Sending => mode[l] = "newterm"
    ELSE Last(cmds[l]) = "append" <=> state[l[1]] = Leader

ThreadInv == ThreadTypeOK /\ \A l \in Link : CallFits(l) /\ OfficeKnown(l)
-----------------------------------------------------------------------------
(* The queues.                                                               *)

LEMMA PushedLast ==
    ASSUME NEW S, NEW s \in Seq(S), NEW e \in S
    PROVE  /\ Append(s, e) \in Seq(S)
           /\ Append(s, e) # <<>>
           /\ Last(Append(s, e)) = e
BY DEF Last

LEMMA PoppedFirst ==
    ASSUME NEW S, NEW s \in Seq(S), s # <<>>
    PROVE  /\ Tail(s) \in Seq(S)
           /\ Tail(s) = <<>> => Head(s) = Last(s)
           /\ Tail(s) # <<>> => Last(Tail(s)) = Last(s)
<1>1. /\ Len(s) \in Nat \ {0} /\ Tail(s) \in Seq(S)
      /\ Len(Tail(s)) = Len(s) - 1
      /\ \A i \in 1 .. Len(s) - 1 : Tail(s)[i] = s[i + 1]
      OBVIOUS
<1>2. CASE Len(s) = 1
  <2>1. Len(Tail(s)) = 0 /\ Head(s) = s[1]
        BY <1>1, <1>2
  <2>2. Tail(s) = <<>>
        BY <1>1, <2>1, EmptySeq
  <2> QED  BY <1>1, <1>2, <2>1, <2>2 DEF Last
<1>3. CASE Len(s) > 1
  <2>1. Tail(s)[Len(s) - 1] = s[Len(s)]
        BY <1>1, <1>3
  <2>2. Tail(s) # <<>>
    <3>1. Len(Tail(s)) # 0
          BY <1>1, <1>3
    <3> QED  BY <1>1, <3>1, EmptySeq
  <2>3. Last(Tail(s)) = Tail(s)[Len(s) - 1]
        BY <1>1 DEF Last
  <2> QED  BY <1>1, <2>1, <2>2, <2>3 DEF Last
<1> QED  BY <1>1, <1>2, <1>3

LEMMA PushTyped ==
    ASSUME ThreadTypeOK, NEW n \in Node, NEW cmd \in Commands
    PROVE  /\ Push(n, cmd) \in [Link -> Seq(Commands)]
           /\ \A l \in Link :
                IF l[1] = n THEN Push(n, cmd)[l] # <<>> /\ Last(Push(n, cmd)[l]) = cmd
                ELSE Push(n, cmd)[l] = cmds[l]
BY PushedLast DEF Push, ThreadTypeOK

LEMMA WakeTyped ==
    ASSUME NEW n \in Node, NEW md \in [Link -> Modes]
    PROVE  /\ Wake(n, md) \in [Link -> Modes]
           /\ \A l \in Link : \/ Wake(n, md)[l] = md[l]
                              \/ md[l] = "asleep" /\ Wake(n, md)[l] = "run"
BY DEF Wake, Modes

-----------------------------------------------------------------------------
(* What a step does to one link.  The steps differ in three things: the      *)
(* office of the node, its queue, and the thread with its call.              *)

\* The state, the queue and the thread of l stay as they are, but that a thread
\* asleep may wake.
Kept(l) ==
    /\ state'[l[1]] = state[l[1]]
    /\ cmds'[l] = cmds[l]
    /\ \/ mode'[l] = mode[l]
       \/ mode[l] = "asleep" /\ mode'[l] = "run"

\* The node takes an office, and tells its peers, whatever mode the threads
\* are in.
Told(l) ==
    /\ cmds'[l] # <<>>
    /\ Last(cmds'[l]) = "append" <=> state'[l[1]] = Leader

\* The office of a node that is no leader may change into another such office
\* without a word.
Aside(l) ==
    /\ state[l[1]] # Leader /\ state'[l[1]] # Leader
    /\ cmds'[l] = cmds[l]
    /\ mode'[l] = mode[l] \/ mode'[l] \notin Sending

LEMMA OfficeStep ==
    ASSUME NEW l \in Link, OfficeKnown(l), Kept(l) \/ Told(l) \/ Aside(l)
    PROVE  OfficeKnown(l)'
BY DEF OfficeKnown, Kept, Told, Aside, Sending, Leader

\* The call of a link that is not the one that acts.
LEMMA CallKept ==
    ASSUME NEW l \in Link, CallFits(l), call'[l] = call[l],
           \/ mode'[l] = mode[l]
           \/ mode[l] = "asleep" /\ mode'[l] = "run"
    PROVE  CallFits(l)'
BY DEF CallFits

\* A step that leaves all of it alone.
LEMMA ThreadUnchanged ==
    ASSUME ThreadInv, UNCHANGED <<state, mode, cmds, call>>
    PROVE  ThreadInv'
BY DEF ThreadInv, ThreadTypeOK, CallFits, OfficeKnown

\* step_down tells the peers if the node was leader.
LEMMA StepDownTold ==
    ASSUME ThreadTypeOK, NEW n \in Node, NEW term, NEW vote,
           NEW md \in [Link -> Modes], StepDown(n, term, vote, md)
    PROVE  /\ state' \in [Node -> {Follower, Candidate, Leader}]
           /\ mode' \in [Link -> Modes]
           /\ cmds' \in [Link -> Seq(Commands)]
           /\ \A l \in Link :
                /\ (mode'[l] = md[l] \/ (md[l] = "asleep" /\ mode'[l] = "run"))
                /\ IF l[1] # n
                   THEN state'[l[1]] = state[l[1]] /\ cmds'[l] = cmds[l]
                   ELSE \/ Told(l)
                        \/ /\ state[n] # Leader /\ state'[n] # Leader
                           /\ cmds'[l] = cmds[l] /\ mode'[l] = md[l]
<1>1. state' = [state EXCEPT ![n] = Follower]
      BY DEF StepDown
<1>2. /\ state' \in [Node -> {Follower, Candidate, Leader}]
      /\ state'[n] # Leader
      /\ \A l \in Link : l[1] # n => state'[l[1]] = state[l[1]]
      BY <1>1, LinkNodes DEF ThreadTypeOK, Follower, Leader
<1>3. CASE state[n] = Leader
  <2>1. cmds' = Push(n, "sleep") /\ mode' = Wake(n, md)
        BY <1>3 DEF StepDown, SleepPeers
  <2>2. "sleep" \in Commands
        BY DEF Commands
  <2> QED  BY <1>2, <2>1, <2>2, PushTyped, WakeTyped DEF Told
<1>4. CASE state[n] # Leader
  <2>1. cmds' = cmds /\ mode' = md
        BY <1>4 DEF StepDown
  <2> QED  BY <1>2, <1>4, <2>1 DEF ThreadTypeOK
<1> QED  BY <1>3, <1>4

\* What the handlers of both requests do to a link.
LEMMA HandlerStep ==
    ASSUME ThreadInv, NEW p \in Node, NEW q,
           \/ \E n \in Node : HandleVoteRequest(p, n, q)
           \/ HandleAppendRequest(p, q)
    PROVE  /\ state' \in [Node -> {Follower, Candidate, Leader}]
           /\ mode' \in [Link -> Modes]
           /\ cmds' \in [Link -> Seq(Commands)]
           /\ \A l \in Link :
                /\ OfficeKnown(l)'
                /\ (mode'[l] = mode[l] \/ (mode[l] = "asleep" /\ mode'[l] = "run"))
<1>1. mode \in [Link -> Modes]
      BY DEF ThreadInv, ThreadTypeOK
<1>2. ASSUME NEW term, NEW vote, StepDown(p, term, vote, mode), NEW l \in Link
      PROVE  Kept(l) \/ Told(l) \/ Aside(l)
  <2>1. CASE l[1] # p
        BY <1>1, <1>2, <2>1, StepDownTold DEF Kept, ThreadInv
  <2>2. CASE l[1] = p
        BY <1>1, <1>2, <2>2, StepDownTold DEF Aside, ThreadInv
  <2> QED  BY <2>1, <2>2
<1>3. CASE \E term, vote : StepDown(p, term, vote, mode)
      BY <1>1, <1>2, <1>3, StepDownTold, OfficeStep DEF ThreadInv
<1>4. CASE UNCHANGED <<state, cmds, mode>>
      BY <1>4, OfficeStep DEF Kept, ThreadInv, ThreadTypeOK
<1> QED  BY <1>3, <1>4 DEF HandleVoteRequest, HandleAppendRequest, raftVars

LEMMA ServeThreads ==
    ASSUME ThreadInv, VoteInv,
           \/ \E l \in Link : ServeCall(l[1], l[2])
           \/ \E m \in late : ServeLate(m)
    PROVE  ThreadInv'
<1>1. ASSUME NEW k \in Link, ServeCall(k[1], k[2])
      PROVE  ThreadInv'
  <2> DEFINE q == call[<<k[1], k[2]>>]
  <2>1. \/ \E n \in Node : HandleVoteRequest(k[2], n, q)
        \/ HandleAppendRequest(k[2], q)
        BY <1>1, LinkNodes DEF ServeCall, ServeVote, ServeAppend
  <2>2. k[2] \in Node /\ k = <<k[1], k[2]>>
        BY LinkNodes
  <2>3. PICK answer :
          /\ call' = [call EXCEPT ![k] = answer]
          /\ q.stage = "request"
          /\ answer.type = q.type
    <3> DEFINE Answered(a) == /\ call' = [call EXCEPT ![k] = a]
                              /\ q.stage = "request"
                              /\ a.type = q.type
    <3>1. CASE ServeVote(k[1], k[2])
      <4>1. Answered(VoteAnswer(k[2], k[1], q))
            BY <3>1, <2>2 DEF ServeVote, VoteAnswer
      <4> QED  BY <4>1
    <3>2. CASE ServeAppend(k[1], k[2])
      <4>1. Answered(AppendAnswer(k[2], q))
            BY <3>2, <2>2 DEF ServeAppend, AppendAnswer
      <4> QED  BY <4>1
    <3> QED  BY <1>1, <3>1, <3>2 DEF ServeCall
  <2>4. call' = [l \in Link |-> call'[l]] /\ call'[k] = answer
        /\ \A l \in Link : l # k => call'[l] = call[l]
        BY <2>3 DEF ThreadInv, ThreadTypeOK
  <2>5. ASSUME NEW l \in Link
        PROVE  OfficeKnown(l)' /\ CallFits(l)'
    <3>1. OfficeKnown(l)' /\ CallFits(l)
          BY <2>1, <2>2, HandlerStep DEF ThreadInv
    <3>2. mode'[l] = mode[l] \/ (mode[l] = "asleep" /\ mode'[l] = "run")
          BY <2>1, <2>2, HandlerStep
    <3>3. CASE l # k
          BY <2>4, <3>1, <3>2, <3>3, CallKept
    <3>4. CASE l = k
      <4>1. call[l] = q
            BY <2>2, <3>4
      <4>2. mode[l] # "newterm"
            BY <2>3, <3>1, <4>1 DEF CallFits
      <4>3. call'[l].type = call[l].type
            BY <2>3, <2>4, <3>4, <4>1
      <4> QED  BY <3>1, <3>2, <4>2, <4>3 DEF CallFits
    <3> QED  BY <3>1, <3>3, <3>4
  <2> QED  BY <2>1, <2>2, <2>4, <2>5, HandlerStep DEF ThreadInv, ThreadTypeOK
<1>2. ASSUME NEW m \in late, ServeLate(m)
      PROVE  ThreadInv'
  <2>1. m.to \in Node /\ m.from \in Node
        BY DEF VoteInv, TermTypeOK
  <2>2. UNCHANGED call
        BY <1>2 DEF ServeLate
  <2>3. \/ \E n \in Node : HandleVoteRequest(m.to, n, m.request)
        \/ HandleAppendRequest(m.to, m.request)
        BY <1>2, <2>1 DEF ServeLate
  <2>4. ASSUME NEW l \in Link PROVE OfficeKnown(l)' /\ CallFits(l)'
        BY <2>1, <2>2, <2>3, HandlerStep, CallKept DEF ThreadInv
  <2> QED  BY <2>1, <2>2, <2>3, <2>4, HandlerStep DEF ThreadInv, ThreadTypeOK
<1> QED  BY <1>1, <1>2

-----------------------------------------------------------------------------
(* The steps of a peer thread.                                               *)

\* A step of the thread of link k alone: the office and the other links stay,
\* and the call it leaves fits its new mode.
LEMMA ThreadStep ==
    ASSUME ThreadInv, NEW k \in Link, NEW m \in Modes, UNCHANGED state,
           mode' = [mode EXCEPT ![k] = m],
           cmds' \in [Link -> Seq(Commands)],
           \A l \in Link : l # k => cmds'[l] = cmds[l],
           call' = [l \in Link |-> call'[l]],
           \A l \in Link : l # k => call'[l] = call[l],
           CallFits(k)', OfficeKnown(k)'
    PROVE  ThreadInv'
<1>1. ThreadTypeOK' /\ \A l \in Link : l # k => mode'[l] = mode[l]
      BY DEF ThreadInv, ThreadTypeOK
<1>2. ASSUME NEW l \in Link, l # k PROVE CallFits(l)' /\ OfficeKnown(l)'
      BY <1>1, <1>2, CallKept, OfficeStep DEF ThreadInv, Kept
<1> QED  BY <1>1, <1>2 DEF ThreadInv

\* try_execute_cmd takes the last command off only together with the mode
\* that belongs to it.
LEMMA PopThreads ==
    ASSUME ThreadInv, NEW k \in Link,
           \/ PopSleep(k[1], k[2])
           \/ PopElection(k[1], k[2])
           \/ PopAppend(k[1], k[2])
    PROVE  ThreadInv'
<1>1. PICK cmd \in Commands, m \in Modes :
        /\ PopCommand(k[1], k[2], cmd)
        /\ cmd = "append" <=> m = "append"
        /\ m \in {"sleep", "election", "append"}
        /\ mode' = [mode EXCEPT ![<<k[1], k[2]>>] = m]
        /\ \/ UNCHANGED call
           \/ /\ m = "election"
              /\ call' = [call EXCEPT ![<<k[1], k[2]>>] = VoteRequest(k[1])]
        /\ UNCHANGED state
      BY DEF PopSleep, PopElection, PopAppend, Commands, Modes, raftVars
<1>2. k = <<k[1], k[2]>>
      BY LinkNodes
<1>3. /\ mode[k] \in {"run", "append"}
      /\ cmds[k] \in Seq(Commands) /\ cmds[k] # <<>> /\ Head(cmds[k]) = cmd
      /\ cmds' = [cmds EXCEPT ![k] = Tail(@)]
      BY <1>1, <1>2 DEF PopCommand, ThreadInv, ThreadTypeOK
<1>4. CallFits(k) /\ OfficeKnown(k) /\ ThreadTypeOK
      BY DEF ThreadInv
<1>5. cmds'[k] = Tail(cmds[k]) /\ cmds' \in [Link -> Seq(Commands)]
      /\ \A l \in Link : l # k => cmds'[l] = cmds[l]
      BY <1>3, <1>4, PoppedFirst DEF ThreadTypeOK
<1>6. mode'[k] = m /\ state' = state
      BY <1>1, <1>2, <1>4 DEF ThreadTypeOK
<1>7. OfficeKnown(k)'
      BY <1>1, <1>3, <1>4, <1>5, <1>6, PoppedFirst DEF OfficeKnown, Sending
<1>8. call' = [l \in Link |-> call'[l]] /\ \A l \in Link : l # k => call'[l] = call[l]
      BY <1>1, <1>2, <1>4 DEF ThreadTypeOK
<1>9. CallFits(k)'
  <2>1. call[k].type # "vote" /\ call[k].type # "append"
        BY <1>3, <1>4 DEF CallFits
  <2>2. CASE UNCHANGED call
        BY <1>1, <1>6, <2>1, <2>2 DEF CallFits
  <2>3. CASE m = "election" /\ call' = [call EXCEPT ![k] = VoteRequest(k[1])]
    <3>1. call'[k].type = "vote"
          BY <1>4, <2>3 DEF ThreadTypeOK, VoteRequest
    <3> QED  BY <1>6, <2>3, <3>1 DEF CallFits
  <2> QED  BY <1>1, <1>2, <2>2, <2>3
<1> QED  BY <1>1, <1>2, <1>5, <1>6, <1>7, <1>8, <1>9, ThreadStep

\* The thread of link k goes on in mode m, with the call d: what they have to
\* do with each other, and that the thread enters the loop or leaves it only
\* with its office.
Moves(k, m, d) ==
    /\ m \in Modes
    /\ d.type = "vote" => m = "election"
    /\ d.type = "append" => m \in {"calling", "newterm"}
    /\ m = "newterm" => /\ d.type = "append" /\ d.stage = "response"
                        /\ ~d.success
    /\ \/ m \in Sending /\ mode[k] \in Sending \ {"newterm"}
       \/ m \notin Sending /\ mode[k] \notin Sending
    /\ mode' = [mode EXCEPT ![k] = m]
    /\ call' = [call EXCEPT ![k] = d]

LEMMA MovesKeep ==
    ASSUME ThreadInv, NEW k \in Link, NEW m, NEW d, Moves(k, m, d),
           UNCHANGED <<state, cmds>>
    PROVE  ThreadInv'
<1>1. CallFits(k) /\ OfficeKnown(k) /\ ThreadTypeOK
      BY DEF ThreadInv
<1>2. mode'[k] = m /\ call'[k] = d /\ call' = [l \in Link |-> call'[l]]
      /\ \A l \in Link : l # k => call'[l] = call[l]
      BY <1>1 DEF Moves, ThreadTypeOK
<1>3. CallFits(k)'
      BY <1>2 DEF CallFits, Moves
<1>4. OfficeKnown(k)'
      BY <1>1, <1>2 DEF OfficeKnown, Moves
<1>5. cmds' \in [Link -> Seq(Commands)]
      BY <1>1 DEF ThreadTypeOK
<1>6. m \in Modes /\ mode' = [mode EXCEPT ![k] = m]
      BY DEF Moves
<1> QED  BY <1>2, <1>3, <1>4, <1>5, <1>6, ThreadStep

\* The steps of do_append_entries and of a call that fails: the queue stays, and so
\* does the thread in the loop, or out of it.
LEMMA LoopThreads ==
    ASSUME ThreadInv, NEW k \in Link,
           \/ FallAsleep(k[1], k[2]) \/ AppendLoop(k[1], k[2])
           \/ SendAppend(k[1], k[2]) \/ AppendSuccess(k[1], k[2])
           \/ AppendFailure(k[1], k[2]) \/ CallFails(k[1], k[2])
    PROVE  ThreadInv'
<1> DEFINE c == call[k]
<1>1. k = <<k[1], k[2]>>
      BY LinkNodes
<1>2. CallFits(k) /\ ThreadTypeOK
      BY DEF ThreadInv
<1>3. UNCHANGED <<state, cmds>>
      BY DEF FallAsleep, AppendLoop, SendAppend, AppendSuccess, AppendFailure,
             CallFails, raftVars
<1>4. /\ UNCHANGED call => call' = [call EXCEPT ![k] = c]
      /\ UNCHANGED mode => mode' = [mode EXCEPT ![k] = mode[k]]
      BY <1>2 DEF ThreadTypeOK
<1>5. CASE FallAsleep(k[1], k[2])
  <2>1. /\ mode[k] = "sleep"
        /\ mode' = [mode EXCEPT ![k] = "asleep"]
        /\ UNCHANGED call
        BY <1>1, <1>5 DEF FallAsleep
  <2>2. Moves(k, "asleep", c)
        BY <1>2, <1>4, <2>1 DEF CallFits, Moves, Modes, Sending
  <2> QED  BY <1>3, <2>2, MovesKeep
<1>6. CASE AppendLoop(k[1], k[2])
  <2>1. mode[k] = "append" /\ UNCHANGED call
        BY <1>1, <1>6 DEF AppendLoop
  <2>2. CASE UNCHANGED mode
    <3>1. Moves(k, "append", c)
          BY <1>2, <1>4, <2>1, <2>2 DEF CallFits, Moves, Modes, Sending
    <3> QED  BY <1>3, <3>1, MovesKeep
  <2>3. CASE mode' = [mode EXCEPT ![k] = "build"]
    <3>1. Moves(k, "build", c)
          BY <1>2, <1>4, <2>1, <2>3 DEF CallFits, Moves, Modes, Sending
    <3> QED  BY <1>3, <3>1, MovesKeep
  <2> QED  BY <1>1, <1>6, <2>2, <2>3 DEF AppendLoop
<1>7. CASE SendAppend(k[1], k[2])
  <2>1. mode[k] = "build"
        BY <1>1, <1>7 DEF SendAppend
  <2>2. CASE mode' = [mode EXCEPT ![k] = "append"] /\ UNCHANGED call
    <3>1. Moves(k, "append", c)
          BY <1>2, <1>4, <2>1, <2>2 DEF CallFits, Moves, Modes, Sending
    <3> QED  BY <1>3, <3>1, MovesKeep
  <2>3. ASSUME NEW i, mode' = [mode EXCEPT ![k] = "calling"],
               call' = [call EXCEPT ![k] = AppendRequest(k[1], i)]
        PROVE  ThreadInv'
    <3>1. AppendRequest(k[1], i).type = "append"
          BY DEF AppendRequest
    <3>2. Moves(k, "calling", AppendRequest(k[1], i))
          BY <2>1, <2>3, <3>1 DEF Moves, Modes, Sending
    <3> QED  BY <1>3, <3>2, MovesKeep
  <2> QED  BY <1>1, <1>7, <2>2, <2>3 DEF SendAppend
<1>8. CASE AppendSuccess(k[1], k[2])
  <2>1. /\ c.type = "append" /\ c.stage = "response" /\ c.success
        /\ mode' = [mode EXCEPT ![k] = "append"]
        /\ call' = [call EXCEPT ![k] = NoCall]
        BY <1>1, <1>8 DEF AppendSuccess
  <2>2. mode[k] = "calling"
        BY <1>2, <2>1 DEF CallFits
  <2>3. Moves(k, "append", NoCall)
        BY <2>1, <2>2 DEF Moves, Sending, Modes, NoCall
  <2> QED  BY <1>3, <2>3, MovesKeep
<1>9. CASE AppendFailure(k[1], k[2])
  <2> DEFINE new == currentTerm[k[1]] < c.term
  <2>1. /\ c.type = "append" /\ c.stage = "response" /\ ~c.success
        /\ mode[k] = "calling"
        /\ mode' = [mode EXCEPT ![k] = IF new THEN "newterm" ELSE "append"]
        /\ call' = [call EXCEPT ![k] = IF new THEN c ELSE NoCall]
        BY <1>1, <1>9 DEF AppendFailure
  <2>2. CASE new
    <3>1. Moves(k, "newterm", c)
          BY <2>1, <2>2 DEF Moves, Sending, Modes
    <3> QED  BY <1>3, <3>1, MovesKeep
  <2>3. CASE ~new
    <3>1. Moves(k, "append", NoCall)
          BY <2>1, <2>3 DEF Moves, Sending, Modes, NoCall
    <3> QED  BY <1>3, <3>1, MovesKeep
  <2> QED  BY <2>2, <2>3
<1>10. CASE CallFails(k[1], k[2])
  <2>1. mode[k] # "newterm" /\ GiveUp(k[1], k[2])
        BY <1>1, <1>10 DEF CallFails
  <2>2. CASE /\ c.type = "append"
             /\ mode' = [mode EXCEPT ![k] = "append"]
             /\ call' = [call EXCEPT ![k] = NoCall]
    <3>1. Moves(k, "append", NoCall)
          BY <1>2, <2>1, <2>2 DEF CallFits, Moves, Sending, Modes, NoCall
    <3> QED  BY <1>3, <3>1, MovesKeep
  <2>3. CASE /\ c.type = "vote"
             /\ mode' = [mode EXCEPT ![k] = "run"]
             /\ call' = [call EXCEPT ![k] = NoCall]
    <3>1. Moves(k, "run", NoCall)
          BY <1>2, <2>3 DEF CallFits, Moves, Sending, Modes, NoCall
    <3> QED  BY <1>3, <3>1, MovesKeep
  <2>4. CASE /\ c.type = "vote" /\ UNCHANGED mode
             /\ call' = [call EXCEPT ![k] = VoteRequest(k[1])]
    <3>1. mode[k] = "election" /\ VoteRequest(k[1]).type = "vote"
          BY <1>2, <2>4 DEF CallFits, VoteRequest
    <3>2. Moves(k, "election", VoteRequest(k[1]))
          BY <1>4, <2>4, <3>1 DEF Moves, Sending, Modes
    <3> QED  BY <1>3, <3>2, MovesKeep
  <2> QED  BY <1>1, <2>1, <2>2, <2>3, <2>4 DEF GiveUp
<1> QED  BY <1>5, <1>6, <1>7, <1>8, <1>9, <1>10

-----------------------------------------------------------------------------
(* The steps that change the office.                                         *)

\* handle_vote_response: the thread that brought the answer is back in run, and
\* become_leader sends e_append_entries to every peer.
LEMMA VoteResponseThreads ==
    ASSUME ThreadInv, NEW k \in Link, VoteResponse(k[1], k[2])
    PROVE  ThreadInv'
<1> DEFINE n == k[1]
           back == [mode EXCEPT ![k] = "run"]
<1>1. k = <<k[1], k[2]>> /\ n \in Node
      BY LinkNodes
<1>2. ThreadTypeOK /\ CallFits(k)
      BY DEF ThreadInv
<1>3. mode[k] = "election" /\ call' = [call EXCEPT ![k] = NoCall]
      BY <1>1, <1>2 DEF VoteResponse, CallFits
<1>4. back \in [Link -> Modes]
      BY <1>2 DEF ThreadTypeOK, Modes
<1>5. \/ /\ state' \in {state, [state EXCEPT ![n] = Follower]}
         /\ state[n] # Leader \/ state' = state
         /\ cmds' = cmds /\ mode' = back
      \/ /\ state' = [state EXCEPT ![n] = Leader]
         /\ cmds' = Push(n, "append") /\ mode' = Wake(n, back)
  <2>1. CASE /\ cmds' = cmds /\ mode' = back
             /\ state' = [state EXCEPT ![n] = Follower] /\ state[n] = Candidate
        BY <2>1 DEF Leader, Candidate
  <2>2. CASE /\ cmds' = cmds /\ mode' = back
             /\ state' = [state EXCEPT ![n] = @]
        BY <1>2, <2>2 DEF ThreadTypeOK
  <2>3. CASE state[n] # Candidate \/ call[k].term < currentTerm[n]
        BY <1>1, <2>3 DEF VoteResponse, raftVars
  <2>4. CASE ~(state[n] # Candidate \/ call[k].term < currentTerm[n])
    <3>1. \/ /\ state' = [state EXCEPT ![n] = Leader]
             /\ cmds' = Push(n, "append") /\ mode' = Wake(n, back)
          \/ /\ state' = [state EXCEPT ![n] =
                              IF call[k].term > currentTerm[n] THEN Follower ELSE @]
             /\ cmds' = cmds /\ mode' = back
          BY <1>1, <2>4 DEF VoteResponse
    <3> QED  BY <2>1, <2>2, <2>4, <3>1
  <2> QED  BY <2>3, <2>4
<1>6. ASSUME NEW l \in Link
      PROVE  /\ call'[l] = (IF l = k THEN NoCall ELSE call[l])
             /\ back[l] = (IF l = k THEN "run" ELSE mode[l])
             /\ CallFits(l) /\ OfficeKnown(l) /\ l[1] \in Node
      BY <1>2, <1>3, LinkNodes DEF ThreadInv, ThreadTypeOK
<1>7. CASE /\ state' \in {state, [state EXCEPT ![n] = Follower]}
           /\ state[n] # Leader \/ state' = state
           /\ cmds' = cmds /\ mode' = back
  <2>1. ASSUME NEW l \in Link PROVE CallFits(l)' /\ OfficeKnown(l)'
    <3>1. CallFits(l)'
          BY <1>6, <1>7, CallKept DEF CallFits, NoCall
    <3>2. state' = state \/ (l[1] # n /\ state'[l[1]] = state[l[1]])
             \/ (state[l[1]] # Leader /\ state'[l[1]] # Leader)
          BY <1>2, <1>6, <1>7 DEF ThreadTypeOK, Follower, Leader
    <3>3. OfficeKnown(l)'
          BY <1>3, <1>6, <1>7, <3>2 DEF OfficeKnown, Sending
    <3> QED  BY <3>1, <3>3
  <2>2. ThreadTypeOK'
        BY <1>2, <1>3, <1>4, <1>7 DEF ThreadTypeOK, Follower
  <2> QED  BY <2>1, <2>2 DEF ThreadInv
<1>8. CASE /\ state' = [state EXCEPT ![n] = Leader]
           /\ cmds' = Push(n, "append") /\ mode' = Wake(n, back)
  <2>1. "append" \in Commands
        BY DEF Commands
  <2>2. /\ cmds' \in [Link -> Seq(Commands)] /\ mode' \in [Link -> Modes]
        /\ \A l \in Link : mode'[l] = back[l]
                              \/ (back[l] = "asleep" /\ mode'[l] = "run")
        BY <1>1, <1>2, <1>4, <1>8, <2>1, PushTyped, WakeTyped
  <2>3. ASSUME NEW l \in Link PROVE CallFits(l)' /\ OfficeKnown(l)'
    <3>1. CallFits(l)'
          BY <1>6, <2>2, CallKept DEF CallFits, NoCall
    <3>2. CASE l[1] = n
      <4>1. state'[l[1]] = Leader
            BY <1>2, <1>6, <1>8, <3>2 DEF ThreadTypeOK
      <4>2. Told(l)
            BY <1>1, <1>2, <1>8, <2>1, <3>2, <4>1, PushTyped DEF Told
      <4> QED  BY <1>6, <3>1, <4>2, OfficeStep
    <3>3. CASE l[1] # n
      <4>1. state'[l[1]] = state[l[1]] /\ cmds'[l] = cmds[l] /\ l # k
            BY <1>1, <1>2, <1>6, <1>8, <2>1, <3>3, PushTyped DEF ThreadTypeOK
      <4> QED  BY <1>6, <2>2, <3>1, <4>1, OfficeStep DEF Kept
    <3> QED  BY <3>1, <3>2, <3>3
  <2>4. ThreadTypeOK'
        BY <1>2, <1>3, <1>8, <2>2 DEF ThreadTypeOK, Leader
  <2> QED  BY <2>3, <2>4 DEF ThreadInv
<1> QED  BY <1>5, <1>7, <1>8

\* handle_new_term: the thread that reports the term leaves the loop itself.
LEMMA NewTermThreads ==
    ASSUME ThreadInv, NEW k \in Link, HandleNewTerm(k[1], k[2])
    PROVE  ThreadInv'
<1> DEFINE n == k[1]
           back == [mode EXCEPT ![k] = "run"]
           term == call[k].term
<1>1. k = <<k[1], k[2]>> /\ n \in Node
      BY LinkNodes
<1>2. ThreadTypeOK
      BY DEF ThreadInv
<1>3. /\ StepDown(n, term, VoteIn(n, term), back)
      /\ call' = [call EXCEPT ![k] = NoCall]
      BY <1>1 DEF HandleNewTerm
<1>4. back \in [Link -> Modes]
      BY <1>2 DEF ThreadTypeOK, Modes
<1>5. ASSUME NEW l \in Link
      PROVE  /\ call'[l] = (IF l = k THEN NoCall ELSE call[l])
             /\ back[l] = (IF l = k THEN "run" ELSE mode[l])
             /\ CallFits(l) /\ OfficeKnown(l)
      BY <1>2, <1>3 DEF ThreadInv, ThreadTypeOK
<1> HIDE DEF back, term
<1>6. /\ state' \in [Node -> {Follower, Candidate, Leader}]
      /\ mode' \in [Link -> Modes]
      /\ cmds' \in [Link -> Seq(Commands)]
      BY <1>1, <1>2, <1>3, <1>4, StepDownTold
<1>7. ASSUME NEW l \in Link PROVE CallFits(l)' /\ OfficeKnown(l)'
  <2>1. /\ mode'[l] = back[l] \/ (back[l] = "asleep" /\ mode'[l] = "run")
        /\ IF l[1] # n
           THEN state'[l[1]] = state[l[1]] /\ cmds'[l] = cmds[l]
           ELSE \/ Told(l)
                \/ /\ state[n] # Leader /\ state'[n] # Leader
                   /\ cmds'[l] = cmds[l] /\ mode'[l] = back[l]
        BY <1>1, <1>2, <1>3, <1>4, StepDownTold
  <2>2. CallFits(l)'
        BY <1>5, <2>1, CallKept DEF CallFits, NoCall
  <2>3. CASE l[1] # n
        BY <1>5, <2>1, <2>2, <2>3, OfficeStep DEF Kept
  <2>4. CASE l[1] = n
    <3>1. Told(l) \/ Aside(l)
          BY <1>5, <2>1, <2>4 DEF Aside, Sending
    <3> QED  BY <1>5, <2>2, <3>1, OfficeStep
  <2> QED  BY <2>3, <2>4
<1> QED  BY <1>2, <1>3, <1>6, <1>7 DEF ThreadInv, ThreadTypeOK

LEMMA PeerStepThreads ==
    ASSUME ThreadInv, NEW k \in Link, PeerStep(k[1], k[2])
    PROVE  ThreadInv'
BY PopThreads, LoopThreads, VoteResponseThreads, NewTermThreads DEF PeerStep

\* The timer's action sends e_election, to the peers of a leader as well.
LEMMA TimerStepThreads ==
    ASSUME ThreadInv, NEW n \in Node, TimerStep(n)
    PROVE  ThreadInv'
<1>1. CASE ElectionTimeout(n) \/ \E r \in Request : AppendTimeout(n, r)
      BY <1>1, ThreadUnchanged DEF ElectionTimeout, AppendTimeout, raftVars, peerVars
<1>2. CASE ElectionCallback(n)
  <2>1. /\ state' = [state EXCEPT ![n] = Candidate]
        /\ cmds' = Push(n, "election") /\ mode' = Wake(n, mode)
        /\ UNCHANGED call
        BY <1>2 DEF ElectionCallback
  <2>2. "election" \in Commands /\ ThreadTypeOK
        BY DEF Commands, ThreadInv
  <2>3. /\ cmds' \in [Link -> Seq(Commands)] /\ mode' \in [Link -> Modes]
        /\ \A l \in Link : mode'[l] = mode[l]
                              \/ (mode[l] = "asleep" /\ mode'[l] = "run")
        BY <2>1, <2>2, PushTyped, WakeTyped DEF ThreadTypeOK
  <2>4. ASSUME NEW l \in Link PROVE CallFits(l)' /\ OfficeKnown(l)'
    <3>1. CallFits(l) /\ OfficeKnown(l) /\ l[1] \in Node
          BY LinkNodes DEF ThreadInv
    <3>2. Kept(l) \/ Told(l)
          BY <2>1, <2>2, <2>3, <3>1, PushTyped
             DEF ThreadTypeOK, Kept, Told, Candidate, Leader
    <3> QED  BY <2>1, <2>3, <3>1, <3>2, CallKept, OfficeStep
  <2>5. ThreadTypeOK'
        BY <2>1, <2>2, <2>3 DEF ThreadTypeOK, Candidate
  <2> QED  BY <2>4, <2>5 DEF ThreadInv
<1> QED  BY <1>1, <1>2 DEF TimerStep

\* notify_peers of replicate wakes the threads.
LEMMA OtherThreads ==
    ASSUME ThreadInv,
           \/ \E n \in Node : CommitterStep(n)
           \/ \E r \in Request : ReplicateStep(r)
           \/ \E r \in Request, n \in Node : CheckLeader(r, n)
           \/ UNCHANGED vars
    PROVE  ThreadInv'
<1>1. ASSUME NEW n \in Node, CommitterStep(n)
      PROVE  ThreadInv'
      BY <1>1, ThreadUnchanged
         DEF CommitterStep, RunReply, ReadEntries, ApplyEntry, raftVars, peerVars
<1>2. ASSUME NEW r \in Request, WriteEntry(r)
      PROVE  ThreadInv'
      BY <1>2, ThreadUnchanged DEF WriteEntry, raftVars, peerVars
<1>3. ASSUME NEW r \in Request, InsertCallback(r)
      PROVE  ThreadInv'
  <2>1. ThreadTypeOK /\ mode \in [Link -> Modes]
        BY DEF ThreadInv, ThreadTypeOK
  <2>2. /\ UNCHANGED <<state, cmds, call>>
        /\ mode' = [l \in Link |-> IF l[1] = req[r].node /\ mode[l] = "asleep"
                                   THEN "run" ELSE mode[l]]
        BY <1>3 DEF InsertCallback, Wake, raftVars
  <2>3. ASSUME NEW l \in Link PROVE CallFits(l)' /\ OfficeKnown(l)'
        BY <2>2, CallKept, OfficeStep DEF Kept, ThreadInv
  <2>4. ThreadTypeOK'
        BY <2>1, <2>2 DEF ThreadTypeOK, Modes
  <2> QED  BY <2>3, <2>4 DEF ThreadInv
<1>4. ASSUME NEW r \in Request, NEW n \in Node, CheckLeader(r, n)
      PROVE  ThreadInv'
      BY <1>4, ThreadUnchanged DEF CheckLeader, raftVars, peerVars
<1>5. CASE UNCHANGED vars
      BY <1>5, ThreadUnchanged DEF vars, raftVars, peerVars
<1> QED  BY <1>1, <1>2, <1>3, <1>4, <1>5 DEF ReplicateStep

LEMMA ThreadInvNext == VoteInv /\ ThreadInv /\ [Next]_vars => ThreadInv'
<1> SUFFICES ASSUME VoteInv, ThreadInv, [Next]_vars PROVE ThreadInv'
    OBVIOUS
<1> QED  BY PeerStepThreads, ServeThreads, LoopThreads, TimerStepThreads,
            OtherThreads DEF Next

LEMMA ThreadInvInit == Init => ThreadInv
<1> SUFFICES ASSUME Init PROVE ThreadInv
    OBVIOUS
<1>1. ThreadTypeOK
      BY EmptySeq DEF Init, ThreadTypeOK, Modes
<1>2. ASSUME NEW l \in Link PROVE CallFits(l) /\ OfficeKnown(l)
      BY LinkNodes
         DEF Init, CallFits, OfficeKnown, NoCall, Sending, Follower, Leader
<1> QED  BY <1>1, <1>2 DEF ThreadInv

\* However elections, timers and commands interleave, every peer thread of a
\* leader sends entries or has been told to: become_leader's command is the
\* last in the queue until the office ends.
THEOREM LeadersAreServing == Spec => []LeaderIsServing
<1>1. ThreadInv => LeaderIsServing
  <2> SUFFICES ASSUME ThreadInv, NEW l \in Link, state[l[1]] = Leader,
                      cmds[l] # <<>>
               PROVE  "append" \in ToSet(cmds[l])
      BY DEF ThreadInv, LeaderIsServing, OfficeKnown
  <2>1. cmds[l] \in Seq(Commands) /\ cmds[l][Len(cmds[l])] = "append"
        BY DEF ThreadInv, ThreadTypeOK, OfficeKnown, Last
  <2>2. Len(cmds[l]) \in DOMAIN cmds[l]
        BY <2>1, EmptySeq
  <2> QED  BY <2>1, <2>2 DEF ToSet
<1> QED  BY VoteInvInit, VoteInvNext, ThreadInvInit, ThreadInvNext, <1>1, PTL
            DEF Spec

\* A thread that still sends for an office that is over has the command that
\* ends its loop before it, or reports the term that ended it.
THEOREM DeposedThreadsStop == Spec => []DeposedStops
<1>1. ThreadInv => DeposedStops
      BY DEF ThreadInv, DeposedStops, OfficeKnown
<1> QED  BY VoteInvInit, VoteInvNext, ThreadInvInit, ThreadInvNext, <1>1, PTL
            DEF Spec

-----------------------------------------------------------------------------
(***************************************************************************)
(* Second part: callers, logs and commitment.                              *)
(***************************************************************************)

-----------------------------------------------------------------------------
(* Loops.                                                                   *)

\* A set of natural numbers that has 0 and every successor has them all.
LEMMA SetInduction ==
    ASSUME NEW S \in SUBSET Nat, 0 \in S, \A n \in S : n + 1 \in S
    PROVE  S = Nat
<1>1. SUFFICES ASSUME Nat \ S # {} PROVE FALSE
      OBVIOUS
<1>2. PICK x \in Nat \ S : \A y \in Nat \ S : ~(<<y, x>> \in OpToRel(<, Nat))
      BY <1>1, NatLessThanWellFounded, WFMin
<1>3. \A y \in Nat \ S : ~(y < x)
      BY <1>2 DEF OpToRel
<1>4. x # 0 /\ x - 1 \in Nat /\ x - 1 < x
      OBVIOUS
<1>5. x - 1 \in S
      BY <1>3, <1>4
<1> QED  BY <1>4, <1>5

\* What holds before a loop and after each of its turns holds when it ends.
LEMMA TurnsStay ==
    ASSUME NEW S, NEW n \in Nat, NEW f, f[0] \in S,
           \A i \in 1..n : f[i - 1] \in S => f[i] \in S
    PROVE  \A i \in 0..n : f[i] \in S
<1> DEFINE K == {i \in Nat : i <= n => f[i] \in S}
<1>1. \A i \in K : i + 1 \in K
  <2> SUFFICES ASSUME NEW i \in K, i + 1 <= n PROVE f[i + 1] \in S
      OBVIOUS
  <2>1. i \in Nat /\ i + 1 \in 1..n /\ f[(i + 1) - 1] \in S
        OBVIOUS
  <2> QED  BY <2>1
<1>2. 0 \in K /\ K \in SUBSET Nat
      OBVIOUS
<1>3. K = Nat
  <2> HIDE DEF K
  <2> QED  BY <1>1, <1>2, SetInduction
<1> QED  BY <1>3

\* f describes the turns of a loop over seq, which makes step(f[i - 1], seq[i])
\* of what it has.
Turns(f, S, step, start, seq) ==
    /\ f \in [0..Len(seq) -> S]
    /\ f[0] = start
    /\ \A i \in 1..Len(seq) : f[i] = step[<<f[i - 1], seq[i]>>]

\* A loop over a sequence has a result: the function exists.
LEMMA TurnsExist ==
    ASSUME NEW S, NEW I, NEW step \in [S \X I -> S], NEW start \in S,
           NEW seq \in Seq(I)
    PROVE  \E f : Turns(f, S, step, start, seq)
<1> DEFINE Good(f, n) == f[0] = start /\ \A i \in 1..n : f[i] = step[<<f[i - 1], seq[i]>>]
           K == {n \in Nat : n <= Len(seq) => \E f \in [0..n -> S] : Good(f, n)}
<1>1. 0 \in K
  <2> DEFINE f == [i \in 0..0 |-> start]
  <2>1. f \in [0..0 -> S] /\ Good(f, 0)
        OBVIOUS
  <2> HIDE DEF f, Good
  <2> QED  BY <2>1
<1>2. \A n \in K : n + 1 \in K
  <2> SUFFICES ASSUME NEW n \in K, n + 1 <= Len(seq)
               PROVE  \E f \in [0..n + 1 -> S] : Good(f, n + 1)
    <3> HIDE DEF Good
    <3> QED  OBVIOUS
  <2>1. n \in Nat /\ n <= Len(seq) /\ Len(seq) \in Nat
        OBVIOUS
  <2>2. PICK g \in [0..n -> S] : Good(g, n)
        BY <2>1
  <2>3. seq[n + 1] \in I /\ g[n] \in S
        BY <2>1
  <2> DEFINE f == [i \in 0..n + 1 |->
                      IF i = n + 1 THEN step[<<g[n], seq[n + 1]>>] ELSE g[i]]
  <2>4. f \in [0..n + 1 -> S]
    <3>1. ASSUME NEW i \in 0..n + 1 PROVE f[i] \in S
      <4>1. CASE i = n + 1
            BY <4>1, <2>3
      <4>2. CASE i # n + 1
            BY <4>2, <2>1
      <4> QED  BY <4>1, <4>2
    <3> QED  BY <3>1
  <2>5. ASSUME NEW i \in 1..n + 1 PROVE f[i] = step[<<f[i - 1], seq[i]>>]
    <3>1. CASE i = n + 1
      <4>1. f[i - 1] = g[n] /\ f[i] = step[<<g[n], seq[n + 1]>>]
            BY <3>1, <2>1
      <4> QED  BY <3>1, <4>1
    <3>2. CASE i # n + 1
      <4>1. i \in 1..n /\ i - 1 \in 0..n /\ i \in 0..n /\ i # n + 1 /\ i - 1 # n + 1
            BY <3>2, <2>1
      <4>2. f[i] = g[i] /\ f[i - 1] = g[i - 1]
            BY <4>1
      <4> QED  BY <4>1, <4>2, <2>2
    <3> QED  BY <3>1, <3>2
  <2>6. f[0] = start
        BY <2>1, <2>2
  <2> QED  BY <2>4, <2>5, <2>6
<1>3. K = Nat
  <2>1. K \in SUBSET Nat
        OBVIOUS
  <2> HIDE DEF K
  <2> QED  BY <1>1, <1>2, <2>1, SetInduction
<1>4. PICK f \in [0..Len(seq) -> S] : Good(f, Len(seq))
  <2>1. Len(seq) \in K
        BY <1>3
  <2> HIDE DEF Good
  <2> QED  BY <2>1
<1> QED  BY <1>4 DEF Turns

-----------------------------------------------------------------------------
(* notify_noleader_error answers every callback once.                       *)

\* append_log_callbacks_ is a map: one callback per index.
OnePerIndex(C) == \A c, d \in C : c.index = d.index => c = d

\* The rank of a callback among those of a node tells them apart, and every rank
\* below their number is taken: FailAll reaches each of them once.
LEMMA BeforeOrdersByIndex ==
    ASSUME NEW C, IsFiniteSet(C), \A c \in C : c.index \in Nat, OnePerIndex(C)
    PROVE  /\ \A c \in C : Before(c, C) \in 0..Cardinality(C) - 1
           /\ \A c, d \in C : Before(c, C) = Before(d, C) => c = d
           /\ \A i \in 1..Cardinality(C) : \E c \in C : Before(c, C) = i - 1
<1> DEFINE low(c) == {d \in C : d.index < c.index}
           rank == [c \in C |-> Before(c, C)]
<1>1. \A c \in C : /\ IsFiniteSet(low(c)) /\ Cardinality(low(c)) \in Nat
                   /\ Cardinality(low(c)) < Cardinality(C)
  <2> SUFFICES ASSUME NEW c \in C
               PROVE  /\ IsFiniteSet(low(c)) /\ Cardinality(low(c)) \in Nat
                      /\ Cardinality(low(c)) < Cardinality(C)
      OBVIOUS
  <2>1. low(c) \in SUBSET C /\ c \notin low(c)
        OBVIOUS
  <2>2. low(c) # C
        BY <2>1
  <2> HIDE DEF low
  <2>3. IsFiniteSet(low(c)) /\ Cardinality(low(c)) <= Cardinality(C)
        BY <2>1, FS_Subset
  <2>4. Cardinality(C) # Cardinality(low(c))
        BY <2>1, <2>2, FS_Subset
  <2>5. Cardinality(low(c)) \in Nat /\ Cardinality(C) \in Nat
        BY <2>3, FS_CardinalityType
  <2> QED  BY <2>3, <2>4, <2>5
<1>2. \A c \in C : Before(c, C) = Cardinality(low(c))
      BY DEF Before
<1>3. ASSUME NEW c \in C, NEW d \in C, c.index < d.index
      PROVE  Before(c, C) < Before(d, C)
  <2>1. low(c) \in SUBSET low(d) /\ c \in low(d) /\ c \notin low(c)
        BY <1>3
  <2> HIDE DEF low
  <2>2. low(c) # low(d)
        BY <2>1
  <2>3. Cardinality(low(c)) <= Cardinality(low(d))
        BY <2>1, <1>1, FS_Subset
  <2>4. Cardinality(low(d)) # Cardinality(low(c))
        BY <2>1, <2>2, <1>1, FS_Subset
  <2> QED  BY <2>3, <2>4, <1>1, <1>2
<1>4. Cardinality(C) \in Nat
      BY FS_CardinalityType
<1>5. \A c \in C : Before(c, C) \in 0..Cardinality(C) - 1
  <2> HIDE DEF low
  <2> QED  BY <1>1, <1>2, <1>4
<1>6. \A c, d \in C : Before(c, C) = Before(d, C) => c = d
  <2> SUFFICES ASSUME NEW c \in C, NEW d \in C, Before(c, C) = Before(d, C)
               PROVE  c = d
      OBVIOUS
  <2>1. ~(c.index < d.index) /\ ~(d.index < c.index)
        BY <1>3, <1>5, <1>4
  <2>2. c.index = d.index
        BY <2>1
  <2> QED  BY <2>2 DEF OnePerIndex
<1>7. \A i \in 1..Cardinality(C) : \E c \in C : Before(c, C) = i - 1
  <2> DEFINE R == 0..Cardinality(C) - 1
  <2>1. rank \in [C -> R]
        BY <1>5
  <2>2. rank \in Injection(C, R)
        BY <2>1, <1>6 DEF Injection, IsInjective
  <2>3. IsFiniteSet(R) /\ Cardinality(R) = Cardinality(C)
    <3> DEFINE k == Cardinality(C)
    <3>1. k \in Nat
          BY <1>4
    <3> HIDE DEF k
    <3>2. 0 \in Int /\ k - 1 \in Int
          BY <3>1
    <3>3. /\ IsFiniteSet(0..k - 1)
          /\ Cardinality(0..k - 1) = IF 0 > k - 1 THEN 0 ELSE k - 1 - 0 + 1
          BY <3>2, FS_Interval
    <3>4. Cardinality(0..k - 1) = k
          BY <3>1, <3>3
    <3> QED  BY <3>3, <3>4 DEF k
  <2> HIDE DEF rank, R
  <2>4. rank \in Surjection(C, R)
        BY <2>2, <2>3, FS_Injection
  <2>5. \A j \in R : \E c \in C : rank[c] = j
        BY <2>4 DEF Surjection
  <2> USE DEF rank, R
  <2> QED  BY <2>5, <1>4
<1> QED  BY <1>5, <1>6, <1>7

\* What the answers of notify_noleader_error are, and to whom.
LEMMA FailAllAnswers ==
    ASSUME NEW n, IsFiniteSet(callbacks[n]),
           \A c \in callbacks[n] : c.index \in Nat, OnePerIndex(callbacks[n])
    PROVE  /\ Len(FailAll(n)) \in Nat
           /\ DOMAIN FailAll(n) = 1..Len(FailAll(n))
           /\ \A i \in DOMAIN FailAll(n) :
                  \E c \in callbacks[n] : /\ FailAll(n)[i] = Reply(c.req, FALSE)
                                          /\ Before(c, callbacks[n]) = i - 1
           /\ \A c \in callbacks[n] :
                  \E i \in DOMAIN FailAll(n) : /\ FailAll(n)[i] = Reply(c.req, FALSE)
                                               /\ Before(c, callbacks[n]) = i - 1
           /\ \A S : (\A c \in callbacks[n] : Reply(c.req, FALSE) \in S) =>
                      FailAll(n) \in Seq(S)
<1> DEFINE C == callbacks[n]
           at(i) == CHOOSE d \in C : Before(d, C) = i - 1
           all == [i \in 1..Cardinality(C) |-> Reply(at(i).req, FALSE)]
<1>1. FailAll(n) = all
      BY DEF FailAll
<1>2. Cardinality(C) \in Nat
      BY FS_CardinalityType
<1>3. /\ \A c \in C : Before(c, C) \in 0..Cardinality(C) - 1
      /\ \A c, d \in C : Before(c, C) = Before(d, C) => c = d
      /\ \A i \in 1..Cardinality(C) : \E c \in C : Before(c, C) = i - 1
      BY BeforeOrdersByIndex
<1> HIDE DEF C
<1>4. \A i \in 1..Cardinality(C) : at(i) \in C /\ Before(at(i), C) = i - 1
      BY <1>3
<1>5. ASSUME NEW c \in C
      PROVE  \E i \in 1..Cardinality(C) : i = Before(c, C) + 1 /\ at(i) = c
  <2> DEFINE i == Before(c, C) + 1
  <2>1. i \in 1..Cardinality(C) /\ i - 1 = Before(c, C)
        BY <1>2, <1>3
  <2>2. at(i) \in C /\ Before(at(i), C) = i - 1
        BY <2>1, <1>4
  <2>3. at(i) = c
        BY <2>1, <2>2, <1>3
  <2> QED  BY <2>1, <2>3
<1> HIDE DEF at
<1>6. DOMAIN all = 1..Cardinality(C) /\ Len(all) = Cardinality(C)
      BY <1>2
<1>7. \A i \in 1..Cardinality(C) : all[i] = Reply(at(i).req, FALSE)
      OBVIOUS
<1>8. ASSUME NEW S, \A c \in C : Reply(c.req, FALSE) \in S
      PROVE  all \in Seq(S)
  <2>1. \A i \in 1..Cardinality(C) : Reply(at(i).req, FALSE) \in S
        BY <1>4, <1>8
  <2>2. all \in [1..Cardinality(C) -> S]
        BY <2>1
  <2> HIDE DEF all
  <2> QED  BY <1>2, <2>2
<1> HIDE DEF all
<1>9. \A c \in C : Before(c, C) \in Int
      BY <1>3, <1>2
<1>10. \A c \in C : \E i \in 1..Cardinality(C) :
           all[i] = Reply(c.req, FALSE) /\ Before(c, C) = i - 1
  <2> SUFFICES ASSUME NEW c \in C
               PROVE  \E i \in 1..Cardinality(C) :
                          all[i] = Reply(c.req, FALSE) /\ Before(c, C) = i - 1
      OBVIOUS
  <2>1. PICK i \in 1..Cardinality(C) : i = Before(c, C) + 1 /\ at(i) = c
        BY <1>5
  <2>2. Before(c, C) = i - 1
        BY <2>1, <1>9
  <2>3. all[i] = Reply(c.req, FALSE)
        BY <2>1, <1>7
  <2> QED  BY <2>2, <2>3
<1>11. \A i \in 1..Cardinality(C) :
           \E c \in C : all[i] = Reply(c.req, FALSE) /\ Before(c, C) = i - 1
      BY <1>4, <1>7
<1>12. \A S : (\A c \in C : Reply(c.req, FALSE) \in S) => all \in Seq(S)
  <2> HIDE DEF C
  <2> QED  BY <1>8, Zenon
<1>13. Len(all) \in Nat /\ DOMAIN all = 1..Len(all)
      BY <1>2, <1>6
<1>14. DOMAIN all = 1..Cardinality(C)
      BY <1>6
<1>15. /\ \A i \in DOMAIN FailAll(n) :
             \E c \in C : FailAll(n)[i] = Reply(c.req, FALSE) /\ Before(c, C) = i - 1
      /\ \A c \in C :
             \E i \in DOMAIN FailAll(n) : FailAll(n)[i] = Reply(c.req, FALSE)
                                          /\ Before(c, C) = i - 1
  <2> HIDE DEF C
  <2> QED  BY <1>1, <1>10, <1>11, <1>14
<1>16. /\ Len(FailAll(n)) \in Nat /\ DOMAIN FailAll(n) = 1..Len(FailAll(n))
      /\ \A S : (\A c \in C : Reply(c.req, FALSE) \in S) => FailAll(n) \in Seq(S)
      BY <1>1, <1>12, <1>13
<1> QED  BY <1>15, <1>16 DEF C

-----------------------------------------------------------------------------
(* append_entries_callback counts acknowledgements.                         *)

Callbacks == [index : Nat, waits : 1..Majority - 1, req : Request]
Counts == [callbacks : SUBSET Callbacks, committed : Nat, done : Seq(Request)]

\* Every request has one callback.
OnePerRequest(C) == \A c, d \in C : c.req = d.req => c = d

\* The callback is for the same request and index.
Same(c, d) == c.index = d.index /\ c.req = d.req

\* What the loop has made of the callbacks C: each is left, with fewer
\* acknowledgements to wait for, or its request is done, once.
Counted(C, st) ==
    /\ IsFiniteSet(st.callbacks) /\ OnePerIndex(st.callbacks)
    /\ \A d \in st.callbacks : \E c \in C : Same(c, d)
    /\ \A j \in DOMAIN st.done :
           /\ \E c \in C : c.req = st.done[j]
           /\ \A d \in st.callbacks : d.req # st.done[j]
    /\ \A c \in C : \/ \E d \in st.callbacks : Same(c, d)
                    \/ \E j \in DOMAIN st.done : st.done[j] = c.req
    /\ \A j, k \in DOMAIN st.done : st.done[j] = st.done[k] => j = k

\* A majority is at least two: do_relicate waits for one acknowledgement or more.
LEMMA Majorities == Cardinality(Node) \in Nat /\ Majority \in Nat /\ Majority >= 2
<1>1. Cardinality(Node) \in Nat /\ Cardinality(Node) >= 2
      BY NodeAssumption, FS_CardinalityType
<1> QED  BY <1>1 DEF Majority

\* One turn of append_entries_callback.
LEMMA CountAckKeeps ==
    ASSUME NEW C, NEW st \in Counts, Counted(C, st), OnePerRequest(C), NEW i
    PROVE  CountAck(st, i) \in Counts /\ Counted(C, CountAck(st, i))
<1> DEFINE found == {c \in st.callbacks : c.index = i}
           c == CHOOSE x \in found : TRUE
           nu == CountAck(st, i)
<1>1. CASE found = {}
  <2>1. nu = st
        BY <1>1 DEF CountAck
  <2> QED  BY <2>1
<1>2. CASE found # {} /\ c.waits = 1
  <2>1. nu = [callbacks |-> st.callbacks \ {c}, committed |-> i,
              done |-> Append(st.done, c.req)]
        BY <1>2 DEF CountAck
  <2>2. c \in st.callbacks /\ c.index = i
        BY <1>2
  <2> HIDE DEF c, nu
  <2>3. st.callbacks \in SUBSET Callbacks /\ st.done \in Seq(Request)
        BY DEF Counts
  <2>4. c.req \in Request /\ i \in Nat
        BY <2>2, <2>3 DEF Callbacks
  <2>5. /\ nu.callbacks = st.callbacks \ {c} /\ nu.done = Append(st.done, c.req)
        /\ nu.callbacks \in SUBSET Callbacks /\ nu.done \in Seq(Request)
        BY <2>1, <2>3, <2>4
  <2>6. nu \in Counts
        BY <2>1, <2>3, <2>4, <2>5 DEF Counts
  <2>7. /\ DOMAIN nu.done = 1..Len(st.done) + 1 /\ Len(st.done) \in Nat
        /\ DOMAIN st.done = 1..Len(st.done)
        /\ \A j \in 1..Len(st.done) : nu.done[j] = st.done[j]
        /\ nu.done[Len(st.done) + 1] = c.req
        BY <2>3, <2>4, <2>5
  <2>8. IsFiniteSet(nu.callbacks) /\ OnePerIndex(nu.callbacks)
        BY <2>5, FS_RemoveElement DEF Counted, OnePerIndex
  <2>9. \A d \in nu.callbacks : \E b \in C : Same(b, d)
        BY <2>5 DEF Counted
  <2>10. PICK b \in C : Same(b, c)
         BY <2>2 DEF Counted
  <2>11. \A d \in nu.callbacks : d.req # c.req
    <3> SUFFICES ASSUME NEW d \in nu.callbacks, d.req = c.req PROVE FALSE
        OBVIOUS
    <3>1. PICK a \in C : Same(a, d)
          BY <2>9
    <3>2. a.req = b.req
          BY <3>1, <2>10 DEF Same
    <3>3. a = b
          BY <3>2 DEF OnePerRequest
    <3>4. d.index = c.index
          BY <3>1, <3>3, <2>10 DEF Same
    <3>5. d = c
          BY <3>4, <2>2, <2>5 DEF Counted, OnePerIndex
    <3> QED  BY <3>5, <2>5
  <2>12. ASSUME NEW j \in DOMAIN nu.done
         PROVE  /\ \E a \in C : a.req = nu.done[j]
                /\ \A d \in nu.callbacks : d.req # nu.done[j]
    <3>1. CASE j = Len(st.done) + 1
          BY <3>1, <2>7, <2>10, <2>11 DEF Same
    <3>2. CASE j # Len(st.done) + 1
      <4>1. j \in DOMAIN st.done /\ nu.done[j] = st.done[j]
            BY <3>2, <2>7
      <4> QED  BY <4>1, <2>5 DEF Counted
    <3> QED  BY <3>1, <3>2
  <2>13. ASSUME NEW a \in C
         PROVE  \/ \E d \in nu.callbacks : Same(a, d)
                \/ \E j \in DOMAIN nu.done : nu.done[j] = a.req
    <3>1. CASE \E d \in st.callbacks : Same(a, d)
      <4>1. PICK d \in st.callbacks : Same(a, d)
            BY <3>1
      <4>2. CASE d = c
        <5>1. Len(st.done) + 1 \in DOMAIN nu.done
              BY <2>7
        <5> QED  BY <5>1, <4>1, <4>2, <2>7 DEF Same
      <4>3. CASE d # c
            BY <4>1, <4>3, <2>5
      <4> QED  BY <4>2, <4>3
    <3>2. CASE \E j \in DOMAIN st.done : st.done[j] = a.req
      <4>1. PICK j \in DOMAIN st.done : st.done[j] = a.req
            BY <3>2
      <4>2. j \in DOMAIN nu.done /\ nu.done[j] = st.done[j]
            BY <2>7
      <4> QED  BY <4>1, <4>2
    <3> QED  BY <3>1, <3>2 DEF Counted
  <2>14. ASSUME NEW j \in DOMAIN st.done PROVE st.done[j] # c.req
         BY <2>2 DEF Counted
  <2>15. ASSUME NEW j \in DOMAIN nu.done, NEW k \in DOMAIN nu.done,
                nu.done[j] = nu.done[k]
         PROVE  j = k
    <3>1. j \in DOMAIN st.done \/ j = Len(st.done) + 1
          BY <2>7
    <3>2. k \in DOMAIN st.done \/ k = Len(st.done) + 1
          BY <2>7
    <3>3. CASE j \in DOMAIN st.done /\ k \in DOMAIN st.done
      <4>1. st.done[j] = st.done[k]
            BY <3>3, <2>7, <2>15
      <4> QED  BY <4>1, <3>3 DEF Counted
    <3>4. ~(j \in DOMAIN st.done /\ k = Len(st.done) + 1)
          BY <2>7, <2>14, <2>15
    <3>5. ~(k \in DOMAIN st.done /\ j = Len(st.done) + 1)
          BY <2>7, <2>14, <2>15
    <3> QED  BY <3>1, <3>2, <3>3, <3>4, <3>5
  <2>16. \A j, k \in DOMAIN nu.done : nu.done[j] = nu.done[k] => j = k
         BY <2>15
  <2> HIDE <1>2
  <2>17. Counted(C, nu)
         BY <2>8, <2>9, <2>12, <2>13, <2>16, Zenon DEF Counted
  <2> QED  BY <2>6, <2>17 DEF nu
<1>3. CASE found # {} /\ c.waits # 1
  <2> DEFINE e == [c EXCEPT !.waits = @ - 1]
  <2>1. nu = [st EXCEPT !.callbacks = (@ \ {c}) \union {e}]
        BY <1>3 DEF CountAck
  <2>2. c \in st.callbacks /\ c.index = i /\ c.waits # 1
        BY <1>3
  <2> HIDE DEF c, nu
  <2>3. st.callbacks \in SUBSET Callbacks /\ st.done \in Seq(Request)
        BY DEF Counts
  <2>4. c \in Callbacks
        BY <2>2, <2>3
  <2>5. e \in Callbacks /\ Same(c, e)
        BY <2>2, <2>4, Majorities DEF Callbacks, Same
  <2> HIDE DEF e
  <2>6. /\ nu.callbacks = (st.callbacks \ {c}) \union {e}
        /\ nu.done = st.done /\ nu.committed = st.committed
        /\ nu \in Counts
        BY <2>1, <2>3, <2>5 DEF Counts
  <2>7. IsFiniteSet(nu.callbacks)
    <3>1. IsFiniteSet(st.callbacks \ {c})
          BY FS_RemoveElement DEF Counted
    <3> QED  BY <3>1, <2>6, FS_AddElement
  <2>8. ASSUME NEW d \in nu.callbacks
        PROVE  \E b \in st.callbacks : Same(b, d) /\ (b = c <=> d = e)
        BY <2>2, <2>5, <2>6 DEF Same, Counted, OnePerIndex
  <2>9. OnePerIndex(nu.callbacks)
    <3> SUFFICES ASSUME NEW a \in nu.callbacks, NEW d \in nu.callbacks,
                        a.index = d.index
                 PROVE  a = d
        BY DEF OnePerIndex
    <3>1. \A x, y \in st.callbacks : x.index = y.index => x = y
          BY DEF Counted, OnePerIndex
    <3> QED  BY <3>1, <2>2, <2>5, <2>6 DEF Same
  <2>10. ASSUME NEW d \in nu.callbacks PROVE \E b \in C : Same(b, d)
    <3>1. PICK b \in st.callbacks : Same(b, d)
          BY <2>8
    <3>2. PICK a \in C : Same(a, b)
          BY DEF Counted
    <3> QED  BY <3>1, <3>2 DEF Same
  <2>11. ASSUME NEW j \in DOMAIN st.done, NEW d \in nu.callbacks
         PROVE  d.req # st.done[j]
    <3>1. PICK b \in st.callbacks : Same(b, d)
          BY <2>8
    <3> QED  BY <3>1 DEF Counted, Same
  <2>12. ASSUME NEW a \in C, NEW d \in st.callbacks, Same(a, d)
         PROVE  \E b \in nu.callbacks : Same(a, b)
    <3>1. CASE d = c
          BY <3>1, <2>12, <2>5, <2>6 DEF Same
    <3>2. CASE d # c
          BY <3>2, <2>12, <2>6
    <3> QED  BY <3>1, <3>2
  <2>13. /\ \A j \in DOMAIN st.done : \E a \in C : a.req = st.done[j]
         /\ \A a \in C : \/ \E d \in st.callbacks : Same(a, d)
                         \/ \E j \in DOMAIN st.done : st.done[j] = a.req
         /\ \A j, k \in DOMAIN st.done : st.done[j] = st.done[k] => j = k
         BY DEF Counted
  <2>14. \A a \in C : \/ \E d \in nu.callbacks : Same(a, d)
                     \/ \E j \in DOMAIN st.done : st.done[j] = a.req
         BY <2>12, <2>13
  <2>15. /\ \A j \in DOMAIN nu.done :
               /\ \E a \in C : a.req = nu.done[j]
               /\ \A d \in nu.callbacks : d.req # nu.done[j]
         /\ \A a \in C : \/ \E d \in nu.callbacks : Same(a, d)
                         \/ \E j \in DOMAIN nu.done : nu.done[j] = a.req
         /\ \A j, k \in DOMAIN nu.done : nu.done[j] = nu.done[k] => j = k
    <3>1. nu.done = st.done
          BY <2>6
    <3> QED  BY <3>1, <2>11, <2>13, <2>14
  <2> HIDE <1>3
  <2>16. Counted(C, nu)
         BY <2>7, <2>9, <2>10, <2>15, Zenon DEF Counted
  <2> QED  BY <2>6, <2>16 DEF nu
<1> QED  BY <1>1, <1>2, <1>3

\* What holds before append_entries_callback and after each of its turns holds when
\* it ends, for an answer of any length.
LEMMA CountAcksStay ==
    ASSUME NEW n, NEW I, NEW indexes \in Seq(I), NEW S,
           [callbacks |-> callbacks[n], committed |-> committed[n], done |-> <<>>] \in S,
           \A st \in S, i \in I : CountAck(st, i) \in S
    PROVE  CountAcks(n, indexes) \in S
<1> DEFINE start == [callbacks |-> callbacks[n], committed |-> committed[n],
                     done |-> <<>>]
           step == [x \in S \X I |-> CountAck(x[1], x[2])]
           Loop(f) == f = [i \in 0..Len(indexes) |->
                              IF i = 0 THEN start ELSE CountAck(f[i - 1], indexes[i])]
           turn == CHOOSE f : Loop(f)
<1>1. start \in S
      OBVIOUS
<1>2. \A st \in S, i \in I : CountAck(st, i) \in S
      OBVIOUS
<1>3. step \in [S \X I -> S]
      BY <1>2
<1>4. Len(indexes) \in Nat /\ \A i \in 1..Len(indexes) : indexes[i] \in I
      OBVIOUS
<1> HIDE DEF start
<1>5. \E f : Loop(f)
  <2> HIDE DEF step
  <2>1. PICK f : Turns(f, S, step, start, indexes)
        BY <1>1, <1>3, TurnsExist, Zenon
  <2>2. ASSUME NEW i \in 0..Len(indexes)
        PROVE  f[i] = IF i = 0 THEN start ELSE CountAck(f[i - 1], indexes[i])
    <3>1. CASE i = 0
          BY <3>1, <2>1 DEF Turns
    <3>2. CASE i # 0
      <4>1. i \in 1..Len(indexes) /\ f[i - 1] \in S /\ indexes[i] \in I
            BY <3>2, <2>1, <1>4 DEF Turns
      <4>2. step[<<f[i - 1], indexes[i]>>] = CountAck(f[i - 1], indexes[i])
            BY <4>1 DEF step
      <4> QED  BY <3>2, <2>1, <4>1, <4>2 DEF Turns
    <3> QED  BY <3>1, <3>2
  <2>3. f \in [0..Len(indexes) -> S]
        BY <2>1 DEF Turns
  <2>4. Loop(f)
        BY <2>2, <2>3
  <2> QED  BY <2>4
<1>6. Loop(turn)
  <2> HIDE DEF Loop
  <2> QED  BY <1>5
<1> HIDE DEF turn, step
<1>7. turn[0] \in S
      BY <1>6, <1>1, <1>4
<1>8. ASSUME NEW i \in 1..Len(indexes), turn[i - 1] \in S
      PROVE  turn[i] \in S
  <2>1. turn[i] = CountAck(turn[i - 1], indexes[i])
        BY SMTT(20), <1>6, <1>4
  <2> QED  BY <2>1, <1>2, <1>4, <1>8
<1>9. turn[Len(indexes)] \in S
  <2>1. \A i \in 1..Len(indexes) : turn[i - 1] \in S => turn[i] \in S
        BY <1>8
  <2>2. \A i \in 0..Len(indexes) : turn[i] \in S
        BY <1>4, <1>7, <2>1, TurnsStay, Zenon
  <2> QED  BY <1>4, <2>2
<1>10. CountAcks(n, indexes) = turn[Len(indexes)]
       BY DEF CountAcks, turn, start
<1> QED  BY <1>9, <1>10

\* append_entries_callback as a whole.
LEMMA CountAcksKeeps ==
    ASSUME NEW n, NEW indexes \in Seq(Nat), committed[n] \in Nat,
           callbacks[n] \in SUBSET Callbacks, IsFiniteSet(callbacks[n]),
           OnePerIndex(callbacks[n]), OnePerRequest(callbacks[n])
    PROVE  /\ CountAcks(n, indexes) \in Counts
           /\ Counted(callbacks[n], CountAcks(n, indexes))
<1> DEFINE C == callbacks[n]
           S == {st \in Counts : Counted(C, st)}
           start == [callbacks |-> callbacks[n], committed |-> committed[n],
                     done |-> <<>>]
<1>1. start \in S
  <2>1. start \in Counts
        BY DEF Counts
  <2>2. Counted(C, start)
        BY DEF Counted, Same
  <2> QED  BY <2>1, <2>2
<1>2. \A st \in S, i \in Nat : CountAck(st, i) \in S
      BY CountAckKeeps
<1>3. CountAcks(n, indexes) \in S
  <2> HIDE DEF S
  <2> QED  BY <1>1, <1>2, CountAcksStay, Zenon
<1> QED  BY <1>3

\* The commit index afterwards is one of those that the answer names, if it is new.
LEMMA CountAcksCommit ==
    ASSUME NEW n, NEW I \in SUBSET Nat, NEW indexes \in Seq(I), committed[n] \in Nat,
           callbacks[n] \in SUBSET Callbacks, IsFiniteSet(callbacks[n]),
           OnePerIndex(callbacks[n]), OnePerRequest(callbacks[n])
    PROVE  CountAcks(n, indexes).committed \in I \union {committed[n]}
<1> DEFINE C == callbacks[n]
           T == I \union {committed[n]}
           S == {st \in Counts : Counted(C, st) /\ st.committed \in T}
           start == [callbacks |-> callbacks[n], committed |-> committed[n],
                     done |-> <<>>]
<1>1. start \in S
  <2>1. start \in Counts /\ start.committed \in T
        BY DEF Counts
  <2>2. Counted(C, start)
        BY DEF Counted, Same
  <2> QED  BY <2>1, <2>2
<1>2. ASSUME NEW st \in S, NEW i \in I PROVE CountAck(st, i) \in S
  <2>1. CountAck(st, i) \in Counts /\ Counted(C, CountAck(st, i))
        BY CountAckKeeps
  <2>2. CountAck(st, i).committed \in {i, st.committed}
        BY DEF CountAck, Counts
  <2>3. CountAck(st, i).committed \in T
        BY <2>2
  <2> QED  BY <2>1, <2>3
<1>3. CountAcks(n, indexes) \in S
  <2> HIDE DEF S
  <2> QED  BY <1>1, <1>2, CountAcksStay, Zenon
<1> QED  BY <1>3

-----------------------------------------------------------------------------
(* handle_append_entries_request stores entries.                            *)

Stores == [log : Seq(Entry), check : BOOLEAN, end : {"none", "throw", "truncate"}]

\* One turn of the loop of handle_append_entries_request.
LEMMA StoreEntryTyped ==
    ASSUME NEW commit, NEW st \in Stores, NEW e \in Entry
    PROVE  StoreEntry(commit, st, e) \in Stores
<1>1. st.log \in Seq(Entry) /\ Append(st.log, e) \in Seq(Entry)
      BY DEF Stores
<1>2. [st EXCEPT !.log = Append(@, e)] \in Stores
      BY <1>1 DEF Stores
<1>3. /\ [st EXCEPT !.end = "throw"] \in Stores
      /\ [st EXCEPT !.end = "truncate"] \in Stores
      BY DEF Stores
<1>4. [log |-> Append(st.log, e), check |-> FALSE, end |-> "none"] \in Stores
      BY <1>1 DEF Stores
<1>5. \/ StoreEntry(commit, st, e) = st
      \/ StoreEntry(commit, st, e) = [st EXCEPT !.log = Append(@, e)]
      \/ StoreEntry(commit, st, e) = [st EXCEPT !.end = "throw"]
      \/ StoreEntry(commit, st, e) = [st EXCEPT !.end = "truncate"]
      \/ StoreEntry(commit, st, e)
             = [log |-> Append(st.log, e), check |-> FALSE, end |-> "none"]
      BY DEF StoreEntry, Write, TruncateSuffix
<1> QED  BY <1>2, <1>3, <1>4, <1>5

\* The loop as a whole, for a request of any length: f is what there is after each turn.
StoreTurns(f, p, q) ==
    /\ f \in [0..Len(q.entries) -> Stores]
    /\ f[0] = [log |-> log[p], check |-> TRUE, end |-> "none"]
    /\ \A i \in 1..Len(q.entries) : f[i] = StoreEntry(committed[p], f[i - 1], q.entries[i])

\* The loop over the entries of a request is the last of its turns, counted from 0.
LEMMA StoreEntriesTurns ==
    ASSUME NEW p, NEW q, q.entries \in Seq(Entry), log[p] \in Seq(Entry)
    PROVE  \E f : StoreTurns(f, p, q) /\ StoreEntries(p, q) = f[Len(q.entries)]
<1> DEFINE seq == q.entries
           start == [log |-> log[p], check |-> TRUE, end |-> "none"]
           step == [x \in Stores \X Entry |-> StoreEntry(committed[p], x[1], x[2])]
           Loop(f) == f = [i \in 0..Len(seq) |->
                              IF i = 0 THEN start
                              ELSE StoreEntry(committed[p], f[i - 1], seq[i])]
           turn == CHOOSE f : Loop(f)
<1>1. start \in Stores
      BY DEF Stores
<1>2. \A st \in Stores, e \in Entry : StoreEntry(committed[p], st, e) \in Stores
      BY StoreEntryTyped
<1>3. step \in [Stores \X Entry -> Stores]
      BY <1>2
<1>4. /\ seq \in Seq(Entry) /\ Len(seq) \in Nat
      /\ \A i \in 1..Len(seq) : seq[i] \in Entry
      OBVIOUS
<1> HIDE DEF start, seq
<1>5. \E f : Loop(f)
  <2> HIDE DEF step
  <2>1. PICK f : Turns(f, Stores, step, start, seq)
        BY <1>1, <1>3, <1>4, TurnsExist, Zenon
  <2>2. ASSUME NEW i \in 0..Len(seq)
        PROVE  f[i] = IF i = 0 THEN start
                      ELSE StoreEntry(committed[p], f[i - 1], seq[i])
    <3>1. CASE i = 0
          BY <3>1, <2>1 DEF Turns
    <3>2. CASE i # 0
      <4>1. i \in 1..Len(seq) /\ f[i - 1] \in Stores /\ seq[i] \in Entry
            BY <3>2, <2>1, <1>4 DEF Turns
      <4>2. step[<<f[i - 1], seq[i]>>] = StoreEntry(committed[p], f[i - 1], seq[i])
            BY <4>1 DEF step
      <4> QED  BY <3>2, <2>1, <4>1, <4>2 DEF Turns
    <3> QED  BY <3>1, <3>2
  <2>3. f \in [0..Len(seq) -> Stores]
        BY <2>1 DEF Turns
  <2>4. Loop(f)
        BY <2>2, <2>3
  <2> QED  BY <2>4
<1>6. Loop(turn)
  <2> HIDE DEF Loop
  <2> QED  BY <1>5
<1> HIDE DEF turn, step
<1>7. turn[0] \in Stores
      BY <1>6, <1>1, <1>4
<1>8. \A i \in 1..Len(seq) : turn[i - 1] \in Stores => turn[i] \in Stores
  <2> SUFFICES ASSUME NEW i \in 1..Len(seq), turn[i - 1] \in Stores
               PROVE  turn[i] \in Stores
      OBVIOUS
  <2>1. turn[i] = StoreEntry(committed[p], turn[i - 1], seq[i])
        BY SMTT(20), <1>6, <1>4
  <2> QED  BY <2>1, <1>2, <1>4
<1>9. \A i \in 0..Len(seq) : turn[i] \in Stores
      BY <1>4, <1>7, <1>8, TurnsStay, Zenon
<1>10. StoreTurns(turn, p, q)
  <2>1. turn \in [0..Len(seq) -> Stores]
    <3>1. turn = [i \in 0..Len(seq) |-> turn[i]]
          BY <1>6
    <3> QED  BY <1>9, <3>1
  <2>2. turn[0] = start
        BY <1>6, <1>4
  <2>3. \A i \in 1..Len(seq) : turn[i] = StoreEntry(committed[p], turn[i - 1], seq[i])
        BY SMTT(20), <1>6, <1>4
  <2> QED  BY <2>1, <2>2, <2>3 DEF StoreTurns, start, seq
<1>11. StoreEntries(p, q) = turn[Len(seq)]
       BY DEF StoreEntries, turn, start, seq
<1> QED  BY <1>10, <1>11 DEF seq

\* The loop ends in a log, a check and an end of their types.
LEMMA StoreEntriesTyped ==
    ASSUME NEW p, NEW q, q.entries \in Seq(Entry), log[p] \in Seq(Entry)
    PROVE  StoreEntries(p, q) \in Stores
<1>1. PICK f : StoreTurns(f, p, q) /\ StoreEntries(p, q) = f[Len(q.entries)]
      BY StoreEntriesTurns
<1>2. Len(q.entries) \in 0..Len(q.entries)
      OBVIOUS
<1> QED  BY <1>1, <1>2 DEF StoreTurns

-----------------------------------------------------------------------------
(* Types.  Those of terms, roles, timers and threads are known; the rest:    *)

LogTypes ==
    /\ votes \in [Node -> Nat]
    /\ abort \in [Node -> {"none", "truncate", "order", "terminate"}]
    /\ log \in [Node -> Seq(Entry)]
    /\ committed \in [Node -> Nat]
    /\ appendTimers \in [Node -> SUBSET Request]
    /\ applying \in [Node -> Seq(Entry)]
    /\ applied \in [Node -> Seq(Request)]

ReplyTypes ==
    /\ callbacks \in [Node -> SUBSET Callbacks]
    /\ committer \in [Node -> Seq(Items)]

Requests == VoteRequests \union AppendRequests
Messages == Requests \union Answers

CallTypes ==
    /\ next \in [Link -> Nat]
    /\ match \in [Link -> Nat]
    /\ beat \in [Link -> BOOLEAN]
    /\ call \in [Link -> Messages \union {NoCall}]
    /\ late \subseteq [from : Node, to : Node, request : Requests]

CallerTypes ==
    /\ req \in [Request -> [pc : {"new", "checked", "written", "waiting",
                                  "ok", "failed"},
                            node : Node \union {Nil}, index : Nat]]
    /\ elections \in 0..MaxElections
    /\ fails \in 0..MaxFails
    /\ leaders \subseteq Node \X Nat

KnownTypes == VoteInv /\ TimerInv /\ ThreadInv

\* With what is known of the other variables, the four parts are TypeOK.
LEMMA TypesTogether ==
    ASSUME KnownTypes
    PROVE  TypeOK <=> LogTypes /\ ReplyTypes /\ CallTypes /\ CallerTypes
<1>1. RaftTypeOK <=> votes \in [Node -> Nat]
                     /\ abort \in [Node -> {"none", "truncate", "order", "terminate"}]
      BY DEF KnownTypes, VoteInv, TermTypeOK, TimerInv, TimerTypeOK, ThreadInv,
             ThreadTypeOK, RaftTypeOK
<1>2. LogTypeOK /\ votes \in [Node -> Nat]
         /\ abort \in [Node -> {"none", "truncate", "order", "terminate"}]
      <=> LogTypes /\ ReplyTypes
      BY DEF LogTypeOK, LogTypes, ReplyTypes, Callbacks
<1>3. PeerTypeOK /\ late \subseteq [from : Node, to : Node, request : Requests]
      <=> CallTypes
      BY DEF KnownTypes, ThreadInv, ThreadTypeOK, Modes, Commands, PeerTypeOK,
             CallTypes, Messages, Requests
<1>4. EnvTypeOK <=> CallerTypes
                    /\ late \subseteq [from : Node, to : Node, request : Requests]
      BY DEF KnownTypes, VoteInv, TermTypeOK, EnvTypeOK, CallerTypes, Requests
<1> QED  BY <1>1, <1>2, <1>3, <1>4 DEF TypeOK, LogTypes, CallTypes

-----------------------------------------------------------------------------
(* Who is to answer which request.                                          *)

IsReply(n, i) == i \in DOMAIN committer[n] /\ committer[n][i].op = "reply"

\* A request gets its node and its index on its way.
CallersKnown ==
    \A r \in Request :
        /\ req[r].pc = "new" => req[r].node = Nil
        /\ req[r].pc \in {"checked", "written", "waiting"} => req[r].node \in Node
        /\ req[r].pc \in {"new", "checked"} => req[r].index = 0
        /\ req[r].pc \in {"written", "waiting"} => req[r].index > 0

\* A callback is for the index that its request was written to, and the
\* request waits for it.
CallbacksKnown ==
    \A n \in Node :
        /\ IsFiniteSet(callbacks[n]) /\ OnePerIndex(callbacks[n])
        /\ \A c \in callbacks[n] :
               /\ req[c.req].pc = "waiting"
               /\ req[c.req].node = n /\ req[c.req].index = c.index

\* Who is to be answered by the committer thread waits for it, has no callback
\* any more, and has no other answer on the way.
RepliesKnown ==
    \A n \in Node : \A i \in DOMAIN committer[n] :
        IsReply(n, i) =>
            LET r == committer[n][i].req IN
            /\ req[r].pc = "waiting" /\ req[r].node = n
            /\ \A c \in callbacks[n] : c.req # r
            /\ \A j \in DOMAIN committer[n] :
                   IsReply(n, j) /\ committer[n][j].req = r => i = j

WillBeAnswered(r) ==
    LET n == req[r].node IN
    \/ \E c \in callbacks[n] : c.req = r
    \/ \E i \in DOMAIN committer[n] : IsReply(n, i) /\ committer[n][i].req = r

\* Who waits will be answered, but for a collision or a crash.
WaitersKnown ==
    \A r \in Request :
        req[r].pc = "waiting" /\ Alive(req[r].node) => WillBeAnswered(r) \/ Collides(r)

RequestInv == CallersKnown /\ CallbacksKnown /\ RepliesKnown /\ WaitersKnown

\* The timers that EarlyTimeout = FALSE leaves to their callbacks.
TimersKnown ==
    /\ \A r \in Request : req[r].pc = "written" => r \in appendTimers[req[r].node]
    /\ CallbackCanTimeOut


\* Of the callbacks C those in D are left, with the same requests, and the items
\* new answer the others once.
Handed(C, D, new) ==
    /\ IsFiniteSet(D) /\ OnePerIndex(D)
    /\ \A d \in D : \E c \in C : Same(c, d)
    /\ \A j \in DOMAIN new : new[j].op = "reply" =>
           /\ \E c \in C : c.req = new[j].req
           /\ \A d \in D : d.req # new[j].req
           /\ \A k \in DOMAIN new :
                  new[k].op = "reply" /\ new[k].req = new[j].req => j = k
    /\ \A c \in C : \/ \E d \in D : Same(c, d)
                    \/ \E j \in DOMAIN new : new[j].op = "reply" /\ new[j].req = c.req

\* The items of two sequences, one behind the other.
LEMMA Joined ==
    ASSUME NEW S, NEW s \in Seq(S), NEW t \in Seq(S)
    PROVE  /\ s \o t \in Seq(S)
           /\ \A i \in DOMAIN s : i \in DOMAIN (s \o t) /\ (s \o t)[i] = s[i]
           /\ \A j \in DOMAIN t : /\ Len(s) + j \in DOMAIN (s \o t)
                                 /\ (s \o t)[Len(s) + j] = t[j]
           /\ \A i \in DOMAIN (s \o t) :
                  \/ i \in DOMAIN s
                  \/ \E j \in DOMAIN t : i = Len(s) + j
<1>1. /\ s \o t \in Seq(S) /\ Len(s \o t) = Len(s) + Len(t)
      /\ DOMAIN (s \o t) = 1..Len(s) + Len(t)
      /\ DOMAIN s = 1..Len(s) /\ DOMAIN t = 1..Len(t)
      /\ Len(s) \in Nat /\ Len(t) \in Nat
      OBVIOUS
<1>2. \A i \in 1..Len(s) + Len(t) :
          (s \o t)[i] = IF i <= Len(s) THEN s[i] ELSE t[i - Len(s)]
      OBVIOUS
<1>3. ASSUME NEW j \in DOMAIN t
      PROVE  Len(s) + j \in DOMAIN (s \o t) /\ (s \o t)[Len(s) + j] = t[j]
  <2>1. Len(s) + j \in 1..Len(s) + Len(t) /\ ~(Len(s) + j <= Len(s))
        /\ (Len(s) + j) - Len(s) = j
        BY <1>1
  <2> QED  BY <2>1, <1>1, <1>2
<1>4. ASSUME NEW i \in DOMAIN (s \o t)
      PROVE  i \in DOMAIN s \/ \E j \in DOMAIN t : i = Len(s) + j
  <2>1. CASE i <= Len(s)
        BY <2>1, <1>1
  <2>2. CASE ~(i <= Len(s))
    <3>1. i - Len(s) \in DOMAIN t /\ i = Len(s) + (i - Len(s))
          BY <2>2, <1>1
    <3> QED  BY <3>1
  <2> QED  BY <2>1, <2>2
<1> QED  BY <1>1, <1>2, <1>3, <1>4

\* A step that hands over callbacks of one node keeps account of the requests.
LEMMA HandedOver ==
    ASSUME RequestInv, ReplyTypes, NEW n \in Node, NEW D, NEW new \in Seq(Items),
           Handed(callbacks[n], D, new), UNCHANGED req,
           callbacks' = [callbacks EXCEPT ![n] = D],
           committer' = [committer EXCEPT ![n] = @ \o new],
           \A m \in Node : abort'[m] = "none" => abort[m] = "none"
    PROVE  RequestInv'
<1> DEFINE C == callbacks[n]
           s == committer[n]
<1>1. /\ callbacks'[n] = D /\ committer'[n] = s \o new
      /\ \A m \in Node : m # n => callbacks'[m] = callbacks[m] /\ committer'[m] = committer[m]
      BY DEF ReplyTypes
<1>2. /\ \A i \in DOMAIN s : i \in DOMAIN committer'[n] /\ committer'[n][i] = s[i]
      /\ \A j \in DOMAIN new : /\ Len(s) + j \in DOMAIN committer'[n]
                               /\ committer'[n][Len(s) + j] = new[j]
      /\ \A i \in DOMAIN committer'[n] :
             i \in DOMAIN s \/ \E j \in DOMAIN new : i = Len(s) + j
  <2>1. s \in Seq(Items)
        BY DEF ReplyTypes
  <2> HIDE DEF s
  <2>2. /\ \A i \in DOMAIN s : i \in DOMAIN (s \o new) /\ (s \o new)[i] = s[i]
        /\ \A j \in DOMAIN new : /\ Len(s) + j \in DOMAIN (s \o new)
                                 /\ (s \o new)[Len(s) + j] = new[j]
        /\ \A i \in DOMAIN (s \o new) :
               i \in DOMAIN s \/ \E j \in DOMAIN new : i = Len(s) + j
        BY <2>1, Joined
  <2>3. committer'[n] = s \o new
        BY <1>1
  <2> QED  BY <2>2, <2>3, Zenon
<1>3. CallersKnown'
      BY DEF RequestInv, CallersKnown
<1>4. CallbacksKnown'
  <2> SUFFICES ASSUME NEW m \in Node
               PROVE  /\ IsFiniteSet(callbacks'[m]) /\ OnePerIndex(callbacks'[m])
                      /\ \A c \in callbacks'[m] :
                            /\ req[c.req].pc = "waiting"
                            /\ req[c.req].node = m /\ req[c.req].index = c.index
      BY DEF CallbacksKnown
  <2>1. CASE m # n
        BY <2>1, <1>1 DEF RequestInv, CallbacksKnown
  <2>2. CASE m = n
        BY <2>2, <1>1 DEF RequestInv, CallbacksKnown, Handed, Same
  <2> QED  BY <2>1, <2>2
<1>5. ASSUME NEW i \in DOMAIN s, IsReply(n, i), NEW c \in C
      PROVE  c.req # s[i].req
      BY <1>5 DEF RequestInv, RepliesKnown
<1>6. RepliesKnown'
  <2> DEFINE R(m, i) == committer'[m][i].req
             IsR(m, i) == i \in DOMAIN committer'[m] /\ committer'[m][i].op = "reply"
  <2> SUFFICES ASSUME NEW m \in Node, NEW i \in DOMAIN committer'[m], IsR(m, i)
               PROVE  /\ req[R(m, i)].pc = "waiting" /\ req[R(m, i)].node = m
                      /\ \A c \in callbacks'[m] : c.req # R(m, i)
                      /\ \A j \in DOMAIN committer'[m] :
                            IsR(m, j) /\ R(m, j) = R(m, i) => i = j
      BY DEF RepliesKnown, IsReply
  <2>1. CASE m # n
        BY <2>1, <1>1 DEF RequestInv, RepliesKnown, IsReply
  <2>2. CASE m = n /\ i \in DOMAIN s
    <3>1. IsReply(n, i) /\ R(n, i) = s[i].req
          BY <2>2, <1>2 DEF IsReply
    <3>2. /\ req[s[i].req].pc = "waiting" /\ req[s[i].req].node = n
          /\ \A c \in C : c.req # s[i].req
          /\ \A j \in DOMAIN s : IsReply(n, j) /\ s[j].req = s[i].req => i = j
          BY <3>1, <2>2 DEF RequestInv, RepliesKnown
    <3>3. \A c \in D : c.req # s[i].req
          BY <3>2 DEF Handed, Same
    <3>4. ASSUME NEW j \in DOMAIN committer'[n], IsR(n, j), R(n, j) = s[i].req
          PROVE  i = j
      <4>1. CASE j \in DOMAIN s
            BY <4>1, <3>2, <3>4, <1>2 DEF IsReply
      <4>2. CASE \E k \in DOMAIN new : j = Len(s) + k
        <5>1. PICK k \in DOMAIN new : j = Len(s) + k
              BY <4>2
        <5>2. new[k].op = "reply" /\ new[k].req = s[i].req
              BY <5>1, <3>4, <1>2
        <5>3. \E c \in C : c.req = s[i].req
              BY <5>2 DEF Handed
        <5> QED  BY <5>3, <3>2
      <4> QED  BY <4>1, <4>2, <1>2
    <3> QED  BY <2>2, <3>1, <3>2, <3>3, <3>4, <1>1
  <2>3. CASE m = n /\ \E k \in DOMAIN new : i = Len(s) + k
    <3>1. PICK k \in DOMAIN new : i = Len(s) + k
          BY <2>3
    <3>2. new[k].op = "reply" /\ R(n, i) = new[k].req
          BY <2>3, <3>1, <1>2
    <3>3. PICK c \in C : c.req = new[k].req
          BY <3>2 DEF Handed
    <3>4. req[c.req].pc = "waiting" /\ req[c.req].node = n
          BY DEF RequestInv, CallbacksKnown
    <3>5. \A d \in D : d.req # new[k].req
          BY <3>2 DEF Handed
    <3>6. ASSUME NEW j \in DOMAIN committer'[n], IsR(n, j), R(n, j) = new[k].req
          PROVE  i = j
      <4>1. CASE j \in DOMAIN s
        <5>1. IsReply(n, j) /\ s[j].req = c.req
              BY <4>1, <3>6, <3>3, <1>2 DEF IsReply
        <5> QED  BY <5>1, <4>1, <1>5
      <4>2. CASE \E h \in DOMAIN new : j = Len(s) + h
        <5>1. PICK h \in DOMAIN new : j = Len(s) + h
              BY <4>2
        <5>2. new[h].op = "reply" /\ new[h].req = new[k].req
              BY <5>1, <3>6, <1>2
        <5>3. k = h
              BY <5>2, <3>2 DEF Handed
        <5> QED  BY <5>1, <5>3, <3>1
      <4> QED  BY <4>1, <4>2, <1>2
    <3> QED  BY ZenonT(40), <2>3, <3>2, <3>3, <3>4, <3>5, <3>6, <1>1
  <2> QED  BY <2>1, <2>2, <2>3, <1>2
<1>7. WaitersKnown'
  <2> DEFINE At(r) == req[r].node
             Will(r) == \/ \E c \in callbacks'[At(r)] : c.req = r
                        \/ \E i \in DOMAIN committer'[At(r)] :
                              committer'[At(r)][i].op = "reply" /\ committer'[At(r)][i].req = r
  <2> SUFFICES ASSUME NEW r \in Request, req[r].pc = "waiting", abort'[At(r)] = "none"
               PROVE  Will(r) \/ Collides(r)
      BY DEF WaitersKnown, WillBeAnswered, IsReply, Collides, Alive
  <2>1. At(r) \in Node
        BY DEF RequestInv, CallersKnown
  <2>2. CASE At(r) # n
        BY <2>1, <2>2, <1>1 DEF RequestInv, WaitersKnown, WillBeAnswered, IsReply, Alive
  <2>3. CASE At(r) = n
    <3>1. WillBeAnswered(r) \/ Collides(r)
          BY <2>1 DEF RequestInv, WaitersKnown, Alive
    <3>2. CASE \E c \in C : c.req = r
      <4>1. PICK c \in C : c.req = r
            BY <3>2
      <4>2. CASE \E d \in D : Same(c, d)
            BY <4>1, <4>2, <2>3, <1>1 DEF Same
      <4>3. CASE \E j \in DOMAIN new : new[j].op = "reply" /\ new[j].req = c.req
        <5>1. PICK j \in DOMAIN new : new[j].op = "reply" /\ new[j].req = c.req
              BY <4>3
        <5>2. /\ Len(s) + j \in DOMAIN committer'[n]
              /\ committer'[n][Len(s) + j].op = "reply"
              /\ committer'[n][Len(s) + j].req = r
              BY <5>1, <4>1, <1>2
        <5>3. \E i \in DOMAIN committer'[n] :
                  committer'[n][i].op = "reply" /\ committer'[n][i].req = r
              BY <5>2
        <5> QED  BY <5>3, <2>3
      <4> QED  BY <4>1, <4>2, <4>3 DEF Handed
    <3>3. CASE \E i \in DOMAIN s : IsReply(n, i) /\ s[i].req = r
          BY <3>3, <2>3, <1>2 DEF IsReply
    <3> QED  BY <2>3, <3>1, <3>2, <3>3 DEF WillBeAnswered
  <2> QED  BY <2>2, <2>3
<1> QED  BY <1>3, <1>4, <1>6, <1>7 DEF RequestInv

-----------------------------------------------------------------------------
(* The ways to hand over callbacks.                                         *)

NoReplies(new) == \A j \in DOMAIN new : new[j].op # "reply"

\* Nobody is answered.
LEMMA HandedNone ==
    ASSUME RequestInv, NEW n \in Node, NEW new, NoReplies(new)
    PROVE  Handed(callbacks[n], callbacks[n], new)
BY DEF RequestInv, CallbacksKnown, Handed, NoReplies, Same

\* At most one callback is for a request.
LEMMA CallbacksDiffer ==
    ASSUME RequestInv, NEW n \in Node
    PROVE  /\ IsFiniteSet(callbacks[n]) /\ OnePerIndex(callbacks[n])
           /\ OnePerRequest(callbacks[n])
BY DEF RequestInv, CallbacksKnown, OnePerIndex, OnePerRequest

\* step_down tells every caller of the failure (notify_noleader_error).
LEMMA HandedFailAll ==
    ASSUME RequestInv, ReplyTypes, NEW n \in Node, NEW more \in Seq(Items),
           NoReplies(more)
    PROVE  /\ FailAll(n) \in Seq(Items)
           /\ FailAll(n) \o more \in Seq(Items)
           /\ Handed(callbacks[n], {}, FailAll(n) \o more)
<1> DEFINE C == callbacks[n]
           all == FailAll(n)
           new == all \o more
<1>1. /\ IsFiniteSet(C) /\ OnePerIndex(C) /\ OnePerRequest(C)
      /\ C \in SUBSET Callbacks
      BY CallbacksDiffer DEF ReplyTypes
<1>2. \A c \in C : c.index \in Nat /\ Reply(c.req, FALSE) \in Items
      BY <1>1 DEF Callbacks, Reply, Items
<1>3. all \in Seq(Items)
      BY <1>1, <1>2, FailAllAnswers
<1>4. /\ \A i \in DOMAIN all :
             \E c \in C : all[i] = Reply(c.req, FALSE) /\ Before(c, C) = i - 1
      /\ \A c \in C :
             \E i \in DOMAIN all : all[i] = Reply(c.req, FALSE) /\ Before(c, C) = i - 1
      BY <1>1, <1>2, FailAllAnswers
<1> HIDE DEF C, all
<1>5. DOMAIN all = 1..Len(all) /\ Len(all) \in Nat
      BY <1>3
<1>6. ASSUME NEW i \in DOMAIN all, NEW k \in DOMAIN all, all[i].req = all[k].req
      PROVE  i = k
  <2>1. PICK c \in C : all[i] = Reply(c.req, FALSE) /\ Before(c, C) = i - 1
        BY <1>4
  <2>2. PICK d \in C : all[k] = Reply(d.req, FALSE) /\ Before(d, C) = k - 1
        BY <1>4
  <2>3. c = d
        BY <1>6, <1>1, <2>1, <2>2 DEF OnePerRequest, Reply
  <2> QED  BY <2>1, <2>2, <2>3, <1>5
<1>7. /\ new \in Seq(Items)
      /\ \A i \in DOMAIN all : i \in DOMAIN new /\ new[i] = all[i]
      /\ \A j \in DOMAIN more : /\ Len(all) + j \in DOMAIN new
                                /\ new[Len(all) + j] = more[j]
      /\ \A i \in DOMAIN new :
             i \in DOMAIN all \/ \E j \in DOMAIN more : i = Len(all) + j
      BY <1>3, Joined
<1> HIDE DEF new
<1>8. ASSUME NEW i \in DOMAIN new, new[i].op = "reply"
      PROVE  i \in DOMAIN all /\ new[i] = all[i]
      BY <1>7, <1>8 DEF NoReplies
<1>9. ASSUME NEW j \in DOMAIN new, new[j].op = "reply"
      PROVE  /\ \E c \in C : c.req = new[j].req
             /\ \A k \in DOMAIN new :
                    new[k].op = "reply" /\ new[k].req = new[j].req => j = k
  <2>1. j \in DOMAIN all /\ new[j] = all[j]
        BY <1>8, <1>9
  <2>2. \E c \in C : c.req = new[j].req
        BY <2>1, <1>4 DEF Reply
  <2>3. ASSUME NEW k \in DOMAIN new, new[k].op = "reply", new[k].req = new[j].req
        PROVE  j = k
        BY <2>1, <2>3, <1>8, <1>6
  <2> QED  BY <2>2, <2>3
<1>10. ASSUME NEW c \in C
       PROVE  \E j \in DOMAIN new : new[j].op = "reply" /\ new[j].req = c.req
  <2>1. PICK i \in DOMAIN all : all[i] = Reply(c.req, FALSE)
        BY <1>4
  <2> QED  BY <2>1, <1>7 DEF Reply
<1>11. Handed(C, {}, new)
       BY <1>9, <1>10, FS_EmptySet DEF Handed, OnePerIndex
<1> QED  BY <1>3, <1>7, <1>11 DEF C, all, new

\* append_entries_callback tells those of its success who have a majority.
LEMMA HandedAcks ==
    ASSUME NEW C, NEW acks \in Counts, Counted(C, acks)
    PROVE  LET new == [i \in DOMAIN acks.done |-> Reply(acks.done[i], TRUE)]
           IN  new \in Seq(Items) /\ Handed(C, acks.callbacks, new)
<1> DEFINE new == [i \in DOMAIN acks.done |-> Reply(acks.done[i], TRUE)]
<1>1. acks.done \in Seq(Request)
      BY DEF Counts
<1>2. /\ DOMAIN new = DOMAIN acks.done
      /\ \A i \in DOMAIN new : new[i].op = "reply" /\ new[i].req = acks.done[i]
      BY DEF Reply
<1>3. new \in Seq(Items)
  <2>1. \A i \in DOMAIN acks.done : Reply(acks.done[i], TRUE) \in Items
        BY <1>1 DEF Reply, Items
  <2>2. Len(acks.done) \in Nat /\ DOMAIN acks.done = 1..Len(acks.done)
        BY <1>1
  <2>3. new \in [1..Len(acks.done) -> Items]
        BY <2>1, <2>2
  <2> HIDE DEF new
  <2> QED  BY <2>2, <2>3
<1> HIDE DEF new
<1>4. Handed(C, acks.callbacks, new)
      BY <1>2 DEF Counted, Handed
<1> QED  BY <1>3, <1>4 DEF new

\* The append timeout tells the one whose index it has.
LEMMA HandedTimeout ==
    ASSUME RequestInv, ReplyTypes, NEW n \in Node, NEW r, TimedOut(n, r) # {}
    PROVE  LET c == CHOOSE c \in TimedOut(n, r) : TRUE
           IN  /\ Reply(c.req, FALSE) \in Items
               /\ Handed(callbacks[n], callbacks[n] \ TimedOut(n, r),
                         <<Reply(c.req, FALSE)>>)
<1> DEFINE C == callbacks[n]
           c == CHOOSE x \in TimedOut(n, r) : TRUE
           D == C \ TimedOut(n, r)
           new == <<Reply(c.req, FALSE)>>
<1>1. c \in C /\ c.index = req[r].index
      BY DEF TimedOut
<1> HIDE DEF c
<1>2. IsFiniteSet(C) /\ OnePerIndex(C) /\ OnePerRequest(C) /\ C \in SUBSET Callbacks
      BY CallbacksDiffer DEF ReplyTypes
<1>3. D = C \ {c}
      BY <1>1, <1>2 DEF TimedOut, OnePerIndex
<1>4. Reply(c.req, FALSE) \in Items
      BY <1>1, <1>2 DEF Callbacks, Reply, Items
<1>5. DOMAIN new = {1} /\ new[1].op = "reply" /\ new[1].req = c.req
      BY DEF Reply
<1> HIDE DEF C, D, new
<1>6. IsFiniteSet(D) /\ OnePerIndex(D)
      BY <1>2, <1>3, FS_RemoveElement DEF OnePerIndex
<1>7. \A d \in D : d.req # c.req
      BY <1>1, <1>2, <1>3 DEF OnePerRequest
<1>8. \A a \in C : a = c \/ (a \in D /\ Same(a, a))
      BY <1>3 DEF Same
<1>9. Handed(C, D, new)
      BY <1>1, <1>3, <1>5, <1>6, <1>7, <1>8 DEF Handed
<1> QED  BY <1>4, <1>9 DEF C, D, new, c

-----------------------------------------------------------------------------
(* Every step keeps the types and the account of the requests.  First the    *)
(* callbacks and the queue of the committer.                                *)

DataInv == LogTypes /\ ReplyTypes /\ CallTypes /\ CallerTypes /\ RequestInv

\* No process comes back from an assertion.
DeadStay == \A m \in Node : abort'[m] = "none" => abort[m] = "none"

\* Callbacks become answers in the queue of the committer.
LEMMA RepliesMove ==
    ASSUME RequestInv, ReplyTypes, DeadStay, UNCHANGED req,
           NEW n \in Node, NEW D \in SUBSET Callbacks, NEW new \in Seq(Items),
           Handed(callbacks[n], D, new),
           callbacks' = [callbacks EXCEPT ![n] = D],
           committer' = [committer EXCEPT ![n] = @ \o new]
    PROVE  RequestInv' /\ ReplyTypes'
<1>1. RequestInv'
      BY HandedOver DEF DeadStay
<1>2. committer[n] \o new \in Seq(Items)
  <2>1. committer[n] \in Seq(Items)
        BY DEF ReplyTypes
  <2> QED  BY <2>1
<1>3. ReplyTypes'
      BY <1>2 DEF ReplyTypes
<1> QED  BY <1>1, <1>3

\* Neither callbacks nor the queue nor the callers change.
LEMMA RepliesStay ==
    ASSUME RequestInv, ReplyTypes, DeadStay, UNCHANGED <<callbacks, committer, req>>
    PROVE  RequestInv' /\ ReplyTypes'
<1>1. ReplyTypes'
      BY DEF ReplyTypes
<1>2. CallersKnown' /\ CallbacksKnown'
      BY DEF RequestInv, CallersKnown, CallbacksKnown
<1>3. RepliesKnown'
      BY DEF RequestInv, RepliesKnown, IsReply
<1>4. WaitersKnown'
  <2> SUFFICES ASSUME NEW r \in Request, req[r].pc = "waiting",
                      abort'[req[r].node] = "none"
               PROVE  WillBeAnswered(r) \/ Collides(r)
      BY DEF WaitersKnown, WillBeAnswered, IsReply, Collides, Alive
  <2>1. abort[req[r].node] = "none"
        BY DEF DeadStay, RequestInv, CallersKnown
  <2> QED  BY <2>1 DEF RequestInv, WaitersKnown, Alive
<1> QED  BY <1>1, <1>2, <1>3, <1>4 DEF RequestInv

\* Steps after which only new items, no replies, are in the queue.
LEMMA RepliesAppend ==
    ASSUME RequestInv, ReplyTypes, DeadStay, UNCHANGED <<callbacks, req>>,
           NEW n \in Node, NEW new \in Seq(Items), NoReplies(new),
           committer' = [committer EXCEPT ![n] = @ \o new]
    PROVE  RequestInv' /\ ReplyTypes'
<1>1. callbacks' = [callbacks EXCEPT ![n] = callbacks[n]]
      /\ callbacks[n] \in SUBSET Callbacks
      BY DEF ReplyTypes
<1>2. Handed(callbacks[n], callbacks[n], new)
      BY HandedNone
<1> QED  BY <1>1, <1>2, RepliesMove

\* step_down with what is queued after it.
LEMMA RepliesFail ==
    ASSUME RequestInv, ReplyTypes, DeadStay, UNCHANGED req,
           NEW n \in Node, NEW more \in Seq(Items), NoReplies(more),
           callbacks' = [callbacks EXCEPT ![n] = {}],
           committer' = [committer EXCEPT ![n] = @ \o (FailAll(n) \o more)]
    PROVE  RequestInv' /\ ReplyTypes'
<1> DEFINE new == FailAll(n) \o more
<1>1. new \in Seq(Items) /\ Handed(callbacks[n], {}, new)
      BY HandedFailAll
<1> HIDE DEF new
<1>2. committer' = [committer EXCEPT ![n] = @ \o new]
      BY DEF new
<1> QED  BY <1>1, <1>2, RepliesMove

\* Nothing is queued behind the answers.
LEMMA NothingMore == <<>> \in Seq(Items) /\ NoReplies(<<>>)
BY DEF NoReplies

\* handle_new_term and the others that queue nothing else.
LEMMA RepliesFailOnly ==
    ASSUME RequestInv, ReplyTypes, DeadStay, UNCHANGED req, NEW n \in Node,
           callbacks' = [callbacks EXCEPT ![n] = {}],
           committer' = [committer EXCEPT ![n] = @ \o FailAll(n)]
    PROVE  RequestInv' /\ ReplyTypes'
<1>1. FailAll(n) \in Seq(Items)
      BY HandedFailAll, NothingMore
<1>2. FailAll(n) \o <<>> = FailAll(n)
      BY <1>1
<1>3. committer' = [committer EXCEPT ![n] = @ \o (FailAll(n) \o <<>>)]
      BY <1>2
<1> QED  BY <1>3, NothingMore, RepliesFail

\* The apply task of handle_append_entries_request answers nobody.
LEMMA ToApplyTyped ==
    ASSUME NEW p, NEW q, NEW out, q.commit \in Nat
    PROVE  ToApply(p, q, out) \in Seq(Items) /\ NoReplies(ToApply(p, q, out))
<1>1. ApplyTo(q.commit) \in Items /\ ApplyTo(q.commit).op = "apply"
      BY DEF ApplyTo, Items
<1>2. CASE ToApply(p, q, out) = <<ApplyTo(q.commit)>>
      BY <1>1, <1>2 DEF NoReplies
<1>3. CASE ToApply(p, q, out) = <<>>
      BY <1>3, NothingMore
<1> QED  BY <1>2, <1>3 DEF ToApply

\* handle_vote_request
LEMMA VoteRequestReplies ==
    ASSUME RequestInv, ReplyTypes, NEW p \in Node, NEW n, NEW q,
           HandleVoteRequest(p, n, q)
    PROVE  RequestInv' /\ ReplyTypes'
<1>1. DeadStay /\ UNCHANGED req
      BY DEF HandleVoteRequest, DeadStay
<1>2. CASE q.term > currentTerm[p] \/ NewVote(p, q)
      BY <1>1, <1>2, RepliesFailOnly DEF HandleVoteRequest, StepDown
<1>3. CASE ~(q.term > currentTerm[p] \/ NewVote(p, q))
      BY <1>1, <1>3, RepliesStay DEF HandleVoteRequest
<1> QED  BY <1>2, <1>3

\* handle_append_entries_request
LEMMA AppendRequestReplies ==
    ASSUME RequestInv, ReplyTypes, abort = [m \in Node |-> abort[m]],
           NEW p \in Node, NEW q, q.commit \in Nat, HandleAppendRequest(p, q)
    PROVE  RequestInv' /\ ReplyTypes'
<1> DEFINE more == ToApply(p, q, AppendOutcome(p, q))
<1>1. DeadStay /\ UNCHANGED req
      BY DEF HandleAppendRequest, DeadStay, Alive
<1>2. more \in Seq(Items) /\ NoReplies(more)
      BY ToApplyTyped
<1>3. CASE q.term > currentTerm[p]
  <2>1. /\ callbacks' = [callbacks EXCEPT ![p] = {}]
        /\ committer' = [committer EXCEPT ![p] = @ \o FailAll(p) \o more]
        BY <1>3 DEF HandleAppendRequest, StepDown
  <2>2. FailAll(p) \in Seq(Items) /\ committer[p] \in Seq(Items)
        BY HandedFailAll, NothingMore DEF ReplyTypes
  <2> HIDE DEF more
  <2>3. (committer[p] \o FailAll(p)) \o more = committer[p] \o (FailAll(p) \o more)
    <3>1. \A a, b, c \in Seq(Items) : (a \o b) \o c = a \o (b \o c)
          BY SMTT(20), ConcatAssociative
    <3> QED  BY <1>2, <2>2, <3>1
  <2>4. committer' = [committer EXCEPT ![p] = @ \o (FailAll(p) \o more)]
        BY <2>1, <2>3
  <2> QED  BY <1>1, <1>2, <2>1, <2>4, RepliesFail
<1>4. CASE ~(q.term > currentTerm[p])
  <2>1. /\ UNCHANGED callbacks
        /\ committer' = [committer EXCEPT ![p] = @ \o more]
        BY <1>4 DEF HandleAppendRequest
  <2> HIDE DEF more
  <2> QED  BY <1>1, <1>2, <2>1, RepliesAppend
<1> QED  BY <1>3, <1>4

\* handle_vote_response
LEMMA VoteResponseReplies ==
    ASSUME RequestInv, ReplyTypes, NEW n \in Node, NEW p, VoteResponse(n, p)
    PROVE  RequestInv' /\ ReplyTypes'
<1> DEFINE answer == call[<<n, p>>]
           higher == answer.term > currentTerm[n]
           ignored == state[n] # Candidate \/ answer.term < currentTerm[n]
<1>1. DeadStay /\ UNCHANGED req
      BY DEF VoteResponse, DeadStay, envVars
<1>2. CASE ignored
      BY <1>1, <1>2, RepliesStay DEF VoteResponse
<1>3. CASE ~ignored
  <2>1. /\ callbacks' = [callbacks EXCEPT ![n] = IF higher THEN {} ELSE @]
        /\ committer' = [committer EXCEPT ![n] = IF higher THEN @ \o FailAll(n) ELSE @]
        BY <1>3 DEF VoteResponse
  <2>2. CASE higher
    <3>1. /\ callbacks' = [callbacks EXCEPT ![n] = {}]
          /\ committer' = [committer EXCEPT ![n] = @ \o FailAll(n)]
          BY <2>1, <2>2
    <3> QED  BY <1>1, <3>1, RepliesFailOnly
  <2>3. CASE ~higher
    <3>1. UNCHANGED <<callbacks, committer>>
          BY <2>1, <2>3 DEF ReplyTypes
    <3> QED  BY <1>1, <3>1, RepliesStay
  <2> QED  BY <2>2, <2>3
<1> QED  BY <1>2, <1>3

\* handle_new_term
LEMMA NewTermReplies ==
    ASSUME RequestInv, ReplyTypes, NEW n \in Node, NEW p, HandleNewTerm(n, p)
    PROVE  RequestInv' /\ ReplyTypes'
<1>1. DeadStay /\ UNCHANGED req
      BY DEF HandleNewTerm, DeadStay, envVars
<1>2. /\ callbacks' = [callbacks EXCEPT ![n] = {}]
      /\ committer' = [committer EXCEPT ![n] = @ \o FailAll(n)]
      BY DEF HandleNewTerm, StepDown
<1> QED  BY <1>1, <1>2, RepliesFailOnly

\* A successful answer to append_entries names the entries that were sent.
LEMMA SentTyped ==
    ASSUME CallTypes, NEW l \in Link, call[l].type = "append",
           call[l].stage = "response"
    PROVE  /\ call[l].sent \in Seq(Nat) /\ call[l].lastIndex \in Nat
           /\ call[l].term \in Nat
BY DEF CallTypes, Messages, Requests, VoteRequests, AppendRequests, Answers, NoCall

\* append_entries_callback
LEMMA AppendSuccessReplies ==
    ASSUME RequestInv, ReplyTypes, LogTypes, CallTypes, NEW n \in Node, NEW p,
           <<n, p>> \in Link, AppendSuccess(n, p)
    PROVE  /\ RequestInv' /\ ReplyTypes'
           /\ CountAcks(n, call[<<n, p>>].sent) \in Counts
           /\ Counted(callbacks[n], CountAcks(n, call[<<n, p>>].sent))
<1> DEFINE acks == CountAcks(n, call[<<n, p>>].sent)
           new == [i \in DOMAIN acks.done |-> Reply(acks.done[i], TRUE)]
<1>1. DeadStay /\ UNCHANGED req
      BY DEF AppendSuccess, DeadStay, envVars
<1>2. call[<<n, p>>].sent \in Seq(Nat)
      BY SentTyped DEF AppendSuccess
<1>3. callbacks[n] \in SUBSET Callbacks /\ committed[n] \in Nat
      BY DEF ReplyTypes, LogTypes
<1>4. acks \in Counts /\ Counted(callbacks[n], acks)
      BY <1>2, <1>3, CallbacksDiffer, CountAcksKeeps
<1>5. /\ callbacks' = [callbacks EXCEPT ![n] = acks.callbacks]
      /\ committer' = [committer EXCEPT ![n] = @ \o new]
      BY DEF AppendSuccess
<1> HIDE DEF acks
<1>6. new \in Seq(Items) /\ Handed(callbacks[n], acks.callbacks, new)
      BY <1>4, HandedAcks
<1>7. acks.callbacks \in SUBSET Callbacks
      BY <1>4 DEF Counts
<1> HIDE DEF new
<1>8. RequestInv' /\ ReplyTypes'
      BY <1>1, <1>5, <1>6, <1>7, RepliesMove
<1> QED  BY <1>4, <1>8 DEF acks

\* The action of set_timeout.
LEMMA AppendTimeoutReplies ==
    ASSUME RequestInv, ReplyTypes, NEW n \in Node, NEW r, AppendTimeout(n, r)
    PROVE  RequestInv' /\ ReplyTypes'
<1> DEFINE found == TimedOut(n, r)
           new == <<Reply((CHOOSE c \in found : TRUE).req, FALSE)>>
<1>1. DeadStay /\ UNCHANGED req
      BY DEF AppendTimeout, DeadStay, envVars
<1>2. CASE found = {}
  <2>1. UNCHANGED <<callbacks, committer>>
        BY <1>2 DEF AppendTimeout, ReplyTypes
  <2> QED  BY <1>1, <2>1, RepliesStay
<1>3. CASE found # {}
  <2>1. /\ callbacks' = [callbacks EXCEPT ![n] = callbacks[n] \ found]
        /\ committer' = [committer EXCEPT ![n] =
                             Append(@, Reply((CHOOSE c \in found : TRUE).req, FALSE))]
        BY <1>3 DEF AppendTimeout
  <2>2. /\ Reply((CHOOSE c \in found : TRUE).req, FALSE) \in Items
        /\ Handed(callbacks[n], callbacks[n] \ found, new)
        BY <1>3, HandedTimeout
  <2>3. committer[n] \in Seq(Items) /\ callbacks[n] \ found \in SUBSET Callbacks
        BY DEF ReplyTypes
  <2> DEFINE item == Reply((CHOOSE c \in found : TRUE).req, FALSE)
  <2> HIDE DEF item
  <2>4. item \in Items /\ new = <<item>>
        BY <2>2 DEF item
  <2> HIDE DEF new
  <2>5. new \in Seq(Items) /\ Append(committer[n], item) = committer[n] \o new
        BY <2>3, <2>4
  <2>6. committer' = [committer EXCEPT ![n] = @ \o new]
        BY <2>1, <2>5 DEF item
  <2>7. callbacks' = [callbacks EXCEPT ![n] = callbacks[n] \ found]
        /\ Handed(callbacks[n], callbacks[n] \ found, new)
        BY <2>1, <2>2
  <2> HIDE DEF found
  <2> QED  BY <1>1, <2>3, <2>5, <2>6, <2>7, RepliesMove
<1> QED  BY <1>2, <1>3

\* Only requests that wait have a callback or an answer to come.
LEMMA OnlyWaiters ==
    ASSUME RequestInv, ReplyTypes, NEW m \in Node
    PROVE  /\ \A c \in callbacks[m] : c.req \in Request /\ req[c.req].pc = "waiting"
           /\ \A i \in DOMAIN committer[m] : IsReply(m, i) =>
                  /\ committer[m][i].req \in Request
                  /\ req[committer[m][i].req].pc = "waiting"
<1>1. ASSUME NEW i \in DOMAIN committer[m], IsReply(m, i)
      PROVE  committer[m][i].req \in Request
  <2>1. committer[m][i] \in Items /\ committer[m][i].op = "reply"
        BY <1>1 DEF ReplyTypes, IsReply
  <2> QED  BY <2>1 DEF Items
<1>2. ASSUME NEW i \in DOMAIN committer[m], IsReply(m, i)
      PROVE  req[committer[m][i].req].pc = "waiting"
      BY <1>2 DEF RequestInv, RepliesKnown
<1>3. \A c \in callbacks[m] : c.req \in Request /\ req[c.req].pc = "waiting"
      BY DEF ReplyTypes, Callbacks, RequestInv, CallbacksKnown
<1> QED  BY <1>1, <1>2, <1>3

\* The committer thread takes the first item off its queue; a reply ends the
\* request it is for.
LEMMA ItemPopped ==
    ASSUME RequestInv, ReplyTypes, DeadStay, NEW n \in Node,
           Len(committer[n]) > 0, UNCHANGED callbacks,
           committer' = [committer EXCEPT ![n] = Tail(@)],
           \A r \in Request :
               req'[r].node = req[r].node /\ req'[r].index = req[r].index,
           \A r \in Request :
               IF IsReply(n, 1) /\ r = committer[n][1].req
               THEN req'[r].pc \in {"ok", "failed"} ELSE req'[r].pc = req[r].pc
    PROVE  RequestInv' /\ ReplyTypes'
<1> DEFINE s == committer[n]
           t == committer'[n]
           Gone(r) == IsReply(n, 1) /\ r = s[1].req
<1>1. s \in Seq(Items) /\ Len(s) \in Nat /\ DOMAIN s = 1..Len(s)
      /\ t = Tail(s) /\ \A m \in Node : m # n => committer'[m] = committer[m]
      BY DEF ReplyTypes
<1>2. t \in Seq(Items) /\ DOMAIN t = 1..Len(s) - 1
      /\ \A i \in 1..Len(s) - 1 : t[i] = s[i + 1]
  <2> HIDE DEF t, s
  <2> QED  BY <1>1 DEF s
<1>3. ReplyTypes'
      BY <1>2 DEF ReplyTypes
<1> HIDE DEF t, s
<1>4. /\ \A i \in DOMAIN t : i + 1 \in DOMAIN s /\ t[i] = s[i + 1] /\ i + 1 # 1
      /\ \A i \in DOMAIN s : i # 1 => i - 1 \in DOMAIN t /\ t[i - 1] = s[i]
  <2>1. ASSUME NEW i \in DOMAIN s, i # 1
        PROVE  i - 1 \in DOMAIN t /\ t[i - 1] = s[i]
    <3>1. i - 1 \in 1..Len(s) - 1 /\ (i - 1) + 1 = i
          BY <2>1, <1>1
    <3> QED  BY <3>1, <1>2
  <2> QED  BY <2>1, <1>1, <1>2
<1>5. ASSUME NEW r, Gone(r)
      PROVE  /\ 1 \in DOMAIN s /\ req[r].pc = "waiting" /\ req[r].node = n
             /\ \A c \in callbacks[n] : c.req # r
             /\ \A j \in DOMAIN s : IsReply(n, j) /\ s[j].req = r => j = 1
  <2>1. 1 \in DOMAIN s /\ IsReply(n, 1) /\ r = committer[n][1].req
        BY <1>5 DEF IsReply, s
  <2> QED  BY <2>1 DEF RequestInv, RepliesKnown, s
<1>6. \A m \in Node : \A c \in callbacks[m] : c.req \in Request
      BY OnlyWaiters
<1>7. \A m \in Node : \A i \in DOMAIN committer[m] :
          IsReply(m, i) => committer[m][i].req \in Request
      BY OnlyWaiters
<1>8. CallersKnown'
  <2> SUFFICES ASSUME NEW r \in Request
               PROVE  /\ req'[r].pc = "new" => req'[r].node = Nil
                      /\ req'[r].pc \in {"checked", "written", "waiting"}
                            => req'[r].node \in Node
                      /\ req'[r].pc \in {"new", "checked"} => req'[r].index = 0
                      /\ req'[r].pc \in {"written", "waiting"} => req'[r].index > 0
      BY DEF CallersKnown
  <2>1. CASE Gone(r)
        BY <2>1 DEF s
  <2>2. CASE ~Gone(r)
        BY <2>2 DEF s, RequestInv, CallersKnown
  <2> QED  BY <2>1, <2>2
<1>9. CallbacksKnown'
  <2> SUFFICES ASSUME NEW m \in Node, NEW c \in callbacks[m]
               PROVE  /\ req'[c.req].pc = "waiting"
                      /\ req'[c.req].node = m /\ req'[c.req].index = c.index
      BY DEF CallbacksKnown, RequestInv
  <2>1. req[c.req].pc = "waiting" /\ req[c.req].node = m /\ req[c.req].index = c.index
        BY DEF RequestInv, CallbacksKnown
  <2>2. ~Gone(c.req)
        BY <1>5, <2>1
  <2> QED  BY <2>1, <2>2, <1>6 DEF s
<1>10. RepliesKnown'
  <2> DEFINE IsR(m, i) == i \in DOMAIN committer'[m] /\ committer'[m][i].op = "reply"
  <2> SUFFICES ASSUME NEW m \in Node, NEW i \in DOMAIN committer'[m], IsR(m, i),
                      NEW r, r = committer'[m][i].req
               PROVE  /\ req'[r].pc = "waiting" /\ req'[r].node = m
                      /\ \A c \in callbacks[m] : c.req # r
                      /\ \A j \in DOMAIN committer'[m] :
                            IsR(m, j) /\ committer'[m][j].req = r => i = j
      BY DEF RepliesKnown, IsReply
  <2>1. CASE m # n
    <3>1. /\ req[r].pc = "waiting" /\ req[r].node = m /\ r \in Request
          /\ \A c \in callbacks[m] : c.req # r
          /\ \A j \in DOMAIN committer'[m] :
                 IsR(m, j) /\ committer'[m][j].req = r => i = j
          BY <2>1, <1>1, <1>7 DEF RequestInv, RepliesKnown, IsReply
    <3>2. ~Gone(r)
          BY <1>5, <2>1, <3>1
    <3> QED  BY <3>1, <3>2 DEF s
  <2>2. CASE m = n
    <3>1. i \in DOMAIN t /\ t[i].op = "reply" /\ r = t[i].req
          BY <2>2 DEF t
    <3>2. i + 1 \in DOMAIN s /\ s[i + 1].op = "reply" /\ r = s[i + 1].req /\ i + 1 # 1
          BY <3>1, <1>4
    <3>3. IsReply(n, i + 1)
          BY <3>2 DEF IsReply, s
    <3>4. /\ req[r].pc = "waiting" /\ req[r].node = n /\ r \in Request
          /\ \A c \in callbacks[n] : c.req # r
          /\ \A j \in DOMAIN s : IsReply(n, j) /\ s[j].req = r => i + 1 = j
          BY <3>2, <3>3, <1>7 DEF RequestInv, RepliesKnown, s
    <3>5. ~Gone(r)
          BY <1>5, <3>2, <3>3
    <3>6. ASSUME NEW j \in DOMAIN t, t[j].op = "reply", t[j].req = r
          PROVE  i = j
      <4>1. j + 1 \in DOMAIN s /\ s[j + 1].op = "reply" /\ s[j + 1].req = r
            BY <3>6, <1>4
      <4>2. IsReply(n, j + 1)
            BY <4>1 DEF IsReply, s
      <4>3. i + 1 = j + 1
            BY <4>1, <4>2, <3>4
      <4> QED  BY <4>3, <1>2, <3>1
    <3> QED  BY <2>2, <3>4, <3>5, <3>6 DEF s, t
  <2> QED  BY <2>1, <2>2
<1>11. WaitersKnown'
  <2> DEFINE At(r) == req[r].node
             Will(r) == \/ \E c \in callbacks[At(r)] : c.req = r
                        \/ \E i \in DOMAIN committer'[At(r)] :
                              committer'[At(r)][i].op = "reply" /\ committer'[At(r)][i].req = r
  <2> SUFFICES ASSUME NEW r \in Request, req'[r].pc = "waiting",
                      abort'[At(r)] = "none"
               PROVE  Will(r) \/ Collides(r)
      BY DEF WaitersKnown, WillBeAnswered, IsReply, Collides, Alive
  <2>1. ~Gone(r) /\ req[r].pc = "waiting"
        BY DEF s
  <2>2. At(r) \in Node /\ abort[At(r)] = "none"
        BY <2>1 DEF RequestInv, CallersKnown, DeadStay
  <2>3. WillBeAnswered(r) \/ Collides(r)
        BY <2>1, <2>2 DEF RequestInv, WaitersKnown, Alive
  <2>4. CASE At(r) # n
        BY <2>2, <2>3, <2>4, <1>1 DEF WillBeAnswered, IsReply
  <2>5. CASE At(r) = n /\ \E i \in DOMAIN s : IsReply(n, i) /\ s[i].req = r
    <3>1. PICK i \in DOMAIN s : IsReply(n, i) /\ s[i].req = r
          BY <2>5
    <3>2. i # 1
          BY <2>1, <3>1
    <3>3. i - 1 \in DOMAIN t /\ t[i - 1].op = "reply" /\ t[i - 1].req = r
          BY <3>1, <3>2, <1>4 DEF IsReply, s
    <3>4. \E j \in DOMAIN t : t[j].op = "reply" /\ t[j].req = r
          BY <3>3
    <3> QED  BY <3>4, <2>5 DEF t
  <2> QED  BY <2>3, <2>4, <2>5 DEF WillBeAnswered, s
<1> QED  BY <1>3, <1>8, <1>9, <1>10, <1>11 DEF RequestInv

\* The committer thread answers a caller.
LEMMA RunReplyReplies ==
    ASSUME RequestInv, ReplyTypes, CallerTypes, NEW n \in Node, RunReply(n)
    PROVE  /\ RequestInv' /\ ReplyTypes'
           /\ Head(committer[n]).req \in Request
<1> DEFINE item == Head(committer[n])
           done == [req[item.req] EXCEPT !.pc = IF item.ok THEN "ok" ELSE "failed"]
<1>1. /\ committer[n] \in Seq(Items) /\ committer[n] # <<>> /\ item.op = "reply"
      /\ committer' = [committer EXCEPT ![n] = Tail(@)]
      BY DEF RunReply, NextItem, ReplyTypes
<1>2. Len(committer[n]) > 0 /\ item = committer[n][1] /\ item \in Items
      /\ 1 \in DOMAIN committer[n]
  <2> DEFINE s == committer[n]
  <2>1. s \in Seq(Items) /\ s # <<>>
        BY <1>1
  <2> HIDE DEF s
  <2>2. Len(s) > 0 /\ Head(s) = s[1] /\ Head(s) \in Items /\ 1 \in DOMAIN s
        BY <2>1
  <2> QED  BY <2>2 DEF s
<1>3. DeadStay /\ UNCHANGED callbacks /\ req' = [req EXCEPT ![item.req] = done]
      BY DEF RunReply, DeadStay
<1>4. item.req \in Request /\ IsReply(n, 1)
      BY <1>1, <1>2 DEF Items, IsReply
<1>5. /\ done.pc \in {"ok", "failed"}
      /\ done.node = req[item.req].node /\ done.index = req[item.req].index
      BY <1>4 DEF CallerTypes
<1> HIDE DEF item, done
<1>6. \A r \in Request :
          /\ req'[r].node = req[r].node /\ req'[r].index = req[r].index
          /\ IF r = item.req THEN req'[r].pc \in {"ok", "failed"}
             ELSE req'[r].pc = req[r].pc
      BY <1>3, <1>4, <1>5 DEF CallerTypes
<1>7. \A r \in Request :
          IF IsReply(n, 1) /\ r = committer[n][1].req
          THEN req'[r].pc \in {"ok", "failed"} ELSE req'[r].pc = req[r].pc
      BY <1>2, <1>4, <1>6
<1> QED  BY ZenonT(40), <1>1, <1>2, <1>3, <1>4, <1>6, <1>7, ItemPopped DEF item

\* The committer thread begins an apply task.
LEMMA ReadEntriesReplies ==
    ASSUME RequestInv, ReplyTypes, LogTypes, NEW n \in Node, ReadEntries(n)
    PROVE  RequestInv' /\ ReplyTypes'
<1>1. /\ committer[n] \in Seq(Items) /\ committer[n] # <<>>
      /\ Head(committer[n]).op = "apply"
      /\ committer' = [committer EXCEPT ![n] = Tail(@)]
      BY DEF ReadEntries, NextItem, ReplyTypes
<1>2. Len(committer[n]) > 0 /\ ~IsReply(n, 1)
  <2> DEFINE s == committer[n]
  <2>1. s \in Seq(Items) /\ s # <<>> /\ Head(s).op = "apply"
        BY <1>1
  <2> HIDE DEF s
  <2>2. Len(s) > 0 /\ s[1].op = "apply"
        BY <2>1
  <2> QED  BY <2>2 DEF s, IsReply
<1>3. UNCHANGED <<callbacks, req>>
      BY DEF ReadEntries
<1>4. DeadStay
      BY DEF ReadEntries, DeadStay, NextItem, Alive, LogTypes
<1> QED  BY <1>1, <1>2, <1>3, <1>4, ItemPopped

\* A caller finds that the node leads.
LEMMA CheckLeaderReplies ==
    ASSUME RequestInv, ReplyTypes, CallerTypes, NEW r \in Request, NEW n \in Node,
           CheckLeader(r, n)
    PROVE  RequestInv' /\ ReplyTypes'
<1>1. /\ req[r].pc = "new" /\ UNCHANGED <<callbacks, committer, abort>>
      /\ req'[r].pc = "checked" /\ req'[r].node = n /\ req'[r].index = req[r].index
      /\ \A s \in Request : s # r => req'[s] = req[s]
      BY DEF CheckLeader, logVars, CallerTypes
<1>2. ReplyTypes'
      BY <1>1 DEF ReplyTypes
<1>3. CallersKnown'
      BY <1>1 DEF RequestInv, CallersKnown
<1>4. \A m \in Node : \A c \in callbacks[m] : c.req \in Request /\ c.req # r
      BY <1>1, OnlyWaiters
<1>5. CallbacksKnown'
      BY <1>1, <1>4 DEF RequestInv, CallbacksKnown
<1>6. \A m \in Node : \A i \in DOMAIN committer[m] :
          IsReply(m, i) => committer[m][i].req \in Request /\ committer[m][i].req # r
      BY <1>1, OnlyWaiters
<1>7. RepliesKnown'
      BY <1>1, <1>6 DEF RequestInv, RepliesKnown, IsReply
<1>8. WaitersKnown'
  <2> SUFFICES ASSUME NEW s \in Request, s # r, req[s].pc = "waiting",
                      Alive(req[s].node)
               PROVE  WillBeAnswered(s) \/ Collides(s)'
      BY <1>1 DEF WaitersKnown, WillBeAnswered, IsReply, Alive
  <2>1. CASE Collides(s)
    <3>1. PICK x \in Request \ {s} :
              req[x].node = req[s].node /\ req[x].index = req[s].index
          BY <2>1 DEF Collides
    <3>2. x # r
          BY <1>1, <3>1, NilAssumption DEF RequestInv, CallersKnown
    <3> QED  BY <1>1, <3>1, <3>2 DEF Collides
  <2> QED  BY <2>1 DEF RequestInv, WaitersKnown
<1> QED  BY <1>2, <1>3, <1>5, <1>7, <1>8 DEF RequestInv

\* A caller's entry gets its index.
LEMMA WriteEntryReplies ==
    ASSUME RequestInv, ReplyTypes, CallerTypes, LogTypes, NEW r \in Request,
           WriteEntry(r)
    PROVE  /\ RequestInv' /\ ReplyTypes'
           /\ req[r].node \in Node /\ LastIndex(log[req[r].node]) \in Nat
<1>1. /\ req[r].pc = "checked" /\ UNCHANGED <<callbacks, committer, abort>>
      /\ req'[r].pc = "written" /\ req'[r].node = req[r].node
      /\ req'[r].index = LastIndex(log[req[r].node]) + 1
      /\ \A s \in Request : s # r => req'[s] = req[s]
      BY DEF WriteEntry, CallerTypes
<1>2. req[r].node \in Node
      BY <1>1 DEF RequestInv, CallersKnown
<1>3. LastIndex(log[req[r].node]) \in Nat
  <2> DEFINE s == log[req[r].node]
  <2>1. s \in Seq(Entry)
        BY <1>2 DEF LogTypes
  <2> HIDE DEF s
  <2>2. s # <<>> => s[Len(s)] \in Entry
        BY <2>1
  <2>3. LastIndex(s) \in Nat
        BY <2>2 DEF LastIndex, Entry
  <2> QED  BY <2>3 DEF s
<1>4. ReplyTypes'
      BY <1>1 DEF ReplyTypes
<1>5. CallersKnown'
      BY <1>1, <1>2, <1>3 DEF RequestInv, CallersKnown
<1>6. \A m \in Node : \A c \in callbacks[m] : c.req \in Request /\ c.req # r
      BY <1>1, OnlyWaiters
<1>7. CallbacksKnown'
      BY <1>1, <1>6 DEF RequestInv, CallbacksKnown
<1>8. \A m \in Node : \A i \in DOMAIN committer[m] :
          IsReply(m, i) => committer[m][i].req \in Request /\ committer[m][i].req # r
      BY <1>1, OnlyWaiters
<1>9. RepliesKnown'
      BY <1>1, <1>8 DEF RequestInv, RepliesKnown, IsReply
<1>10. WaitersKnown'
  <2> SUFFICES ASSUME NEW s \in Request, s # r, req[s].pc = "waiting",
                      Alive(req[s].node)
               PROVE  WillBeAnswered(s) \/ Collides(s)'
      BY <1>1 DEF WaitersKnown, WillBeAnswered, IsReply, Alive
  <2>1. CASE Collides(s)
    <3>1. PICK x \in Request \ {s} :
              req[x].node = req[s].node /\ req[x].index = req[s].index
          BY <2>1 DEF Collides
    <3>2. req[s].index > 0 /\ req[r].index = 0
          BY <1>1 DEF RequestInv, CallersKnown
    <3>3. x # r
          BY <3>1, <3>2
    <3> QED  BY <1>1, <3>1, <3>3 DEF Collides
  <2> QED  BY <2>1 DEF RequestInv, WaitersKnown
<1> QED  BY <1>2, <1>3, <1>4, <1>5, <1>7, <1>9, <1>10 DEF RequestInv

\* insert_callback: the caller has a callback, or shares the index of another.
LEMMA InsertCallbackReplies ==
    ASSUME RequestInv, ReplyTypes, CallerTypes, NEW r \in Request, InsertCallback(r)
    PROVE  RequestInv' /\ ReplyTypes'
<1> DEFINE n == req[r].node
           C == callbacks[n]
           c0 == [index |-> req[r].index, waits |-> Majority - 1, req |-> r]
           taken == \E c \in C : c.index = req[r].index
<1>1. /\ req[r].pc = "written" /\ UNCHANGED <<committer, abort>>
      /\ callbacks' = [callbacks EXCEPT ![n] = IF taken THEN @ ELSE @ \union {c0}]
      /\ req'[r].pc = "waiting"
      /\ \A s \in Request : req'[s].node = req[s].node /\ req'[s].index = req[s].index
      /\ \A s \in Request : s # r => req'[s] = req[s]
      BY DEF InsertCallback, CallerTypes
<1>2. n \in Node /\ req[r].index > 0 /\ req[r].index \in Nat
      BY <1>1 DEF RequestInv, CallersKnown, CallerTypes
<1>3. c0 \in Callbacks /\ c0.index = req[r].index /\ c0.req = r
      BY <1>2, Majorities DEF Callbacks
<1> HIDE DEF c0
<1>4. /\ \A m \in Node : m # n => callbacks'[m] = callbacks[m]
      /\ callbacks'[n] = IF taken THEN C ELSE C \union {c0}
      BY <1>1, <1>2 DEF ReplyTypes
<1>5. ReplyTypes'
  <2>1. C \union {c0} \in SUBSET Callbacks
        BY <1>2, <1>3 DEF ReplyTypes
  <2> QED  BY <1>1, <2>1 DEF ReplyTypes
<1>6. \A m \in Node :
          /\ \A c \in callbacks[m] : c.req \in Request /\ c.req # r
          /\ \A i \in DOMAIN committer[m] :
                 IsReply(m, i) => /\ committer[m][i].req \in Request
                                  /\ committer[m][i].req # r
      BY <1>1, OnlyWaiters
<1>7. CallersKnown'
      BY <1>1, <1>2 DEF RequestInv, CallersKnown
<1>8. ASSUME NEW m \in Node, NEW c \in callbacks'[m]
      PROVE  c \in callbacks[m] \/ (m = n /\ ~taken /\ c = c0)
      BY <1>4, <1>8
<1>9. CallbacksKnown'
  <2> SUFFICES ASSUME NEW m \in Node
               PROVE  /\ IsFiniteSet(callbacks'[m]) /\ OnePerIndex(callbacks'[m])
                      /\ \A c \in callbacks'[m] :
                            /\ req'[c.req].pc = "waiting"
                            /\ req'[c.req].node = m /\ req'[c.req].index = c.index
      BY DEF CallbacksKnown
  <2>1. IsFiniteSet(callbacks[m]) /\ OnePerIndex(callbacks[m])
        BY CallbacksDiffer
  <2>2. IsFiniteSet(callbacks'[m])
    <3>1. IsFiniteSet(callbacks[m] \union {c0})
          BY <2>1, FS_AddElement
    <3> QED  BY <2>1, <3>1, <1>4
  <2>3. OnePerIndex(callbacks'[m])
        BY <2>1, <1>3, <1>4 DEF OnePerIndex
  <2>4. ASSUME NEW c \in callbacks'[m]
        PROVE  /\ req'[c.req].pc = "waiting"
               /\ req'[c.req].node = m /\ req'[c.req].index = c.index
    <3>1. CASE c \in callbacks[m]
          BY <3>1, <1>1, <1>6 DEF RequestInv, CallbacksKnown
    <3>2. CASE m = n /\ c = c0
          BY <3>2, <1>1, <1>3
    <3> QED  BY <3>1, <3>2, <1>8
  <2> QED  BY <2>2, <2>3, <2>4
<1>10. RepliesKnown'
  <2> SUFFICES ASSUME NEW m \in Node, NEW i \in DOMAIN committer[m], IsReply(m, i),
                      NEW s, s = committer[m][i].req
               PROVE  /\ req'[s].pc = "waiting" /\ req'[s].node = m
                      /\ \A c \in callbacks'[m] : c.req # s
                      /\ \A j \in DOMAIN committer[m] :
                            IsReply(m, j) /\ committer[m][j].req = s => i = j
      BY <1>1 DEF RepliesKnown, IsReply
  <2>1. s \in Request /\ s # r
        BY <1>6
  <2>2. /\ req[s].pc = "waiting" /\ req[s].node = m
        /\ \A c \in callbacks[m] : c.req # s
        /\ \A j \in DOMAIN committer[m] :
              IsReply(m, j) /\ committer[m][j].req = s => i = j
        BY DEF RequestInv, RepliesKnown
  <2>3. \A c \in callbacks'[m] : c.req # s
        BY <2>1, <2>2, <1>3, <1>8
  <2> QED  BY <2>1, <2>2, <2>3, <1>1
<1>11. WaitersKnown'
  <2> SUFFICES ASSUME NEW s \in Request, req'[s].pc = "waiting", Alive(req[s].node)
               PROVE  WillBeAnswered(s)' \/ Collides(s)
      BY <1>1 DEF WaitersKnown, Collides, Alive
  <2>1. CASE s = r /\ taken
    <3>1. PICK c \in C : c.index = req[r].index
          BY <2>1
    <3>2. c.req \in Request /\ c.req # r
          BY <1>2, <1>6
    <3>3. req[c.req].node = n /\ req[c.req].index = req[r].index
          BY <1>2, <3>1 DEF RequestInv, CallbacksKnown
    <3>4. Collides(r)
          BY <3>2, <3>3 DEF Collides
    <3> QED  BY <2>1, <3>4
  <2>2. CASE s = r /\ ~taken
    <3>1. c0 \in callbacks'[req'[r].node] /\ c0.req = r
          BY <2>2, <1>1, <1>3, <1>4
    <3> QED  BY <2>2, <3>1 DEF WillBeAnswered
  <2>3. CASE s # r
    <3>1. req[s].pc = "waiting" /\ req'[s] = req[s] /\ req[s].node \in Node
          BY <2>3, <1>1 DEF RequestInv, CallersKnown
    <3>2. WillBeAnswered(s) \/ Collides(s)
          BY <3>1 DEF RequestInv, WaitersKnown
    <3>3. \A c \in callbacks[req[s].node] : c \in callbacks'[req[s].node]
          BY <3>1, <1>4
    <3> QED  BY <3>1, <3>2, <3>3, <1>1 DEF WillBeAnswered, IsReply
  <2> QED  BY <2>1, <2>2, <2>3
<1> QED  BY <1>5, <1>7, <1>9, <1>10, <1>11 DEF RequestInv

-----------------------------------------------------------------------------
(* The messages have their types.                                           *)

\* get_last_index and get_log_start_index
LEMMA LastIndexTyped ==
    ASSUME NEW s \in Seq(Entry)
    PROVE  LastIndex(s) \in Nat /\ LogStart(s) \in Nat
<1>1. s # <<>> => s[Len(s)] \in Entry /\ s[1] \in Entry
      OBVIOUS
<1> QED  BY <1>1 DEF LastIndex, LogStart, Entry

\* get_entries, also for a count below zero, which the code takes as unsigned.
LEMMA GetEntriesTyped ==
    ASSUME NEW s \in Seq(Entry), NEW i \in Nat, NEW count \in Int
    PROVE  GetEntries(s, i, count) \in Seq(Entry)
<1> DEFINE first == Slot(s, i)
           last == IF count < 0 \/ first + count - 1 > Len(s)
                   THEN Len(s) ELSE first + count - 1
<1>1. CASE count = 0 \/ ~Holds(s, i)
      BY <1>1 DEF GetEntries
<1>2. CASE ~(count = 0 \/ ~Holds(s, i))
  <2>1. GetEntries(s, i, count) = SubSeq(s, first, last)
        BY <1>2 DEF GetEntries
  <2>2. LogStart(s) \in Nat /\ LogStart(s) <= i
        BY <1>2, LastIndexTyped DEF Holds
  <2>3. first \in Int /\ first >= 1
        BY <2>2 DEF Slot
  <2> HIDE DEF first
  <2>4. last \in Int /\ last <= Len(s)
        BY <2>3
  <2> HIDE DEF last
  <2>5. \A k \in first..last : k \in 1..Len(s)
        BY <2>3, <2>4
  <2>6. SubSeq(s, first, last) \in Seq(Entry)
    <3>1. \A k \in first..last : s[k] \in Entry
          BY <2>5
    <3> QED  BY <2>3, <2>4, <3>1
  <2> QED  BY <2>1, <2>6
<1> QED  BY <1>1, <1>2

\* build_vote_request
LEMMA VoteRequestTyped ==
    ASSUME KnownTypes, LogTypes, NEW n \in Node
    PROVE  VoteRequest(n) \in VoteRequests
<1>1. LastIndex(log[n]) \in Nat
      BY LastIndexTyped DEF LogTypes
<1>2. currentTerm[n] \in Nat
      BY DEF KnownTypes, VoteInv, TermTypeOK
<1> QED  BY <1>1, <1>2 DEF VoteRequest, VoteRequests, LastTerm

\* The answer of handle_vote_request.
LEMMA VoteAnswerTyped ==
    ASSUME NEW p, NEW n, NEW q, TermAfter(p, q.term) \in Nat
    PROVE  VoteAnswer(p, n, q) \in Answers
<1> DEFINE granted == q.term >= currentTerm[p] /\ VoteAfter(p, n, q) = n
<1>1. VoteAnswer(p, n, q) = [type |-> "vote", stage |-> "response",
                             term |-> TermAfter(p, q.term), granted |-> granted]
      BY DEF VoteAnswer
<1>2. granted \in BOOLEAN
      OBVIOUS
<1> HIDE DEF granted
<1> QED  BY <1>1, <1>2 DEF Answers

\* build_append_entries_request
LEMMA AppendRequestTyped ==
    ASSUME KnownTypes, LogTypes, NEW n \in Node, NEW i \in Nat
    PROVE  AppendRequest(n, i) \in AppendRequests
<1> DEFINE read == GetEntries(log[n], ReadFrom(i), Batch)
           hasPrev == Len(read) > 1 /\ i > 1
<1>1. ReadFrom(i) \in Nat /\ Batch \in Int
      BY DEF ReadFrom, Batch
<1>2. read \in Seq(Entry)
      BY <1>1, GetEntriesTyped DEF LogTypes
<1>3. currentTerm[n] \in Nat /\ committed[n] \in Nat
      BY DEF KnownTypes, VoteInv, TermTypeOK, LogTypes
<1>4. AppendRequest(n, i) =
        [type |-> "append", stage |-> "request", term |-> currentTerm[n],
         commit |-> committed[n],
         prevIndex |-> IF hasPrev THEN read[1].index ELSE 0,
         prevTerm |-> IF hasPrev THEN read[1].term ELSE 0,
         entries |-> IF hasPrev THEN Tail(read) ELSE read]
      BY DEF AppendRequest
<1> HIDE DEF read
<1>5. CASE hasPrev
  <2>1. read[1] \in Entry /\ Tail(read) \in Seq(Entry)
    <3>1. Len(read) > 1
          BY <1>5
    <3> QED  BY <1>2, <3>1
  <2>2. read[1].index \in Nat /\ read[1].term \in Nat
        BY <2>1 DEF Entry
  <2> QED  BY <1>3, <1>4, <1>5, <2>1, <2>2 DEF AppendRequests
<1>6. CASE ~hasPrev
      BY <1>2, <1>3, <1>4, <1>6 DEF AppendRequests
<1> QED  BY <1>5, <1>6

Outcomes == [end : {"none", "throw", "truncate"}, log : Seq(Entry),
             success : BOOLEAN, lastIndex : Nat]

\* What handle_append_entries_request makes of a request.
LEMMA AppendOutcomeTyped ==
    ASSUME LogTypes, NEW p \in Node, NEW q \in AppendRequests
    PROVE  AppendOutcome(p, q) \in Outcomes
<1> DEFINE st == StoreEntries(p, q)
           out == AppendOutcome(p, q)
<1>1. log[p] \in Seq(Entry) /\ LastIndex(log[p]) \in Nat
      BY LastIndexTyped DEF LogTypes
<1>2. q.entries \in Seq(Entry) /\ q.prevIndex \in Nat
      BY DEF AppendRequests
<1>3. st \in Stores
      BY <1>1, <1>2, StoreEntriesTyped
<1>4. st.log \in Seq(Entry) /\ LastIndex(st.log) \in Nat
      /\ st.end \in {"none", "throw", "truncate"}
      BY <1>3, LastIndexTyped DEF Stores
<1> HIDE DEF st
<1>5. \/ out = [end |-> "none", log |-> log[p], success |-> FALSE, lastIndex |-> 0]
      \/ out = [end |-> "none", log |-> log[p], success |-> FALSE,
                lastIndex |-> LastIndex(log[p])]
      \/ out = [end |-> "throw", log |-> log[p], success |-> FALSE, lastIndex |-> 0]
      \/ q.prevIndex # 0 /\ out = [end |-> "none", log |-> log[p], success |-> FALSE,
                                   lastIndex |-> q.prevIndex - 1]
      \/ out = [end |-> st.end, log |-> st.log, success |-> st.end = "none",
                lastIndex |-> LastIndex(st.log)]
      BY DEF AppendOutcome, TermDiffers, ChecksTerm, st
<1> HIDE DEF out
<1>6. \A e \in {"none", "throw", "truncate"}, l \in Seq(Entry), b \in BOOLEAN, i \in Nat :
          [end |-> e, log |-> l, success |-> b, lastIndex |-> i] \in Outcomes
      BY DEF Outcomes
<1>7. CASE out = [end |-> st.end, log |-> st.log, success |-> st.end = "none",
                  lastIndex |-> LastIndex(st.log)]
  <2> DEFINE b == st.end = "none"
  <2>1. b \in BOOLEAN
        OBVIOUS
  <2>2. out = [end |-> st.end, log |-> st.log, success |-> b,
               lastIndex |-> LastIndex(st.log)]
        BY <1>7
  <2> HIDE DEF b
  <2>3. out \in Outcomes
        BY <2>1, <2>2, <1>4, <1>6
  <2> QED  BY <2>3 DEF out
<1>8. CASE q.prevIndex # 0 /\ out = [end |-> "none", log |-> log[p], success |-> FALSE,
                                     lastIndex |-> q.prevIndex - 1]
  <2>1. out \in Outcomes
    <3>1. q.prevIndex - 1 \in Nat
          BY <1>2, <1>8
    <3> QED  BY <3>1, <1>1, <1>6, <1>8
  <2> QED  BY <2>1 DEF out
<1>9. CASE \/ out = [end |-> "none", log |-> log[p], success |-> FALSE, lastIndex |-> 0]
           \/ out = [end |-> "none", log |-> log[p], success |-> FALSE,
                     lastIndex |-> LastIndex(log[p])]
           \/ out = [end |-> "throw", log |-> log[p], success |-> FALSE, lastIndex |-> 0]
  <2>1. out \in Outcomes
        BY <1>1, <1>6, <1>9
  <2> QED  BY <2>1 DEF out
<1> QED  BY <1>5, <1>7, <1>8, <1>9

\* The answer of handle_append_entries_request.
LEMMA AppendAnswerTyped ==
    ASSUME LogTypes, NEW p \in Node, NEW q \in AppendRequests,
           TermAfter(p, q.term) \in Nat
    PROVE  AppendAnswer(p, q) \in Answers
<1> DEFINE out == AppendOutcome(p, q)
           sent == [i \in DOMAIN q.entries |-> q.entries[i].index]
<1>1. out \in Outcomes
      BY AppendOutcomeTyped
<1>2. sent \in Seq(Nat)
  <2>1. q.entries \in Seq(Entry)
        BY DEF AppendRequests
  <2>2. /\ Len(q.entries) \in Nat /\ DOMAIN q.entries = 1..Len(q.entries)
        /\ \A i \in DOMAIN q.entries : q.entries[i].index \in Nat
    <3>1. \A e \in Entry : e.index \in Nat
          BY DEF Entry
    <3>2. \A i \in 1..Len(q.entries) : q.entries[i] \in Entry
          BY <2>1
    <3> QED  BY <2>1, <3>1, <3>2
  <2>3. sent \in [1..Len(q.entries) -> Nat]
        BY <2>2
  <2> HIDE DEF sent
  <2> QED  BY <2>2, <2>3
<1>3. AppendAnswer(p, q) =
        IF out.end = "throw" THEN [type |-> "append", stage |-> "exception"]
        ELSE [type |-> "append", stage |-> "response", term |-> TermAfter(p, q.term),
              success |-> out.success, lastIndex |-> out.lastIndex, sent |-> sent]
      BY DEF AppendAnswer
<1> HIDE DEF out, sent
<1>4. out.success \in BOOLEAN /\ out.lastIndex \in Nat
      BY <1>1 DEF Outcomes
<1>5. CASE out.end = "throw"
      BY <1>3, <1>5 DEF Answers
<1>6. CASE out.end # "throw"
  <2>1. [type |-> "append", stage |-> "response", term |-> TermAfter(p, q.term),
         success |-> out.success, lastIndex |-> out.lastIndex, sent |-> sent] \in
        [type : {"append"}, stage : {"response"}, term : Nat, success : BOOLEAN,
         lastIndex : Nat, sent : Seq(Nat)]
        BY <1>2, <1>4
  <2> QED  BY <1>3, <1>6, <2>1 DEF Answers
<1> QED  BY <1>5, <1>6

-----------------------------------------------------------------------------
(* Types and account together, one action after the other.                  *)

\* A call that is still a request.
LEMMA RequestsTyped ==
    ASSUME NEW q \in Messages \union {NoCall}, q.stage = "request",
           q.type \in {"vote", "append"}
    PROVE  /\ q \in Requests /\ q.term \in Nat
           /\ q.type = "append" => q \in AppendRequests /\ q.commit \in Nat
BY DEF Messages, Requests, VoteRequests, AppendRequests, Answers, NoCall

\* A request whose caller gave up.
LEMMA LateTyped ==
    ASSUME NEW q \in Requests
    PROVE  /\ q.term \in Nat /\ q.type \in {"vote", "append"}
           /\ q.type = "append" => q \in AppendRequests /\ q.commit \in Nat
BY DEF Requests, VoteRequests, AppendRequests

\* The term after step_down.
LEMMA TermAfterTyped ==
    ASSUME KnownTypes, NEW p \in Node, NEW term \in Nat
    PROVE  TermAfter(p, term) \in Nat
BY DEF KnownTypes, VoteInv, TermTypeOK, TermAfter

\* handle_vote_request
LEMMA VoteRequestTypes ==
    ASSUME DataInv, NEW p \in Node, NEW n, NEW q, HandleVoteRequest(p, n, q)
    PROVE  /\ LogTypes' /\ ReplyTypes' /\ RequestInv' /\ CallerTypes'
           /\ UNCHANGED <<next, match, beat>>
<1>1. votes' \in [Node -> Nat]
  <2>1. \/ votes' = [votes EXCEPT ![p] = IF state[p] = Candidate THEN 0 ELSE @]
        \/ votes' = votes
        BY DEF HandleVoteRequest, StepDown, raftVars
  <2>2. votes \in [Node -> Nat]
        BY DEF DataInv, LogTypes
  <2>3. 0 \in Nat /\ votes[p] \in Nat
        BY <2>2
  <2> QED  BY <2>1, <2>2, <2>3
<1>2. LogTypes'
      BY <1>1 DEF HandleVoteRequest, DataInv, LogTypes
<1>3. CallerTypes' /\ UNCHANGED <<next, match, beat>>
      BY DEF HandleVoteRequest, DataInv, CallerTypes
<1>4. ReplyTypes' /\ RequestInv'
      BY VoteRequestReplies DEF DataInv
<1> QED  BY <1>2, <1>3, <1>4

\* handle_append_entries_request
LEMMA AppendRequestTypes ==
    ASSUME DataInv, NEW p \in Node, NEW q \in AppendRequests,
           HandleAppendRequest(p, q)
    PROVE  /\ LogTypes' /\ ReplyTypes' /\ RequestInv' /\ CallerTypes'
           /\ UNCHANGED <<next, match, beat>>
<1> DEFINE out == AppendOutcome(p, q)
<1>1. votes' \in [Node -> Nat]
  <2>1. \/ votes' = [votes EXCEPT ![p] = IF state[p] = Candidate THEN 0 ELSE @]
        \/ votes' = votes
        BY DEF HandleAppendRequest, StepDown, raftVars
  <2>2. votes \in [Node -> Nat]
        BY DEF DataInv, LogTypes
  <2>3. 0 \in Nat /\ votes[p] \in Nat
        BY <2>2
  <2> QED  BY <2>1, <2>2, <2>3
<1>2. out.log \in Seq(Entry) /\ out.end \in {"none", "throw", "truncate"}
      BY AppendOutcomeTyped DEF DataInv, Outcomes
<1>3. /\ log' = [log EXCEPT ![p] = out.log]
      /\ abort' = [abort EXCEPT ![p] = IF out.end = "truncate" THEN "truncate" ELSE @]
      /\ UNCHANGED <<appendTimers, committed, applying, applied, next, match, beat,
                     req, elections, fails, leaders>>
      BY DEF HandleAppendRequest, history
<1> HIDE DEF out
<1>4. LogTypes'
      BY <1>1, <1>2, <1>3 DEF DataInv, LogTypes
<1>5. CallerTypes' /\ UNCHANGED <<next, match, beat>>
      BY <1>3 DEF DataInv, CallerTypes
<1>6. q.commit \in Nat /\ abort = [m \in Node |-> abort[m]]
      BY DEF AppendRequests, DataInv, LogTypes
<1>7. ReplyTypes' /\ RequestInv'
      BY <1>6, AppendRequestReplies DEF DataInv
<1> QED  BY <1>4, <1>5, <1>7

\* The handlers of requests, in time and late.
LEMMA ServeTypes ==
    ASSUME KnownTypes, DataInv,
           \/ \E l \in Link : ServeCall(l[1], l[2])
           \/ \E m \in late : ServeLate(m)
    PROVE  DataInv'
<1>1. ASSUME NEW l \in Link, ServeCall(l[1], l[2])
      PROVE  DataInv'
  <2> DEFINE q == call[l]
             n == l[1]
             p == l[2]
  <2>1. n \in Node /\ p \in Node /\ l = <<n, p>> /\ q \in Messages \union {NoCall}
        BY LinkNodes DEF DataInv, CallTypes
  <2>2. q.stage = "request" /\ q.type \in {"vote", "append"} /\ UNCHANGED late
        BY <1>1, <2>1 DEF ServeCall, ServeVote, ServeAppend
  <2>3. q.term \in Nat /\ TermAfter(p, q.term) \in Nat
        BY <2>1, <2>2, RequestsTyped, TermAfterTyped
  <2>4. /\ LogTypes' /\ ReplyTypes' /\ RequestInv' /\ CallerTypes'
        /\ UNCHANGED <<next, match, beat>>
        /\ \E a \in Answers : call' = [call EXCEPT ![l] = a]
    <3>1. CASE ServeVote(n, p)
      <4>1. HandleVoteRequest(p, n, q) /\ call' = [call EXCEPT ![l] = VoteAnswer(p, n, q)]
            BY <3>1, <2>1 DEF ServeVote
      <4>2. VoteAnswer(p, n, q) \in Answers
            BY <2>3, VoteAnswerTyped
      <4> QED  BY <4>1, <4>2, <2>1, VoteRequestTypes
    <3>2. CASE ServeAppend(n, p)
      <4>1. HandleAppendRequest(p, q) /\ q.type = "append"
            /\ call' = [call EXCEPT ![l] = AppendAnswer(p, q)]
            BY <3>2, <2>1 DEF ServeAppend
      <4>2. q \in AppendRequests
            BY <4>1, <2>1, <2>2, RequestsTyped
      <4>3. AppendAnswer(p, q) \in Answers
            BY <4>2, <2>1, <2>3, AppendAnswerTyped DEF DataInv
      <4> QED  BY <4>1, <4>2, <4>3, <2>1, AppendRequestTypes
    <3> QED  BY <1>1, <3>1, <3>2 DEF ServeCall
  <2>5. CallTypes'
        BY <2>2, <2>4 DEF DataInv, CallTypes, Messages
  <2> QED  BY <2>4, <2>5 DEF DataInv
<1>2. ASSUME NEW m \in late, ServeLate(m)
      PROVE  DataInv'
  <2>1. m.to \in Node /\ m.request \in Requests
        BY DEF DataInv, CallTypes
  <2>2. /\ LogTypes' /\ ReplyTypes' /\ RequestInv' /\ CallerTypes'
        /\ UNCHANGED <<next, match, beat>>
    <3>1. CASE HandleVoteRequest(m.to, m.from, m.request)
          BY <3>1, <2>1, VoteRequestTypes
    <3>2. CASE m.request.type = "append" /\ HandleAppendRequest(m.to, m.request)
      <4>1. m.request \in AppendRequests
            BY <3>2, <2>1, LateTyped
      <4> QED  BY <3>2, <4>1, <2>1, AppendRequestTypes
    <3> QED  BY <1>2, <3>1, <3>2 DEF ServeLate
  <2>3. CallTypes'
        BY <1>2, <2>2 DEF ServeLate, DataInv, CallTypes
  <2> QED  BY <2>2, <2>3 DEF DataInv
<1> QED  BY <1>1, <1>2

\* A step that changes none of it, but perhaps a few variables of the peers.
LEMMA TypesStay ==
    ASSUME DataInv, CallTypes', UNCHANGED <<votes, abort, logVars, appendTimers, req,
                                           elections, leaders>>,
           fails' \in 0..MaxFails
    PROVE  DataInv'
<1>1. LogTypes' /\ CallerTypes'
      BY DEF DataInv, LogTypes, CallerTypes, logVars
<1>2. ReplyTypes' /\ RequestInv'
      BY RepliesStay DEF DataInv, DeadStay, logVars
<1> QED  BY <1>1, <1>2 DEF DataInv

\* The peer thread, without what it makes of answers.
LEMMA LoopTypes ==
    ASSUME KnownTypes, DataInv, NEW l \in Link,
           \/ PopSleep(l[1], l[2]) \/ FallAsleep(l[1], l[2])
           \/ PopElection(l[1], l[2]) \/ PopAppend(l[1], l[2])
           \/ AppendLoop(l[1], l[2]) \/ SendAppend(l[1], l[2])
           \/ AppendFailure(l[1], l[2])
    PROVE  DataInv'
<1> DEFINE n == l[1]
           p == l[2]
<1>1. n \in Node /\ p \in Node /\ l = <<n, p>>
      BY LinkNodes
<1> HIDE DEF n, p
<1>2. UNCHANGED <<votes, abort, logVars, appendTimers, req, elections, leaders, late, fails>>
      BY DEF PopSleep, FallAsleep, PopElection, PopAppend, AppendLoop, SendAppend,
             AppendFailure, PopCommand, raftVars, timerVars, envVars, history, n, p
<1>3. LogTypes /\ CallTypes /\ fails' \in 0..MaxFails
      BY <1>2 DEF DataInv, CallerTypes
<1>4. ASSUME PopSleep(n, p) \/ FallAsleep(n, p) PROVE CallTypes'
      BY <1>2, <1>3, <1>4 DEF PopSleep, FallAsleep, CallTypes
<1>5. ASSUME PopElection(n, p) PROVE CallTypes'
  <2>1. VoteRequest(n) \in Messages
        BY <1>1, <1>3, VoteRequestTyped DEF Messages, Requests
  <2> QED  BY <1>1, <1>2, <1>3, <1>5, <2>1 DEF PopElection, CallTypes
<1>6. ASSUME PopAppend(n, p) PROVE CallTypes'
  <2>1. /\ next' = [next EXCEPT ![l] = 0] /\ match' = [match EXCEPT ![l] = 0]
        /\ beat' = [beat EXCEPT ![l] = FALSE] /\ UNCHANGED call
        BY <1>1, <1>6 DEF PopAppend
  <2> QED  BY <1>2, <1>3, <2>1 DEF CallTypes
<1>7. ASSUME AppendLoop(n, p) PROVE CallTypes'
  <2>1. LastIndex(log[n]) \in Nat
        BY <1>1, <1>3, LastIndexTyped DEF LogTypes
  <2>2. NextAtTop(n, p) \in Nat
        BY <1>1, <1>3, <2>1 DEF NextAtTop, CallTypes
  <2>3. /\ next' = [next EXCEPT ![l] = NextAtTop(n, p)] /\ UNCHANGED <<match, call>>
        /\ beat' = [beat EXCEPT ![l] = FALSE] \/ UNCHANGED beat
        BY <1>1, <1>7 DEF AppendLoop
  <2>4. next' \in [Link -> Nat] /\ beat' \in [Link -> BOOLEAN]
        BY <1>3, <2>2, <2>3 DEF CallTypes
  <2> QED  BY <1>2, <1>3, <2>3, <2>4 DEF CallTypes
<1>8. ASSUME SendAppend(n, p) PROVE CallTypes'
  <2>1. next[l] \in Nat
        BY <1>3 DEF CallTypes
  <2>2. AppendRequest(n, next[l]) \in Messages
        BY <1>1, <1>3, <2>1, AppendRequestTyped DEF Messages, Requests
  <2>3. call' = call \/ call' = [call EXCEPT ![l] = AppendRequest(n, next[l])]
        BY <1>1, <1>8 DEF SendAppend
  <2>4. UNCHANGED <<next, match, beat>>
        BY <1>8 DEF SendAppend
  <2> QED  BY <1>2, <1>3, <2>2, <2>3, <2>4 DEF CallTypes
<1>9. ASSUME AppendFailure(n, p) PROVE CallTypes'
  <2>1. call[l].lastIndex \in Nat
        BY <1>1, <1>3, <1>9, SentTyped DEF AppendFailure
  <2>2. /\ match' = [match EXCEPT ![l] = 0] /\ beat' = [beat EXCEPT ![l] = TRUE]
        /\ next' = next \/ next' = [next EXCEPT ![l] = call[l].lastIndex + 1]
        /\ call' = call \/ call' = [call EXCEPT ![l] = NoCall]
    <3>1. CASE currentTerm[n] < call[l].term
          BY <1>1, <1>3, <1>9, <3>1 DEF AppendFailure, CallTypes
    <3>2. CASE ~(currentTerm[n] < call[l].term)
          BY <1>1, <1>9, <3>2 DEF AppendFailure
    <3> QED  BY <3>1, <3>2
  <2>3. next' \in [Link -> Nat] /\ match' \in [Link -> Nat]
        BY <1>3, <2>1, <2>2 DEF CallTypes
  <2>4. beat' \in [Link -> BOOLEAN]
        BY <1>3, <2>2 DEF CallTypes
  <2>5. call' \in [Link -> Messages \union {NoCall}]
        BY <1>3, <2>2 DEF CallTypes
  <2> QED  BY <1>2, <1>3, <2>3, <2>4, <2>5 DEF CallTypes
<1>10. CallTypes'
       BY <1>4, <1>5, <1>6, <1>7, <1>8, <1>9 DEF n, p
<1> QED  BY <1>2, <1>3, <1>10, TypesStay

\* The answers that change the node.
LEMMA AnswerTypes ==
    ASSUME KnownTypes, DataInv, NEW l \in Link,
           \/ VoteResponse(l[1], l[2]) \/ AppendSuccess(l[1], l[2])
           \/ HandleNewTerm(l[1], l[2])
    PROVE  DataInv'
<1> DEFINE n == l[1]
           p == l[2]
<1>1. n \in Node /\ p \in Node /\ l = <<n, p>>
      BY LinkNodes
<1> HIDE DEF n, p
<1>2. votes \in [Node -> Nat] /\ votes[n] \in Nat
      BY <1>1 DEF DataInv, LogTypes
<1>3. ASSUME VoteResponse(n, p) PROVE DataInv'
  <2>1. call[l].term \in Nat
        BY SMTT(20), <1>1, <1>3 DEF VoteResponse, DataInv, CallTypes, Messages, Requests,
           VoteRequests, AppendRequests, Answers, NoCall
  <2>2. /\ UNCHANGED <<abort, log, committed, appendTimers, applying, applied, req,
                        elections, fails, late, next, match, beat>>
        /\ call' = [call EXCEPT ![l] = NoCall]
        BY <1>1, <1>3 DEF VoteResponse, envVars
  <2>3. \/ votes' = votes
        \/ votes' = [votes EXCEPT ![n] = 0]
        \/ \E v \in Nat : votes' = [votes EXCEPT ![n] = v]
    <3> DEFINE stored == (IF call[l].term > currentTerm[n] THEN 0 ELSE votes[n])
                             + (IF call[l].granted THEN 1 ELSE 0)
    <3>1. stored \in Nat
          BY <1>2
    <3>2. \/ votes' = votes \/ votes' = [votes EXCEPT ![n] = 0]
          \/ votes' = [votes EXCEPT ![n] = stored]
          BY <1>1, <1>3 DEF VoteResponse, raftVars
    <3> HIDE DEF stored
    <3> QED  BY <3>1, <3>2
  <2>4. votes' \in [Node -> Nat]
        BY <1>2, <2>3
  <2>5. leaders' = leaders \/ leaders' = leaders \union {<<n, call[l].term>>}
        BY <1>1, <1>3 DEF VoteResponse
  <2>6. LogTypes'
        BY <2>2, <2>4 DEF DataInv, LogTypes
  <2>7. CallerTypes'
        BY <1>1, <2>1, <2>2, <2>5 DEF DataInv, CallerTypes
  <2>8. CallTypes'
        BY <2>2 DEF DataInv, CallTypes
  <2>9. ReplyTypes' /\ RequestInv'
        BY <1>1, <1>3, VoteResponseReplies DEF DataInv
  <2> QED  BY <2>6, <2>7, <2>8, <2>9 DEF DataInv
<1>4. ASSUME AppendSuccess(n, p) PROVE DataInv'
  <2> DEFINE acks == CountAcks(n, call[l].sent)
  <2>1. /\ RequestInv' /\ ReplyTypes' /\ acks \in Counts
        BY <1>1, <1>4, AppendSuccessReplies DEF DataInv
  <2>2. acks.committed \in Nat
        BY <2>1 DEF Counts
  <2>3. call[l].lastIndex \in Nat
        BY <1>1, <1>4, SentTyped DEF AppendSuccess, DataInv
  <2>4. /\ call' = [call EXCEPT ![l] = NoCall] /\ beat' = [beat EXCEPT ![l] = TRUE]
        /\ match' = [match EXCEPT ![l] = call[l].lastIndex]
        /\ next' = [next EXCEPT ![l] = call[l].lastIndex + 1]
        /\ committed' = [committed EXCEPT ![n] = acks.committed]
        /\ appendTimers' = [appendTimers EXCEPT ![n] = @ \ ToSet(acks.done)]
        /\ UNCHANGED <<votes, abort, log, applying, applied, req, elections, fails,
                       late, leaders>>
        BY <1>1, <1>4 DEF AppendSuccess, raftVars, envVars, history
  <2> HIDE DEF acks
  <2>5. /\ committed' \in [Node -> Nat] /\ appendTimers' \in [Node -> SUBSET Request]
        BY <2>2, <2>4 DEF DataInv, LogTypes
  <2>6. LogTypes' /\ CallerTypes'
        BY <2>4, <2>5 DEF DataInv, LogTypes, CallerTypes
  <2>7. next' \in [Link -> Nat] /\ match' \in [Link -> Nat]
        BY <2>3, <2>4 DEF DataInv, CallTypes
  <2>8. beat' \in [Link -> BOOLEAN] /\ call' \in [Link -> Messages \union {NoCall}]
        BY <2>4 DEF DataInv, CallTypes
  <2>9. CallTypes'
        BY <2>4, <2>7, <2>8 DEF DataInv, CallTypes
  <2> QED  BY <2>1, <2>6, <2>9 DEF DataInv
<1>5. ASSUME HandleNewTerm(n, p) PROVE DataInv'
  <2>1. /\ votes' = [votes EXCEPT ![n] = IF state[n] = Candidate THEN 0 ELSE @]
        /\ call' = [call EXCEPT ![l] = NoCall]
        /\ UNCHANGED <<abort, log, committed, appendTimers, applying, applied, req,
                       elections, fails, late, next, match, beat, leaders>>
        BY <1>1, <1>5 DEF HandleNewTerm, StepDown, envVars, history
  <2>2. votes' \in [Node -> Nat]
        BY <1>2, <2>1
  <2>3. LogTypes' /\ CallerTypes' /\ CallTypes'
        BY <2>1, <2>2 DEF DataInv, LogTypes, CallerTypes, CallTypes
  <2>4. ReplyTypes' /\ RequestInv'
        BY <1>1, <1>5, NewTermReplies DEF DataInv
  <2> QED  BY <2>3, <2>4 DEF DataInv
<1> QED  BY <1>3, <1>4, <1>5 DEF n, p

\* An RPC fails and its caller gives up or tries again.
LEMMA CallFailsTypes ==
    ASSUME KnownTypes, DataInv, NEW l \in Link, CallFails(l[1], l[2])
    PROVE  DataInv'
<1> DEFINE n == l[1]
           p == l[2]
<1>1. n \in Node /\ p \in Node /\ l = <<n, p>>
      BY LinkNodes
<1> HIDE DEF n, p
<1>2. CallFails(n, p)
      BY DEF n, p
<1>3. UNCHANGED <<votes, abort, logVars, appendTimers, req, elections, leaders,
                  next, match, beat>>
      BY <1>2 DEF CallFails, raftVars, timerVars, history
<1>4. fails \in 0..MaxFails /\ call \in [Link -> Messages \union {NoCall}]
      /\ late \subseteq [from : Node, to : Node, request : Requests]
      BY DEF DataInv, CallerTypes, CallTypes
<1>5. fails' \in 0..MaxFails
  <2>1. fails' = fails \/ fails' = fails + 1
        BY <1>2 DEF CallFails
  <2>2. fails' <= MaxFails
        BY <1>2 DEF CallFails
  <2> QED  BY <1>4, <2>1, <2>2, BoundAssumption
<1>6. late' \subseteq [from : Node, to : Node, request : Requests]
  <2>1. CASE call[l].stage = "request"
    <3>1. call[l] # NoCall /\ call[l] \in Messages
          BY <1>1, <1>2, <1>4 DEF CallFails
    <3>2. call[l] \in Requests
          BY <2>1, <3>1 DEF Messages, Answers
    <3>3. [from |-> n, to |-> p, request |-> call[l]]
              \in [from : Node, to : Node, request : Requests]
          BY <1>1, <3>2
    <3>4. late' = late \union {[from |-> n, to |-> p, request |-> call[l]]}
          BY <1>1, <1>2, <2>1 DEF CallFails
    <3> QED  BY <1>4, <3>3, <3>4
  <2>2. CASE call[l].stage # "request"
    <3>1. late' = late
          BY <1>1, <1>2, <2>2 DEF CallFails
    <3> QED  BY <1>4, <3>1
  <2> QED  BY <2>1, <2>2
<1>7. call' \in [Link -> Messages \union {NoCall}]
  <2>1. VoteRequest(n) \in Messages
        BY <1>1, VoteRequestTyped DEF DataInv, Messages, Requests
  <2>2. \/ call' = [call EXCEPT ![l] = NoCall]
        \/ call' = [call EXCEPT ![l] = VoteRequest(n)]
        BY <1>1, <1>2 DEF CallFails, GiveUp
  <2> QED  BY <1>4, <2>1, <2>2
<1>8. CallTypes'
      BY <1>3, <1>6, <1>7 DEF DataInv, CallTypes
<1> QED  BY <1>3, <1>5, <1>8, TypesStay

\* The timer thread: the election timer and the timers of the callers.
LEMMA TimerStepTypes ==
    ASSUME DataInv, NEW n \in Node, TimerStep(n)
    PROVE  DataInv'
<1>1. ASSUME ElectionTimeout(n) PROVE DataInv'
  <2>1. /\ UNCHANGED <<votes, logVars, appendTimers, next, match, beat, call, abort,
                       req, late, fails, leaders>>
        /\ elections < MaxElections /\ elections' = elections + 1
        BY <1>1 DEF ElectionTimeout, raftVars, peerVars, history
  <2>2. elections' \in 0..MaxElections
        BY <2>1, BoundAssumption DEF DataInv, CallerTypes
  <2>3. LogTypes' /\ CallTypes' /\ CallerTypes'
        BY <2>1, <2>2 DEF DataInv, LogTypes, CallTypes, CallerTypes, logVars
  <2>4. ReplyTypes' /\ RequestInv'
        BY <2>1, RepliesStay DEF DataInv, DeadStay, logVars
  <2> QED  BY <2>3, <2>4 DEF DataInv
<1>2. ASSUME ElectionCallback(n) PROVE DataInv'
  <2>1. UNCHANGED <<votes, abort, logVars, appendTimers, req, elections, leaders,
                    next, match, beat, call, late, fails>>
        BY <1>2 DEF ElectionCallback, envVars, history
  <2>2. CallTypes' /\ fails' \in 0..MaxFails
        BY <2>1 DEF DataInv, CallTypes, CallerTypes
  <2> QED  BY <2>1, <2>2, TypesStay
<1>3. ASSUME NEW r \in Request, AppendTimeout(n, r) PROVE DataInv'
  <2>1. /\ UNCHANGED <<votes, abort, log, committed, applying, applied, next, match,
                       beat, call, req, late, elections, fails, leaders>>
        /\ appendTimers' = [appendTimers EXCEPT ![n] = @ \ {r}]
        BY <1>3 DEF AppendTimeout, raftVars, peerVars, envVars, history
  <2>2. LogTypes' /\ CallTypes' /\ CallerTypes'
        BY <2>1 DEF DataInv, LogTypes, CallTypes, CallerTypes
  <2>3. ReplyTypes' /\ RequestInv'
        BY <1>3, AppendTimeoutReplies DEF DataInv
  <2> QED  BY <2>2, <2>3 DEF DataInv
<1> QED  BY <1>1, <1>2, <1>3 DEF TimerStep

\* The committer thread.
LEMMA CommitterStepTypes ==
    ASSUME DataInv, NEW n \in Node, CommitterStep(n)
    PROVE  DataInv'
<1>1. ASSUME RunReply(n) PROVE DataInv'
  <2> DEFINE item == Head(committer[n])
  <2>1. RequestInv' /\ ReplyTypes' /\ item.req \in Request
        BY <1>1, RunReplyReplies DEF DataInv
  <2>2. /\ UNCHANGED <<votes, abort, log, committed, appendTimers, applying, next,
                       match, beat, call, late, elections, fails, leaders>>
        /\ req' = [req EXCEPT ![item.req] =
                       [@ EXCEPT !.pc = IF item.ok THEN "ok" ELSE "failed"]]
        /\ \/ applied' = applied
           \/ applied' = [applied EXCEPT ![n] = Append(@, item.req)]
    <3>1. applied' = [applied EXCEPT ![n] =
                          IF item.ok THEN Append(@, item.req) ELSE @]
          BY <1>1 DEF RunReply
    <3>2. \/ applied' = applied
          \/ applied' = [applied EXCEPT ![n] = Append(@, item.req)]
          BY <3>1 DEF DataInv, LogTypes
    <3> QED  BY <1>1, <3>2 DEF RunReply, raftVars, timerVars, peerVars, history
  <2> DEFINE r == item.req
             pc == IF item.ok THEN "ok" ELSE "failed"
  <2>6. /\ r \in Request /\ pc \in {"ok", "failed"}
        /\ req' = [req EXCEPT ![r] = [@ EXCEPT !.pc = pc]]
        /\ applied' = applied \/ applied' = [applied EXCEPT ![n] = Append(@, r)]
        BY <2>1, <2>2
  <2> HIDE DEF item, r, pc
  <2>3. applied' \in [Node -> Seq(Request)]
    <3>1. applied \in [Node -> Seq(Request)] /\ Append(applied[n], r) \in Seq(Request)
          BY <2>6 DEF DataInv, LogTypes
    <3> QED  BY <2>6, <3>1
  <2>4. LogTypes' /\ CallTypes'
        BY <2>2, <2>3 DEF DataInv, LogTypes, CallTypes
  <2>5. CallerTypes'
    <3>1. /\ req' = [req EXCEPT ![r] = [@ EXCEPT !.pc = pc]]
          /\ r \in Request /\ pc \in {"ok", "failed"}
          /\ elections' = elections /\ fails' = fails /\ leaders' = leaders
          BY <2>2, <2>6
    <3> QED  BY <3>1 DEF DataInv, CallerTypes
  <2> QED  BY <2>1, <2>4, <2>5 DEF DataInv
<1>2. ASSUME ReadEntries(n) PROVE DataInv'
  <2> DEFINE first == committed[n] + 1
             count == Head(committer[n]).upTo - committed[n]
             fatal == count # 0 /\ Throws(log[n], first)
  <2>1. RequestInv' /\ ReplyTypes'
        BY <1>2, ReadEntriesReplies DEF DataInv
  <2>2. /\ UNCHANGED <<votes, log, committed, appendTimers, applied, next, match,
                       beat, call, req, late, elections, fails, leaders>>
        /\ \/ abort' = abort
           \/ abort' = [abort EXCEPT ![n] = "terminate"]
        /\ \/ applying' = [applying EXCEPT ![n] = <<>>]
           \/ applying' = [applying EXCEPT ![n] = GetEntries(log[n], first, count)]
    <3>1. /\ abort' = [abort EXCEPT ![n] = IF fatal THEN "terminate" ELSE @]
          /\ applying' = [applying EXCEPT ![n] =
                              IF fatal THEN <<>> ELSE GetEntries(log[n], first, count)]
          BY <1>2 DEF ReadEntries
    <3> HIDE DEF fatal
    <3>2. abort' = abort \/ abort' = [abort EXCEPT ![n] = "terminate"]
          BY <3>1 DEF DataInv, LogTypes
    <3>3. \/ applying' = [applying EXCEPT ![n] = <<>>]
          \/ applying' = [applying EXCEPT ![n] = GetEntries(log[n], first, count)]
          BY <3>1
    <3> QED  BY <1>2, <3>2, <3>3 DEF ReadEntries, raftVars, timerVars, peerVars, history
  <2>3. first \in Nat /\ count \in Int
    <3>1. committer[n] \in Seq(Items) /\ committer[n] # <<>>
          /\ Head(committer[n]).op = "apply"
          BY <1>2 DEF ReadEntries, NextItem, DataInv, ReplyTypes
    <3> DEFINE s == committer[n]
    <3> HIDE DEF s
    <3>2. Head(s) \in Items
          BY <3>1 DEF s
    <3>3. Head(s).upTo \in Nat
          BY <3>1, <3>2 DEF Items, s
    <3> QED  BY <3>3 DEF DataInv, LogTypes, s
  <2> HIDE DEF first, count
  <2>4. GetEntries(log[n], first, count) \in Seq(Entry)
        BY <2>3, GetEntriesTyped DEF DataInv, LogTypes
  <2>5. applying' \in [Node -> Seq(Entry)]
    <3> DEFINE read == GetEntries(log[n], first, count)
    <3>1. \/ applying' = [applying EXCEPT ![n] = <<>>]
          \/ applying' = [applying EXCEPT ![n] = read]
          BY <2>2
    <3>2. read \in Seq(Entry) /\ <<>> \in Seq(Entry)
          BY <2>4
    <3>3. applying \in [Node -> Seq(Entry)]
          BY DEF DataInv, LogTypes
    <3> HIDE DEF read
    <3> QED  BY <3>1, <3>2, <3>3
  <2>6. LogTypes' /\ CallTypes' /\ CallerTypes'
        BY <2>2, <2>5 DEF DataInv, LogTypes, CallTypes, CallerTypes
  <2> QED  BY <2>1, <2>6 DEF DataInv
<1>3. ASSUME ApplyEntry(n) PROVE DataInv'
  <2> DEFINE s == applying[n]
             e == Head(s)
  <2>1. s \in Seq(Entry) /\ s # <<>>
        BY <1>3 DEF ApplyEntry, DataInv, LogTypes
  <2>2. /\ UNCHANGED <<votes, log, appendTimers, callbacks, committer, next, match,
                       beat, call, req, late, elections, fails, leaders>>
        /\ applying' = [applying EXCEPT ![n] = Tail(s)]
        /\ \/ /\ applied' = [applied EXCEPT ![n] = Append(@, e.data)]
              /\ committed' = [committed EXCEPT ![n] = @ + 1]
              /\ abort' = abort
           \/ /\ abort' = [abort EXCEPT ![n] = "order"]
              /\ UNCHANGED <<applied, committed>>
        BY <1>3 DEF ApplyEntry, raftVars, timerVars, peerVars, history
  <2> HIDE DEF s
  <2>3. Tail(s) \in Seq(Entry) /\ e \in Entry
        BY <2>1
  <2>4. e.data \in Request
        BY <2>3 DEF Entry
  <2> HIDE DEF e
  <2>5. applied' \in [Node -> Seq(Request)] /\ committed' \in [Node -> Nat]
    <3> DEFINE r == e.data
    <3>1. /\ applied' = applied \/ applied' = [applied EXCEPT ![n] = Append(@, r)]
          /\ committed' = committed \/ committed' = [committed EXCEPT ![n] = @ + 1]
          BY <2>2
    <3>2. r \in Request
          BY <2>4
    <3> HIDE DEF r
    <3>3. applied \in [Node -> Seq(Request)] /\ Append(applied[n], r) \in Seq(Request)
          BY <3>2 DEF DataInv, LogTypes
    <3>4. committed \in [Node -> Nat] /\ committed[n] + 1 \in Nat
          BY DEF DataInv, LogTypes
    <3> QED  BY <3>1, <3>3, <3>4
  <2>6. applying' \in [Node -> Seq(Entry)]
        BY <2>2, <2>3 DEF DataInv, LogTypes
  <2>7. LogTypes' /\ CallTypes' /\ CallerTypes'
        BY <2>2, <2>5, <2>6 DEF DataInv, LogTypes, CallTypes, CallerTypes
  <2>8. DeadStay
        BY <2>2 DEF DeadStay, DataInv, LogTypes
  <2>9. ReplyTypes' /\ RequestInv'
        BY <2>2, <2>8, RepliesStay DEF DataInv
  <2> QED  BY <2>7, <2>9 DEF DataInv
<1> QED  BY <1>1, <1>2, <1>3 DEF CommitterStep

\* filelog::write
LEMMA WriteTyped ==
    ASSUME NEW s \in Seq(Entry), NEW t \in Nat, NEW r \in Request
    PROVE  WriteNew(s, t, r) \in Seq(Entry)
<1>1. \A i \in Nat : [index |-> i, term |-> t, data |-> r] \in Entry
      BY DEF Entry
<1>2. LastIndex(s) + 1 \in Nat
      BY LastIndexTyped
<1>3. \A e \in Entry : Append(s, e) \in Seq(Entry)
      OBVIOUS
<1> QED  BY <1>1, <1>2, <1>3 DEF WriteNew, Write

\* The threads inside replicate.
LEMMA CallerStepTypes ==
    ASSUME KnownTypes, DataInv, NEW r \in Request,
           ReplicateStep(r) \/ \E n \in Node : CheckLeader(r, n)
    PROVE  DataInv'
<1>1. ASSUME NEW n \in Node, CheckLeader(r, n) PROVE DataInv'
  <2>1. /\ UNCHANGED <<votes, abort, logVars, appendTimers, next, match, beat, call,
                       late, elections, fails, leaders>>
        /\ req' = [req EXCEPT ![r] = [@ EXCEPT !.pc = "checked", !.node = n]]
        BY <1>1 DEF CheckLeader, raftVars, timerVars, peerVars, history
  <2>2. LogTypes' /\ CallTypes' /\ CallerTypes'
        BY ZenonT(40), <2>1 DEF DataInv, LogTypes, CallTypes, CallerTypes, logVars
  <2>3. ReplyTypes' /\ RequestInv'
        BY <1>1, CheckLeaderReplies DEF DataInv
  <2> QED  BY <2>2, <2>3 DEF DataInv
<1>2. ASSUME WriteEntry(r) PROVE DataInv'
  <2> DEFINE n == req[r].node
             i == LastIndex(log[n])
  <2>1. RequestInv' /\ ReplyTypes' /\ n \in Node /\ i \in Nat
        BY <1>2, WriteEntryReplies DEF DataInv
  <2>2. /\ UNCHANGED <<votes, abort, committed, applying, applied, next, match, beat,
                       call, late, elections, fails, leaders>>
        /\ log' = [log EXCEPT ![n] = WriteNew(@, currentTerm[n], r)]
        /\ appendTimers' = [appendTimers EXCEPT ![n] = @ \union {r}]
        /\ req' = [req EXCEPT ![r] = [@ EXCEPT !.pc = "written", !.index = i + 1]]
        BY <1>2 DEF WriteEntry, raftVars, peerVars, history
  <2>3. currentTerm[n] \in Nat /\ log[n] \in Seq(Entry)
        BY <2>1 DEF KnownTypes, VoteInv, TermTypeOK, DataInv, LogTypes
  <2>4. WriteNew(log[n], currentTerm[n], r) \in Seq(Entry)
        BY <2>3, WriteTyped
  <2> HIDE DEF n, i
  <2>5. log' \in [Node -> Seq(Entry)] /\ appendTimers' \in [Node -> SUBSET Request]
        BY <2>1, <2>2, <2>4 DEF DataInv, LogTypes
  <2>6. LogTypes' /\ CallTypes'
        BY <2>2, <2>5 DEF DataInv, LogTypes, CallTypes
  <2>7. CallerTypes'
    <3>1. /\ req' = [req EXCEPT ![r] = [@ EXCEPT !.pc = "written", !.index = i + 1]]
          /\ i + 1 \in Nat
          /\ elections' = elections /\ fails' = fails /\ leaders' = leaders
          BY <2>1, <2>2
    <3> QED  BY <3>1 DEF DataInv, CallerTypes
  <2> QED  BY <2>1, <2>6, <2>7 DEF DataInv
<1>3. ASSUME InsertCallback(r) PROVE DataInv'
  <2>1. /\ UNCHANGED <<votes, abort, log, committed, appendTimers, applying, applied,
                       next, match, beat, call, late, elections, fails, leaders>>
        /\ req' = [req EXCEPT ![r] = [@ EXCEPT !.pc = "waiting"]]
        BY <1>3 DEF InsertCallback, raftVars, timerVars, history
  <2>2. LogTypes' /\ CallTypes'
        BY <2>1 DEF DataInv, LogTypes, CallTypes
  <2>3. CallerTypes'
        BY SMTT(20), <2>1 DEF DataInv, CallerTypes
  <2>4. ReplyTypes' /\ RequestInv'
        BY <1>3, InsertCallbackReplies DEF DataInv
  <2> QED  BY <2>2, <2>3, <2>4 DEF DataInv
<1> QED  BY <1>1, <1>2, <1>3 DEF ReplicateStep

\* Every step keeps types and account.
LEMMA DataInvNext == KnownTypes /\ DataInv /\ [Next]_vars => DataInv'
<1> SUFFICES ASSUME KnownTypes, DataInv, [Next]_vars PROVE DataInv'
    OBVIOUS
<1>1. ASSUME NEW l \in Link, PeerStep(l[1], l[2]) PROVE DataInv'
      BY <1>1, LoopTypes, AnswerTypes DEF PeerStep
<1>2. ASSUME NEW l \in Link, ServeCall(l[1], l[2]) PROVE DataInv'
      BY <1>2, ServeTypes
<1>3. ASSUME NEW m \in late, ServeLate(m) PROVE DataInv'
      BY <1>3, ServeTypes
<1>4. ASSUME NEW l \in Link, CallFails(l[1], l[2]) PROVE DataInv'
      BY <1>4, CallFailsTypes
<1>5. ASSUME NEW n \in Node, TimerStep(n) \/ CommitterStep(n) PROVE DataInv'
      BY <1>5, TimerStepTypes, CommitterStepTypes
<1>6. ASSUME NEW r \in Request, ReplicateStep(r) \/ \E n \in Node : CheckLeader(r, n)
      PROVE DataInv'
      BY <1>6, CallerStepTypes
<1>7. ASSUME UNCHANGED vars PROVE DataInv'
  <2>1. UNCHANGED <<votes, abort, logVars, appendTimers, req, elections, leaders,
                    next, match, beat, call, late, fails>>
        BY <1>7 DEF vars, raftVars, timerVars, logVars, peerVars, envVars, history
  <2>2. CallTypes' /\ fails' \in 0..MaxFails
        BY <2>1 DEF DataInv, CallTypes, CallerTypes
  <2> QED  BY <2>1, <2>2, TypesStay
<1> QED  BY <1>1, <1>2, <1>3, <1>4, <1>5, <1>6, <1>7 DEF Next

\* They hold at the start.
LEMMA DataInvInit == Init => DataInv
<1> SUFFICES ASSUME Init PROVE DataInv
    OBVIOUS
<1>1. LogTypes
      BY DEF Init, LogTypes
<1>2. ReplyTypes
      BY DEF Init, ReplyTypes
<1>3. CallTypes
      BY DEF Init, CallTypes
<1>4. CallerTypes
      BY BoundAssumption DEF Init, CallerTypes
<1>5. \A n \in Node : callbacks[n] = {} /\ committer[n] = <<>>
      BY DEF Init
<1>6. \A r \in Request : req[r] = [pc |-> "new", node |-> Nil, index |-> 0]
      BY DEF Init
<1>7. CallersKnown /\ WaitersKnown
      BY <1>6 DEF CallersKnown, WaitersKnown
<1>8. CallbacksKnown /\ RepliesKnown
      BY <1>5, FS_EmptySet DEF CallbacksKnown, RepliesKnown, OnePerIndex
<1> QED  BY <1>1, <1>2, <1>3, <1>4, <1>7, <1>8 DEF DataInv, RequestInv

-----------------------------------------------------------------------------
(* What follows for every run.                                              *)

\* The invariants of RaftProofs together, at the start.
LEMMA KnownTypesInit == Init => KnownTypes
BY VoteInvInit, TimerInvInit, ThreadInvInit DEF KnownTypes

\* The invariants of RaftProofs together, after a step.
LEMMA KnownTypesNext == KnownTypes /\ [Next]_vars => KnownTypes'
BY VoteInvNext, TimerInvNext, ThreadInvNext DEF KnownTypes

\* Every variable of every node, link and caller has its type in every run, for
\* any number of nodes and requests: messages are well formed, no callback is
\* left that waits for nobody, and the commit index is a number.
THEOREM RaftTyped == Spec => []TypeOK
<1>1. Init => KnownTypes /\ DataInv
      BY KnownTypesInit, DataInvInit
<1>2. KnownTypes /\ DataInv /\ [Next]_vars => KnownTypes' /\ DataInv'
      BY KnownTypesNext, DataInvNext
<1>3. KnownTypes /\ DataInv => TypeOK
      BY TypesTogether DEF DataInv
<1> QED  BY <1>1, <1>2, <1>3, PTL DEF Spec

\* What is to come for a request: callbacks and replies, at their places.
LEMMA PendingAre ==
    ASSUME NEW r \in Request, NEW a
    PROVE  a \in Pending(r) <=>
               \E n \in Node :
                   \/ \E c \in callbacks[n] : c.req = r /\ a = <<n, "callback", c.index>>
                   \/ \E i \in DOMAIN committer[n] :
                          /\ IsReply(n, i) /\ committer[n][i].req = r
                          /\ a = <<n, "reply", i>>
BY DEF Pending, Replies, IsReply

\* The account of the requests says that each is answered once.
LEMMA AnsweredFollows ==
    ASSUME RequestInv, ReplyTypes
    PROVE  AnsweredOnce
<1> SUFFICES ASSUME NEW r \in Request
             PROVE  IF req[r].pc = "waiting"
                    THEN /\ \A a, b \in Pending(r) : a = b
                         /\ Alive(req[r].node) => Pending(r) # {} \/ Collides(r)
                    ELSE Pending(r) = {}
    BY DEF AnsweredOnce
<1>1. ASSUME NEW a \in Pending(r)
      PROVE  /\ req[r].pc = "waiting" /\ req[r].node \in Node
             /\ \/ \E c \in callbacks[req[r].node] :
                       c.req = r /\ a = <<req[r].node, "callback", c.index>>
                \/ \E i \in DOMAIN committer[req[r].node] :
                       /\ IsReply(req[r].node, i) /\ committer[req[r].node][i].req = r
                       /\ a = <<req[r].node, "reply", i>>
  <2>1. PICK n \in Node :
            \/ \E c \in callbacks[n] : c.req = r /\ a = <<n, "callback", c.index>>
            \/ \E i \in DOMAIN committer[n] :
                   /\ IsReply(n, i) /\ committer[n][i].req = r
                   /\ a = <<n, "reply", i>>
        BY PendingAre
  <2>2. req[r].pc = "waiting" /\ req[r].node = n
        BY <2>1 DEF RequestInv, CallbacksKnown, RepliesKnown
  <2> QED  BY <2>1, <2>2
<1>2. ASSUME NEW a \in Pending(r), NEW b \in Pending(r)
      PROVE  a = b
  <2> DEFINE n == req[r].node
  <2>1. n \in Node /\ OnePerRequest(callbacks[n])
        BY <1>1, CallbacksDiffer
  <2>2. ASSUME NEW c \in callbacks[n], c.req = r,
               NEW i \in DOMAIN committer[n], IsReply(n, i), committer[n][i].req = r
        PROVE  FALSE
        BY <2>1, <2>2 DEF RequestInv, RepliesKnown
  <2>3. ASSUME NEW i \in DOMAIN committer[n], IsReply(n, i), committer[n][i].req = r,
               NEW j \in DOMAIN committer[n], IsReply(n, j), committer[n][j].req = r
        PROVE  i = j
        BY <2>1, <2>3 DEF RequestInv, RepliesKnown
  <2>4. ASSUME NEW c \in callbacks[n], c.req = r, NEW d \in callbacks[n], d.req = r
        PROVE  c = d
        BY <2>1, <2>4 DEF OnePerRequest
  <2> HIDE DEF n
  <2>5. /\ \/ \E c \in callbacks[n] : c.req = r /\ a = <<n, "callback", c.index>>
           \/ \E i \in DOMAIN committer[n] : /\ IsReply(n, i) /\ committer[n][i].req = r
                                             /\ a = <<n, "reply", i>>
        /\ \/ \E c \in callbacks[n] : c.req = r /\ b = <<n, "callback", c.index>>
           \/ \E i \in DOMAIN committer[n] : /\ IsReply(n, i) /\ committer[n][i].req = r
                                             /\ b = <<n, "reply", i>>
        BY <1>1 DEF n
  <2> QED  BY <2>2, <2>3, <2>4, <2>5
<1>3. ASSUME req[r].pc = "waiting", Alive(req[r].node), ~Collides(r)
      PROVE  Pending(r) # {}
  <2> DEFINE n == req[r].node
  <2>1. n \in Node /\ WillBeAnswered(r)
        BY <1>3 DEF RequestInv, CallersKnown, WaitersKnown
  <2>2. \/ \E c \in callbacks[n] : c.req = r
        \/ \E i \in DOMAIN committer[n] : IsReply(n, i) /\ committer[n][i].req = r
        BY <2>1 DEF WillBeAnswered
  <2> HIDE DEF n
  <2>3. ASSUME NEW c \in callbacks[n], c.req = r PROVE Pending(r) # {}
    <3>1. <<n, "callback", c.index>> \in Pending(r)
          BY <2>1, <2>3, PendingAre
    <3> QED  BY <3>1
  <2>4. ASSUME NEW i \in DOMAIN committer[n], IsReply(n, i), committer[n][i].req = r
        PROVE  Pending(r) # {}
    <3>1. <<n, "reply", i>> \in Pending(r)
          BY <2>1, <2>4, PendingAre
    <3> QED  BY <3>1
  <2> QED  BY <2>2, <2>3, <2>4
<1> QED  BY <1>1, <1>2, <1>3

\* No caller of replicate is answered twice, and none that is still in
\* append_log_callbacks_ or in the committer's queue is dropped: not by an
\* acknowledgement after the timeout, nor by a timeout after step_down.
THEOREM CallersAnsweredOnce == Spec => []AnsweredOnce
<1>1. Init => KnownTypes /\ DataInv
      BY KnownTypesInit, DataInvInit
<1>2. KnownTypes /\ DataInv /\ [Next]_vars => KnownTypes' /\ DataInv'
      BY KnownTypesNext, DataInvNext
<1>3. DataInv => AnsweredOnce
      BY AnsweredFollows DEF DataInv
<1> QED  BY <1>1, <1>2, <1>3, PTL DEF Spec

-----------------------------------------------------------------------------
(* The timer of a callback, when no timeout elapses before insert_callback.  *)

\* A step that neither cancels a timer nor brings a callback.
LEMMA TimersStay ==
    ASSUME TimersKnown, UNCHANGED appendTimers,
           \A n \in Node : callbacks'[n] \subseteq callbacks[n],
           \A r \in Request : req'[r].pc = "written" => req'[r] = req[r]
    PROVE  TimersKnown'
BY DEF TimersKnown, CallbackCanTimeOut

\* step_down takes the callbacks away and leaves the timers alone.
LEMMA HandlersKeepTimers ==
    ASSUME TimersKnown, ReplyTypes,
           NEW n \in Node, NEW p, NEW q,
           \/ HandleVoteRequest(n, p, q) \/ HandleAppendRequest(n, q)
           \/ VoteResponse(n, p) \/ HandleNewTerm(n, p)
    PROVE  TimersKnown'
<1>1. UNCHANGED <<appendTimers, req>>
  <2>1. ASSUME HandleVoteRequest(n, p, q) PROVE UNCHANGED <<appendTimers, req>>
        BY <2>1 DEF HandleVoteRequest
  <2>2. ASSUME HandleAppendRequest(n, q) PROVE UNCHANGED <<appendTimers, req>>
        BY <2>2 DEF HandleAppendRequest
  <2>3. ASSUME VoteResponse(n, p) PROVE UNCHANGED <<appendTimers, req>>
        BY <2>3 DEF VoteResponse, envVars
  <2>4. ASSUME HandleNewTerm(n, p) PROVE UNCHANGED <<appendTimers, req>>
        BY <2>4 DEF HandleNewTerm, envVars
  <2> QED  BY <2>1, <2>2, <2>3, <2>4
<1>2. \A m \in Node : callbacks'[m] \subseteq callbacks[m]
  <2>1. callbacks' = callbacks \/ callbacks' = [callbacks EXCEPT ![n] = {}]
    <3>1. ASSUME HandleVoteRequest(n, p, q)
          PROVE  callbacks' = callbacks \/ callbacks' = [callbacks EXCEPT ![n] = {}]
          BY <3>1 DEF HandleVoteRequest, StepDown
    <3>2. ASSUME HandleAppendRequest(n, q)
          PROVE  callbacks' = callbacks \/ callbacks' = [callbacks EXCEPT ![n] = {}]
          BY <3>2 DEF HandleAppendRequest, StepDown
    <3>3. ASSUME VoteResponse(n, p)
          PROVE  callbacks' = callbacks \/ callbacks' = [callbacks EXCEPT ![n] = {}]
          BY <3>3 DEF VoteResponse, ReplyTypes
    <3>4. ASSUME HandleNewTerm(n, p)
          PROVE  callbacks' = [callbacks EXCEPT ![n] = {}]
          BY <3>4 DEF HandleNewTerm, StepDown
    <3> QED  BY <3>1, <3>2, <3>3, <3>4
  <2> QED  BY <2>1 DEF ReplyTypes
<1> QED  BY <1>1, <1>2, TimersStay

\* append_entries_callback cancels the timers of those it has answered only.
LEMMA SuccessKeepsTimers ==
    ASSUME DataInv, TimersKnown, NEW l \in Link, AppendSuccess(l[1], l[2])
    PROVE  TimersKnown'
<1> DEFINE n == l[1]
           p == l[2]
           acks == CountAcks(n, call[l].sent)
<1>1. n \in Node /\ p \in Node /\ l = <<n, p>>
      BY LinkNodes
<1>2. acks \in Counts /\ Counted(callbacks[n], acks)
      BY <1>1, AppendSuccessReplies DEF DataInv
<1>3. /\ callbacks' = [callbacks EXCEPT ![n] = acks.callbacks]
      /\ appendTimers' = [appendTimers EXCEPT ![n] = @ \ ToSet(acks.done)]
      /\ UNCHANGED req
      BY <1>1 DEF AppendSuccess, envVars
<1> HIDE DEF n, p, acks
<1>4. ToSet(acks.done) = {acks.done[i] : i \in DOMAIN acks.done}
      BY DEF ToSet
<1>5. /\ \A m \in Node : m # n => callbacks'[m] = callbacks[m]
                                  /\ appendTimers'[m] = appendTimers[m]
      /\ callbacks'[n] = acks.callbacks
      /\ appendTimers'[n] = appendTimers[n] \ ToSet(acks.done)
      BY <1>1, <1>3 DEF DataInv, ReplyTypes, LogTypes
<1>6. \A r \in ToSet(acks.done) : req[r].pc = "waiting"
  <2> SUFFICES ASSUME NEW i \in DOMAIN acks.done
               PROVE  req[acks.done[i]].pc = "waiting"
      BY <1>4
  <2>1. \E c \in callbacks[n] : c.req = acks.done[i]
        BY <1>2 DEF Counted
  <2> QED  BY <1>1, <2>1 DEF DataInv, RequestInv, CallbacksKnown
<1>7. \A d \in acks.callbacks : /\ \E c \in callbacks[n] : c.req = d.req
                                /\ d.req \notin ToSet(acks.done)
      BY <1>2, <1>4 DEF Counted, Same
<1>8. ASSUME NEW r \in Request, req[r].pc = "written"
      PROVE  r \in appendTimers'[req[r].node]
  <2>1. r \in appendTimers[req[r].node] /\ req[r].node \in Node
        BY <1>8 DEF TimersKnown, DataInv, RequestInv, CallersKnown
  <2>2. r \notin ToSet(acks.done)
        BY <1>6, <1>8
  <2> QED  BY <2>1, <2>2, <1>5
<1>9. CallbackCanTimeOut'
      BY <1>1, <1>5, <1>7 DEF TimersKnown, CallbackCanTimeOut
<1> QED  BY <1>3, <1>8, <1>9 DEF TimersKnown

\* A timer that is over has taken its callback along, found by its index.
LEMMA TimeoutKeepsTimers ==
    ASSUME EarlyTimeout = FALSE, DataInv, TimersKnown, NEW n \in Node,
           NEW r \in Request, AppendTimeout(n, r)
    PROVE  TimersKnown'
<1>1. /\ req[r].pc # "written" /\ UNCHANGED req
      /\ appendTimers' = [appendTimers EXCEPT ![n] = @ \ {r}]
      /\ callbacks' = [callbacks EXCEPT ![n] = @ \ TimedOut(n, r)]
      BY DEF AppendTimeout, envVars
<1>2. /\ \A m \in Node : m # n => callbacks'[m] = callbacks[m]
                                  /\ appendTimers'[m] = appendTimers[m]
      /\ callbacks'[n] = callbacks[n] \ TimedOut(n, r)
      /\ appendTimers'[n] = appendTimers[n] \ {r}
      BY <1>1 DEF DataInv, ReplyTypes, LogTypes
<1>3. ASSUME NEW c \in callbacks[n], c.req = r PROVE c \in TimedOut(n, r)
      BY <1>3 DEF TimedOut, DataInv, RequestInv, CallbacksKnown
<1>4. CallbackCanTimeOut'
      BY <1>2, <1>3 DEF TimersKnown, CallbackCanTimeOut
<1>5. ASSUME NEW s \in Request, req[s].pc = "written"
      PROVE  s \in appendTimers'[req[s].node]
  <2>1. s # r /\ s \in appendTimers[req[s].node] /\ req[s].node \in Node
        BY <1>1, <1>5 DEF TimersKnown, DataInv, RequestInv, CallersKnown
  <2> QED  BY <2>1, <1>2
<1> QED  BY <1>1, <1>4, <1>5 DEF TimersKnown

\* replicate sets the timer before it inserts the callback.
LEMMA CallersKeepTimers ==
    ASSUME DataInv, TimersKnown, NEW r \in Request,
           ReplicateStep(r) \/ \E n \in Node : CheckLeader(r, n)
    PROVE  TimersKnown'
<1>1. ASSUME NEW n \in Node, CheckLeader(r, n) PROVE TimersKnown'
  <2>1. UNCHANGED <<callbacks, appendTimers>>
        /\ \A s \in Request : req'[s].pc = "written" => req'[s] = req[s]
        BY ZenonT(40), <1>1 DEF CheckLeader, logVars, timerVars, DataInv, CallerTypes
  <2> QED  BY <2>1, TimersStay
<1>2. ASSUME WriteEntry(r) PROVE TimersKnown'
  <2> DEFINE n == req[r].node
  <2>1. n \in Node
        BY <1>2, WriteEntryReplies DEF DataInv
  <2>2. /\ UNCHANGED callbacks
        /\ appendTimers' = [appendTimers EXCEPT ![n] = @ \union {r}]
        /\ req'[r].node = n /\ \A s \in Request : s # r => req'[s] = req[s]
        BY <1>2 DEF WriteEntry, DataInv, CallerTypes
  <2>3. /\ r \in appendTimers'[n]
        /\ \A m \in Node : appendTimers[m] \subseteq appendTimers'[m]
        BY <2>1, <2>2 DEF DataInv, LogTypes
  <2> HIDE DEF n
  <2>4. ASSUME NEW s \in Request, req'[s].pc = "written"
        PROVE  s \in appendTimers'[req'[s].node]
    <3>1. CASE s = r
          BY <3>1, <2>2, <2>3
    <3>2. CASE s # r
      <4>1. req'[s] = req[s] /\ s \in appendTimers[req[s].node] /\ req[s].node \in Node
            BY <2>2, <2>4, <3>2 DEF TimersKnown, DataInv, RequestInv, CallersKnown
      <4> QED  BY <4>1, <2>3
    <3> QED  BY <3>1, <3>2
  <2> QED  BY <2>2, <2>3, <2>4 DEF TimersKnown, CallbackCanTimeOut
<1>3. ASSUME InsertCallback(r) PROVE TimersKnown'
  <2> DEFINE n == req[r].node
             c0 == [index |-> req[r].index, waits |-> Majority - 1, req |-> r]
  <2>1. /\ req[r].pc = "written" /\ UNCHANGED appendTimers
        /\ \/ callbacks' = callbacks
           \/ callbacks' = [callbacks EXCEPT ![n] = @ \union {c0}]
        /\ \A s \in Request : req'[s].pc = "written" => req'[s] = req[s]
        BY <1>3 DEF InsertCallback, timerVars, DataInv, CallerTypes, ReplyTypes
  <2>2. n \in Node /\ r \in appendTimers[n] /\ c0.req = r
        BY <2>1 DEF TimersKnown, DataInv, RequestInv, CallersKnown
  <2> HIDE DEF n, c0
  <2>3. \A m \in Node : \A c \in callbacks'[m] : c \in callbacks[m] \/ (m = n /\ c = c0)
        BY <2>1, <2>2 DEF DataInv, ReplyTypes
  <2>4. CallbackCanTimeOut'
        BY <2>1, <2>2, <2>3 DEF TimersKnown, CallbackCanTimeOut
  <2> QED  BY <2>1, <2>4 DEF TimersKnown
<1> QED  BY <1>1, <1>2, <1>3 DEF ReplicateStep

\* Every step keeps the timers of the callbacks.
LEMMA TimersKnownNext ==
    ASSUME EarlyTimeout = FALSE, DataInv, TimersKnown, [Next]_vars
    PROVE  TimersKnown'
<1>1. ASSUME UNCHANGED <<callbacks, appendTimers, req>> PROVE TimersKnown'
      BY <1>1, TimersStay
<1>2. ASSUME NEW l \in Link, PeerStep(l[1], l[2]) PROVE TimersKnown'
  <2>1. l[1] \in Node /\ l[2] \in Node
        BY LinkNodes
  <2>2. ASSUME \/ PopSleep(l[1], l[2]) \/ FallAsleep(l[1], l[2])
               \/ PopElection(l[1], l[2]) \/ PopAppend(l[1], l[2])
               \/ AppendLoop(l[1], l[2]) \/ SendAppend(l[1], l[2])
               \/ AppendFailure(l[1], l[2])
        PROVE  UNCHANGED <<callbacks, appendTimers, req>>
        BY <2>2 DEF PopSleep, FallAsleep, PopElection, PopAppend, AppendLoop,
           SendAppend, AppendFailure, timerVars, logVars, envVars
  <2> QED  BY <1>1, <1>2, <2>1, <2>2, HandlersKeepTimers, SuccessKeepsTimers
           DEF PeerStep, DataInv
<1>3. ASSUME NEW l \in Link, ServeCall(l[1], l[2]) PROVE TimersKnown'
  <2>1. l[1] \in Node /\ l[2] \in Node
        BY LinkNodes
  <2> QED  BY <1>3, <2>1, HandlersKeepTimers
           DEF ServeCall, ServeVote, ServeAppend, DataInv
<1>4. ASSUME NEW m \in late, ServeLate(m) PROVE TimersKnown'
  <2>1. m.from \in Node /\ m.to \in Node
        BY DEF DataInv, CallTypes
  <2> QED  BY <1>4, <2>1, HandlersKeepTimers DEF ServeLate, DataInv
<1>5. ASSUME NEW l \in Link, CallFails(l[1], l[2]) PROVE TimersKnown'
      BY <1>1, <1>5 DEF CallFails, timerVars, logVars
<1>6. ASSUME NEW n \in Node, TimerStep(n) PROVE TimersKnown'
  <2>1. ASSUME ElectionTimeout(n) \/ ElectionCallback(n) PROVE TimersKnown'
        BY <1>1, <2>1 DEF ElectionTimeout, ElectionCallback, logVars, envVars
  <2> QED  BY <1>6, <2>1, TimeoutKeepsTimers DEF TimerStep
<1>7. ASSUME NEW n \in Node, CommitterStep(n) PROVE TimersKnown'
  <2>1. UNCHANGED <<callbacks, appendTimers>>
        BY <1>7 DEF CommitterStep, RunReply, ReadEntries, ApplyEntry, timerVars
  <2>2. \A r \in Request : req'[r].pc = "written" => req'[r] = req[r]
    <3>1. CASE RunReply(n)
      <4> DEFINE item == Head(committer[n])
                 pc == IF item.ok THEN "ok" ELSE "failed"
                 s == item.req
      <4>1. req' = [req EXCEPT ![s] = [@ EXCEPT !.pc = pc]] /\ s \in Request
            BY <3>1, RunReplyReplies DEF RunReply, DataInv
      <4>2. pc # "written"
            OBVIOUS
      <4> HIDE DEF pc, s
      <4> QED  BY <4>1, <4>2 DEF DataInv, CallerTypes
    <3>2. CASE ~RunReply(n)
          BY <1>7, <3>2 DEF CommitterStep, ReadEntries, ApplyEntry
    <3> QED  BY <3>1, <3>2
  <2> QED  BY <2>1, <2>2, TimersStay
<1>8. ASSUME NEW r \in Request, ReplicateStep(r) \/ \E n \in Node : CheckLeader(r, n)
      PROVE TimersKnown'
      BY <1>8, CallersKeepTimers
<1>9. ASSUME UNCHANGED vars PROVE TimersKnown'
      BY <1>1, <1>9 DEF vars, timerVars, logVars, envVars
<1> QED  BY <1>2, <1>3, <1>4, <1>5, <1>6, <1>7, <1>8, <1>9 DEF Next

\* Who waits for acknowledgements that never come is told: the callback goes
\* together with its timer, or before it.  This needs that no timeout is over
\* before insert_callback has run: the code sets the timer first.
THEOREM CallbacksTimeOut ==
    ASSUME EarlyTimeout = FALSE
    PROVE  Spec => []CallbackCanTimeOut
<1>1. Init => KnownTypes /\ DataInv /\ TimersKnown
  <2>1. Init => TimersKnown
        BY DEF Init, TimersKnown, CallbackCanTimeOut
  <2> QED  BY <2>1, KnownTypesInit, DataInvInit
<1>2. KnownTypes /\ DataInv /\ TimersKnown /\ [Next]_vars
      => KnownTypes' /\ DataInv' /\ TimersKnown'
      BY KnownTypesNext, DataInvNext, TimersKnownNext
<1>3. TimersKnown => CallbackCanTimeOut
      BY DEF TimersKnown
<1> QED  BY <1>1, <1>2, <1>3, PTL DEF Spec

-----------------------------------------------------------------------------
(* Replication under one leader.  Only a node that has been leader has peer  *)
(* threads in do_append_entries, append_entries requests on their way and    *)
(* callers inside replicate, though it may be leader no more.                *)

\* become_leader ran for the node, in some term.
HasLed(n) == \E l \in leaders : l[1] = n

\* The commands that can be in the queues of its peer threads.
Orders(n) == IF HasLed(n) THEN Commands ELSE Commands \ {"append"}

LateFits(m) == m.from # m.to /\ (m.request.type = "append" => HasLed(m.from))

Offices ==
    /\ \A n \in Node : state[n] = Leader => HasLed(n)
    /\ \A l \in Link : cmds[l] \in Seq(Orders(l[1]))
    /\ \A l \in Link : mode[l] \in Sending => HasLed(l[1])
    /\ \A l \in Link : call[l].type = "append" => HasLed(l[1])
    /\ \A m \in late : LateFits(m)
    /\ \A r \in Request : req[r].pc \in {"checked", "written"} => HasLed(req[r].node)

\* leaders only grows.
LEMMA LedStays ==
    ASSUME leaders \subseteq leaders'
    PROVE  /\ \A n : HasLed(n) => HasLed(n)'
           /\ \A n : Orders(n) \subseteq Orders(n)'
BY DEF HasLed, Orders

\* What a step has to keep of it, link by link.
LEMMA OfficesStay ==
    ASSUME Offices, leaders \subseteq leaders',
           \A n \in Node : state'[n] = Leader => state[n] = Leader \/ HasLed(n)',
           \A l \in Link : \/ cmds'[l] \in Seq(Orders(l[1]))
                           \/ cmds'[l] \in Seq(Orders(l[1])'),
           \A l \in Link : mode'[l] \in Sending => HasLed(l[1]),
           \A l \in Link : call'[l].type = "append" => HasLed(l[1]),
           \A m \in late' : LateFits(m),
           \A r \in Request : req'[r].pc \in {"checked", "written"} => HasLed(req'[r].node)
    PROVE  Offices'
<1>1. /\ \A n : HasLed(n) => HasLed(n)'
      /\ \A n : Orders(n) \subseteq Orders(n)'
      BY LedStays
<1>2. \A l \in Link : cmds'[l] \in Seq(Orders(l[1])')
  <2> SUFFICES ASSUME NEW l \in Link, cmds'[l] \in Seq(Orders(l[1]))
               PROVE  cmds'[l] \in Seq(Orders(l[1])')
      OBVIOUS
  <2> DEFINE S == Orders(l[1])
             T == Orders(l[1])'
             s == cmds'[l]
  <2>1. S \subseteq T /\ s \in Seq(S)
        BY <1>1
  <2> HIDE DEF S, T, s
  <2>2. s \in Seq(T)
        BY <2>1
  <2> QED  BY <2>2 DEF T, s
<1>3. \A m \in late' : LateFits(m)'
      BY <1>1 DEF LateFits
<1> QED  BY <1>1, <1>2, <1>3 DEF Offices

\* A queue that gets one more command, or loses its first.
LEMMA OrdersMove ==
    ASSUME NEW n, NEW s \in Seq(Orders(n))
    PROVE  /\ Append(s, "sleep") \in Seq(Orders(n))
           /\ Append(s, "election") \in Seq(Orders(n))
           /\ s # <<>> => Tail(s) \in Seq(Orders(n)) /\ Head(s) \in Orders(n)
<1> DEFINE S == Orders(n)
<1>1. "sleep" \in S /\ "election" \in S
      BY DEF Orders, Commands
<1> HIDE DEF S
<1>2. s \in Seq(S)
      BY DEF S
<1>3. /\ Append(s, "sleep") \in Seq(S)
      /\ Append(s, "election") \in Seq(S)
      /\ s # <<>> => Tail(s) \in Seq(S) /\ Head(s) \in S
      BY <1>1, <1>2
<1> QED  BY <1>3 DEF S

\* step_down tells no thread to send entries.
LEMMA StepDownOffices ==
    ASSUME ThreadTypeOK, Offices, NEW n \in Node, NEW term, NEW vote,
           NEW md \in [Link -> Modes], StepDown(n, term, vote, md)
    PROVE  /\ \A m \in Node : state'[m] = Leader => state[m] = Leader
           /\ \A l \in Link : cmds'[l] \in Seq(Orders(l[1]))
           /\ \A l \in Link : mode'[l] \in Sending => md[l] \in Sending
<1>1. \A m \in Node : state'[m] = Leader => state[m] = Leader
      BY DEF StepDown, ThreadTypeOK, Leader, Follower
<1>2. \A l \in Link : cmds'[l] = cmds[l] \/ cmds'[l] = Append(cmds[l], "sleep")
      BY DEF StepDown, SleepPeers, Push
<1>3. \A l \in Link : mode'[l] \in Sending => md[l] \in Sending
      BY WakeTyped DEF StepDown, Sending
<1>4. ASSUME NEW l \in Link
      PROVE  cmds'[l] \in Seq(Orders(l[1]))
  <2>1. cmds[l] \in Seq(Orders(l[1]))
        BY DEF Offices
  <2> QED  BY <1>2, <2>1, OrdersMove
<1> QED  BY <1>1, <1>3, <1>4

\* Neither handler makes a leader.
LEMMA HandlerOffices ==
    ASSUME ThreadTypeOK, Offices, NEW p \in Node, NEW n, NEW q,
           HandleVoteRequest(p, n, q) \/ HandleAppendRequest(p, q)
    PROVE  /\ \A m \in Node : state'[m] = Leader => state[m] = Leader
           /\ \A l \in Link : cmds'[l] \in Seq(Orders(l[1]))
           /\ \A l \in Link : mode'[l] \in Sending => mode[l] \in Sending
           /\ UNCHANGED <<leaders, req>>
<1>1. UNCHANGED <<leaders, req>>
      BY DEF HandleVoteRequest, HandleAppendRequest, history
<1>2. \/ \E term, vote : StepDown(p, term, vote, mode)
      \/ UNCHANGED <<state, cmds, mode>>
      BY DEF HandleVoteRequest, HandleAppendRequest, raftVars
<1>3. mode \in [Link -> Modes]
      BY DEF ThreadTypeOK
<1>4. \A l \in Link : cmds[l] \in Seq(Orders(l[1]))
      BY DEF Offices
<1> QED  BY <1>1, <1>2, <1>3, <1>4, StepDownOffices

\* The queue of link k loses its first command.
LEMMA PopOffices ==
    ASSUME ThreadTypeOK, Offices, NEW k \in Link, NEW cmd, PopCommand(k[1], k[2], cmd)
    PROVE  /\ \A l \in Link : cmds'[l] \in Seq(Orders(l[1]))
           /\ cmd \in Orders(k[1])
<1>1. k = <<k[1], k[2]>> /\ \A l \in Link : cmds[l] \in Seq(Orders(l[1]))
      BY LinkNodes DEF Offices
<1>2. cmds' = [cmds EXCEPT ![k] = Tail(@)] /\ cmds[k] # <<>> /\ Head(cmds[k]) = cmd
      BY <1>1 DEF PopCommand
<1>3. Tail(cmds[k]) \in Seq(Orders(k[1])) /\ Head(cmds[k]) \in Orders(k[1])
      BY <1>1, <1>2, OrdersMove
<1>4. \A l \in Link : cmds'[l] = IF l = k THEN Tail(cmds[k]) ELSE cmds[l]
      BY <1>2 DEF ThreadTypeOK
<1> QED  BY <1>1, <1>2, <1>3, <1>4

\* A step of the peer thread of link k.
LEMMA PeerStepOffices ==
    ASSUME ThreadInv, Offices, NEW k \in Link, PeerStep(k[1], k[2])
    PROVE  Offices'
<1> DEFINE n == k[1]
           p == k[2]
<1>1. /\ n \in Node /\ p \in Node /\ k = <<n, p>> /\ ThreadTypeOK /\ CallFits(k)
      /\ mode \in [Link -> Modes] /\ call = [l \in Link |-> call[l]]
      BY LinkNodes DEF ThreadInv, ThreadTypeOK
<1>2. /\ \A m \in Node : state[m] = Leader => HasLed(m)
      /\ \A l \in Link : cmds[l] \in Seq(Orders(l[1]))
      /\ \A l \in Link : mode[l] \in Sending => HasLed(l[1])
      /\ \A l \in Link : call[l].type = "append" => HasLed(l[1])
      /\ \A m \in late : LateFits(m)
      /\ \A r \in Request : req[r].pc \in {"checked", "written"} => HasLed(req[r].node)
      BY DEF Offices
<1>3. VoteRequest(n).type = "vote" /\ NoCall.type = "none"
      BY DEF VoteRequest, NoCall
<1> HIDE DEF n, p
<1>4. ASSUME PopSleep(n, p) \/ FallAsleep(n, p) PROVE Offices'
  <2>1. UNCHANGED <<leaders, state, call, late, req>>
        BY <1>4 DEF PopSleep, FallAsleep, raftVars, envVars, history
  <2>2. \A l \in Link : cmds'[l] \in Seq(Orders(l[1]))
        BY <1>1, <1>2, <1>4, PopOffices DEF PopSleep, FallAsleep, n, p
  <2>3. \A l \in Link : mode'[l] \in Sending => mode[l] \in Sending
        BY <1>1, <1>4 DEF PopSleep, FallAsleep, Sending
  <2> QED  BY <1>2, <2>1, <2>2, <2>3, OfficesStay
<1>5. ASSUME PopElection(n, p) PROVE Offices'
  <2>1. UNCHANGED <<leaders, state, late, req>>
        BY <1>5 DEF PopElection, raftVars, envVars, history
  <2>2. \A l \in Link : cmds'[l] \in Seq(Orders(l[1]))
        BY <1>1, <1>5, PopOffices DEF PopElection, n, p
  <2>3. \A l \in Link : mode'[l] \in Sending => mode[l] \in Sending
        BY <1>1, <1>5 DEF PopElection, Sending
  <2>4. \A l \in Link : call'[l].type = "append" => call[l].type = "append"
        BY <1>1, <1>3, <1>5 DEF PopElection
  <2> QED  BY <1>2, <2>1, <2>2, <2>3, <2>4, OfficesStay
<1>6. ASSUME PopAppend(n, p) PROVE Offices'
  <2>1. UNCHANGED <<leaders, state, call, late, req>>
        BY <1>6 DEF PopAppend, raftVars, envVars, history
  <2>2. /\ \A l \in Link : cmds'[l] \in Seq(Orders(l[1]))
        /\ "append" \in Orders(n)
        BY <1>1, <1>6, PopOffices DEF PopAppend, n, p
  <2>3. HasLed(n)
        BY <2>2 DEF Orders
  <2>4. \A l \in Link : mode'[l] \in Sending => mode[l] \in Sending \/ l = k
        BY <1>1, <1>6 DEF PopAppend
  <2> QED  BY <1>2, <2>1, <2>2, <2>3, <2>4, OfficesStay DEF n
<1>7. ASSUME \/ AppendLoop(n, p) \/ SendAppend(n, p)
             \/ AppendSuccess(n, p) \/ AppendFailure(n, p)
      PROVE  Offices'
  <2>1. UNCHANGED <<leaders, state, cmds, late, req>>
        BY <1>7 DEF AppendLoop, SendAppend, AppendSuccess, AppendFailure, raftVars,
                    envVars, history
  <2>2. HasLed(n)
    <3>1. CASE AppendLoop(n, p) \/ SendAppend(n, p)
          BY <1>1, <1>2, <3>1 DEF AppendLoop, SendAppend, Sending, n
    <3>2. CASE AppendSuccess(n, p) \/ AppendFailure(n, p)
          BY <1>1, <1>2, <3>2 DEF AppendSuccess, AppendFailure, n
    <3> QED  BY <1>7, <3>1, <3>2
  <2>3. \A l \in Link : l # k => mode'[l] = mode[l] /\ call'[l] = call[l]
    <3>1. CASE AppendLoop(n, p)
          BY <1>1, <3>1 DEF AppendLoop
    <3>2. CASE SendAppend(n, p)
          BY <1>1, <3>2 DEF SendAppend
    <3>3. CASE AppendSuccess(n, p)
          BY <1>1, <3>3 DEF AppendSuccess
    <3>4. CASE AppendFailure(n, p)
          BY <1>1, <3>4 DEF AppendFailure
    <3> QED  BY <1>7, <3>1, <3>2, <3>3, <3>4
  <2> QED  BY <1>2, <2>1, <2>2, <2>3, OfficesStay DEF n
<1>8. ASSUME VoteResponse(n, p) PROVE Offices'
  <2> DEFINE back == [mode EXCEPT ![k] = "run"]
  <2>1. UNCHANGED <<late, req>> /\ call' = [call EXCEPT ![k] = NoCall]
        BY <1>1, <1>8 DEF VoteResponse, envVars
  <2>2. back \in [Link -> Modes] /\ \A l \in Link : back[l] \in Sending => mode[l] \in Sending
        BY <1>1 DEF Modes, Sending
  <2>3. \A l \in Link : call'[l].type = "append" => call[l].type = "append"
        BY <1>1, <1>3, <2>1
  <2>4. CASE \/ UNCHANGED state
             \/ state' = [state EXCEPT ![n] = Follower]
    <3>1. leaders' = leaders /\ cmds' = cmds /\ mode' = back
      <4>1. state[n] = Candidate => state'[n] # Leader
            BY <1>1, <2>4 DEF ThreadTypeOK, Candidate, Leader, Follower
      <4>2. state[n] = Candidate /\ state' = [state EXCEPT ![n] = Leader] => state'[n] = Leader
            BY <1>1 DEF ThreadTypeOK
      <4> QED  BY <1>1, <1>8, <4>1, <4>2 DEF VoteResponse
    <3>2. \A m \in Node : state'[m] = Leader => state[m] = Leader
          BY <1>1, <2>4 DEF ThreadTypeOK, Follower, Leader
    <3> HIDE DEF back
    <3> QED  BY <1>2, <2>1, <2>2, <2>3, <3>1, <3>2, OfficesStay
  <2>5. CASE ~(\/ UNCHANGED state
               \/ state' = [state EXCEPT ![n] = Follower])
    <3>1. /\ state' = [state EXCEPT ![n] = Leader]
          /\ cmds' = Push(n, "append") /\ mode' = Wake(n, back)
          /\ leaders' = leaders \union {<<n, call[k].term>>}
      <4> DEFINE higher == call[k].term > currentTerm[n]
                 stored == (IF higher THEN 0 ELSE votes[n])
                               + (IF call[k].granted THEN 1 ELSE 0)
      <4>1. ~(state[n] # Candidate \/ call[k].term < currentTerm[n])
            BY <1>1, <1>8, <2>5 DEF VoteResponse, raftVars
      <4>2. 1 + stored >= Majority
        <5>1. [state EXCEPT ![n] = state[n]] = state
              BY <1>1 DEF ThreadTypeOK
        <5>2. CASE ~(1 + stored >= Majority)
          <6>1. state' = [state EXCEPT ![n] = IF higher THEN Follower ELSE state[n]]
                BY <1>1, <1>8, <4>1, <5>2 DEF VoteResponse
          <6> HIDE DEF higher
          <6> QED  BY <2>5, <5>1, <6>1
        <5> QED  BY <5>2
      <4> HIDE DEF higher
      <4>3. IF 1 + stored >= Majority
            THEN /\ state' = [state EXCEPT ![n] = Leader]
                 /\ cmds' = Push(n, "append") /\ mode' = Wake(n, back)
                 /\ leaders' = leaders \union {<<n, call[k].term>>}
            ELSE TRUE
        <5> USE DEF higher
        <5> QED  BY <1>1, <1>8, <4>1, Zenon DEF VoteResponse
      <4> HIDE DEF stored
      <4> QED  BY <4>2, <4>3
    <3> HIDE DEF back
    <3>2. HasLed(n)' /\ leaders \subseteq leaders'
      <4> DEFINE l == <<n, call[k].term>>
      <4>1. l[1] = n /\ l \in leaders' /\ leaders \subseteq leaders'
            BY <3>1
      <4> HIDE DEF l
      <4> QED  BY <4>1 DEF HasLed
    <3>3. \A l \in Link : mode'[l] \in Sending => mode[l] \in Sending
          BY <1>1, <2>2, <3>1, WakeTyped DEF Sending
    <3>4. \A m \in Node : state'[m] = Leader => state[m] = Leader \/ HasLed(m)'
      <4>1. \A m \in Node : state'[m] = IF m = n THEN Leader ELSE state[m]
            BY <1>1, <3>1 DEF ThreadTypeOK
      <4> QED  BY <3>2, <4>1
    <3>5. ASSUME NEW l \in Link
          PROVE  cmds'[l] \in Seq(Orders(l[1])) \/ cmds'[l] \in Seq(Orders(l[1])')
      <4>1. CASE l[1] # n
        <5>1. cmds'[l] = cmds[l]
              BY <3>1, <4>1 DEF Push
        <5> QED  BY <1>2, <5>1
      <4>2. CASE l[1] = n
        <5>1. cmds'[l] = Append(cmds[l], "append")
              BY <3>1, <4>2 DEF Push
        <5>2. Orders(l[1])' = Commands
              BY <3>2, <4>2 DEF Orders
        <5>3. cmds[l] \in Seq(Commands)
              BY <1>1 DEF ThreadTypeOK
        <5>4. "append" \in Commands
              BY DEF Commands
        <5>5. cmds'[l] \in Seq(Commands)
              BY <5>1, <5>3, <5>4
        <5> QED  BY <5>2, <5>5
      <4> QED  BY <4>1, <4>2
    <3> QED  BY <1>2, <2>1, <2>3, <3>2, <3>3, <3>4, <3>5, OfficesStay
  <2> QED  BY <2>4, <2>5
<1>9. ASSUME HandleNewTerm(n, p) PROVE Offices'
  <2> DEFINE md == [mode EXCEPT ![k] = "run"]
             term == call[k].term
  <2>1. /\ UNCHANGED <<late, req, leaders>> /\ call' = [call EXCEPT ![k] = NoCall]
        /\ StepDown(n, term, VoteIn(n, term), md)
        BY <1>1, <1>9 DEF HandleNewTerm, envVars, history
  <2>2. md \in [Link -> Modes] /\ \A l \in Link : md[l] \in Sending => mode[l] \in Sending
        BY <1>1 DEF Modes, Sending
  <2>3. \A l \in Link : call'[l].type = "append" => call[l].type = "append"
        BY <1>1, <1>3, <2>1
  <2> HIDE DEF md, term
  <2>4. /\ \A m \in Node : state'[m] = Leader => state[m] = Leader
        /\ \A l \in Link : cmds'[l] \in Seq(Orders(l[1]))
        /\ \A l \in Link : mode'[l] \in Sending => md[l] \in Sending
        BY <1>1, <2>1, <2>2, StepDownOffices
  <2> QED  BY <1>2, <2>1, <2>2, <2>3, <2>4, OfficesStay
<1>10. PeerStep(n, p)
       BY DEF n, p
<1> QED  BY <1>4, <1>5, <1>6, <1>7, <1>8, <1>9, <1>10 DEF PeerStep

\* The steps of the other threads, and of the environment.
LEMMA OfficesNext == KnownTypes /\ DataInv /\ Offices /\ [Next]_vars => Offices'
<1> SUFFICES ASSUME KnownTypes, DataInv, Offices, [Next]_vars PROVE Offices'
    OBVIOUS
<1>1. /\ ThreadInv /\ ThreadTypeOK /\ mode \in [Link -> Modes]
      /\ call = [l \in Link |-> call[l]]
      BY DEF KnownTypes, ThreadInv, ThreadTypeOK
<1>2. /\ \A m \in Node : state[m] = Leader => HasLed(m)
      /\ \A l \in Link : cmds[l] \in Seq(Orders(l[1]))
      /\ \A l \in Link : mode[l] \in Sending => HasLed(l[1])
      /\ \A l \in Link : call[l].type = "append" => HasLed(l[1])
      /\ \A m \in late : LateFits(m)
      /\ \A r \in Request : req[r].pc \in {"checked", "written"} => HasLed(req[r].node)
      BY DEF Offices
<1>3. ASSUME NEW k \in Link, PeerStep(k[1], k[2]) PROVE Offices'
      BY <1>1, <1>3, PeerStepOffices
<1>4. ASSUME NEW k \in Link, ServeCall(k[1], k[2]) PROVE Offices'
  <2> DEFINE q == call[k]
  <2>1. k[2] \in Node /\ k = <<k[1], k[2]>>
        BY LinkNodes
  <2>2. /\ HandleVoteRequest(k[2], k[1], q) \/ HandleAppendRequest(k[2], q)
        /\ UNCHANGED late
        BY <1>4, <2>1 DEF ServeCall, ServeVote, ServeAppend
  <2>3. PICK a : call' = [call EXCEPT ![k] = a] /\ a.type = q.type
    <3>1. CASE ServeVote(k[1], k[2])
      <4> DEFINE a == VoteAnswer(k[2], k[1], q)
      <4>1. call' = [call EXCEPT ![k] = a] /\ a.type = q.type
            BY <3>1, <2>1 DEF ServeVote, VoteAnswer
      <4> QED  BY <4>1
    <3>2. CASE ServeAppend(k[1], k[2])
      <4> DEFINE a == AppendAnswer(k[2], q)
      <4>1. call' = [call EXCEPT ![k] = a] /\ a.type = q.type
            BY <3>2, <2>1 DEF ServeAppend, AppendAnswer
      <4> QED  BY <4>1
    <3> QED  BY <1>4, <3>1, <3>2 DEF ServeCall
  <2>4. \A l \in Link : call'[l].type = "append" => call[l].type = "append"
        BY <1>1, <2>3
  <2> QED  BY <1>1, <1>2, <2>1, <2>2, <2>4, HandlerOffices, OfficesStay
<1>5. ASSUME NEW m \in late, ServeLate(m) PROVE Offices'
  <2>1. /\ HandleVoteRequest(m.to, m.from, m.request) \/ HandleAppendRequest(m.to, m.request)
        /\ UNCHANGED call /\ late' = late \ {m} /\ m.to \in Node
        BY <1>5 DEF ServeLate, DataInv, CallTypes
  <2> QED  BY <1>1, <1>2, <1>5, <2>1, HandlerOffices, OfficesStay
<1>6. ASSUME NEW k \in Link, CallFails(k[1], k[2]) PROVE Offices'
  <2>1. k = <<k[1], k[2]>> /\ k[1] # k[2]
        BY LinkNodes DEF Link
  <2>2. /\ UNCHANGED <<state, cmds, req, leaders>>
        /\ \/ late' = late
           \/ late' = late \union {[from |-> k[1], to |-> k[2], request |-> call[k]]}
        BY <1>6, <2>1 DEF CallFails, raftVars, history
  <2>3. \A m \in late' : LateFits(m)
    <3> DEFINE m == [from |-> k[1], to |-> k[2], request |-> call[k]]
    <3>1. m.from = k[1] /\ m.to = k[2] /\ m.request = call[k]
          OBVIOUS
    <3>2. late' = late \/ late' = late \union {m}
          BY <2>2
    <3> HIDE DEF m
    <3>3. LateFits(m)
          BY <1>2, <2>1, <3>1 DEF LateFits
    <3> QED  BY <1>2, <3>2, <3>3
  <2>4. GiveUp(k[1], k[2])
        BY <1>6 DEF CallFails
  <2>5. \A l \in Link : /\ mode'[l] \in Sending => HasLed(l[1])
                        /\ call'[l].type = "append" => HasLed(l[1])
    <3>1. VoteRequest(k[1]).type = "vote" /\ NoCall.type = "none"
          BY DEF VoteRequest, NoCall
    <3>2. CASE /\ call[k].type = "append"
               /\ mode' = [mode EXCEPT ![k] = "append"]
               /\ call' = [call EXCEPT ![k] = NoCall]
          BY <1>1, <1>2, <3>1, <3>2
    <3>3. CASE call' = [call EXCEPT ![k] = VoteRequest(k[1])] /\ UNCHANGED mode
          BY <1>1, <1>2, <3>1, <3>3
    <3>4. CASE /\ mode' = [mode EXCEPT ![k] = "run"]
               /\ call' = [call EXCEPT ![k] = NoCall]
          BY <1>1, <1>2, <3>1, <3>4 DEF Sending
    <3> QED  BY <2>1, <2>4, <3>2, <3>3, <3>4 DEF GiveUp
  <2> QED  BY <1>2, <2>2, <2>3, <2>5, OfficesStay
<1>7. ASSUME NEW n \in Node, TimerStep(n) PROVE Offices'
  <2>1. CASE ElectionCallback(n)
    <3>1. /\ UNCHANGED <<leaders, call, late, req>>
          /\ state' = [state EXCEPT ![n] = Candidate]
          /\ cmds' = Push(n, "election") /\ mode' = Wake(n, mode)
          BY <2>1 DEF ElectionCallback, envVars, history
    <3>2. \A m \in Node : state'[m] = Leader => state[m] = Leader
          BY <1>1, <3>1 DEF ThreadTypeOK, Candidate, Leader
    <3>3. \A l \in Link : mode'[l] \in Sending => mode[l] \in Sending
          BY <1>1, <3>1, WakeTyped DEF Sending
    <3>4. ASSUME NEW l \in Link PROVE cmds'[l] \in Seq(Orders(l[1]))
      <4>1. cmds'[l] = cmds[l] \/ cmds'[l] = Append(cmds[l], "election")
            BY <3>1 DEF Push
      <4> QED  BY <1>2, <4>1, OrdersMove
    <3> QED  BY <1>2, <3>1, <3>2, <3>3, <3>4, OfficesStay
  <2>2. CASE ElectionTimeout(n) \/ \E r \in Request : AppendTimeout(n, r)
    <3>1. UNCHANGED <<leaders, state, cmds, mode, call, late, req>>
          BY <2>2 DEF ElectionTimeout, AppendTimeout, raftVars, peerVars, envVars, history
    <3> QED  BY <1>2, <3>1, OfficesStay
  <2> QED  BY <1>7, <2>1, <2>2 DEF TimerStep
<1>8. ASSUME NEW n \in Node, CommitterStep(n) PROVE Offices'
  <2>1. UNCHANGED <<leaders, state, cmds, mode, call, late>>
        BY <1>8 DEF CommitterStep, RunReply, ReadEntries, ApplyEntry, raftVars, peerVars, history
  <2>2. \A r \in Request : req'[r].pc \in {"checked", "written"} => HasLed(req'[r].node)
    <3>1. CASE ReadEntries(n) \/ ApplyEntry(n)
          BY <1>2, <3>1 DEF ReadEntries, ApplyEntry
    <3>2. CASE RunReply(n)
      <4>1. \A r \in Request : req'[r].pc \in {"checked", "written"} => req'[r] = req[r]
            BY <3>2 DEF RunReply
      <4> QED  BY <1>2, <4>1
    <3> QED  BY <1>8, <3>1, <3>2 DEF CommitterStep
  <2> QED  BY <1>2, <2>1, <2>2, OfficesStay
<1>9. ASSUME NEW r \in Request, NEW n \in Node, CheckLeader(r, n) PROVE Offices'
  <2>1. /\ UNCHANGED <<leaders, state, cmds, mode, call, late>> /\ state[n] = Leader
        /\ req' = [req EXCEPT ![r] = [@ EXCEPT !.pc = "checked", !.node = n]]
        BY <1>9 DEF CheckLeader, raftVars, peerVars, history
  <2>2. /\ req'[r].node = n
        /\ \A s \in Request : s # r => req'[s] = req[s]
        BY <2>1 DEF DataInv, CallerTypes
  <2> QED  BY <1>2, <2>1, <2>2, OfficesStay
<1>10. ASSUME NEW r \in Request, ReplicateStep(r) PROVE Offices'
  <2>1. /\ UNCHANGED <<leaders, state, cmds, call, late>>
        /\ \A l \in Link : mode'[l] \in Sending => mode[l] \in Sending
    <3>1. CASE WriteEntry(r)
          BY <3>1 DEF WriteEntry, raftVars, peerVars, history
    <3>2. CASE InsertCallback(r)
      <4>1. req[r].node \in Node
            BY <3>2 DEF InsertCallback, DataInv, RequestInv, CallersKnown
      <4> QED  BY <1>1, <3>2, <4>1, WakeTyped DEF InsertCallback, raftVars, history, Sending
    <3> QED  BY <1>10, <3>1, <3>2 DEF ReplicateStep
  <2>2. \A s \in Request : req'[s].pc \in {"checked", "written"} => HasLed(req'[s].node)
    <3>1. CASE WriteEntry(r)
      <4>1. /\ req[r].pc = "checked" /\ req'[r].node = req[r].node
            /\ \A s \in Request : s # r => req'[s] = req[s]
            BY <3>1 DEF WriteEntry, DataInv, CallerTypes
      <4> QED  BY <1>2, <4>1
    <3>2. CASE InsertCallback(r)
      <4>1. /\ req'[r].pc = "waiting"
            /\ \A s \in Request : s # r => req'[s] = req[s]
            BY <3>2 DEF InsertCallback, DataInv, CallerTypes
      <4> QED  BY <1>2, <4>1
    <3> QED  BY <1>10, <3>1, <3>2 DEF ReplicateStep
  <2> QED  BY <1>2, <2>1, <2>2, OfficesStay
<1>11. CASE UNCHANGED vars
  <2>1. UNCHANGED <<leaders, state, cmds, mode, call, late, req>>
        BY <1>11 DEF vars, raftVars, peerVars, envVars, history
  <2> QED  BY <1>2, <2>1, OfficesStay
<1> QED  BY <1>3, <1>4, <1>5, <1>6, <1>7, <1>8, <1>9, <1>10, <1>11 DEF Next

-----------------------------------------------------------------------------
(* A log whose entries are numbered from 1 is read at the right places.      *)

Numbered(s) == \A i \in 1..Len(s) : s[i].index = i

\* s is the beginning of t, entry by entry.
Begins(s, t) == Len(s) <= Len(t) /\ \A i \in 1..Len(s) : s[i] = t[i]

\* On sequences, Begins is the library's IsPrefix.
LEMMA BeginsIsPrefix ==
    ASSUME NEW S, NEW s \in Seq(S), NEW t \in Seq(S)
    PROVE  Begins(s, t) <=> IsPrefix(s, t)
<1>1. ASSUME Begins(s, t) PROVE IsPrefix(s, t)
  <2> DEFINE a == SubSeq(s, 1, Len(s))
             b == SubSeq(t, 1, Len(s))
  <2>1. /\ a \in Seq(S) /\ Len(a) = Len(s) /\ \A i \in 1..Len(s) : a[i] = s[i]
        OBVIOUS
  <2>2. /\ b \in Seq(S) /\ Len(b) = Len(s) /\ \A i \in 1..Len(s) : b[i] = t[i]
        BY <1>1 DEF Begins
  <2> HIDE DEF a, b
  <2>3. \A i \in 1..Len(a) : a[i] = b[i]
        BY <1>1, <2>1, <2>2 DEF Begins
  <2>4. a = b
        BY <2>1, <2>2, <2>3, SeqEqual
  <2> QED  BY <1>1, <2>4 DEF Begins, IsPrefix, a, b
<1>2. ASSUME IsPrefix(s, t) PROVE Begins(s, t)
  <2>1. Len(s) \in Nat /\ Len(s) <= Len(t) /\ SubSeq(s, 1, Len(s)) = SubSeq(t, 1, Len(s))
        BY <1>2 DEF IsPrefix
  <2>2. \A i \in 1..Len(s) : SubSeq(s, 1, Len(s))[i] = s[i] /\ SubSeq(t, 1, Len(s))[i] = t[i]
        BY <2>1
  <2> QED  BY <2>1, <2>2 DEF Begins
<1> QED  BY <1>1, <1>2

\* In a log numbered from 1 an entry's index is its place, and no lookup throws.
LEMMA NumberedLog ==
    ASSUME NEW s \in Seq(Entry), Numbered(s)
    PROVE  /\ LastIndex(s) = Len(s)
           /\ s # <<>> => LogStart(s) = 1
           /\ \A i \in Int : Holds(s, i) <=> i \in 1..Len(s)
           /\ \A i \in Int : ~Throws(s, i)
           /\ \A i \in 1..Len(s) : GetEntry(s, i) = s[i]
<1>1. Len(s) \in Nat /\ (s = <<>> <=> Len(s) = 0)
      BY EmptySeq
<1>2. LastIndex(s) = Len(s) /\ (s # <<>> => LogStart(s) = 1)
      BY <1>1 DEF LastIndex, LogStart, Numbered
<1>3. \A i \in Int : Holds(s, i) <=> i \in 1..Len(s)
      BY <1>1, <1>2 DEF Holds
<1>4. \A i \in 1..Len(s) : Slot(s, i) = i
      BY <1>1, <1>2 DEF Slot
<1>5. \A i \in Int : ~Throws(s, i)
      BY <1>3, <1>4 DEF Throws, Numbered
<1>6. \A i \in 1..Len(s) : GetEntry(s, i) = s[i]
      BY <1>1, <1>3, <1>4 DEF GetEntry
<1> QED  BY <1>2, <1>3, <1>5, <1>6

\* get_entries reads as many entries as it is asked for, if there are so many.
LEMMA ReadNumbered ==
    ASSUME NEW s \in Seq(Entry), Numbered(s), NEW i \in Int, NEW count \in Nat \ {0}
    PROVE  LET read == GetEntries(s, i, count)
           IN  /\ i \notin 1..Len(s) => read = <<>>
               /\ i \in 1..Len(s) =>
                    /\ Len(read) = IF i + count - 1 > Len(s) THEN Len(s) - i + 1 ELSE count
                    /\ \A k \in 1..Len(read) : read[k] = s[i + k - 1]
<1> DEFINE read == GetEntries(s, i, count)
           last == IF i + count - 1 > Len(s) THEN Len(s) ELSE i + count - 1
<1>1. Len(s) \in Nat /\ (Holds(s, i) <=> i \in 1..Len(s))
      BY NumberedLog
<1>2. CASE i \notin 1..Len(s)
      BY <1>1, <1>2 DEF GetEntries
<1>3. CASE i \in 1..Len(s)
  <2>1. Slot(s, i) = i
    <3>1. s # <<>>
          BY <1>3
    <3>2. LogStart(s) = 1
          BY <3>1, NumberedLog
    <3> QED  BY <3>2 DEF Slot
  <2>2. read = SubSeq(s, i, last)
        BY <1>1, <1>3, <2>1 DEF GetEntries
  <2>3. last \in 1..Len(s) /\ i <= last /\ i \in Nat /\ i >= 1
        BY <1>1, <1>3
  <2>4. last = IF i + count - 1 > Len(s) THEN Len(s) ELSE i + count - 1
        OBVIOUS
  <2> HIDE DEF last, read
  <2>5. Len(read) = last - i + 1 /\ \A k \in 1..last - i + 1 : read[k] = s[i + k - 1]
        BY <2>2, <2>3
  <2> QED  BY <1>1, <1>3, <2>3, <2>4, <2>5 DEF read
<1> QED  BY <1>2, <1>3

-----------------------------------------------------------------------------
(* What append_entries requests carry.                                       *)

\* The entries of the request are those of log s that follow prev_log.
FromLog(q, s) ==
    /\ q.prevIndex + Len(q.entries) <= Len(s)
    /\ \A i \in 1..Len(q.entries) : q.entries[i] = s[q.prevIndex + i]
    /\ q.prevIndex # 0 => q.prevTerm = s[q.prevIndex].term

\* A request cut from a log is also cut from every log that continues it.
LEMMA FromLogStays ==
    ASSUME NEW s \in Seq(Entry), NEW t \in Seq(Entry), Begins(s, t),
           NEW q \in AppendRequests, FromLog(q, s)
    PROVE  FromLog(q, t)
<1>1. /\ Len(s) \in Nat /\ Len(t) \in Nat /\ Len(s) <= Len(t)
      /\ q.prevIndex \in Nat /\ Len(q.entries) \in Nat
      BY DEF Begins, AppendRequests
<1>2. \A i \in 1..Len(q.entries) : q.prevIndex + i \in 1..Len(s)
      BY <1>1 DEF FromLog
<1>3. q.prevIndex # 0 => q.prevIndex \in 1..Len(s)
      BY <1>1 DEF FromLog
<1>4. \A i \in 1..Len(q.entries) : q.entries[i] = t[q.prevIndex + i]
      BY <1>2 DEF FromLog, Begins
<1>5. q.prevIndex # 0 => q.prevTerm = t[q.prevIndex].term
      BY <1>3 DEF FromLog, Begins
<1> QED  BY <1>1, <1>4, <1>5 DEF FromLog

\* build_append_entries_request
LEMMA RequestFromLog ==
    ASSUME NEW n, log[n] \in Seq(Entry), Numbered(log[n]), NEW i \in Nat, i <= Len(log[n])
    PROVE  FromLog(AppendRequest(n, i), log[n])
<1> DEFINE s == log[n]
           q == AppendRequest(n, i)
           read == GetEntries(s, ReadFrom(i), Batch)
           hasPrev == Len(read) > 1 /\ i > 1
<1>1. /\ q.prevIndex = IF hasPrev THEN read[1].index ELSE 0
      /\ q.prevTerm = IF hasPrev THEN read[1].term ELSE 0
      /\ q.entries = IF hasPrev THEN Tail(read) ELSE read
      BY DEF AppendRequest
<1>2. ReadFrom(i) \in Nat /\ Batch \in Nat \ {0} /\ Batch = 100 /\ Len(s) \in Nat
      BY DEF ReadFrom, Batch
<1>3. read \in Seq(Entry)
      BY <1>2, GetEntriesTyped
<1>4. /\ ReadFrom(i) \notin 1..Len(s) => read = <<>>
      /\ ReadFrom(i) \in 1..Len(s) =>
           /\ Len(read) = IF ReadFrom(i) + Batch - 1 > Len(s)
                          THEN Len(s) - ReadFrom(i) + 1 ELSE Batch
           /\ \A k \in 1..Len(read) : read[k] = s[ReadFrom(i) + k - 1]
  <2> DEFINE from == ReadFrom(i)
             count == Batch
  <2>1. s \in Seq(Entry) /\ Numbered(s) /\ from \in Int /\ count \in Nat \ {0}
        BY <1>2
  <2> HIDE DEF s, from, count
  <2>2. LET r == GetEntries(s, from, count)
        IN  /\ from \notin 1..Len(s) => r = <<>>
            /\ from \in 1..Len(s) =>
                 /\ Len(r) = IF from + count - 1 > Len(s) THEN Len(s) - from + 1 ELSE count
                 /\ \A k \in 1..Len(r) : r[k] = s[from + k - 1]
        BY <2>1, ReadNumbered
  <2> QED  BY <2>2 DEF from, count
<1> HIDE DEF q, read
<1>5. CASE i = 0
  <2>1. read = <<>>
        BY <1>2, <1>4, <1>5 DEF ReadFrom, read
  <2> QED  BY <1>1, <1>2, <1>5, <2>1 DEF FromLog, q
<1>6. CASE i = 1
  <2>1. ReadFrom(i) = 1 /\ ReadFrom(i) \in 1..Len(s)
        BY <1>2, <1>6 DEF ReadFrom
  <2>2. Len(read) <= Len(s) /\ \A k \in 1..Len(read) : read[k] = s[k]
        BY <1>2, <1>3, <1>4, <2>1 DEF read
  <2>3. q.prevIndex = 0 /\ q.entries = read
        BY <1>1, <1>6
  <2> QED  BY <1>3, <2>2, <2>3 DEF FromLog, q
<1>7. CASE i > 1
  <2>1. ReadFrom(i) = i - 1 /\ ReadFrom(i) \in 1..Len(s)
        BY <1>2, <1>7 DEF ReadFrom
  <2>2. /\ Len(read) > 1 /\ Len(read) <= Len(s) - i + 2
        /\ \A k \in 1..Len(read) : read[k] = s[(i - 1) + k - 1]
    <3>1. Len(read) = IF (i - 1) + 100 - 1 > Len(s) THEN Len(s) - (i - 1) + 1 ELSE 100
          BY <1>2, <1>4, <2>1
    <3>2. \A k \in 1..Len(read) : read[k] = s[(i - 1) + k - 1]
          BY <1>4, <2>1
    <3>3. i <= Len(s)
          OBVIOUS
    <3>4. Len(s) \in Nat /\ i \in Nat /\ i > 1
          BY <1>2, <1>7
    <3> HIDE DEF s
    <3>5. \A len \in Nat : i <= len =>
             LET got == IF (i - 1) + 100 - 1 > len THEN len - (i - 1) + 1 ELSE 100
             IN  got > 1 /\ got <= len - i + 2
          BY <3>4
    <3>6. Len(read) > 1 /\ Len(read) <= Len(s) - i + 2
          BY <3>1, <3>3, <3>4, <3>5
    <3> QED  BY <3>2, <3>6
  <2>3. /\ Len(Tail(read)) = Len(read) - 1
        /\ \A k \in 1..Len(read) - 1 : Tail(read)[k] = read[k + 1]
        BY <1>3, <2>2
  <2>4. read[1] = s[i - 1] /\ s[i - 1].index = i - 1
    <3>1. 1 \in 1..Len(read) /\ (i - 1) + 1 - 1 = i - 1 /\ i - 1 \in 1..Len(s)
          BY <1>2, <1>3, <1>7, <2>1, <2>2
    <3> QED  BY <2>2, <3>1 DEF Numbered
  <2>5. q.prevIndex = i - 1 /\ q.prevTerm = s[i - 1].term /\ q.entries = Tail(read)
        BY <1>1, <1>7, <2>2, <2>4
  <2>6. \A k \in 1..Len(read) - 1 : q.entries[k] = s[q.prevIndex + k]
    <3> SUFFICES ASSUME NEW k \in 1..Len(read) - 1 PROVE q.entries[k] = s[q.prevIndex + k]
        OBVIOUS
    <3>1. k + 1 \in 1..Len(read) /\ (i - 1) + (k + 1) - 1 = (i - 1) + k
          BY <1>3
    <3>2. read[k + 1] = s[(i - 1) + (k + 1) - 1]
          BY <2>2, <3>1
    <3> QED  BY <2>3, <2>5, <3>1, <3>2
  <2> QED  BY <1>2, <1>3, <2>2, <2>3, <2>5, <2>6 DEF FromLog, q
<1> QED  BY <1>5, <1>6, <1>7

\* One turn of the loop over request.entries_, when the log is a beginning of log s
\* and the entry is the one of s that comes next, or is stored.
LEMMA StoreEntryFromLog ==
    ASSUME NEW s \in Seq(Entry), Numbered(s), NEW commit,
           NEW st \in Stores, st.end = "none", st.check = TRUE, Begins(st.log, s),
           NEW j \in 1..Len(s), j <= Len(st.log) + 1
    PROVE  LET nu == StoreEntry(commit, st, s[j])
           IN  /\ nu.end = "none" /\ nu.check = TRUE
               /\ Begins(st.log, nu.log) /\ Begins(nu.log, s) /\ j <= Len(nu.log)
<1> DEFINE l == st.log
           e == s[j]
           nu == StoreEntry(commit, st, e)
<1>1. /\ l \in Seq(Entry) /\ Len(l) \in Nat /\ Len(l) <= Len(s) /\ Len(s) \in Nat
      /\ \A i \in 1..Len(l) : l[i] = s[i]
      BY DEF Stores, Begins
<1>2. Numbered(l)
      BY <1>1 DEF Numbered
<1>3. e.index = j
      BY DEF Numbered
<1>4. LogStart(l) <= j
  <2>1. l = <<>> \/ LogStart(l) = 1
        BY <1>1, <1>2, NumberedLog
  <2> QED  BY <2>1 DEF LogStart
<1>5. LastIndex(l) = Len(l) /\ ~Throws(l, j)
      /\ (j \in 1..Len(l) => GetEntry(l, j) = l[j])
      BY <1>1, <1>2, NumberedLog
<1>6. LogStart(l) \in Nat
      BY <1>1, LastIndexTyped
<1> HIDE DEF l
<1>7. CASE j <= Len(l)
  <2>1. Stored(st, e) /\ j \in 1..Len(l)
        BY <1>1, <1>3, <1>5, <1>7 DEF Stored, l
  <2>2. GetEntry(l, j).term = e.term
        BY <1>1, <1>5, <2>1
  <2> HIDE DEF e
  <2>3. nu = st
        BY <1>3, <1>4, <1>5, <1>6, <2>1, <2>2 DEF StoreEntry, l
  <2> QED  BY <1>1, <1>7, <2>3 DEF l, e, Begins
<1>8. CASE j = Len(l) + 1
  <2>1. ~Stored(st, e)
        BY <1>1, <1>3, <1>5, <1>8 DEF Stored, l
  <2> HIDE DEF e
  <2>2. nu = [st EXCEPT !.log = Append(l, e)]
        BY <1>3, <1>4, <1>6, <2>1 DEF StoreEntry, Write, l
  <2>3. nu.end = "none" /\ nu.check = TRUE /\ nu.log = Append(l, e)
        BY <2>2 DEF Stores
  <2>4. e \in Entry
        BY DEF e
  <2>5. /\ Len(Append(l, e)) = Len(l) + 1
        /\ \A i \in 1..Len(l) : Append(l, e)[i] = l[i]
        /\ Append(l, e)[Len(l) + 1] = e
        BY <1>1, <2>4
  <2>6. \A i \in 1..Len(l) + 1 : Append(l, e)[i] = s[i]
    <3> TAKE i \in 1..Len(l) + 1
    <3>1. CASE i \in 1..Len(l)
          BY <1>1, <2>5, <3>1
    <3>2. CASE i = Len(l) + 1
          BY <1>8, <2>5, <3>2 DEF e
    <3> QED  BY <1>1, <3>1, <3>2
  <2> HIDE DEF nu
  <2>7. Begins(l, nu.log) /\ Begins(nu.log, s) /\ j <= Len(nu.log)
        BY <1>1, <1>8, <2>3, <2>5, <2>6 DEF Begins
  <2> QED  BY <2>3, <2>7 DEF l, e, nu
<1>9. j <= Len(l) \/ j = Len(l) + 1
      BY <1>1 DEF l
<1> HIDE DEF nu
<1>10. /\ nu.end = "none" /\ nu.check = TRUE
       /\ Begins(st.log, nu.log) /\ Begins(nu.log, s) /\ j <= Len(nu.log)
       BY <1>7, <1>8, <1>9 DEF nu, e
<1> QED  BY <1>10 DEF nu, e

\* Begins is transitive.
LEMMA BeginsTwice ==
    ASSUME NEW s \in Seq(Entry), NEW t \in Seq(Entry), NEW u \in Seq(Entry),
           Begins(s, t), Begins(t, u)
    PROVE  Begins(s, u)
<1>1. /\ Len(s) \in Nat /\ Len(t) \in Nat /\ Len(u) \in Nat
      /\ Len(s) <= Len(t) /\ Len(t) <= Len(u)
      BY DEF Begins
<1>2. \A i \in 1..Len(s) : i \in 1..Len(t)
      BY <1>1
<1>3. \A i \in 1..Len(s) : s[i] = u[i]
      BY <1>2 DEF Begins
<1> QED  BY <1>1, <1>3 DEF Begins

\* The loop: it stores what is missing, and ends without an exception.
LEMMA StoreEntriesFromLog ==
    ASSUME LogTypes, NEW p \in Node, NEW q \in AppendRequests,
           NEW s \in Seq(Entry), Numbered(s), Begins(log[p], s), FromLog(q, s),
           q.prevIndex <= Len(log[p])
    PROVE  LET st == StoreEntries(p, q)
           IN  /\ st.end = "none"
               /\ Begins(log[p], st.log) /\ Begins(st.log, s)
               /\ q.prevIndex + Len(q.entries) <= Len(st.log)
<1> DEFINE l == log[p]
           seq == q.entries
           prev == q.prevIndex
<1>1. /\ l \in Seq(Entry) /\ seq \in Seq(Entry) /\ prev \in Nat
      /\ Len(l) \in Nat /\ Len(seq) \in Nat /\ Len(s) \in Nat
      BY DEF LogTypes, AppendRequests
<1>2. PICK f : StoreTurns(f, p, q) /\ StoreEntries(p, q) = f[Len(seq)]
      BY <1>1, StoreEntriesTurns
<1>3. /\ \A i \in 0..Len(seq) : f[i] \in Stores
      /\ f[0] = [log |-> l, check |-> TRUE, end |-> "none"]
      /\ \A i \in 1..Len(seq) : f[i] = StoreEntry(committed[p], f[i - 1], seq[i])
      BY <1>2 DEF StoreTurns
<1>4. /\ prev + Len(seq) <= Len(s) /\ \A i \in 1..Len(seq) : seq[i] = s[prev + i]
      /\ prev <= Len(l) /\ Begins(l, s)
      BY DEF FromLog
<1> HIDE DEF l, seq, prev
<1> DEFINE Good(x) == /\ x[2].end = "none" /\ x[2].check = TRUE
                      /\ Begins(l, x[2].log) /\ Begins(x[2].log, s)
                      /\ prev + x[1] <= Len(x[2].log)
           S == {x \in Nat \X Stores : Good(x)}
           g == [i \in 0..Len(seq) |-> <<i, f[i]>>]
<1>5. \A i \in 0..Len(seq) : g[i] \in Nat \X Stores /\ g[i][1] = i /\ g[i][2] = f[i]
      BY <1>1, <1>3
<1> HIDE DEF g
<1>6. g[0] \in S
  <2>1. f[0].end = "none" /\ f[0].check = TRUE /\ f[0].log = l
        BY <1>3
  <2>2. Begins(l, l)
        BY <1>1 DEF Begins
  <2>3. 0 \in 0..Len(seq) /\ prev + 0 <= Len(l)
        BY <1>1, <1>4
  <2> QED  BY <1>4, <1>5, <2>1, <2>2, <2>3
<1>7. ASSUME NEW i \in 1..Len(seq), g[i - 1] \in S PROVE g[i] \in S
  <2> DEFINE st == f[i - 1]
             j == prev + i
  <2>1. i - 1 \in 0..Len(seq) /\ i \in 0..Len(seq) /\ i \in Nat /\ i - 1 \in Nat
        BY <1>1
  <2>2. /\ st \in Stores /\ st.end = "none" /\ st.check = TRUE
        /\ Begins(l, st.log) /\ Begins(st.log, s) /\ prev + (i - 1) <= Len(st.log)
        BY <1>3, <1>5, <1>7, <2>1
  <2>3. st.log \in Seq(Entry) /\ Len(st.log) \in Nat
        BY <2>2 DEF Stores
  <2>4. j \in 1..Len(s) /\ j <= Len(st.log) + 1
        BY <1>1, <1>4, <2>2, <2>3
  <2>5. seq[i] = s[j]
        BY <1>4
  <2>6. f[i] = StoreEntry(committed[p], st, s[j]) /\ f[i] \in Stores
        BY <1>3, <2>1, <2>5
  <2> HIDE DEF st, j
  <2>7. LET nu == StoreEntry(committed[p], st, s[j])
        IN  /\ nu.end = "none" /\ nu.check = TRUE
            /\ Begins(st.log, nu.log) /\ Begins(nu.log, s) /\ j <= Len(nu.log)
        BY <2>2, <2>4, StoreEntryFromLog
  <2>8. f[i].log \in Seq(Entry)
        BY <2>6 DEF Stores
  <2>9. Begins(l, f[i].log)
        BY <1>1, <2>2, <2>3, <2>6, <2>7, <2>8, BeginsTwice
  <2> QED  BY <1>5, <2>1, <2>6, <2>7, <2>9 DEF j
<1>8. g[Len(seq)] \in S
  <2>1. \A i \in 1..Len(seq) : g[i - 1] \in S => g[i] \in S
        BY <1>7
  <2> HIDE DEF S
  <2>2. \A i \in 0..Len(seq) : g[i] \in S
        BY <1>1, <1>6, <2>1, TurnsStay, Zenon
  <2> QED  BY <1>1, <2>2
<1>9. Len(seq) \in 0..Len(seq)
      BY <1>1
<1> QED  BY <1>2, <1>5, <1>8, <1>9 DEF l, seq, prev

\* handle_append_entries_request at a node whose log is a beginning of log s, which
\* the entries of the request are from: so is its log afterwards, and with it the
\* entries of a request that is accepted.
LEMMA OutcomeFromLog ==
    ASSUME LogTypes, NEW p \in Node, NEW q \in AppendRequests,
           NEW s \in Seq(Entry), Numbered(s), Begins(log[p], s), FromLog(q, s)
    PROVE  LET out == AppendOutcome(p, q)
           IN  /\ Begins(log[p], out.log) /\ Begins(out.log, s)
               /\ out.success => /\ out.lastIndex = Len(out.log)
                                 /\ q.prevIndex + Len(q.entries) <= Len(out.log)
<1> DEFINE out == AppendOutcome(p, q)
           st == StoreEntries(p, q)
<1>1. log[p] \in Seq(Entry) /\ q.prevIndex \in Nat /\ q.entries \in Seq(Entry)
      BY DEF LogTypes, AppendRequests
<1>2. Begins(log[p], log[p]) /\ Numbered(log[p])
      BY <1>1 DEF Begins, Numbered
<1>3. CASE out.log = log[p] /\ ~out.success
      BY <1>2, <1>3
<1>4. CASE /\ ~TooShort(p, q)
           /\ out = [end |-> st.end, log |-> st.log, success |-> st.end = "none",
                     lastIndex |-> LastIndex(st.log)]
  <2>1. q.prevIndex <= Len(log[p])
        BY <1>1, <1>2, <1>4, NumberedLog DEF TooShort
  <2>2. /\ st.end = "none" /\ Begins(log[p], st.log) /\ Begins(st.log, s)
        /\ q.prevIndex + Len(q.entries) <= Len(st.log)
        BY <2>1, StoreEntriesFromLog
  <2>3. st.log \in Seq(Entry)
        BY <1>1, StoreEntriesTyped DEF Stores
  <2>4. LastIndex(st.log) = Len(st.log)
    <3>1. Numbered(st.log)
          BY <2>2, <2>3 DEF Numbered, Begins
    <3> QED  BY <2>3, <3>1, NumberedLog
  <2> QED  BY <1>4, <2>2, <2>4
<1>5. \/ out.log = log[p] /\ ~out.success
      \/ /\ ~TooShort(p, q)
         /\ out = [end |-> st.end, log |-> st.log, success |-> st.end = "none",
                   lastIndex |-> LastIndex(st.log)]
      BY DEF AppendOutcome
<1> QED  BY <1>3, <1>4, <1>5

\* What a successful answer says is stored.
Says(a, len) ==
    a.type = "append" /\ a.stage = "response" /\ a.success =>
        a.lastIndex <= len /\ \A i \in 1..Len(a.sent) : a.sent[i] <= len

\* The answer to a request of the only log claims no more than the follower then stores.
LEMMA AnswerFromLog ==
    ASSUME LogTypes, NEW p \in Node, NEW q \in AppendRequests,
           NEW s \in Seq(Entry), Numbered(s), Begins(log[p], s), FromLog(q, s)
    PROVE  Says(AppendAnswer(p, q), Len(AppendOutcome(p, q).log))
<1> DEFINE out == AppendOutcome(p, q)
           a == AppendAnswer(p, q)
<1>1. out \in Outcomes
      BY AppendOutcomeTyped
<1>2. /\ Begins(out.log, s) /\ out.log \in Seq(Entry)
      /\ out.success => /\ out.lastIndex = Len(out.log)
                        /\ q.prevIndex + Len(q.entries) <= Len(out.log)
      BY <1>1, OutcomeFromLog DEF Outcomes
<1>3. /\ q.entries \in Seq(Entry) /\ q.prevIndex \in Nat /\ Len(q.entries) \in Nat
      /\ DOMAIN q.entries = 1..Len(q.entries)
      BY DEF AppendRequests
<1> SUFFICES ASSUME a.type = "append", a.stage = "response", a.success
             PROVE  /\ a.lastIndex <= Len(out.log)
                    /\ \A i \in 1..Len(a.sent) : a.sent[i] <= Len(out.log)
    BY DEF Says
<1> HIDE DEF out
<1>4. out.end # "throw"
  <2>1. out.end = "throw" => a = [type |-> "append", stage |-> "exception"]
        BY DEF AppendAnswer, out
  <2>2. [type |-> "append", stage |-> "exception"].stage = "exception"
        OBVIOUS
  <2> HIDE DEF a
  <2> QED  BY <2>1, <2>2
<1>5. a = [type |-> "append", stage |-> "response", term |-> TermAfter(p, q.term),
           success |-> out.success, lastIndex |-> out.lastIndex,
           sent |-> [i \in DOMAIN q.entries |-> q.entries[i].index]]
      BY <1>4 DEF AppendAnswer, out
<1> HIDE DEF a
<1>6. out.success /\ a.lastIndex = out.lastIndex
      /\ a.sent = [i \in DOMAIN q.entries |-> q.entries[i].index]
      BY <1>5
<1>7. /\ Len(a.sent) = Len(q.entries)
      /\ \A i \in 1..Len(q.entries) : a.sent[i] = q.entries[i].index
      BY <1>3, <1>6
<1>8. \A i \in 1..Len(q.entries) : q.entries[i].index = q.prevIndex + i
  <2> TAKE i \in 1..Len(q.entries)
  <2>1. q.prevIndex + i \in 1..Len(s)
        BY <1>3 DEF FromLog
  <2> QED  BY <2>1 DEF FromLog, Numbered
<1> QED  BY <1>2, <1>3, <1>6, <1>7, <1>8

-----------------------------------------------------------------------------
(* One leader: its log, and what is behind it.                               *)

\* become_leader ran for no other node.
OnlyLeader(n) == \A l \in leaders : l[1] = n

Replied == {item \in Items : item.op = "reply"}

\* The request or the answer that a peer thread waits for, when s is the log of its
\* node and len the length of the log of the other.
CallFromLog(q, s, len) ==
    /\ q.type = "append" /\ q.stage = "request" => FromLog(q, s)
    /\ Says(q, len)

LinkFollows(n, k) ==
    /\ mode[k] = "build" => next[k] <= Len(log[n])
    /\ match[k] <= Len(log[k[2]])
    /\ CallFromLog(call[k], log[n], Len(log[k[2]]))

\* The leader follows nobody: it applies entries as callbacks of their callers.
FollowsNone(n) == applying[n] = <<>> /\ committer[n] \in Seq(Replied)

StoredElsewhere(n, i) == i = 0 \/ \E p \in Node \ {n} : i <= Len(log[p])

OneLog(n) ==
    /\ Numbered(log[n])
    /\ \A p \in Node : Begins(log[p], log[n])
    /\ \A k \in Link : k[1] = n => LinkFollows(n, k)
    /\ \A m \in late : m.request.type = "append" => FromLog(m.request, log[n])
    /\ FollowsNone(n)
    /\ StoredElsewhere(n, committed[n])

OneLogInv == \A n \in Node : OnlyLeader(n) => OneLog(n)

-----------------------------------------------------------------------------
(* What a step has to keep of it.                                            *)

\* What the thread of link k of the leader may do.
LinkMoves(n, k) ==
    /\ mode'[k] = "build" =>
         \/ mode[k] = "build" /\ next'[k] = next[k]
         \/ next'[k] <= Len(log[n])
    /\ match'[k] = match[k] \/ match'[k] <= Len(log[k[2]])
    /\ \/ call'[k] = call[k]
       \/ call'[k].type # "append"
       \/ CallFromLog(call'[k], log[n], Len(log'[k[2]]))

QueueMoves(n) ==
    /\ applying'[n] = applying[n]
    /\ \/ committer'[n] = committer[n]
       \/ \E new \in Seq(Replied) : committer'[n] = committer[n] \o new
       \/ committer[n] # <<>> /\ committer'[n] = Tail(committer[n])

\* The committer's queue holds no follower's item while it only grows by replies or is popped.
LEMMA QueueStays ==
    ASSUME NEW n, FollowsNone(n), QueueMoves(n)
    PROVE  FollowsNone(n)'
<1>1. committer'[n] \in Seq(Replied)
  <2> DEFINE S == Replied
             s == committer[n]
  <2>1. s \in Seq(S)
        BY DEF FollowsNone
  <2>2. \/ committer'[n] = s
        \/ \E new \in Seq(S) : committer'[n] = s \o new
        \/ s # <<>> /\ committer'[n] = Tail(s)
        BY DEF QueueMoves
  <2> HIDE DEF S, s
  <2>3. \A t \in Seq(S) : s \o t \in Seq(S)
        BY <2>1
  <2>4. s # <<>> => Tail(s) \in Seq(S)
        BY <2>1
  <2>5. committer'[n] \in Seq(S)
        BY <2>1, <2>2, <2>3, <2>4
  <2> QED  BY <2>5 DEF S
<1>2. Replied' = Replied
      BY DEF Replied, Items
<1> QED  BY <1>1, <1>2 DEF FollowsNone, QueueMoves

\* What was true of a message stays true as the leader's log and the follower's grow.
LEMMA FromLogMoves ==
    ASSUME NEW s \in Seq(Entry), NEW t \in Seq(Entry), Begins(s, t),
           NEW q \in Messages \union {NoCall}, NEW i \in Nat, NEW j \in Nat, i <= j,
           CallFromLog(q, s, i)
    PROVE  CallFromLog(q, t, j)
<1>1. q.type = "append" /\ q.stage = "request" => FromLog(q, t)
  <2>1. q.type = "append" /\ q.stage = "request" => q \in AppendRequests
        BY RequestsTyped
  <2> QED  BY <2>1, FromLogStays DEF CallFromLog
<1>2. Says(q, j)
  <2> SUFFICES ASSUME q.type = "append", q.stage = "response", q.success
               PROVE  q.lastIndex <= j /\ \A x \in 1..Len(q.sent) : q.sent[x] <= j
      BY DEF Says
  <2>1. q.lastIndex <= i /\ \A x \in 1..Len(q.sent) : q.sent[x] <= i
        BY DEF CallFromLog, Says
  <2>2. q.lastIndex \in Nat /\ q.sent \in Seq(Nat)
        BY DEF Messages, Requests, VoteRequests, AppendRequests, Answers, NoCall
  <2>3. \A x \in 1..Len(q.sent) : q.sent[x] \in Nat
        BY <2>2
  <2> QED  BY <2>1, <2>2, <2>3
<1> QED  BY <1>1, <1>2 DEF CallFromLog

\* A step in which the logs only grow, as beginnings of the leader's.
LEMMA OneLogStays ==
    ASSUME LogTypes, CallTypes, LogTypes', CallTypes', NEW n \in Node, OneLog(n),
           Numbered(log'[n]),
           \A p \in Node : Begins(log[p], log'[p]) /\ Begins(log'[p], log'[n]),
           \A k \in Link : k[1] = n => LinkMoves(n, k),
           \A m \in late' : \/ m \in late \/ m.request.type # "append"
                           \/ FromLog(m.request, log[n]),
           QueueMoves(n),
           committed'[n] = committed[n] \/ StoredElsewhere(n, committed'[n])
    PROVE  OneLog(n)'
<1>1. \A p \in Node : /\ log[p] \in Seq(Entry) /\ log'[p] \in Seq(Entry)
                      /\ Len(log[p]) \in Nat /\ Len(log'[p]) \in Nat
                      /\ Len(log[p]) <= Len(log'[p])
  <2> TAKE p \in Node
  <2>1. log[p] \in Seq(Entry) /\ log'[p] \in Seq(Entry)
        BY DEF LogTypes
  <2> QED  BY <2>1 DEF Begins
<1>2. ASSUME NEW k \in Link, k[1] = n PROVE LinkFollows(n, k)'
  <2> DEFINE p == k[2]
  <2>1. p \in Node /\ n \in Node
        BY LinkNodes
  <2>2. /\ next[k] \in Nat /\ next'[k] \in Nat /\ match[k] \in Nat /\ match'[k] \in Nat
        /\ call[k] \in Messages \union {NoCall} /\ call'[k] \in Messages \union {NoCall}
        BY DEF CallTypes, Messages, Requests, VoteRequests, AppendRequests, Answers, NoCall
  <2>3. LinkFollows(n, k) /\ LinkMoves(n, k)
        BY <1>2 DEF OneLog
  <2>4. mode'[k] = "build" => next'[k] <= Len(log'[n])
        BY <1>1, <2>2, <2>3 DEF LinkFollows, LinkMoves
  <2>5. match'[k] <= Len(log'[p])
        BY <1>1, <2>1, <2>2, <2>3 DEF LinkFollows, LinkMoves
  <2>6. CallFromLog(call'[k], log'[n], Len(log'[p]))
    <3>1. CASE call'[k] = call[k]
      <4>1. CallFromLog(call[k], log[n], Len(log[p]))
            BY <2>3 DEF LinkFollows
      <4> DEFINE s == log[n]
                 t == log'[n]
                 i == Len(log[p])
                 j == Len(log'[p])
                 q == call[k]
      <4>2. /\ s \in Seq(Entry) /\ t \in Seq(Entry) /\ Begins(s, t)
            /\ q \in Messages \union {NoCall} /\ i \in Nat /\ j \in Nat /\ i <= j
            /\ CallFromLog(q, s, i)
            BY <1>1, <2>1, <2>2, <4>1
      <4> HIDE DEF s, t, i, j, q
      <4>3. CallFromLog(q, t, j)
            BY <4>2, FromLogMoves
      <4> QED  BY <3>1, <4>3 DEF t, j, q
    <3>2. CASE call'[k].type # "append"
          BY <3>2 DEF CallFromLog, Says
    <3>3. CASE CallFromLog(call'[k], log[n], Len(log'[p]))
      <4> DEFINE s == log[n]
                 t == log'[n]
                 j == Len(log'[p])
                 q == call'[k]
      <4>1. /\ s \in Seq(Entry) /\ t \in Seq(Entry) /\ Begins(s, t)
            /\ q \in Messages \union {NoCall} /\ j \in Nat /\ CallFromLog(q, s, j)
            BY <1>1, <2>1, <2>2, <3>3
      <4> HIDE DEF s, t, j, q
      <4>2. CallFromLog(q, t, j)
            BY <4>1, FromLogMoves
      <4> QED  BY <4>2 DEF t, j, q
    <3> QED  BY <2>3, <3>1, <3>2, <3>3 DEF LinkMoves
  <2> QED  BY <2>4, <2>5, <2>6 DEF LinkFollows, CallFromLog, Says, FromLog
<1>3. ASSUME NEW m \in late', m.request.type = "append" PROVE FromLog(m.request, log'[n])
  <2>1. FromLog(m.request, log[n])
        BY <1>3 DEF OneLog
  <2>2. m.request \in AppendRequests
        BY <1>3, LateTyped DEF CallTypes, Requests, VoteRequests, AppendRequests
  <2> QED  BY <1>1, <2>1, <2>2, FromLogStays
<1>4. StoredElsewhere(n, committed[n])' 
  <2>1. committed[n] \in Nat /\ committed'[n] \in Nat
        BY DEF LogTypes
  <2>2. StoredElsewhere(n, committed'[n])
        BY DEF OneLog
  <2> QED  BY <1>1, <2>1, <2>2 DEF StoredElsewhere
<1>5. FollowsNone(n)'
      BY QueueStays DEF OneLog
<1> QED  BY <1>2, <1>3, <1>4, <1>5 DEF OneLog, Numbered, Begins, FromLog

\* A step that leaves the logs alone.
LEMMA OneLogKept ==
    ASSUME DataInv, DataInv', UNCHANGED log, NEW n \in Node, OneLog(n),
           \A k \in Link : k[1] = n => LinkMoves(n, k),
           \A m \in late' : \/ m \in late \/ m.request.type # "append"
                           \/ FromLog(m.request, log[n]),
           QueueMoves(n),
           committed'[n] = committed[n] \/ StoredElsewhere(n, committed'[n])
    PROVE  OneLog(n)'
<1>1. LogTypes /\ LogTypes' /\ CallTypes /\ CallTypes'
      BY DEF DataInv
<1>2. /\ Numbered(log'[n])
      /\ \A p \in Node : Begins(log[p], log'[p]) /\ Begins(log'[p], log'[n])
  <2>1. Numbered(log[n]) /\ \A p \in Node : Begins(log[p], log[n])
        BY DEF OneLog
  <2>2. \A p \in Node : Begins(log[p], log[p])
        BY <1>1 DEF LogTypes, Begins
  <2> QED  BY <2>1, <2>2
<1> QED  BY <1>1, <1>2, OneLogStays

\* The answers of step_down.
LEMMA FailAllReplied ==
    ASSUME RequestInv, ReplyTypes, NEW n \in Node
    PROVE  FailAll(n) \in Seq(Replied)
<1>1. /\ IsFiniteSet(callbacks[n]) /\ OnePerIndex(callbacks[n])
      /\ callbacks[n] \in SUBSET Callbacks
      BY CallbacksDiffer DEF ReplyTypes
<1>2. \A c \in callbacks[n] : c.index \in Nat /\ Reply(c.req, FALSE) \in Replied
      BY <1>1 DEF Callbacks, Reply, Replied, Items
<1> QED  BY <1>1, <1>2, FailAllAnswers

\* Stepping down starts no thread building a request.
LEMMA StepDownMoves ==
    ASSUME ThreadTypeOK, NEW p \in Node, NEW term, NEW vote,
           NEW md \in [Link -> Modes], StepDown(p, term, vote, md)
    PROVE  \A k \in Link : mode'[k] = "build" => md[k] = "build"
BY WakeTyped DEF StepDown

\* handle_vote_request
LEMMA VoteHandlerMoves ==
    ASSUME ThreadTypeOK, DataInv, NEW p \in Node, NEW a, NEW q,
           HandleVoteRequest(p, a, q), NEW n \in Node
    PROVE  /\ UNCHANGED <<log, committed, next, match>> /\ QueueMoves(n)
           /\ \A k \in Link : mode'[k] = "build" => mode[k] = "build"
<1>1. UNCHANGED <<log, committed, next, match, applying>>
      BY DEF HandleVoteRequest
<1>2. mode \in [Link -> Modes]
      BY DEF ThreadTypeOK
<1>3. CASE q.term > currentTerm[p] \/ NewVote(p, q)
  <2>1. /\ StepDown(p, q.term, VoteAfter(p, a, q), mode)
        /\ committer' = [committer EXCEPT ![p] = @ \o FailAll(p)]
        BY <1>3 DEF HandleVoteRequest
  <2>2. FailAll(p) \in Seq(Replied)
        BY FailAllReplied DEF DataInv
  <2>3. QueueMoves(n)
        BY <1>1, <2>1, <2>2 DEF QueueMoves, DataInv, ReplyTypes
  <2>4. \A k \in Link : mode'[k] = "build" => mode[k] = "build"
        BY <1>2, <2>1, StepDownMoves
  <2> QED  BY <1>1, <2>3, <2>4
<1>4. CASE ~(q.term > currentTerm[p] \/ NewVote(p, q))
      BY <1>1, <1>4 DEF HandleVoteRequest, QueueMoves
<1> QED  BY <1>3, <1>4

\* handle_append_entries_request, at another node than the leader.
LEMMA AppendHandlerMoves ==
    ASSUME ThreadTypeOK, DataInv, NEW p \in Node, NEW q,
           HandleAppendRequest(p, q), NEW n \in Node \ {p}
    PROVE  /\ UNCHANGED <<committed, next, match>> /\ QueueMoves(n)
           /\ \A k \in Link : mode'[k] = "build" => mode[k] = "build"
           /\ log' = [log EXCEPT ![p] = AppendOutcome(p, q).log]
<1>1. /\ UNCHANGED <<committed, next, match, applying>>
      /\ log' = [log EXCEPT ![p] = AppendOutcome(p, q).log]
      BY DEF HandleAppendRequest
<1>2. mode \in [Link -> Modes]
      BY DEF ThreadTypeOK
<1>3. \A k \in Link : mode'[k] = "build" => mode[k] = "build"
  <2>1. StepDown(p, q.term, Nil, mode) \/ UNCHANGED mode
        BY DEF HandleAppendRequest
  <2> QED  BY <1>2, <2>1, StepDownMoves
<1>4. committer'[n] = committer[n]
  <2>1. \E t : committer' = [committer EXCEPT ![p] = t]
        BY DEF HandleAppendRequest
  <2> QED  BY <2>1 DEF DataInv, ReplyTypes
<1> QED  BY <1>1, <1>3, <1>4 DEF QueueMoves

\* The follower that handles a request of the leader.
LEMMA FollowerStores ==
    ASSUME DataInv, NEW n \in Node, OneLog(n), NEW p \in Node \ {n},
           NEW q \in AppendRequests, FromLog(q, log[n]),
           log' = [log EXCEPT ![p] = AppendOutcome(p, q).log]
    PROVE  /\ Numbered(log'[n])
           /\ \A m \in Node : Begins(log[m], log'[m]) /\ Begins(log'[m], log'[n])
<1>1. LogTypes /\ Numbered(log[n]) /\ \A m \in Node : Begins(log[m], log[n])
      BY DEF DataInv, OneLog
<1>2. log[n] \in Seq(Entry) /\ \A m \in Node : Begins(log[m], log[m])
      BY <1>1 DEF LogTypes, Begins
<1>3. /\ Begins(log[p], AppendOutcome(p, q).log)
      /\ Begins(AppendOutcome(p, q).log, log[n])
      BY <1>1, <1>2, OutcomeFromLog
<1>4. \A m \in Node : log'[m] = IF m = p THEN AppendOutcome(p, q).log ELSE log[m]
      BY <1>1 DEF LogTypes
<1> QED  BY <1>1, <1>2, <1>3, <1>4

-----------------------------------------------------------------------------
(* Every action.                                                             *)

\* The handlers, called by a thread that waits.
LEMMA ServeOneLog ==
    ASSUME KnownTypes, DataInv, DataInv', Offices, NEW n \in Node, OnlyLeader(n), OneLog(n),
           NEW k \in Link, ServeCall(k[1], k[2])
    PROVE  OneLog(n)'
<1> DEFINE q == call[k]
           p == k[2]
<1>1. p \in Node /\ k[1] \in Node /\ k = <<k[1], p>> /\ k[1] # p
      BY LinkNodes DEF Link
<1>2. ThreadTypeOK /\ call = [l \in Link |-> call[l]]
      BY DEF KnownTypes, ThreadInv, ThreadTypeOK
<1>3. \A m \in late : m \in late
      OBVIOUS
<1>4. CASE ServeVote(k[1], p)
  <2> DEFINE a == VoteAnswer(p, k[1], q)
  <2>1. /\ HandleVoteRequest(p, k[1], q) /\ UNCHANGED late
        /\ call' = [call EXCEPT ![k] = a]
        BY <1>1, <1>4 DEF ServeVote
  <2>2. a.type = "vote"
        BY DEF VoteAnswer
  <2> HIDE DEF a
  <2>3. /\ UNCHANGED <<log, committed, next, match>> /\ QueueMoves(n)
        /\ \A l \in Link : mode'[l] = "build" => mode[l] = "build"
        BY <1>1, <1>2, <2>1, VoteHandlerMoves
  <2>4. \A l \in Link : LinkMoves(n, l)
        BY <1>2, <2>1, <2>2, <2>3 DEF LinkMoves
  <2> QED  BY <2>1, <2>3, <2>4, OneLogKept
<1>5. CASE ServeAppend(k[1], p)
  <2> DEFINE a == AppendAnswer(p, q)
  <2>1. /\ HandleAppendRequest(p, q) /\ UNCHANGED late
        /\ call' = [call EXCEPT ![k] = a]
        /\ q.type = "append" /\ q.stage = "request"
        BY <1>1, <1>5 DEF ServeAppend
  <2>2. k[1] = n /\ p # n
        BY <1>1, <2>1 DEF Offices, HasLed, OnlyLeader
  <2>3. q \in AppendRequests
        BY <2>1, RequestsTyped DEF DataInv, CallTypes
  <2>4. FromLog(q, log[n])
        BY <2>1, <2>2 DEF OneLog, LinkFollows, CallFromLog
  <2>5. /\ UNCHANGED <<committed, next, match>> /\ QueueMoves(n)
        /\ \A l \in Link : mode'[l] = "build" => mode[l] = "build"
        /\ log' = [log EXCEPT ![p] = AppendOutcome(p, q).log]
        BY <1>1, <1>2, <2>1, <2>2, AppendHandlerMoves
  <2>6. LogTypes /\ LogTypes' /\ CallTypes /\ CallTypes'
        BY DEF DataInv
  <2>7. Says(a, Len(AppendOutcome(p, q).log))
    <3>1. log[n] \in Seq(Entry) /\ Numbered(log[n]) /\ Begins(log[p], log[n])
          BY <1>1, <2>6 DEF LogTypes, OneLog
    <3> HIDE DEF q, p
    <3> QED  BY <1>1, <2>3, <2>4, <2>6, <3>1, AnswerFromLog
  <2>8. a.stage # "request"
    <3>1. \/ a = [type |-> "append", stage |-> "exception"]
          \/ a.stage = "response"
          BY DEF AppendAnswer
    <3>2. [type |-> "append", stage |-> "exception"].stage # "request"
          OBVIOUS
    <3> HIDE DEF a
    <3> QED  BY <3>1, <3>2
  <2>9. CallFromLog(a, log[n], Len(log'[p]))
    <3>1. log'[p] = AppendOutcome(p, q).log
          BY <1>1, <2>5, <2>6 DEF LogTypes
    <3> QED  BY <2>7, <2>8, <3>1 DEF CallFromLog
  <2> HIDE DEF a
  <2>10. \A l \in Link : l[1] = n => LinkMoves(n, l)
    <3> TAKE l \in Link
    <3>1. call'[l] = call[l] \/ (l = k /\ call'[l] = a)
          BY <1>2, <2>1
    <3> QED  BY <1>1, <2>5, <2>9, <3>1 DEF LinkMoves
  <2>11. /\ Numbered(log'[n])
         /\ \A m \in Node : Begins(log[m], log'[m]) /\ Begins(log'[m], log'[n])
    <3> HIDE DEF q, p
    <3> QED  BY <1>1, <2>2, <2>3, <2>4, <2>5, FollowerStores
  <2> QED  BY <2>1, <2>5, <2>6, <2>10, <2>11, OneLogStays
<1> QED  BY <1>4, <1>5 DEF ServeCall

\* A request whose caller gave up.
LEMMA LateOneLog ==
    ASSUME KnownTypes, DataInv, DataInv', Offices, NEW n \in Node, OnlyLeader(n), OneLog(n),
           NEW m \in late, ServeLate(m)
    PROVE  OneLog(n)'
<1> DEFINE q == m.request
           p == m.to
<1>1. p \in Node /\ q \in Requests /\ UNCHANGED call /\ late' = late \ {m}
      BY DEF ServeLate, DataInv, CallTypes
<1>2. ThreadTypeOK
      BY DEF KnownTypes, ThreadInv
<1>3. CASE q.type = "vote" /\ HandleVoteRequest(p, m.from, q)
  <2>1. /\ UNCHANGED <<log, committed, next, match>> /\ QueueMoves(n)
        /\ \A l \in Link : mode'[l] = "build" => mode[l] = "build"
        BY <1>1, <1>2, <1>3, VoteHandlerMoves
  <2>2. \A l \in Link : LinkMoves(n, l)
        BY <1>1, <2>1 DEF LinkMoves
  <2> QED  BY <1>1, <2>1, <2>2, OneLogKept
<1>4. CASE q.type = "append" /\ HandleAppendRequest(p, q)
  <2>1. p # n
        BY <1>4 DEF Offices, LateFits, HasLed, OnlyLeader
  <2>2. q \in AppendRequests
        BY <1>1, <1>4, LateTyped
  <2>3. FromLog(q, log[n])
        BY <1>4 DEF OneLog
  <2>4. /\ UNCHANGED <<committed, next, match>> /\ QueueMoves(n)
        /\ \A l \in Link : mode'[l] = "build" => mode[l] = "build"
        /\ log' = [log EXCEPT ![p] = AppendOutcome(p, q).log]
        BY <1>1, <1>2, <1>4, <2>1, AppendHandlerMoves
  <2>5. LogTypes /\ LogTypes' /\ CallTypes /\ CallTypes'
        BY DEF DataInv
  <2>6. \A l \in Link : LinkMoves(n, l)
        BY <1>1, <2>4 DEF LinkMoves
  <2>7. /\ Numbered(log'[n])
        /\ \A l \in Node : Begins(log[l], log'[l]) /\ Begins(log'[l], log'[n])
    <3> HIDE DEF q, p
    <3> QED  BY <1>1, <2>1, <2>2, <2>3, <2>4, FollowerStores
  <2> QED  BY <1>1, <2>4, <2>5, <2>6, <2>7, OneLogStays
<1> QED  BY <1>3, <1>4 DEF ServeLate

\* A step of the peer thread of link k that takes a command, or ends an election.
LEMMA CommandOneLog ==
    ASSUME KnownTypes, DataInv, DataInv', NEW n \in Node, OneLog(n), NEW k \in Link,
           \/ PopSleep(k[1], k[2]) \/ FallAsleep(k[1], k[2])
           \/ PopElection(k[1], k[2]) \/ PopAppend(k[1], k[2])
           \/ VoteResponse(k[1], k[2]) \/ HandleNewTerm(k[1], k[2])
    PROVE  OneLog(n)'
<1> DEFINE a == k[1]
           p == k[2]
<1>1. a \in Node /\ p \in Node /\ k = <<a, p>>
      BY LinkNodes
<1>2. /\ ThreadTypeOK /\ mode \in [Link -> Modes] /\ call = [l \in Link |-> call[l]]
      /\ next = [l \in Link |-> next[l]] /\ match = [l \in Link |-> match[l]]
      /\ committer = [m \in Node |-> committer[m]]
      BY DEF KnownTypes, ThreadInv, ThreadTypeOK, DataInv, CallTypes, ReplyTypes
<1>3. VoteRequest(a).type = "vote" /\ NoCall.type = "none"
      BY DEF VoteRequest, NoCall
<1>4. FailAll(a) \in Seq(Replied)
      BY <1>1, FailAllReplied DEF DataInv
<1> HIDE DEF a, p
<1>5. UNCHANGED <<log, committed, applying, late>>
      BY DEF PopSleep, FallAsleep, PopElection, PopAppend, VoteResponse, HandleNewTerm,
             logVars, envVars, a, p
<1>6. CASE PopSleep(a, p) \/ FallAsleep(a, p)
  <2>1. UNCHANGED <<committer, next, match, call>>
        BY <1>6 DEF PopSleep, FallAsleep, logVars
  <2>2. \A l \in Link : mode'[l] = "build" => mode[l] = "build"
        BY <1>1, <1>2, <1>6 DEF PopSleep, FallAsleep
  <2>3. QueueMoves(n) /\ \A l \in Link : LinkMoves(n, l)
        BY <1>5, <2>1, <2>2 DEF QueueMoves, LinkMoves
  <2> QED  BY <1>5, <2>3, OneLogKept
<1>7. CASE PopElection(a, p)
  <2>1. /\ UNCHANGED <<committer, next, match>>
        /\ call' = [call EXCEPT ![k] = VoteRequest(a)]
        BY <1>1, <1>7 DEF PopElection, logVars
  <2>2. \A l \in Link : mode'[l] = "build" => mode[l] = "build"
        BY <1>1, <1>2, <1>7 DEF PopElection
  <2>3. \A l \in Link : call'[l] = call[l] \/ call'[l].type = "vote"
        BY <1>2, <1>3, <2>1
  <2>4. QueueMoves(n) /\ \A l \in Link : LinkMoves(n, l)
        BY <1>5, <2>1, <2>2, <2>3 DEF QueueMoves, LinkMoves
  <2> QED  BY <1>5, <2>4, OneLogKept
<1>8. CASE PopAppend(a, p)
  <2>1. /\ UNCHANGED <<committer, call>>
        /\ mode' = [mode EXCEPT ![k] = "append"]
        /\ next' = [next EXCEPT ![k] = 0] /\ match' = [match EXCEPT ![k] = 0]
        BY <1>1, <1>8 DEF PopAppend, logVars
  <2>2. \A l \in Link : mode'[l] = "build" => mode[l] = "build" /\ next'[l] = next[l]
        BY <1>2, <2>1
  <2>3. \A l \in Link : match'[l] = match[l] \/ match'[l] <= Len(log[l[2]])
    <3> TAKE l \in Link
    <3>1. log[l[2]] \in Seq(Entry)
          BY LinkNodes DEF DataInv, LogTypes
    <3>2. match'[l] = match[l] \/ match'[l] = 0
          BY <1>2, <2>1
    <3> QED  BY <3>1, <3>2
  <2>4. QueueMoves(n) /\ \A l \in Link : LinkMoves(n, l)
        BY <1>5, <2>1, <2>2, <2>3 DEF QueueMoves, LinkMoves
  <2> QED  BY <1>5, <2>4, OneLogKept
<1>9. CASE VoteResponse(a, p)
  <2> DEFINE back == [mode EXCEPT ![k] = "run"]
             higher == call[k].term > currentTerm[a]
  <2>1. UNCHANGED <<next, match>> /\ call' = [call EXCEPT ![k] = NoCall]
        BY <1>1, <1>9 DEF VoteResponse
  <2>2. back \in [Link -> Modes] /\ \A l \in Link : back[l] = "build" => mode[l] = "build"
        BY <1>2 DEF Modes
  <2>3. mode' = back \/ mode' = Wake(a, back)
        BY <1>1, <1>9 DEF VoteResponse
  <2>4. \/ committer' = committer
        \/ committer' = [committer EXCEPT ![a] = IF higher THEN @ \o FailAll(a) ELSE @]
        BY <1>1, <1>9 DEF VoteResponse
  <2> HIDE DEF back, higher
  <2>5. \A l \in Link : mode'[l] = "build" => mode[l] = "build"
        BY <1>1, <2>2, <2>3, WakeTyped
  <2>6. \A l \in Link : call'[l] = call[l] \/ call'[l].type = "none"
        BY <1>2, <1>3, <2>1
  <2>7. QueueMoves(n)
        BY <1>2, <1>4, <1>5, <2>4 DEF QueueMoves
  <2>8. \A l \in Link : LinkMoves(n, l)
        BY <1>5, <2>1, <2>5, <2>6 DEF LinkMoves
  <2> QED  BY <1>5, <2>7, <2>8, OneLogKept
<1>10. CASE HandleNewTerm(a, p)
  <2> DEFINE md == [mode EXCEPT ![k] = "run"]
             term == call[k].term
  <2>1. /\ UNCHANGED <<next, match>> /\ call' = [call EXCEPT ![k] = NoCall]
        /\ StepDown(a, term, VoteIn(a, term), md)
        /\ committer' = [committer EXCEPT ![a] = @ \o FailAll(a)]
        BY <1>1, <1>10 DEF HandleNewTerm
  <2>2. md \in [Link -> Modes] /\ \A l \in Link : md[l] = "build" => mode[l] = "build"
        BY <1>2 DEF Modes
  <2> HIDE DEF md, term
  <2>3. \A l \in Link : mode'[l] = "build" => md[l] = "build"
        BY <1>1, <1>2, <2>1, <2>2, StepDownMoves
  <2>4. \A l \in Link : call'[l] = call[l] \/ call'[l].type = "none"
        BY <1>2, <1>3, <2>1
  <2>5. QueueMoves(n)
        BY <1>2, <1>4, <1>5, <2>1 DEF QueueMoves
  <2>6. \A l \in Link : LinkMoves(n, l)
        BY <1>5, <2>1, <2>2, <2>3, <2>4 DEF LinkMoves
  <2> QED  BY <1>5, <2>5, <2>6, OneLogKept
<1> QED  BY <1>6, <1>7, <1>8, <1>9, <1>10 DEF a, p

\* The loop of do_append_entries: it sends what the log has after next_index_, and
\* believes of the follower what its answer says.
LEMMA AppendOneLog ==
    ASSUME KnownTypes, DataInv, DataInv', Offices, NEW n \in Node, OnlyLeader(n), OneLog(n),
           NEW k \in Link,
           \/ AppendLoop(k[1], k[2]) \/ SendAppend(k[1], k[2])
           \/ AppendSuccess(k[1], k[2]) \/ AppendFailure(k[1], k[2])
    PROVE  OneLog(n)'
<1> DEFINE a == k[1]
           p == k[2]
<1>1. /\ a \in Node /\ p \in Node /\ k = <<a, p>> /\ a # p
      /\ mode[k] \in Sending => HasLed(a)
      /\ call[k].type = "append" => HasLed(a)
      BY LinkNodes DEF Offices, Link
<1>2. /\ ThreadTypeOK /\ mode \in [Link -> Modes] /\ call = [l \in Link |-> call[l]]
      /\ next = [l \in Link |-> next[l]] /\ match = [l \in Link |-> match[l]]
      /\ next[k] \in Nat
      BY DEF KnownTypes, ThreadInv, ThreadTypeOK, DataInv, CallTypes
<1> HIDE DEF a, p
<1>3. k[1] = a /\ k[2] = p
      BY DEF a, p
<1>4. HasLed(a)
  <2>1. CASE AppendLoop(a, p) \/ SendAppend(a, p)
        BY <1>1, <2>1 DEF AppendLoop, SendAppend, Sending
  <2>2. CASE AppendSuccess(a, p) \/ AppendFailure(a, p)
        BY <1>1, <2>2 DEF AppendSuccess, AppendFailure
  <2> QED  BY <2>1, <2>2, <1>3
<1>5. a = n
      BY <1>4 DEF HasLed, OnlyLeader
<1>6. /\ log[n] \in Seq(Entry) /\ Numbered(log[n]) /\ LastIndex(log[n]) = Len(log[n])
      /\ Len(log[n]) \in Nat
  <2>1. log[n] \in Seq(Entry) /\ Numbered(log[n])
        BY DEF DataInv, LogTypes, OneLog
  <2> QED  BY <2>1, NumberedLog
<1>7. LinkFollows(n, k)
      BY <1>3, <1>5 DEF OneLog
<1>8. UNCHANGED <<log, applying, late>>
      BY <1>3 DEF AppendLoop, SendAppend, AppendSuccess, AppendFailure, logVars, envVars
<1>9. CASE AppendLoop(a, p)
  <2>1. /\ UNCHANGED <<committed, committer, match, call>>
        /\ next' = [next EXCEPT ![k] = NextAtTop(n, p)]
        BY <1>1, <1>5, <1>9 DEF AppendLoop, logVars
  <2>2. \A l \in Link : l # k => mode'[l] = mode[l] /\ next'[l] = next[l]
        BY <1>1, <1>2, <1>9, <2>1 DEF AppendLoop
  <2>3. next'[k] <= Len(log[n])
    <3>1. next[<<n, p>>] \in Nat
          BY <1>1, <1>2, <1>5
    <3>2. NextAtTop(n, p) <= Len(log[n])
          BY <1>6, <3>1 DEF NextAtTop
    <3> QED  BY <1>2, <2>1, <3>2
  <2>4. QueueMoves(n) /\ \A l \in Link : LinkMoves(n, l)
        BY <1>8, <2>1, <2>2, <2>3 DEF QueueMoves, LinkMoves
  <2> QED  BY <1>8, <2>1, <2>4, OneLogKept
<1>10. CASE SendAppend(a, p)
  <2> DEFINE q == AppendRequest(n, next[k])
  <2>1. UNCHANGED <<committed, committer, match, next>> /\ mode[k] = "build"
        BY <1>1, <1>10 DEF SendAppend, logVars
  <2>2. \/ mode' = [mode EXCEPT ![k] = "append"] /\ UNCHANGED call
        \/ mode' = [mode EXCEPT ![k] = "calling"] /\ call' = [call EXCEPT ![k] = q]
        BY <1>1, <1>5, <1>10 DEF SendAppend
  <2>3. next[k] <= Len(log[n])
        BY <1>7, <2>1 DEF LinkFollows
  <2>4. FromLog(q, log[n])
        BY <1>2, <1>6, <2>3, RequestFromLog
  <2>5. q.stage = "request"
        BY DEF AppendRequest
  <2> HIDE DEF q
  <2>6. \A l \in Link : /\ mode'[l] = "build" => mode[l] = "build"
                        /\ call'[l] = call[l] \/ call'[l] = q
        BY <1>2, <2>2
  <2>7. \A i : CallFromLog(q, log[n], i)
        BY <2>4, <2>5 DEF CallFromLog, Says
  <2>8. QueueMoves(n)
        BY <1>8, <2>1 DEF QueueMoves
  <2>9. \A l \in Link : LinkMoves(n, l)
        BY <1>8, <2>1, <2>6, <2>7 DEF LinkMoves
  <2> QED  BY <1>8, <2>1, <2>8, <2>9, OneLogKept
<1>11. CASE AppendSuccess(a, p)
  <2> DEFINE answer == call[k]
             acks == CountAcks(n, answer.sent)
             new == [i \in DOMAIN acks.done |-> Reply(acks.done[i], TRUE)]
  <2>1. /\ answer.type = "append" /\ answer.stage = "response" /\ answer.success
        /\ call' = [call EXCEPT ![k] = NoCall] /\ mode' = [mode EXCEPT ![k] = "append"]
        /\ match' = [match EXCEPT ![k] = answer.lastIndex]
        /\ next' = [next EXCEPT ![k] = answer.lastIndex + 1]
        /\ committed' = [committed EXCEPT ![n] = acks.committed]
        /\ committer' = [committer EXCEPT ![n] = @ \o new]
        BY <1>1, <1>5, <1>11 DEF AppendSuccess
  <2>2. /\ answer.lastIndex <= Len(log[p])
        /\ \A i \in 1..Len(answer.sent) : answer.sent[i] <= Len(log[p])
        BY <1>3, <1>7, <2>1 DEF LinkFollows, CallFromLog, Says
  <2>3. answer.sent \in Seq(Nat) /\ answer.lastIndex \in Nat
        BY <2>1, SentTyped DEF DataInv
  <2>4. acks \in Counts
        BY <1>1, <1>5, <1>11, AppendSuccessReplies DEF DataInv
  <2>5. acks.committed = committed[n] \/ StoredElsewhere(n, acks.committed)
    <3> DEFINE I == {i \in Nat : i <= Len(log[p])}
               sent == answer.sent
    <3>1. sent \in Seq(I)
      <4>1. sent \in Seq(Nat) /\ \A i \in 1..Len(sent) : sent[i] \in I
            BY <2>2, <2>3
      <4> HIDE DEF I, sent
      <4> QED  BY <4>1
    <3>2. /\ committed[n] \in Nat /\ callbacks[n] \in SUBSET Callbacks
          /\ IsFiniteSet(callbacks[n]) /\ OnePerIndex(callbacks[n])
          /\ OnePerRequest(callbacks[n])
          BY CallbacksDiffer DEF DataInv, LogTypes, ReplyTypes
    <3>3. I \in SUBSET Nat
          OBVIOUS
    <3> HIDE DEF I, sent
    <3>4. CountAcks(n, sent).committed \in I \union {committed[n]}
          BY <3>1, <3>2, <3>3, CountAcksCommit
    <3> QED  BY <1>1, <1>5, <3>4 DEF I, sent, StoredElsewhere
  <2> HIDE DEF acks
  <2>6. new \in Seq(Replied)
    <3>1. acks.done \in Seq(Request)
          BY <2>4 DEF Counts
    <3>2. \A r \in Request : Reply(r, TRUE) \in Replied
          BY DEF Reply, Replied, Items
    <3>3. DOMAIN acks.done = 1..Len(acks.done) /\ Len(acks.done) \in Nat
          /\ \A i \in DOMAIN acks.done : acks.done[i] \in Request
          BY <3>1
    <3>4. new \in [1..Len(acks.done) -> Replied]
          BY <3>2, <3>3
    <3> HIDE DEF new
    <3> QED  BY <3>3, <3>4
  <2> HIDE DEF new, answer
  <2>7. QueueMoves(n)
        BY <1>8, <2>1, <2>6 DEF QueueMoves, DataInv, ReplyTypes
  <2>8. committed'[n] = committed[n] \/ StoredElsewhere(n, committed'[n])
        BY <2>1, <2>5 DEF DataInv, LogTypes
  <2>9. NoCall.type # "append"
        BY DEF NoCall
  <2>10. \A l \in Link : LinkMoves(n, l)
    <3> TAKE l \in Link
    <3>1. CASE l = k
      <4>1. /\ mode'[l] = "append" /\ match'[l] = answer.lastIndex
            /\ call'[l] = NoCall
            BY <1>2, <2>1, <3>1
      <4> QED  BY <1>3, <2>2, <2>9, <3>1, <4>1 DEF LinkMoves
    <3>2. CASE l # k
      <4>1. UNCHANGED <<mode[l], next[l], match[l], call[l]>>
            BY <1>2, <2>1, <3>2
      <4> QED  BY <4>1 DEF LinkMoves
    <3> QED  BY <3>1, <3>2
  <2> QED  BY <1>8, <2>7, <2>8, <2>10, OneLogKept
<1>12. CASE AppendFailure(a, p)
  <2>1. /\ UNCHANGED <<committed, committer>>
        /\ \E md \in {"newterm", "append"} : mode' = [mode EXCEPT ![k] = md]
        /\ match' = [match EXCEPT ![k] = 0]
        /\ \E i : next' = [next EXCEPT ![k] = i]
        BY <1>1, <1>5, <1>12 DEF AppendFailure, logVars
  <2>2. \A l \in Link : call'[l] = call[l] \/ call'[l] = NoCall
        BY <1>1, <1>2, <1>12 DEF AppendFailure
  <2>3. NoCall.type # "append"
        BY DEF NoCall
  <2>4. QueueMoves(n)
        BY <1>8, <2>1 DEF QueueMoves
  <2>5. Len(log[p]) \in Nat
        BY <1>1 DEF DataInv, LogTypes
  <2>6. \A l \in Link : LinkMoves(n, l)
    <3> TAKE l \in Link
    <3>1. CASE l = k
      <4>1. mode'[l] # "build" /\ match'[l] = 0
            BY <1>2, <2>1, <3>1
      <4> QED  BY <1>3, <2>2, <2>3, <2>5, <3>1, <4>1 DEF LinkMoves
    <3>2. CASE l # k
      <4>1. UNCHANGED <<mode[l], next[l], match[l]>>
            BY <1>2, <2>1, <3>2
      <4> QED  BY <2>2, <2>3, <4>1 DEF LinkMoves
    <3> QED  BY <3>1, <3>2
  <2> QED  BY <1>8, <2>1, <2>4, <2>6, OneLogKept
<1> QED  BY <1>3, <1>9, <1>10, <1>11, <1>12

\* An RPC fails: what the leader has sent may still arrive.
LEMMA FailOneLog ==
    ASSUME KnownTypes, DataInv, DataInv', Offices, NEW n \in Node, OnlyLeader(n), OneLog(n),
           NEW k \in Link, CallFails(k[1], k[2])
    PROVE  OneLog(n)'
<1>1. k = <<k[1], k[2]>>
      BY LinkNodes
<1>2. /\ mode \in [Link -> Modes] /\ call = [l \in Link |-> call[l]]
      BY DEF KnownTypes, ThreadInv, ThreadTypeOK
<1>3. /\ UNCHANGED <<log, committed, committer, applying, next, match>>
      /\ GiveUp(k[1], k[2])
      BY DEF CallFails, logVars
<1>4. VoteRequest(k[1]).type = "vote" /\ NoCall.type = "none"
      BY DEF VoteRequest, NoCall
<1>5. \A l \in Link : /\ mode'[l] = "build" => mode[l] = "build"
                      /\ call'[l] = call[l] \/ call'[l].type # "append"
  <2>1. CASE /\ mode' = [mode EXCEPT ![k] = "append"]
             /\ call' = [call EXCEPT ![k] = NoCall]
        BY <1>2, <1>4, <2>1
  <2>2. CASE call' = [call EXCEPT ![k] = VoteRequest(k[1])] /\ UNCHANGED mode
        BY <1>2, <1>4, <2>2
  <2>3. CASE /\ mode' = [mode EXCEPT ![k] = "run"]
             /\ call' = [call EXCEPT ![k] = NoCall]
        BY <1>2, <1>4, <2>3
  <2> QED  BY <1>1, <1>3, <2>1, <2>2, <2>3 DEF GiveUp
<1>6. QueueMoves(n) /\ \A l \in Link : LinkMoves(n, l)
      BY <1>3, <1>5 DEF QueueMoves, LinkMoves
<1>7. ASSUME NEW m \in late', m \notin late, m.request.type = "append"
      PROVE  FromLog(m.request, log[n])
  <2>1. m.request = call[k] /\ call[k].stage = "request"
    <3> DEFINE lost == [from |-> k[1], to |-> k[2], request |-> call[k]]
    <3>1. \/ late' = late
          \/ late' = late \union {lost} /\ call[k].stage = "request"
          BY <1>1 DEF CallFails
    <3>2. lost.request = call[k]
          OBVIOUS
    <3> HIDE DEF lost
    <3> QED  BY <1>7, <3>1, <3>2
  <2>2. k[1] = n
        BY <1>7, <2>1 DEF Offices, HasLed, OnlyLeader
  <2> QED  BY <1>7, <2>1, <2>2 DEF OneLog, LinkFollows, CallFromLog
<1> QED  BY <1>3, <1>6, <1>7, OneLogKept

\* Timers.
LEMMA TimerOneLog ==
    ASSUME KnownTypes, DataInv, DataInv', NEW n \in Node, OneLog(n),
           NEW a \in Node, TimerStep(a)
    PROVE  OneLog(n)'
<1>1. UNCHANGED <<log, committed, applying, next, match, call, late>>
      BY DEF TimerStep, ElectionTimeout, ElectionCallback, AppendTimeout, logVars,
             peerVars, envVars
<1>2. mode \in [Link -> Modes]
      BY DEF KnownTypes, ThreadInv, ThreadTypeOK
<1>3. \A l \in Link : mode'[l] = "build" => mode[l] = "build"
  <2>1. UNCHANGED mode \/ mode' = Wake(a, mode)
        BY DEF TimerStep, ElectionTimeout, ElectionCallback, AppendTimeout, peerVars
  <2> QED  BY <1>2, <2>1, WakeTyped
<1>4. \A l \in Link : LinkMoves(n, l)
      BY <1>1, <1>3 DEF LinkMoves
<1>5. QueueMoves(n)
  <2>1. CASE ElectionTimeout(a) \/ ElectionCallback(a)
        BY <1>1, <2>1 DEF ElectionTimeout, ElectionCallback, logVars, QueueMoves
  <2>2. ASSUME NEW r \in Request, AppendTimeout(a, r) PROVE QueueMoves(n)
    <3> DEFINE found == TimedOut(a, r)
               item == Reply((CHOOSE c \in found : TRUE).req, FALSE)
    <3>1. committer' = [committer EXCEPT ![a] = IF found = {} THEN @ ELSE Append(@, item)]
          BY <2>2 DEF AppendTimeout
    <3>2. committer \in [Node -> Seq(Items)] /\ callbacks[a] \subseteq Callbacks
          BY DEF DataInv, ReplyTypes
    <3>3. found # {} => item \in Replied
      <4>1. found \subseteq Callbacks
            BY <3>2 DEF TimedOut
      <4>2. \A c \in Callbacks : Reply(c.req, FALSE) \in Replied
            BY DEF Callbacks, Reply, Replied, Items
      <4> HIDE DEF found
      <4> QED  BY <4>1, <4>2
    <3> HIDE DEF found, item
    <3>4. CASE found = {} \/ a # n
          BY <1>1, <3>1, <3>2, <3>4 DEF QueueMoves
    <3>5. CASE found # {} /\ a = n
      <4>1. committer'[n] = Append(committer[n], item) /\ committer[n] \in Seq(Items)
            BY <3>1, <3>2, <3>5
      <4>2. \A s \in Seq(Items) : Append(s, item) = s \o <<item>>
            OBVIOUS
      <4>3. <<item>> \in Seq(Replied)
            BY <3>3, <3>5
      <4> QED  BY <1>1, <4>1, <4>2, <4>3 DEF QueueMoves
    <3> QED  BY <3>4, <3>5
  <2> QED  BY <2>1, <2>2 DEF TimerStep
<1> QED  BY <1>1, <1>4, <1>5, OneLogKept

\* The committer thread: that of the leader runs callbacks only.
LEMMA CommitterOneLog ==
    ASSUME KnownTypes, DataInv, DataInv', NEW n \in Node, OneLog(n),
           NEW a \in Node, CommitterStep(a)
    PROVE  OneLog(n)'
<1>1. UNCHANGED <<log, mode, next, match, call, late>>
      BY DEF CommitterStep, RunReply, ReadEntries, ApplyEntry, peerVars
<1>2. \A l \in Link : LinkMoves(n, l)
      BY <1>1 DEF LinkMoves
<1>3. FollowsNone(n) /\ committer \in [Node -> Seq(Items)]
      /\ applying = [m \in Node |-> applying[m]] /\ committed = [m \in Node |-> committed[m]]
      BY DEF OneLog, DataInv, ReplyTypes, LogTypes
<1>4. QueueMoves(n) /\ committed'[n] = committed[n]
  <2>1. CASE RunReply(a)
        BY <1>3, <2>1 DEF RunReply, NextItem, QueueMoves
  <2>2. CASE ReadEntries(a)
    <3>1. a # n
      <4> DEFINE s == committer[n]
                 S == Replied
      <4>1. s \in Seq(S) /\ \A item \in S : item.op = "reply"
            BY <1>3 DEF FollowsNone, Replied
      <4>2. a = n => s # <<>> /\ Head(s).op = "apply"
            BY <2>2 DEF ReadEntries, NextItem
      <4> HIDE DEF s, S
      <4>3. s # <<>> => Head(s) \in S
            BY <4>1
      <4> QED  BY <4>1, <4>2, <4>3
    <3> QED  BY <1>3, <2>2, <3>1 DEF ReadEntries, NextItem, QueueMoves
  <2>3. CASE ApplyEntry(a)
    <3>1. a # n
          BY <1>3, <2>3 DEF ApplyEntry, FollowsNone
    <3> QED  BY <1>3, <2>3, <3>1 DEF ApplyEntry, QueueMoves
  <2> QED  BY <2>1, <2>2, <2>3 DEF CommitterStep
<1> QED  BY <1>1, <1>2, <1>4, OneLogKept

\* An entry written behind the others has the next number.
LEMMA WrittenIsNext ==
    ASSUME NEW s \in Seq(Entry), Numbered(s), NEW term \in Nat, NEW r \in Request
    PROVE  LET t == WriteNew(s, term, r)
           IN  t \in Seq(Entry) /\ Numbered(t) /\ Begins(s, t)
<1> DEFINE e == [index |-> Len(s) + 1, term |-> term, data |-> r]
<1>1. WriteNew(s, term, r) = Append(s, e) /\ e.index = Len(s) + 1
      BY NumberedLog DEF WriteNew, Write
<1>2. e \in Entry
      BY DEF Entry
<1> HIDE DEF e
<1>3. /\ Append(s, e) \in Seq(Entry) /\ Len(Append(s, e)) = Len(s) + 1 /\ Len(s) \in Nat
      /\ \A i \in 1..Len(s) : Append(s, e)[i] = s[i]
      /\ Append(s, e)[Len(s) + 1] = e
      BY <1>2
<1>4. \A i \in 1..Len(s) + 1 : i \in 1..Len(s) \/ i = Len(s) + 1
      BY <1>3
<1>5. Numbered(Append(s, e))
      BY <1>1, <1>3, <1>4 DEF Numbered
<1> QED  BY <1>1, <1>3, <1>5 DEF Begins

\* The threads inside replicate.
LEMMA CallerOneLog ==
    ASSUME KnownTypes, DataInv, DataInv', Offices, NEW n \in Node, OnlyLeader(n), OneLog(n),
           NEW r \in Request, ReplicateStep(r) \/ \E a \in Node : CheckLeader(r, a)
    PROVE  OneLog(n)'
<1>1. UNCHANGED <<committed, committer, applying, next, match, call, late>>
      BY DEF ReplicateStep, WriteEntry, InsertCallback, CheckLeader, logVars, peerVars
<1>2. mode \in [Link -> Modes]
      BY DEF KnownTypes, ThreadInv, ThreadTypeOK
<1>3. QueueMoves(n)
      BY <1>1 DEF QueueMoves
<1>4. CASE InsertCallback(r) \/ \E a \in Node : CheckLeader(r, a)
  <2>1. UNCHANGED log
        BY <1>4 DEF InsertCallback, CheckLeader, logVars
  <2>2. \A l \in Link : mode'[l] = "build" => mode[l] = "build"
    <3>1. CASE InsertCallback(r)
      <4>1. req[r].node \in Node
            BY <3>1 DEF InsertCallback, DataInv, RequestInv, CallersKnown
      <4> QED  BY <1>2, <3>1, <4>1, WakeTyped DEF InsertCallback
    <3>2. CASE \E a \in Node : CheckLeader(r, a)
          BY <3>2 DEF CheckLeader, peerVars
    <3> QED  BY <1>4, <3>1, <3>2
  <2>3. \A l \in Link : LinkMoves(n, l)
        BY <1>1, <2>2 DEF LinkMoves
  <2> QED  BY <1>1, <1>3, <2>1, <2>3, OneLogKept
<1>5. CASE WriteEntry(r)
  <2>1. req[r].node = n
        BY <1>5 DEF WriteEntry, Offices, HasLed, OnlyLeader
  <2>2. /\ log' = [log EXCEPT ![n] = WriteNew(log[n], currentTerm[n], r)]
        /\ UNCHANGED mode
        BY <1>5, <2>1 DEF WriteEntry, peerVars
  <2>3. LogTypes /\ LogTypes' /\ CallTypes /\ CallTypes'
        BY DEF DataInv
  <2>4. \A l \in Link : LinkMoves(n, l)
        BY <1>1, <2>2 DEF LinkMoves
  <2>5. /\ log[n] \in Seq(Entry) /\ currentTerm[n] \in Nat /\ Numbered(log[n])
        /\ \A p \in Node : log[p] \in Seq(Entry) /\ Begins(log[p], log[n])
        BY <2>3 DEF LogTypes, OneLog, KnownTypes, VoteInv, TermTypeOK
  <2>6. PICK t : t = WriteNew(log[n], currentTerm[n], r)
        OBVIOUS
  <2>7. t \in Seq(Entry) /\ Numbered(t) /\ Begins(log[n], t)
        BY <2>5, <2>6, WrittenIsNext
  <2>8. \A p \in Node : log'[p] = IF p = n THEN t ELSE log[p]
        BY <2>2, <2>3, <2>6 DEF LogTypes
  <2>9. \A p \in Node : Begins(log[p], log[p]) /\ Begins(log[p], t)
        BY <2>5, <2>7, BeginsTwice DEF Begins
  <2>10. Begins(t, t)
        BY <2>7 DEF Begins
  <2>11. /\ Numbered(log'[n])
         /\ \A p \in Node : Begins(log[p], log'[p]) /\ Begins(log'[p], log'[n])
        BY <2>7, <2>8, <2>9, <2>10
  <2> QED  BY <1>1, <1>3, <2>3, <2>4, <2>11, OneLogStays
<1> QED  BY <1>4, <1>5 DEF ReplicateStep

-----------------------------------------------------------------------------
(* Together.                                                                 *)

\* The record of who has led only grows.
LEMMA LeadersStay == [Next]_vars => leaders \subseteq leaders'
<1> SUFFICES ASSUME [Next]_vars PROVE leaders \subseteq leaders'
    OBVIOUS
<1>1. ASSUME NEW n, NEW p, PeerStep(n, p) PROVE leaders \subseteq leaders'
  <2>1. CASE VoteResponse(n, p)
        BY <2>1, Zenon DEF VoteResponse
  <2>2. CASE ~VoteResponse(n, p)
        BY <1>1, <2>2 DEF PeerStep, PopSleep, FallAsleep, PopElection, PopAppend, AppendLoop,
                          SendAppend, AppendSuccess, AppendFailure, HandleNewTerm, history
  <2> QED  BY <2>1, <2>2
<1>2. ASSUME NEW n, NEW p, ServeCall(n, p) PROVE leaders \subseteq leaders'
      BY <1>2 DEF ServeCall, ServeVote, ServeAppend, HandleVoteRequest, HandleAppendRequest,
                  history
<1>3. ASSUME NEW m, ServeLate(m) PROVE leaders \subseteq leaders'
      BY <1>3 DEF ServeLate, HandleVoteRequest, HandleAppendRequest, history
<1>4. ASSUME NEW n, NEW p, CallFails(n, p) PROVE leaders \subseteq leaders'
      BY <1>4 DEF CallFails, history
<1>5. ASSUME NEW n, TimerStep(n) \/ CommitterStep(n) PROVE leaders \subseteq leaders'
      BY <1>5 DEF TimerStep, ElectionTimeout, ElectionCallback, AppendTimeout,
                  CommitterStep, RunReply, ReadEntries, ApplyEntry, history
<1>6. ASSUME NEW r, ReplicateStep(r) \/ \E n \in Node : CheckLeader(r, n)
      PROVE  leaders \subseteq leaders'
      BY <1>6 DEF ReplicateStep, WriteEntry, InsertCallback, CheckLeader, history
<1>7. CASE UNCHANGED vars
      BY <1>7 DEF vars, history
<1> QED  BY <1>1, <1>2, <1>3, <1>4, <1>5, <1>6, <1>7 DEF Next

\* Every step keeps the invariant of the single log.
LEMMA OneLogNext ==
    KnownTypes /\ DataInv /\ Offices /\ OneLogInv /\ [Next]_vars => OneLogInv'
<1> SUFFICES ASSUME KnownTypes, DataInv, Offices, OneLogInv, [Next]_vars,
                    NEW n \in Node, OnlyLeader(n)'
             PROVE  OneLog(n)'
    BY DEF OneLogInv
<1>1. OnlyLeader(n) /\ OneLog(n)
      BY LeadersStay DEF OnlyLeader, OneLogInv
<1>2. DataInv'
      BY DataInvNext
<1>3. ASSUME NEW k \in Link, PeerStep(k[1], k[2]) PROVE OneLog(n)'
      BY <1>1, <1>2, <1>3, CommandOneLog, AppendOneLog DEF PeerStep
<1>4. ASSUME NEW k \in Link, ServeCall(k[1], k[2]) PROVE OneLog(n)'
      BY <1>1, <1>2, <1>4, ServeOneLog
<1>5. ASSUME NEW k \in Link, CallFails(k[1], k[2]) PROVE OneLog(n)'
      BY <1>1, <1>2, <1>5, FailOneLog
<1>6. ASSUME NEW a \in Node, TimerStep(a) \/ CommitterStep(a) PROVE OneLog(n)'
      BY <1>1, <1>2, <1>6, TimerOneLog, CommitterOneLog
<1>7. ASSUME NEW r \in Request, ReplicateStep(r) \/ \E a \in Node : CheckLeader(r, a)
      PROVE OneLog(n)'
      BY <1>1, <1>2, <1>7, CallerOneLog
<1>8. ASSUME NEW m \in late, ServeLate(m) PROVE OneLog(n)'
      BY <1>1, <1>2, <1>8, LateOneLog
<1>9. CASE UNCHANGED vars
  <2>1. UNCHANGED <<log, committed, committer, applying, mode, next, match, call, late>>
        BY <1>9 DEF vars, logVars, peerVars, envVars
  <2>2. QueueMoves(n) /\ \A l \in Link : LinkMoves(n, l)
        BY <2>1 DEF QueueMoves, LinkMoves
  <2> QED  BY <1>1, <1>2, <2>1, <2>2, OneLogKept
<1> QED  BY <1>3, <1>4, <1>5, <1>6, <1>7, <1>8, <1>9 DEF Next

\* The invariants of the single log hold at the start.
LEMMA OneLogInit == Init => Offices /\ OneLogInv
<1> SUFFICES ASSUME Init PROVE Offices /\ OneLogInv
    OBVIOUS
<1>1. /\ \A n \in Node : /\ state[n] = Follower /\ log[n] = <<>> /\ committed[n] = 0
                         /\ applying[n] = <<>> /\ committer[n] = <<>>
      /\ \A l \in Link : /\ cmds[l] = <<>> /\ mode[l] = "run" /\ call[l] = NoCall
                         /\ match[l] = 0
      /\ late = {} /\ \A r \in Request : req[r].pc = "new"
      BY DEF Init
<1>2. NoCall.type = "none" /\ Follower # Leader
      BY DEF NoCall, Follower, Leader
<1>3. Offices
  <2>1. \A l \in Link : cmds[l] \in Seq(Orders(l[1]))
    <3>1. \A S : <<>> \in Seq(S)
          OBVIOUS
    <3> QED  BY <1>1, <3>1
  <2>2. \A l \in Link : mode[l] \notin Sending /\ call[l].type # "append"
        BY <1>1, <1>2 DEF Sending
  <2> QED  BY <1>1, <1>2, <2>1, <2>2 DEF Offices
<1>4. ASSUME NEW n \in Node PROVE OneLog(n)
  <2>1. Numbered(log[n]) /\ \A p \in Node : Begins(log[p], log[n])
        BY <1>1 DEF Numbered, Begins
  <2>2. \A l \in Link : l[1] = n => LinkFollows(n, l)
    <3> SUFFICES ASSUME NEW l \in Link PROVE LinkFollows(n, l)
        OBVIOUS
    <3>1. log[l[2]] = <<>>
          BY <1>1, LinkNodes
    <3>2. match[l] <= Len(log[l[2]])
      <4>1. match[l] = 0 /\ Len(<<>>) = 0
            BY <1>1
      <4> QED  BY <3>1, <4>1
    <3>3. mode[l] # "build" /\ call[l].type # "append"
          BY <1>1, <1>2
    <3>4. CallFromLog(call[l], log[n], Len(log[l[2]]))
          BY <3>3, Zenon DEF CallFromLog, Says
    <3> QED  BY <3>2, <3>3, <3>4 DEF LinkFollows
  <2>3. FollowsNone(n)
    <3>1. \A S : <<>> \in Seq(S)
          OBVIOUS
    <3> QED  BY <1>1, <3>1 DEF FollowsNone
  <2> QED  BY <1>1, <2>1, <2>2, <2>3 DEF OneLog, StoredElsewhere
<1> QED  BY <1>3, <1>4 DEF OneLogInv

\* The invariants of a leader's log, in every run.
LEMMA OneLogAlways == Spec => [](DataInv /\ OneLogInv)
<1>1. Init => KnownTypes /\ DataInv /\ Offices /\ OneLogInv
      BY KnownTypesInit, DataInvInit, OneLogInit
<1>2. KnownTypes /\ DataInv /\ Offices /\ OneLogInv /\ [Next]_vars
          => KnownTypes' /\ DataInv' /\ Offices' /\ OneLogInv'
      BY KnownTypesNext, DataInvNext, OfficesNext, OneLogNext
<1> QED  BY <1>1, <1>2, PTL DEF Spec

\* The one node that has led, if only one has.
LEMMA TheLeaderLed ==
    ASSUME DataInv, OneLogInv, Stable, leaders # {}
    PROVE  TheLeader \in Node /\ OneLog(TheLeader)
<1>1. PICK l : l = (CHOOSE k \in leaders : TRUE)
      OBVIOUS
<1>2. l \in leaders /\ TheLeader = l[1]
      BY <1>1 DEF TheLeader
<1>3. l[1] \in Node
      BY <1>2 DEF DataInv, CallerTypes
<1>4. OnlyLeader(l[1])
      BY <1>2 DEF Stable, OnlyLeader
<1> QED  BY <1>2, <1>3, <1>4 DEF OneLogInv

\* Every log is a prefix of the log of the only leader there has been, for any
\* number of nodes, requests and concurrent calls of replicate, whatever RPCs fail
\* and whichever requests are handled late (handle_append_entries_request).
THEOREM LogsFollowTheLeader == Spec => []StableLogsArePrefixes
<1>1. DataInv /\ OneLogInv => StableLogsArePrefixes
  <2> SUFFICES ASSUME DataInv, OneLogInv, Stable, leaders # {}, NEW p \in Node
               PROVE  IsPrefix(log[p], log[TheLeader])
      BY DEF StableLogsArePrefixes
  <2>1. PICK n : n = TheLeader
        OBVIOUS
  <2>2. n \in Node /\ OneLog(n)
        BY <2>1, TheLeaderLed
  <2>3. /\ log[p] \in Seq(Entry) /\ log[n] \in Seq(Entry)
        /\ Begins(log[p], log[n])
        BY <2>2 DEF DataInv, LogTypes, OneLog
  <2> QED  BY <2>1, <2>3, BeginsIsPrefix
<1> QED  BY <1>1, OneLogAlways, PTL

\* A part of the leader's log that is no longer than another log begins it.
LEMMA PartIsPrefix ==
    ASSUME NEW s \in Seq(Entry), NEW t \in Seq(Entry), Begins(s, t),
           NEW i \in Nat, i <= Len(s)
    PROVE  IsPrefix(SubSeq(t, 1, i), s)
<1> DEFINE part == SubSeq(t, 1, i)
<1>1. Len(s) \in Nat /\ Len(t) \in Nat /\ Len(s) <= Len(t)
      BY DEF Begins
<1>2. /\ part \in Seq(Entry) /\ Len(part) = i
      /\ \A j \in 1..i : part[j] = t[j]
      BY <1>1
<1> HIDE DEF part
<1>3. Begins(part, s)
      BY <1>1, <1>2 DEF Begins
<1> QED  BY <1>2, <1>3, BeginsIsPrefix DEF part

\* What a peer thread of the only leader believes to be stored is stored: match_index_
\* is never ahead of the follower's log, whatever answers were lost.
THEOREM MatchIndexIsStored == Spec => []StableMatchIsStored
<1>1. DataInv /\ OneLogInv => StableMatchIsStored
  <2> SUFFICES ASSUME DataInv, OneLogInv, Stable, leaders # {},
                      NEW p \in Node \ {TheLeader}
               PROVE  IsPrefix(SubSeq(log[TheLeader], 1, match[TheLeader, p]), log[p])
      BY DEF StableMatchIsStored
  <2>1. PICK n : n = TheLeader
        OBVIOUS
  <2>2. n \in Node /\ OneLog(n)
        BY <2>1, TheLeaderLed
  <2>3. PICK k : k = <<n, p>>
        OBVIOUS
  <2>4. k \in Link /\ k[1] = n /\ k[2] = p
        BY <2>1, <2>2, <2>3 DEF Link
  <2>5. /\ log[p] \in Seq(Entry) /\ log[n] \in Seq(Entry) /\ Begins(log[p], log[n])
        /\ match[k] \in Nat /\ match[k] <= Len(log[p])
        BY <2>2, <2>4 DEF DataInv, LogTypes, CallTypes, OneLog, LinkFollows
  <2>6. IsPrefix(SubSeq(log[n], 1, match[k]), log[p])
        BY <2>5, PartIsPrefix
  <2> QED  BY <2>1, <2>3, <2>6
<1> QED  BY <1>1, OneLogAlways, PTL

\* What the only leader has committed is in the logs of a majority.  In clusters of up
\* to three nodes, where the leader and one other are one: in larger clusters the
\* heartbeats to one follower, each with the last entry, count as many followers.
THEOREM CommittedIsOnMajority ==
    ASSUME Cardinality(Node) <= 3
    PROVE  Spec => []StableCommittedOnMajority
<1>1. DataInv /\ OneLogInv => StableCommittedOnMajority
  <2> SUFFICES ASSUME DataInv, OneLogInv, Stable, leaders # {}
               PROVE  Cardinality({p \in Node : IsPrefix(CommittedPart(TheLeader), log[p])})
                          >= Majority
      BY DEF StableCommittedOnMajority
  <2>1. PICK n : n = TheLeader
        OBVIOUS
  <2>2. n \in Node /\ OneLog(n)
        BY <2>1, TheLeaderLed
  <2> DEFINE i == committed[n]
             S == {p \in Node : IsPrefix(CommittedPart(n), log[p])}
  <2>3. /\ i \in Nat /\ \A p \in Node : log[p] \in Seq(Entry) /\ Begins(log[p], log[n])
        /\ i = 0 \/ \E p \in Node \ {n} : i <= Len(log[p])
        BY <2>2 DEF DataInv, LogTypes, OneLog, StoredElsewhere
  <2>4. \A p \in Node : i <= Len(log[p]) => p \in S
        BY <2>2, <2>3, PartIsPrefix DEF CommittedPart
  <2>5. IsFiniteSet(Node) /\ Cardinality(Node) \in {2, 3} /\ Majority = 2
    <3>1. Cardinality(Node) \in Nat /\ Cardinality(Node) >= 2
          BY NodeAssumption, FS_CardinalityType
    <3>2. Cardinality(Node) = 2 \/ Cardinality(Node) = 3
          BY <3>1
    <3> QED  BY <3>2, NodeAssumption DEF Majority
  <2>6. PICK p \in Node \ {n} : p \in S /\ n \in S
    <3>1. CASE i = 0
      <4>1. Node \ {n} # {}
        <5>1. Cardinality({n}) = 1
              BY FS_Singleton
        <5> QED  BY <2>2, <2>5, <5>1
      <4>2. \A p \in Node : p \in S
            BY <2>3, <2>4, <3>1
      <4> QED  BY <2>2, <4>1, <4>2
    <3>2. CASE i # 0
      <4>1. PICK p \in Node \ {n} : i <= Len(log[p])
            BY <2>3, <3>2
      <4>2. i <= Len(log[n])
            BY <2>2, <2>3, <4>1 DEF Begins
      <4> QED  BY <2>2, <2>4, <4>1, <4>2
    <3> QED  BY <3>1, <3>2
  <2>7. Cardinality(S) >= 2
    <3>1. S \subseteq Node /\ {n, p} \subseteq S
          BY <2>6
    <3>2. IsFiniteSet(S) /\ Cardinality({n, p}) <= Cardinality(S)
          BY <2>5, <3>1, FS_Subset
    <3>3. Cardinality({n, p}) = 2
      <4>1. IsFiniteSet({n}) /\ Cardinality({n}) = 1
            BY FS_Singleton
      <4>2. Cardinality({n} \union {p}) = Cardinality({n}) + 1
            BY <2>6, <4>1, FS_AddElement
      <4>3. {n} \union {p} = {n, p}
            OBVIOUS
      <4> QED  BY <4>1, <4>2, <4>3
    <3>4. Cardinality(S) \in Nat
          BY <3>2, FS_CardinalityType
    <3> QED  BY <3>2, <3>3, <3>4
  <2> QED  BY <2>1, <2>5, <2>7
<1> QED  BY <1>1, OneLogAlways, PTL

-----------------------------------------------------------------------------
(* The commit index, with one call of replicate at a time.                   *)

\* One thread at most is inside replicate, on a node that has led.
OneCaller ==
    /\ Busy = {} \/ \E r \in Request : Busy = {r}
    /\ \A r \in Busy : HasLed(req[r].node)

\* What moves the callers of replicate.
LEMMA CallersMove ==
    ASSUME [Next]_vars
    PROVE  \/ UNCHANGED req
           \/ \E r \in Request : \/ WriteEntry(r) \/ InsertCallback(r)
                                 \/ \E a \in Node : CheckLeader(r, a)
           \/ \E a \in Node : RunReply(a)
<1>1. ASSUME NEW n, NEW p, PeerStep(n, p) \/ ServeCall(n, p) \/ CallFails(n, p)
      PROVE  UNCHANGED req
      BY <1>1 DEF PeerStep, PopSleep, FallAsleep, PopElection, PopAppend, AppendLoop,
                  SendAppend, VoteResponse, AppendSuccess, AppendFailure, HandleNewTerm,
                  ServeCall, ServeVote, ServeAppend, HandleVoteRequest,
                  HandleAppendRequest, CallFails, envVars
<1>2. ASSUME NEW n, TimerStep(n) \/ ReadEntries(n) \/ ApplyEntry(n) PROVE UNCHANGED req
      BY <1>2 DEF TimerStep, ElectionTimeout, ElectionCallback, AppendTimeout,
                  ReadEntries, ApplyEntry, envVars
<1>3. ASSUME NEW m, ServeLate(m) PROVE UNCHANGED req
      BY <1>3 DEF ServeLate, HandleVoteRequest, HandleAppendRequest
<1>4. CASE UNCHANGED vars
      BY <1>4 DEF vars, envVars
<1> QED  BY <1>1, <1>2, <1>3, <1>4 DEF Next, CommitterStep, ReplicateStep

\* Only a caller that finds nobody inside replicate enters it.
LEMMA OneCallerNext ==
    ASSUME Concurrency = 1, DataInv, DataInv', Offices, OneCaller, [Next]_vars
    PROVE  OneCaller'
<1>1. leaders \subseteq leaders'
      BY LeadersStay
<1>2. req \in [Request -> [pc : {"new", "checked", "written", "waiting", "ok", "failed"},
                           node : Node \union {Nil}, index : Nat]]
      BY DEF DataInv, CallerTypes
<1>3. ASSUME Busy' \subseteq Busy, \A r \in Busy' : req'[r].node = req[r].node
      PROVE  OneCaller'
      BY <1>1, <1>3, LedStays DEF OneCaller, HasLed
<1>4. ASSUME UNCHANGED req PROVE OneCaller'
      BY <1>3, <1>4 DEF Busy
<1>5. ASSUME NEW r \in Request, NEW n \in Node, CheckLeader(r, n) PROVE OneCaller'
  <2>1. Busy = {}
    <3>1. \A s : Cardinality({s}) = 1
          BY FS_Singleton
    <3> QED  BY <1>5, <3>1 DEF CheckLeader, OneCaller
  <2>2. HasLed(n)'
        BY <1>1, <1>5, LedStays DEF CheckLeader, Offices
  <2>3. /\ req' = [req EXCEPT ![r] = [@ EXCEPT !.pc = "checked", !.node = n]]
        BY <1>5 DEF CheckLeader
  <2>4. \A s \in Request \ {r} : req'[s] = req[s]
        BY <1>2, <2>3
  <2>5. req'[r].pc = "checked" /\ req'[r].node = n
        BY <1>2, <2>3
  <2>6. Busy' = {r}
        BY <2>1, <2>4, <2>5 DEF Busy
  <2> QED  BY <2>2, <2>5, <2>6 DEF OneCaller, HasLed
<1>6. ASSUME NEW r \in Request, WriteEntry(r) \/ InsertCallback(r) PROVE OneCaller'
  <2>1. req[r].pc \in {"checked", "written"}
        BY <1>6 DEF WriteEntry, InsertCallback
  <2>2. \A s \in Request : /\ req'[s].node = req[s].node
                           /\ s # r => req'[s].pc = req[s].pc
    <3>1. CASE WriteEntry(r)
      <4>1. \E i : req' = [req EXCEPT ![r] = [@ EXCEPT !.pc = "written", !.index = i]]
            BY <3>1 DEF WriteEntry
      <4> QED  BY <1>2, <4>1
    <3>2. CASE InsertCallback(r)
      <4>1. req' = [req EXCEPT ![r] = [@ EXCEPT !.pc = "waiting"]]
            BY <3>2 DEF InsertCallback
      <4> QED  BY <1>2, <4>1
    <3> QED  BY <1>6, <3>1, <3>2
  <2>3. r \in Busy
        BY <2>1 DEF Busy
  <2> QED  BY <1>3, <2>2, <2>3 DEF Busy
<1>7. ASSUME NEW n \in Node, RunReply(n) PROVE OneCaller'
  <2> DEFINE r == Head(committer[n]).req
  <2>1. \E ok \in {"ok", "failed"} : req' = [req EXCEPT ![r] = [@ EXCEPT !.pc = ok]]
        BY <1>7 DEF RunReply
  <2> HIDE DEF r
  <2>2. \A s \in Request : /\ req'[s].node = req[s].node
                           /\ req'[s].pc \in {req[s].pc, "ok", "failed"}
        BY <1>2, <2>1
  <2> QED  BY <1>3, <2>2 DEF Busy
<1> QED  BY <1>4, <1>5, <1>6, <1>7, CallersMove

\* An acknowledgement commits the index of a callback, if any.
LEMMA CountAcksCallback ==
    ASSUME NEW n, NEW indexes \in Seq(Nat), committed[n] \in Nat,
           callbacks[n] \in SUBSET Callbacks, IsFiniteSet(callbacks[n]),
           OnePerIndex(callbacks[n]), OnePerRequest(callbacks[n])
    PROVE  \/ CountAcks(n, indexes).committed = committed[n]
           \/ \E c \in callbacks[n] : CountAcks(n, indexes).committed = c.index
<1> DEFINE C == callbacks[n]
           T == {c.index : c \in C} \union {committed[n]}
           S == {st \in Counts : Counted(C, st) /\ st.committed \in T}
           start == [callbacks |-> callbacks[n], committed |-> committed[n],
                     done |-> <<>>]
<1>1. start \in S
  <2>1. start \in Counts /\ start.committed \in T
        BY DEF Counts
  <2>2. Counted(C, start)
        BY DEF Counted, Same
  <2> QED  BY <2>1, <2>2
<1>2. ASSUME NEW st \in S, NEW i \in Nat PROVE CountAck(st, i) \in S
  <2>1. CountAck(st, i) \in Counts /\ Counted(C, CountAck(st, i))
        BY CountAckKeeps
  <2>2. \/ CountAck(st, i).committed = st.committed
        \/ CountAck(st, i).committed = i /\ \E d \in st.callbacks : d.index = i
        BY DEF CountAck, Counts
  <2>3. \A d \in st.callbacks : \E c \in C : c.index = d.index
        BY DEF Counted, Same
  <2>4. CountAck(st, i).committed \in T
        BY <2>2, <2>3
  <2> QED  BY <2>1, <2>4
<1>3. CountAcks(n, indexes) \in S
  <2> HIDE DEF S
  <2> QED  BY <1>1, <1>2, CountAcksStay, Zenon
<1> QED  BY <1>3

\* What the leader has committed is no newer than what is being replicated.
NothingPassed(n) ==
    \A r \in Request : req[r].pc \in {"written", "waiting"} => committed[n] <= req[r].index

\* Only acknowledgements and the committer thread set the commit index.
LEMMA CommittedMoves ==
    ASSUME [Next]_vars
    PROVE  \/ UNCHANGED committed
           \/ \E k \in Link : AppendSuccess(k[1], k[2])
           \/ \E a \in Node : ApplyEntry(a)
<1>1. ASSUME NEW a, NEW p, PeerStep(a, p) PROVE UNCHANGED committed \/ AppendSuccess(a, p)
      BY <1>1 DEF PeerStep, PopSleep, FallAsleep, PopElection, PopAppend, AppendLoop,
                  SendAppend, VoteResponse, AppendFailure, HandleNewTerm, logVars
<1>2. ASSUME NEW a, NEW p, ServeCall(a, p) \/ CallFails(a, p) PROVE UNCHANGED committed
      BY <1>2 DEF ServeCall, ServeVote, ServeAppend, HandleVoteRequest,
                  HandleAppendRequest, CallFails, logVars
<1>3. ASSUME NEW a, TimerStep(a) \/ CommitterStep(a)
      PROVE  UNCHANGED committed \/ ApplyEntry(a)
      BY <1>3 DEF TimerStep, ElectionTimeout, ElectionCallback, AppendTimeout,
                  CommitterStep, RunReply, ReadEntries, logVars
<1>4. ASSUME NEW m, ServeLate(m) PROVE UNCHANGED committed
      BY <1>4 DEF ServeLate, HandleVoteRequest, HandleAppendRequest
<1>5. ASSUME NEW r, ReplicateStep(r) \/ \E a \in Node : CheckLeader(r, a)
      PROVE  UNCHANGED committed
      BY <1>5 DEF ReplicateStep, WriteEntry, InsertCallback, CheckLeader, logVars
<1>6. CASE UNCHANGED vars
      BY <1>6 DEF vars, logVars
<1> QED  BY <1>1, <1>2, <1>3, <1>4, <1>5, <1>6 DEF Next

\* An answer sets the commit index of the leader to that of the request that waits, or
\* leaves it.
LEMMA AcksCommitNext ==
    ASSUME DataInv, Offices, OneCaller, NEW n \in Node, OnlyLeader(n), NothingPassed(n),
           NEW k \in Link, AppendSuccess(k[1], k[2])
    PROVE  /\ committed'[n] >= committed[n] /\ NothingPassed(n)'
           /\ \A p \in Node \ {n} : committed'[p] = committed[p]
<1> DEFINE answer == call[k]
           acks == CountAcks(n, answer.sent)
<1>1. k[1] = n /\ k = <<n, k[2]>>
  <2>1. k = <<k[1], k[2]>>
        BY LinkNodes
  <2>2. call[k].type = "append"
        BY <2>1 DEF AppendSuccess
  <2>3. k[1] = n
        BY <2>2 DEF Offices, HasLed, OnlyLeader
  <2> QED  BY <2>1, <2>3
<1>2. /\ committed' = [committed EXCEPT ![n] = acks.committed] /\ UNCHANGED req
      /\ answer.type = "append" /\ answer.stage = "response" /\ answer.success
      BY <1>1 DEF AppendSuccess, envVars
<1>3. answer.sent \in Seq(Nat)
      BY <1>2, SentTyped DEF DataInv
<1>4. /\ committed \in [Node -> Nat] /\ callbacks[n] \in SUBSET Callbacks
      /\ IsFiniteSet(callbacks[n]) /\ OnePerIndex(callbacks[n])
      /\ OnePerRequest(callbacks[n])
      BY CallbacksDiffer DEF DataInv, LogTypes, ReplyTypes
<1>5. \/ acks.committed = committed[n]
      \/ \E c \in callbacks[n] : acks.committed = c.index
  <2>1. committed[n] \in Nat
        BY <1>4
  <2> HIDE DEF answer
  <2> QED  BY <1>3, <1>4, <2>1, CountAcksCallback
<1>6. committed'[n] = acks.committed /\ \A p \in Node \ {n} : committed'[p] = committed[p]
      BY <1>2, <1>4
<1> HIDE DEF acks
<1>7. CASE acks.committed = committed[n]
      BY <1>2, <1>4, <1>6, <1>7 DEF NothingPassed
<1>8. ASSUME NEW c \in callbacks[n], acks.committed = c.index
      PROVE  committed'[n] >= committed[n] /\ NothingPassed(n)'
  <2>1. /\ c.req \in Request /\ c.index \in Nat
        /\ req[c.req].pc = "waiting" /\ req[c.req].index = c.index
        BY <1>4, <1>8 DEF Callbacks, DataInv, RequestInv, CallbacksKnown
  <2>2. committed[n] <= c.index
        BY <2>1 DEF NothingPassed
  <2>3. \A r \in Request : req[r].pc \in {"written", "waiting"} => r = c.req
        BY <2>1 DEF OneCaller, Busy
  <2>4. NothingPassed(n)'
        BY <1>2, <1>6, <1>8, <2>1, <2>3 DEF NothingPassed
  <2> QED  BY <1>4, <1>6, <1>8, <2>1, <2>2, <2>4
<1> QED  BY <1>5, <1>6, <1>7, <1>8

\* The leader applies no entry that a request brings.
LEMMA LeaderAppliesNone ==
    ASSUME DataInv, NEW n \in Node, OneLog(n), NEW a \in Node, ApplyEntry(a)
    PROVE  a # n /\ committed'[n] = committed[n] /\ committed'[a] \in {committed[a], committed[a] + 1}
<1>1. a # n
      BY DEF ApplyEntry, OneLog, FollowsNone
<1>2. \/ UNCHANGED committed
      \/ committed' = [committed EXCEPT ![a] = @ + 1]
      BY DEF ApplyEntry
<1>3. committed \in [Node -> Nat]
      BY DEF DataInv, LogTypes
<1> QED  BY <1>1, <1>2, <1>3

\* The commit index stays behind the request that is being replicated.
LEMMA NothingPassedNext ==
    ASSUME Concurrency = 1, DataInv, DataInv', Offices, OneCaller, NEW n \in Node,
           OnlyLeader(n), OneLog(n), NothingPassed(n), [Next]_vars
    PROVE  NothingPassed(n)' /\ \A p \in Node : committed'[p] >= committed[p]
<1>1. /\ req \in [Request -> [pc : {"new", "checked", "written", "waiting", "ok", "failed"},
                              node : Node \union {Nil}, index : Nat]]
      /\ committed \in [Node -> Nat]
      BY DEF DataInv, CallerTypes, LogTypes
<1>2. ASSUME NEW k \in Link, AppendSuccess(k[1], k[2])
      PROVE  NothingPassed(n)' /\ \A p \in Node : committed'[p] >= committed[p]
      BY <1>1, <1>2, AcksCommitNext
<1>3. ASSUME NEW a \in Node, ApplyEntry(a)
      PROVE  NothingPassed(n)' /\ \A p \in Node : committed'[p] >= committed[p]
  <2>1. UNCHANGED req /\ committed'[n] = committed[n]
        BY <1>3, LeaderAppliesNone DEF ApplyEntry
  <2>2. \A p \in Node : committed'[p] \in {committed[p], committed[p] + 1}
        BY <1>1, <1>3 DEF ApplyEntry
  <2> QED  BY <1>1, <2>1, <2>2 DEF NothingPassed
<1>4. ASSUME UNCHANGED committed
      PROVE  NothingPassed(n)' /\ \A p \in Node : committed'[p] >= committed[p]
  <2>1. \A p \in Node : committed'[p] >= committed[p]
        BY <1>1, <1>4
  <2>2. ASSUME \A r \in Request : req'[r].pc \in {"written", "waiting"} =>
                   \/ req[r].pc \in {"written", "waiting"} /\ req'[r].index = req[r].index
                   \/ committed[n] <= req'[r].index
        PROVE  NothingPassed(n)'
        BY <1>4, <2>2 DEF NothingPassed
  <2>3. ASSUME UNCHANGED req PROVE NothingPassed(n)'
        BY <2>2, <2>3
  <2>4. ASSUME NEW r \in Request, NEW a \in Node, CheckLeader(r, a)
        PROVE  NothingPassed(n)'
    <3>1. req' = [req EXCEPT ![r] = [@ EXCEPT !.pc = "checked", !.node = a]]
          BY <2>4 DEF CheckLeader
    <3> QED  BY <1>1, <2>2, <3>1
  <2>5. ASSUME NEW r \in Request, WriteEntry(r) PROVE NothingPassed(n)'
    <3>1. req[r].node = n
          BY <2>5 DEF WriteEntry, Offices, HasLed, OnlyLeader
    <3>2. req' = [req EXCEPT ![r] = [@ EXCEPT !.pc = "written",
                                              !.index = LastIndex(log[n]) + 1]]
          BY <2>5, <3>1 DEF WriteEntry
    <3>3. committed[n] <= Len(log[n]) /\ LastIndex(log[n]) = Len(log[n]) /\ Len(log[n]) \in Nat
      <4>1. /\ \A p \in Node : log[p] \in Seq(Entry) /\ Begins(log[p], log[n])
            /\ Numbered(log[n])
            /\ committed[n] = 0 \/ \E p \in Node \ {n} : committed[n] <= Len(log[p])
            BY DEF DataInv, LogTypes, OneLog, StoredElsewhere
      <4>2. \A p \in Node : Len(log[p]) \in Nat /\ Len(log[p]) <= Len(log[n])
            BY <4>1 DEF Begins
      <4>3. LastIndex(log[n]) = Len(log[n])
            BY <4>1, NumberedLog
      <4> QED  BY <1>1, <4>1, <4>2, <4>3
    <3>4. req'[r].index = LastIndex(log[n]) + 1 /\ \A s \in Request \ {r} : req'[s] = req[s]
          BY <1>1, <3>2
    <3>5. committed[n] <= req'[r].index
          BY <1>1, <3>3, <3>4
    <3> QED  BY <2>2, <3>4, <3>5
  <2>6. ASSUME NEW r \in Request, InsertCallback(r) PROVE NothingPassed(n)'
    <3>1. /\ req' = [req EXCEPT ![r] = [@ EXCEPT !.pc = "waiting"]]
          /\ req[r].pc = "written"
          BY <2>6 DEF InsertCallback
    <3> QED  BY <1>1, <2>2, <3>1
  <2>7. ASSUME NEW a \in Node, RunReply(a) PROVE NothingPassed(n)'
    <3> DEFINE r == Head(committer[a]).req
    <3>1. \E ok \in {"ok", "failed"} : req' = [req EXCEPT ![r] = [@ EXCEPT !.pc = ok]]
          BY <2>7 DEF RunReply
    <3> HIDE DEF r
    <3>2. \A s \in Request : req'[s] = req[s] \/ req'[s].pc \in {"ok", "failed"}
          BY <1>1, <3>1
    <3> QED  BY <2>2, <3>2
  <2>8. \/ UNCHANGED req
        \/ \E r \in Request : \/ WriteEntry(r) \/ InsertCallback(r)
                              \/ \E a \in Node : CheckLeader(r, a)
        \/ \E a \in Node : RunReply(a)
        BY CallersMove
  <2> QED  BY <2>1, <2>3, <2>4, <2>5, <2>6, <2>7, <2>8
<1> QED  BY <1>2, <1>3, <1>4, CommittedMoves

\* What is known of one caller at a time.
CallerInv == OneCaller /\ \A n \in Node : OnlyLeader(n) => NothingPassed(n)

\* A stable history has a node that alone has led, or could have.
LEMMA SomeLeader ==
    ASSUME DataInv, Stable, NEW p \in Node
    PROVE  \E n \in Node : OnlyLeader(n)
<1>1. CASE leaders = {}
      BY <1>1 DEF OnlyLeader
<1>2. CASE leaders # {}
  <2>1. PICK l : l \in leaders
        BY <1>2
  <2>2. l[1] \in Node
        BY <2>1 DEF DataInv, CallerTypes
  <2>3. OnlyLeader(l[1])
        BY <2>1 DEF Stable, OnlyLeader
  <2> QED  BY <2>2, <2>3
<1> QED  BY <1>1, <1>2

\* Every step keeps it, and sets no commit index back.
LEMMA CallerInvNext ==
    ASSUME Concurrency = 1, KnownTypes, DataInv, Offices, OneLogInv, CallerInv, [Next]_vars
    PROVE  /\ CallerInv'
           /\ Stable => \A p \in Node : committed'[p] >= committed[p]
<1>1. DataInv'
      BY DataInvNext
<1>2. OneCaller'
      BY <1>1, OneCallerNext DEF CallerInv
<1>3. ASSUME NEW n \in Node, OnlyLeader(n)
      PROVE  NothingPassed(n)' /\ \A p \in Node : committed'[p] >= committed[p]
      BY <1>1, <1>3, NothingPassedNext DEF CallerInv, OneLogInv
<1>4. \A n : OnlyLeader(n)' => OnlyLeader(n)
      BY LeadersStay DEF OnlyLeader
<1> QED  BY <1>2, <1>3, <1>4, SomeLeader DEF CallerInv

LEMMA CallerInvInit == Init => CallerInv
<1> SUFFICES ASSUME Init PROVE CallerInv
    OBVIOUS
<1>1. \A r \in Request : req[r].pc = "new"
      BY DEF Init
<1> QED  BY <1>1 DEF CallerInv, OneCaller, Busy, NothingPassed

\* With one call of replicate at a time no commit index ever goes back, whatever RPCs
\* fail and however late acknowledgements arrive: append_entries_callback sets it to the
\* index of a callback, and the only callback there can be is for an entry behind all that
\* is committed.  (With two calls the acknowledgements of the second may come first,
\* raft.hpp:660.)
THEOREM CommitIndexGrows ==
    ASSUME Concurrency = 1
    PROVE  Spec => StableCommitNeverRewinds
<1>1. Init => KnownTypes /\ DataInv /\ Offices /\ OneLogInv /\ CallerInv
      BY KnownTypesInit, DataInvInit, OneLogInit, CallerInvInit
<1>2. KnownTypes /\ DataInv /\ Offices /\ OneLogInv /\ CallerInv /\ [Next]_vars
          => KnownTypes' /\ DataInv' /\ Offices' /\ OneLogInv' /\ CallerInv'
      BY KnownTypesNext, DataInvNext, OfficesNext, OneLogNext, CallerInvNext
<1>3. KnownTypes /\ DataInv /\ Offices /\ OneLogInv /\ CallerInv /\ [Next]_vars
          => (Stable => \A n \in Node : committed'[n] >= committed[n])
      BY CallerInvNext
<1> QED  BY <1>1, <1>2, <1>3, PTL DEF Spec, StableCommitNeverRewinds

-----------------------------------------------------------------------------
(* What followers apply, with one call of replicate at a time and no failed  *)
(* RPC.                                                                      *)

\* The tasks of a committer thread, between the entry that is applied last without
\* them and the newest commit index that its node was told of: in order.
Queued(s, low, high) ==
    \A i \in 1..Len(s) :
        /\ s[i].op = "apply" /\ low <= s[i].upTo /\ s[i].upTo <= high
        /\ \A j \in i..Len(s) : s[i].upTo <= s[j].upTo

\* The entry that is applied last of those that are read.
Reached(p) == committed[p] + Len(applying[p])

AsksToAppend(q) == q.type = "append" /\ q.stage = "request"

\* The commit index that the leader has told the follower, or is telling.
ToldCommit(n, p) ==
    IF AsksToAppend(call[<<n, p>>]) THEN call[<<n, p>>].commit ELSE committed[n]

\* Commit indexes reach a follower in order, and its committer thread keeps it.
InTurn(n, p) ==
    /\ Reached(p) <= ToldCommit(n, p) /\ ToldCommit(n, p) <= committed[n]
    /\ Queued(committer[p], Reached(p), ToldCommit(n, p))

\* The application was given the first entries of the log, the thread has read the next.
Applies(p) ==
    /\ Len(applied[p]) = committed[p] /\ Reached(p) <= Len(log[p])
    /\ \A i \in 1..committed[p] : applied[p][i] = log[p][i].data
    /\ \A i \in 1..Len(applying[p]) : applying[p][i] = log[p][committed[p] + i]

Follows(n, p) == callbacks[p] = {} /\ InTurn(n, p) /\ Applies(p)

\* A task is behind those that do not reach further.
LEMMA QueuedNext ==
    ASSUME NEW s \in Seq(Items), NEW low \in Nat, NEW high \in Nat, low <= high,
           Queued(s, low, high)
    PROVE  Queued(s \o <<ApplyTo(high)>>, low, high)
<1> DEFINE e == ApplyTo(high)
           t == s \o <<e>>
<1>1. e \in Items /\ e.op = "apply" /\ e.upTo = high
      BY DEF ApplyTo, Items
<1> HIDE DEF e
<1>2. /\ Len(s) \in Nat /\ Len(t) = Len(s) + 1
      /\ \A i \in 1..Len(s) : t[i] = s[i]
      /\ t[Len(s) + 1] = e
      BY <1>1
<1> HIDE DEF t
<1>3. ASSUME NEW i \in 1..Len(t)
      PROVE  /\ t[i].op = "apply" /\ low <= t[i].upTo /\ t[i].upTo <= high
             /\ \A j \in i..Len(t) : t[i].upTo <= t[j].upTo
  <2>1. CASE i = Len(s) + 1
    <3>1. \A j \in i..Len(t) : j = i
          BY <1>2, <2>1
    <3> QED  BY <1>1, <1>2, <2>1, <3>1
  <2>2. CASE i \in 1..Len(s)
    <3>1. t[i] = s[i] /\ s[i].op = "apply" /\ low <= s[i].upTo /\ s[i].upTo <= high
          BY <1>2, <2>2 DEF Queued
    <3>2. ASSUME NEW j \in i..Len(t) PROVE s[i].upTo <= t[j].upTo
      <4>1. j \in i..Len(s) \/ j = Len(s) + 1
            BY <1>2, <2>2
      <4>2. j \in i..Len(s) => j \in 1..Len(s)
            BY <1>2, <2>2
      <4> QED  BY <1>1, <1>2, <2>2, <3>1, <4>1, <4>2 DEF Queued
    <3> QED  BY <3>1, <3>2
  <2> QED  BY <1>2, <2>1, <2>2
<1> QED  BY <1>3 DEF Queued, t, e

\* The first task is the one that reaches least far.
LEMMA QueuedFirst ==
    ASSUME NEW s \in Seq(Items), NEW low, NEW high, Queued(s, low, high), s # <<>>
    PROVE  /\ Head(s).op = "apply" /\ low <= Head(s).upTo /\ Head(s).upTo <= high
           /\ Queued(Tail(s), Head(s).upTo, high)
<1> DEFINE t == Tail(s)
<1>1. /\ Len(s) \in Nat /\ 1 \in 1..Len(s) /\ Head(s) = s[1] /\ Len(t) = Len(s) - 1
      /\ \A i \in 1..Len(t) : t[i] = s[i + 1] /\ i + 1 \in 1..Len(s)
      OBVIOUS
<1> HIDE DEF t
<1>2. Head(s).op = "apply" /\ low <= Head(s).upTo /\ Head(s).upTo <= high
      BY <1>1 DEF Queued
<1>3. ASSUME NEW i \in 1..Len(t)
      PROVE  /\ t[i].op = "apply" /\ Head(s).upTo <= t[i].upTo /\ t[i].upTo <= high
             /\ \A j \in i..Len(t) : t[i].upTo <= t[j].upTo
  <2>1. t[i] = s[i + 1] /\ i + 1 \in 1..Len(s) /\ i + 1 \in 1..Len(s)
        BY <1>1
  <2>2. s[1].upTo <= s[i + 1].upTo
        BY <1>1, <2>1 DEF Queued
  <2>3. \A j \in i..Len(t) : t[j] = s[j + 1] /\ j + 1 \in (i + 1)..Len(s)
        BY <1>1
  <2> QED  BY <1>1, <2>1, <2>2, <2>3 DEF Queued
<1> QED  BY <1>2, <1>3 DEF Queued, t

LEMMA QueuedWider ==
    ASSUME NEW s \in Seq(Items), NEW a \in Nat, NEW b \in Nat, NEW c \in Nat, NEW d \in Nat,
           a <= b, c <= d, Queued(s, b, c)
    PROVE  Queued(s, a, d)
<1>1. ASSUME NEW i \in 1..Len(s) PROVE a <= s[i].upTo /\ s[i].upTo <= d
  <2>1. s[i] \in Items /\ s[i].op = "apply" /\ b <= s[i].upTo /\ s[i].upTo <= c
        BY DEF Queued
  <2>2. s[i].upTo \in Nat
    <3>1. \A item \in Items : item.op = "apply" => item.upTo \in Nat
          BY DEF Items
    <3> QED  BY <2>1, <3>1
  <2> QED  BY <2>1, <2>2
<1> QED  BY <1>1 DEF Queued

\* step_down finds no callback at a follower, and queues no answer.
LEMMA NothingFails ==
    ASSUME NEW n \in Node, RequestInv, ReplyTypes, callbacks[n] = {}
    PROVE  \A s \in Seq(Items) : s \o FailAll(n) = s
<1>1. FailAll(n) \in Seq(Replied)
      BY FailAllReplied
<1>2. DOMAIN FailAll(n) = 1..0
      BY FS_EmptySet DEF FailAll
<1>3. FailAll(n) = <<>>
  <2> DEFINE f == FailAll(n)
             S == Replied
  <2>1. f \in Seq(S) /\ DOMAIN f = 1..0
        BY <1>1, <1>2
  <2> HIDE DEF f, S
  <2>2. Len(f) = 0
        BY <2>1
  <2>3. f = <<>>
        BY <2>1, <2>2, EmptySeq
  <2> QED  BY <2>3 DEF f
<1> QED  BY <1>3

\* A request names a commit index.
LEMMA CommitTyped ==
    \A q \in Messages \union {NoCall} : AsksToAppend(q) => q.commit \in Nat
<1>1. \A q \in AppendRequests : q.commit \in Nat
      BY DEF AppendRequests
<1> QED  BY <1>1, RequestsTyped DEF AsksToAppend

\* What the numbers and the messages of a link are.
LEMMA FollowTypes ==
    ASSUME DataInv, NEW n \in Node, NEW p \in Node \ {n}
    PROVE  /\ committed \in [Node -> Nat] /\ committed[n] \in Nat /\ committed[p] \in Nat
           /\ callbacks \in [Node -> SUBSET Callbacks]
           /\ log[p] \in Seq(Entry) /\ Len(log[p]) \in Nat
           /\ applying \in [Node -> Seq(Entry)] /\ Len(applying[p]) \in Nat
           /\ applied \in [Node -> Seq(Request)]
           /\ committer \in [Node -> Seq(Items)]
           /\ <<n, p>> \in Link /\ Reached(p) \in Nat /\ ToldCommit(n, p) \in Nat
<1>1. /\ committed \in [Node -> Nat] /\ committed[n] \in Nat /\ committed[p] \in Nat
      /\ callbacks \in [Node -> SUBSET Callbacks]
      /\ log[p] \in Seq(Entry) /\ applying \in [Node -> Seq(Entry)]
      /\ applied \in [Node -> Seq(Request)] /\ committer \in [Node -> Seq(Items)]
      BY DEF DataInv, LogTypes, ReplyTypes
<1>2. Len(log[p]) \in Nat /\ Len(applying[p]) \in Nat
      BY <1>1
<1>3. <<n, p>> \in Link
      BY DEF Link
<1>4. call[<<n, p>>] \in Messages \union {NoCall}
      BY <1>3 DEF DataInv, CallTypes
<1>5. ToldCommit(n, p) \in Nat
      BY <1>1, <1>4, CommitTyped DEF ToldCommit
<1> QED  BY <1>1, <1>2, <1>3, <1>5 DEF Reached

\* A step in which the follower reads and applies nothing.
LEMMA FollowsStays ==
    ASSUME DataInv, DataInv', NEW n \in Node, NEW p \in Node \ {n}, Follows(n, p),
           callbacks'[p] = {}, Begins(log[p], log'[p]),
           UNCHANGED <<committed[p], applying[p], applied[p]>>,
           Queued(committer'[p], Reached(p), ToldCommit(n, p)),
           ToldCommit(n, p) <= ToldCommit(n, p)', ToldCommit(n, p)' <= committed'[n]
    PROVE  Follows(n, p)'
<1>1. /\ Reached(p) \in Nat /\ ToldCommit(n, p) \in Nat /\ committer'[p] \in Seq(Items)
      /\ ToldCommit(n, p)' \in Nat /\ Len(log[p]) \in Nat /\ Len(log'[p]) \in Nat
      /\ committed[p] \in Nat /\ Len(applying[p]) \in Nat
  <2>1. ToldCommit(n, p)' \in Nat /\ committer'[p] \in Seq(Items) /\ Len(log'[p]) \in Nat
    <3>1. /\ committed' \in [Node -> Nat] /\ log' \in [Node -> Seq(Entry)]
          /\ committer' \in [Node -> Seq(Items)] /\ <<n, p>> \in Link
          /\ \A k \in Link : call'[k] \in Messages \union {NoCall}
          BY DEF DataInv, LogTypes, ReplyTypes, CallTypes, Link
    <3>2. ToldCommit(n, p)' \in Nat
          BY <3>1, CommitTyped DEF ToldCommit
    <3> QED  BY <3>1, <3>2
  <2> QED  BY <2>1, FollowTypes
<1>2. Reached(p)' = Reached(p)
      BY DEF Reached
<1>3. Reached(p) <= ToldCommit(n, p) /\ Applies(p)
      BY DEF Follows, InTurn
<1>4. InTurn(n, p)'
  <2>1. Queued(committer'[p], Reached(p), ToldCommit(n, p)')
        BY <1>1, QueuedWider
  <2>2. Queued(committer[p], Reached(p), ToldCommit(n, p))'
        BY <1>2, <2>1 DEF Queued
  <2>3. Reached(p)' <= ToldCommit(n, p)'
        BY <1>1, <1>2, <1>3
  <2> QED  BY <2>2, <2>3 DEF InTurn
<1>5. Applies(p)'
  <2>1. Reached(p) = committed[p] + Len(applying[p]) /\ Reached(p) <= Len(log[p])
        BY <1>3 DEF Applies, Reached
  <2>2. /\ \A i \in 1..committed[p] : log'[p][i] = log[p][i]
        /\ \A i \in 1..Len(applying[p]) : log'[p][committed[p] + i] = log[p][committed[p] + i]
    <3>1. \A i \in 1..Len(log[p]) : log'[p][i] = log[p][i]
          BY DEF Begins
    <3>2. \A i \in 1..committed[p] : i \in 1..Len(log[p])
          BY <1>1, <2>1
    <3>3. \A i \in 1..Len(applying[p]) : committed[p] + i \in 1..Len(log[p])
      <4> DEFINE a == committed[p]
                 b == Len(applying[p])
                 c == Len(log[p])
      <4>1. a \in Nat /\ b \in Nat /\ c \in Nat /\ a + b <= c
            BY <1>1, <2>1
      <4> HIDE DEF a, b, c
      <4>2. \A i \in 1..b : a + i \in 1..c
            BY <4>1
      <4> QED  BY <4>2 DEF a, b, c
    <3> QED  BY <3>1, <3>2, <3>3
  <2>3. Reached(p)' <= Len(log'[p])
        BY <1>1, <1>2, <2>1 DEF Begins
  <2> QED  BY <1>3, <2>2, <2>3 DEF Applies
<1> QED  BY <1>4, <1>5 DEF Follows

\* What a step may do to the commit index that a follower is told.
TellsMore(n, p) ==
    \/ UNCHANGED <<call[<<n, p>>], committed[n]>>
    \/ call'[<<n, p>>] = call[<<n, p>>] /\ committed[n] <= committed'[n]
    \/ ~AsksToAppend(call'[<<n, p>>]) /\ committed[n] <= committed'[n]
    \/ call'[<<n, p>>].commit = committed[n] /\ committed'[n] = committed[n]

\* What a step does that the follower takes no part in.
LeavesAlone(n, p) ==
    /\ callbacks'[p] = {} /\ log'[p] = log[p]
    /\ UNCHANGED <<committed[p], committer[p], applying[p], applied[p]>>
    /\ TellsMore(n, p)

\* It is told no less.
LEMMA ToldMore ==
    ASSUME DataInv, NEW n \in Node, NEW p \in Node \ {n}, Follows(n, p), TellsMore(n, p),
           committed'[n] \in Nat
    PROVE  ToldCommit(n, p) <= ToldCommit(n, p)' /\ ToldCommit(n, p)' <= committed'[n]
<1> DEFINE a == call[<<n, p>>]
           b == call'[<<n, p>>]
           c == ToldCommit(n, p)
           d == ToldCommit(n, p)'
<1>1. /\ c \in Nat /\ committed[n] \in Nat /\ c <= committed[n]
      /\ committed[n] <= committed'[n]
      BY FollowTypes DEF Follows, InTurn, TellsMore
<1>2. /\ c = IF AsksToAppend(a) THEN a.commit ELSE committed[n]
      /\ d = IF AsksToAppend(b) THEN b.commit ELSE committed'[n]
      BY DEF ToldCommit, AsksToAppend
<1>3. \/ b = a
      \/ ~AsksToAppend(b)
      \/ b.commit = committed[n] /\ committed'[n] = committed[n]
      BY DEF TellsMore
<1> HIDE DEF a, b, c, d
<1>4. c <= d /\ d <= committed'[n]
      BY <1>1, <1>2, <1>3
<1> QED  BY <1>4 DEF c, d

LEMMA FollowsAlone ==
    ASSUME DataInv, DataInv', NEW n \in Node, NEW p \in Node \ {n}, Follows(n, p),
           LeavesAlone(n, p)
    PROVE  Follows(n, p)'
<1>1. committed'[n] \in Nat
      BY DEF DataInv, LogTypes
<1>2. ToldCommit(n, p) <= ToldCommit(n, p)' /\ ToldCommit(n, p)' <= committed'[n]
      BY <1>1, ToldMore DEF LeavesAlone
<1>3. Begins(log[p], log'[p])
      BY FollowTypes DEF LeavesAlone, Begins
<1>4. Queued(committer'[p], Reached(p), ToldCommit(n, p))
      BY DEF Follows, InTurn, LeavesAlone
<1> QED  BY <1>2, <1>3, <1>4, FollowsStays DEF LeavesAlone

\* handle_vote_request leaves the commit index and the queues of a follower alone.
LEMMA VoteHandlerAlone ==
    ASSUME DataInv, NEW n \in Node, NEW p \in Node \ {n}, Follows(n, p),
           NEW x \in Node, NEW a, NEW q, HandleVoteRequest(x, a, q)
    PROVE  /\ callbacks'[p] = {} /\ UNCHANGED <<log, committed, applying, applied>>
           /\ UNCHANGED committer[p]
<1>1. /\ callbacks[p] = {} /\ callbacks = [m \in Node |-> callbacks[m]]
      /\ committer = [m \in Node |-> committer[m]] /\ committer[p] \in Seq(Items)
      BY FollowTypes DEF Follows
<1>2. committer[p] \o FailAll(p) = committer[p]
      BY <1>1, NothingFails DEF DataInv
<1>3. CASE q.term > currentTerm[x] \/ NewVote(x, q)
  <2>1. /\ callbacks' = [callbacks EXCEPT ![x] = {}]
        /\ committer' = [committer EXCEPT ![x] = @ \o FailAll(x)]
        BY <1>3 DEF HandleVoteRequest, StepDown
  <2>2. callbacks'[p] = {} /\ committer'[p] = committer[p]
        BY <1>1, <1>2, <2>1
  <2> QED  BY <2>2 DEF HandleVoteRequest
<1>4. CASE ~(q.term > currentTerm[x] \/ NewVote(x, q))
      BY <1>1, <1>4 DEF HandleVoteRequest
<1> QED  BY <1>3, <1>4

\* A step of a peer thread that leaves the log and what is applied alone.
LEMMA ThreadAlone ==
    ASSUME KnownTypes, DataInv, Offices, OneCaller, NEW n \in Node, OnlyLeader(n),
           NothingPassed(n), NEW p \in Node \ {n}, Follows(n, p),
           NEW k \in Link, PeerStep(k[1], k[2])
    PROVE  LeavesAlone(n, p)
<1> DEFINE a == k[1]
           x == k[2]
<1>1. a \in Node /\ x \in Node /\ k = <<a, x>>
      BY LinkNodes
<1>2. /\ call = [l \in Link |-> call[l]] /\ <<n, p>> \in Link
      /\ callbacks = [m \in Node |-> callbacks[m]] /\ callbacks[p] = {}
      /\ committer = [m \in Node |-> committer[m]] /\ committer[p] \in Seq(Items)
      /\ committed = [m \in Node |-> committed[m]] /\ committed[n] \in Nat
      BY FollowTypes DEF KnownTypes, ThreadInv, ThreadTypeOK, Follows
<1>3. ~AsksToAppend(NoCall) /\ ~AsksToAppend(VoteRequest(a))
      BY DEF AsksToAppend, NoCall, VoteRequest
<1>4. committer[p] \o FailAll(p) = committer[p]
      BY <1>2, NothingFails DEF DataInv
<1> HIDE DEF a, x
<1>5. UNCHANGED <<log, applying, applied>>
      BY DEF PeerStep, PopSleep, FallAsleep, PopElection, PopAppend, AppendLoop,
             SendAppend, VoteResponse, AppendSuccess, AppendFailure, HandleNewTerm, logVars
<1>6. ASSUME UNCHANGED logVars, call'[<<n, p>>] = call[<<n, p>>] \/ ~AsksToAppend(call'[<<n, p>>])
      PROVE  LeavesAlone(n, p)
      BY <1>2, <1>6 DEF LeavesAlone, TellsMore, logVars
<1>7. CASE PopSleep(a, x) \/ FallAsleep(a, x) \/ PopAppend(a, x) \/ AppendLoop(a, x)
  <2>1. UNCHANGED <<logVars, call>>
        BY <1>7 DEF PopSleep, FallAsleep, PopAppend, AppendLoop
  <2> QED  BY <1>6, <2>1
<1>8. CASE PopElection(a, x)
  <2>1. UNCHANGED logVars /\ call' = [call EXCEPT ![k] = VoteRequest(a)]
        BY <1>1, <1>8 DEF PopElection
  <2>2. call'[<<n, p>>] \in {call[<<n, p>>], VoteRequest(a)}
        BY <1>2, <2>1
  <2> QED  BY <1>3, <1>6, <2>1, <2>2
<1>9. CASE SendAppend(a, x)
  <2> DEFINE q == AppendRequest(a, next[<<a, x>>])
  <2>1. UNCHANGED logVars /\ (UNCHANGED call \/ call' = [call EXCEPT ![k] = q])
        BY <1>1, <1>9 DEF SendAppend
  <2>2. q.commit = committed[a]
        BY DEF AppendRequest
  <2> HIDE DEF q
  <2>3. \/ call'[<<n, p>>] = call[<<n, p>>]
        \/ call'[<<n, p>>] = q /\ a = n
        BY <1>1, <1>2, <2>1
  <2> QED  BY <1>2, <2>1, <2>2, <2>3 DEF LeavesAlone, TellsMore, logVars
<1>10. CASE VoteResponse(a, x)
  <2> DEFINE higher == call[<<a, x>>].term > currentTerm[a]
  <2>1. /\ UNCHANGED committed /\ call' = [call EXCEPT ![k] = NoCall]
        BY <1>1, <1>10 DEF VoteResponse
  <2>2. \/ UNCHANGED <<callbacks, committer>>
        \/ /\ callbacks' = [callbacks EXCEPT ![a] = IF higher THEN {} ELSE @]
           /\ committer' = [committer EXCEPT ![a] = IF higher THEN @ \o FailAll(a) ELSE @]
        BY <1>10 DEF VoteResponse
  <2> HIDE DEF higher
  <2>3. callbacks'[p] = {} /\ committer'[p] = committer[p]
        BY <1>2, <1>4, <2>2
  <2>4. call'[<<n, p>>] \in {call[<<n, p>>], NoCall}
        BY <1>2, <2>1
  <2> QED  BY <1>2, <1>3, <1>5, <2>1, <2>3, <2>4 DEF LeavesAlone, TellsMore
<1>11. CASE AppendSuccess(a, x)
  <2>1. /\ call' = [call EXCEPT ![k] = NoCall] /\ call[k].type = "append"
        /\ \E C : callbacks' = [callbacks EXCEPT ![a] = C]
        /\ \E s : committer' = [committer EXCEPT ![a] = s]
        BY <1>1, <1>11 DEF AppendSuccess
  <2>2. a = n
        BY <1>1, <2>1 DEF Offices, HasLed, OnlyLeader
  <2>3. callbacks'[p] = {} /\ committer'[p] = committer[p]
        BY <1>2, <2>1, <2>2
  <2>4. committed'[n] >= committed[n] /\ committed'[p] = committed[p]
        BY <1>11, AcksCommitNext DEF a, x
  <2>5. call'[<<n, p>>] \in {call[<<n, p>>], NoCall}
        BY <1>2, <2>1
  <2> QED  BY <1>2, <1>3, <1>5, <2>3, <2>4, <2>5 DEF LeavesAlone, TellsMore
<1>12. CASE AppendFailure(a, x)
  <2>1. UNCHANGED logVars /\ \E q \in {call[k], NoCall} : call' = [call EXCEPT ![k] = q]
        BY <1>1, <1>12 DEF AppendFailure
  <2>2. call'[<<n, p>>] \in {call[<<n, p>>], NoCall}
        BY <1>2, <2>1
  <2> QED  BY <1>3, <1>6, <2>1, <2>2
<1>13. CASE HandleNewTerm(a, x)
  <2>1. /\ UNCHANGED committed /\ call' = [call EXCEPT ![k] = NoCall]
        /\ callbacks' = [callbacks EXCEPT ![a] = {}]
        /\ committer' = [committer EXCEPT ![a] = @ \o FailAll(a)]
        BY <1>1, <1>13 DEF HandleNewTerm, StepDown
  <2>2. callbacks'[p] = {} /\ committer'[p] = committer[p]
        BY <1>2, <1>4, <2>1
  <2>3. call'[<<n, p>>] \in {call[<<n, p>>], NoCall}
        BY <1>2, <2>1
  <2> QED  BY <1>2, <1>3, <1>5, <2>1, <2>2, <2>3 DEF LeavesAlone, TellsMore
<1> QED  BY <1>7, <1>8, <1>9, <1>10, <1>11, <1>12, <1>13 DEF PeerStep, a, x

\* A handler, called by a thread that waits.
LEMMA ServeFollows ==
    ASSUME DataInv, DataInv', ThreadTypeOK, Offices, NEW n \in Node, OnlyLeader(n), OneLog(n),
           NEW p \in Node \ {n}, Follows(n, p), NEW k \in Link, ServeCall(k[1], k[2])
    PROVE  Follows(n, p)'
<1> DEFINE a == k[1]
           x == k[2]
           q == call[k]
<1>1. a \in Node /\ x \in Node /\ k = <<a, x>>
      BY LinkNodes
<1>2. /\ call = [l \in Link |-> call[l]] /\ <<n, p>> \in Link
      /\ callbacks = [m \in Node |-> callbacks[m]] /\ callbacks[p] = {}
      /\ committer = [m \in Node |-> committer[m]] /\ committer[p] \in Seq(Items)
      /\ log = [m \in Node |-> log[m]] /\ log[p] \in Seq(Entry)
      /\ committed[n] \in Nat /\ committed[p] \in Nat
      BY FollowTypes DEF ThreadTypeOK, Follows, DataInv, LogTypes
<1> HIDE DEF a, x
<1>3. CASE ServeVote(a, x)
  <2> DEFINE b == VoteAnswer(x, a, q)
  <2>1. HandleVoteRequest(x, a, q) /\ call' = [call EXCEPT ![k] = b]
        BY <1>1, <1>3 DEF ServeVote
  <2>2. ~AsksToAppend(b)
        BY DEF VoteAnswer, AsksToAppend
  <2> HIDE DEF b, q
  <2>3. /\ callbacks'[p] = {} /\ UNCHANGED <<log, committed, applying, applied>>
        /\ UNCHANGED committer[p]
        BY <1>1, <2>1, VoteHandlerAlone
  <2>4. call'[<<n, p>>] \in {call[<<n, p>>], b}
        BY <1>2, <2>1
  <2>5. LeavesAlone(n, p)
        BY <1>2, <2>2, <2>3, <2>4 DEF LeavesAlone, TellsMore
  <2> QED  BY <2>5, FollowsAlone
<1>4. CASE ServeAppend(a, x)
  <2> DEFINE b == AppendAnswer(x, q)
             out == AppendOutcome(x, q)
  <2>1. /\ HandleAppendRequest(x, q) /\ call' = [call EXCEPT ![k] = b]
        /\ q.type = "append" /\ q.stage = "request"
        BY <1>1, <1>4 DEF ServeAppend
  <2>2. a = n
        BY <1>1, <2>1 DEF Offices, HasLed, OnlyLeader
  <2>3. ~AsksToAppend(b)
    <3>1. \/ b = [type |-> "append", stage |-> "exception"]
          \/ b.stage = "response"
          BY DEF AppendAnswer
    <3>2. [type |-> "append", stage |-> "exception"].stage # "request"
          OBVIOUS
    <3> HIDE DEF b
    <3> QED  BY <3>1, <3>2 DEF AsksToAppend
  <2>4. /\ UNCHANGED <<committed, applying, applied>>
        /\ log' = [log EXCEPT ![x] = out.log]
        /\ callbacks' = [callbacks EXCEPT ![x] = {}] \/ UNCHANGED callbacks
        /\ \/ committer' = [committer EXCEPT ![x] = @ \o FailAll(x) \o ToApply(x, q, out)]
           \/ committer' = [committer EXCEPT ![x] = @ \o ToApply(x, q, out)]
        BY <2>1 DEF HandleAppendRequest, StepDown
  <2>5. call'[<<n, p>>] = IF x = p THEN b ELSE call[<<n, p>>]
        BY <1>1, <1>2, <2>1, <2>2
  <2>6. callbacks'[p] = {}
        BY <1>2, <2>4
  <2> HIDE DEF b
  <2>7. CASE x # p
    <3>1. log'[p] = log[p] /\ committer'[p] = committer[p]
          BY <1>2, <2>4, <2>7
    <3>2. LeavesAlone(n, p)
          BY <2>4, <2>5, <2>6, <2>7, <3>1 DEF LeavesAlone, TellsMore
    <3> QED  BY <3>2, FollowsAlone
  <2>8. CASE x = p
    <3>1. q \in AppendRequests /\ FromLog(q, log[n])
      <4>1. q \in AppendRequests
            BY <2>1, RequestsTyped DEF DataInv, CallTypes
      <4>2. CallFromLog(q, log[n], Len(log[k[2]]))
            BY <1>1, <2>2 DEF OneLog, LinkFollows
      <4> QED  BY <2>1, <4>1, <4>2 DEF CallFromLog
    <3>2. AsksToAppend(q) /\ q = call[<<n, p>>]
          BY <1>1, <2>1, <2>2, <2>8 DEF AsksToAppend
    <3>3. Begins(log[p], log'[p])
      <4>1. log' = [log EXCEPT ![p] = AppendOutcome(p, q).log]
            BY <2>4, <2>8
      <4> HIDE DEF q, out
      <4> QED  BY <3>1, <4>1, FollowerStores
    <3>4. ToldCommit(n, p) = q.commit /\ q.commit \in Nat
          BY <3>2, FollowTypes DEF ToldCommit
    <3>5. committer'[p] = committer[p] \o ToApply(p, q, out)
      <4>1. committer[p] \o FailAll(p) = committer[p]
            BY <1>2, NothingFails DEF DataInv
      <4> HIDE DEF q, out
      <4> QED  BY <1>2, <2>4, <2>8, <4>1
    <3>6. ToApply(p, q, out) = <<>> \/ ToApply(p, q, out) = <<ApplyTo(q.commit)>>
          BY DEF ToApply
    <3> HIDE DEF q, out
    <3>7. Queued(committer'[p], Reached(p), ToldCommit(n, p))
      <4>1. /\ Reached(p) \in Nat /\ Reached(p) <= ToldCommit(n, p)
            /\ Queued(committer[p], Reached(p), ToldCommit(n, p))
            BY FollowTypes DEF Follows, InTurn
      <4>2. CASE ToApply(p, q, out) = <<>>
        <5>1. committer'[p] = committer[p]
              BY <1>2, <3>5, <4>2
        <5> QED  BY <4>1, <5>1
      <4>3. CASE ToApply(p, q, out) = <<ApplyTo(q.commit)>>
        <5>1. committer'[p] = committer[p] \o <<ApplyTo(q.commit)>>
              BY <3>5, <4>3
        <5>2. Queued(committer[p] \o <<ApplyTo(q.commit)>>, Reached(p), q.commit)
              BY <1>2, <3>4, <4>1, QueuedNext
        <5> QED  BY <3>4, <5>1, <5>2
      <4> QED  BY <3>6, <4>2, <4>3
    <3>8. TellsMore(n, p) /\ committed'[n] \in Nat
          BY <1>2, <2>3, <2>4, <2>5, <2>8 DEF TellsMore
    <3>9. ToldCommit(n, p) <= ToldCommit(n, p)' /\ ToldCommit(n, p)' <= committed'[n]
          BY <3>8, ToldMore
    <3> QED  BY <2>4, <2>6, <3>3, <3>7, <3>9, FollowsStays
  <2> QED  BY <2>7, <2>8
<1> QED  BY <1>3, <1>4 DEF ServeCall, a, x

\* What timers, callers and failed calls leave alone.
LEMMA OthersAlone ==
    ASSUME DataInv, ThreadTypeOK, Offices, OneCaller, NEW n \in Node, OnlyLeader(n),
           NEW p \in Node \ {n}, Follows(n, p),
           \/ \E k \in Link : CallFails(k[1], k[2])
           \/ \E a \in Node : TimerStep(a)
           \/ \E r \in Request : ReplicateStep(r) \/ \E a \in Node : CheckLeader(r, a)
           \/ UNCHANGED vars
    PROVE  LeavesAlone(n, p)
<1>1. /\ call = [l \in Link |-> call[l]] /\ <<n, p>> \in Link
      /\ callbacks = [m \in Node |-> callbacks[m]] /\ callbacks[p] = {}
      /\ committer = [m \in Node |-> committer[m]]
      /\ log = [m \in Node |-> log[m]]
      /\ committed[n] \in Nat
      BY FollowTypes DEF ThreadTypeOK, Follows, DataInv, LogTypes
<1>2. ASSUME UNCHANGED logVars, call'[<<n, p>>] = call[<<n, p>>] \/ ~AsksToAppend(call'[<<n, p>>])
      PROVE  LeavesAlone(n, p)
      BY <1>1, <1>2 DEF LeavesAlone, TellsMore, logVars
<1>3. ASSUME NEW k \in Link, CallFails(k[1], k[2]) PROVE LeavesAlone(n, p)
  <2>1. UNCHANGED logVars /\ GiveUp(k[1], k[2]) /\ k = <<k[1], k[2]>>
        BY <1>3, LinkNodes DEF CallFails
  <2>2. \E q \in {NoCall, VoteRequest(k[1])} : call' = [call EXCEPT ![k] = q]
        BY <2>1 DEF GiveUp
  <2>3. ~AsksToAppend(NoCall) /\ ~AsksToAppend(VoteRequest(k[1]))
        BY DEF AsksToAppend, NoCall, VoteRequest
  <2>4. call'[<<n, p>>] \in {call[<<n, p>>], NoCall, VoteRequest(k[1])}
        BY <1>1, <2>2
  <2> QED  BY <1>2, <2>1, <2>3, <2>4
<1>4. ASSUME NEW a \in Node, ElectionTimeout(a) \/ ElectionCallback(a)
      PROVE  LeavesAlone(n, p)
  <2>1. UNCHANGED <<logVars, call>>
        BY <1>4 DEF ElectionTimeout, ElectionCallback, peerVars
  <2> QED  BY <1>2, <2>1
<1>5. ASSUME NEW a \in Node, NEW r \in Request, AppendTimeout(a, r)
      PROVE  LeavesAlone(n, p)
  <2> DEFINE found == TimedOut(a, r)
             item == Reply((CHOOSE c \in found : TRUE).req, FALSE)
  <2>1. /\ UNCHANGED <<log, committed, applying, applied, call>>
        /\ callbacks' = [callbacks EXCEPT ![a] = @ \ found]
        /\ committer' = [committer EXCEPT ![a] = IF found = {} THEN @ ELSE Append(@, item)]
        BY <1>5 DEF AppendTimeout, peerVars
  <2>2. a = p => found = {}
        BY <1>1 DEF TimedOut
  <2> HIDE DEF found, item
  <2>3. callbacks'[p] = {} /\ committer'[p] = committer[p]
        BY <1>1, <2>1, <2>2
  <2> QED  BY <2>1, <2>3 DEF LeavesAlone, TellsMore
<1>6. ASSUME NEW r \in Request, WriteEntry(r) PROVE LeavesAlone(n, p)
  <2>1. req[r].node = n
        BY <1>6 DEF WriteEntry, Offices, HasLed, OnlyLeader
  <2>2. /\ UNCHANGED <<committed, callbacks, committer, applying, applied, call>>
        /\ \E t : log' = [log EXCEPT ![n] = t]
        BY <1>6, <2>1 DEF WriteEntry, peerVars
  <2>3. log'[p] = log[p]
        BY <1>1, <2>2
  <2> QED  BY <1>1, <2>2, <2>3 DEF LeavesAlone, TellsMore
<1>7. ASSUME NEW r \in Request, InsertCallback(r) PROVE LeavesAlone(n, p)
  <2>1. req[r].node = n
        BY <1>7 DEF InsertCallback, Offices, HasLed, OnlyLeader
  <2>2. /\ UNCHANGED <<log, committed, committer, applying, applied, call>>
        /\ \E C : callbacks' = [callbacks EXCEPT ![n] = C]
        BY <1>7, <2>1 DEF InsertCallback
  <2>3. callbacks'[p] = {}
        BY <1>1, <2>2
  <2> QED  BY <1>1, <2>2, <2>3 DEF LeavesAlone, TellsMore
<1>8. ASSUME NEW r \in Request, NEW a \in Node, CheckLeader(r, a) PROVE LeavesAlone(n, p)
  <2>1. UNCHANGED <<logVars, call>>
        BY <1>8 DEF CheckLeader, peerVars
  <2> QED  BY <1>2, <2>1
<1>9. CASE UNCHANGED vars
  <2>1. UNCHANGED <<logVars, call>>
        BY <1>9 DEF vars, peerVars
  <2> QED  BY <1>2, <2>1
<1> QED  BY <1>3, <1>4, <1>5, <1>6, <1>7, <1>8, <1>9 DEF TimerStep, ReplicateStep

\* Its committer thread takes the next task: the entries up to that commit index, as far
\* as the log goes.
LEMMA ReadFollows ==
    ASSUME DataInv, DataInv', NEW n \in Node, OneLog(n), NEW p \in Node \ {n},
           Follows(n, p), ReadEntries(p)
    PROVE  Follows(n, p)'
<1> DEFINE s == committer[p]
           t == log[p]
           i == committed[p] + 1
           count == Head(s).upTo - committed[p]
           read == GetEntries(t, i, count)
<1>1. /\ committed[p] \in Nat /\ t \in Seq(Entry) /\ Len(t) \in Nat
      /\ s \in Seq(Items) /\ ToldCommit(n, p) \in Nat /\ Reached(p) \in Nat
      /\ applying[p] = <<>> /\ s # <<>>
      BY FollowTypes DEF ReadEntries, NextItem
<1>2. Reached(p) = committed[p] /\ committed[p] <= Len(t)
  <2>1. Len(applying[p]) = 0
        BY <1>1
  <2> QED  BY <1>1, <2>1 DEF Reached, Follows, Applies
<1>3. Numbered(t)
      BY DEF OneLog, Begins, Numbered
<1>4. /\ Head(s).op = "apply" /\ committed[p] <= Head(s).upTo
      /\ Head(s).upTo <= ToldCommit(n, p)
      /\ Queued(Tail(s), Head(s).upTo, ToldCommit(n, p))
      BY <1>1, <1>2, QueuedFirst DEF Follows, InTurn
<1>5. Head(s).upTo \in Nat /\ Tail(s) \in Seq(Items)
  <2>1. Head(s) \in Items /\ Tail(s) \in Seq(Items)
    <3> HIDE DEF s
    <3> QED  BY <1>1
  <2>2. \A item \in Items : item.op = "apply" => item.upTo \in Nat
        BY DEF Items
  <2> QED  BY <1>4, <2>1, <2>2
<1>6. i \in Nat /\ count \in Nat /\ ~Throws(t, i)
      BY <1>1, <1>3, <1>4, <1>5, NumberedLog
<1>7. /\ committer' = [committer EXCEPT ![p] = Tail(s)]
      /\ applying' = [applying EXCEPT ![p] = read]
      /\ UNCHANGED <<log, committed, callbacks, applied, call>>
  <2>1. ~(count # 0 /\ Throws(t, i))
        BY <1>6
  <2> HIDE DEF read
  <2>2. applying' = [applying EXCEPT ![p] =
                        IF count # 0 /\ Throws(t, i) THEN <<>> ELSE GetEntries(t, i, count)]
        BY DEF ReadEntries
  <2> QED  BY <2>1, <2>2 DEF ReadEntries, NextItem, peerVars, read
<1>8. /\ read \in Seq(Entry) /\ Len(read) <= count /\ committed[p] + Len(read) <= Len(t)
      /\ \A j \in 1..Len(read) : read[j] = t[committed[p] + j]
  <2>1. CASE read = <<>>
    <3>1. <<>> \in Seq(Entry) /\ Len(<<>>) = 0
          OBVIOUS
    <3> HIDE DEF read, count, t
    <3> QED  BY <1>1, <1>2, <1>6, <2>1, <3>1
  <2>2. CASE read # <<>>
    <3>1. count # 0
          BY <2>2 DEF GetEntries
    <3>2. count \in Nat \ {0} /\ i \in Int
          BY <1>6, <3>1
    <3>3. /\ i \in 1..Len(t)
          /\ Len(read) = IF i + count - 1 > Len(t) THEN Len(t) - i + 1 ELSE count
          /\ \A j \in 1..Len(read) : read[j] = t[i + j - 1]
      <4> HIDE DEF count, i, t
      <4> QED  BY <1>1, <1>3, <2>2, <3>2, ReadNumbered DEF read
    <3>4. read \in Seq(Entry)
      <4>1. applying' \in [Node -> Seq(Entry)]
            BY DEF DataInv, LogTypes
      <4>2. applying'[p] = read
            BY <1>7, FollowTypes
      <4> QED  BY <4>1, <4>2
    <3> HIDE DEF read
    <3>5. Len(read) \in Nat
          BY <3>4
    <3>6. \A j \in 1..Len(read) : i + j - 1 = committed[p] + j
          BY <1>1, <3>5
    <3>7. Len(read) <= count /\ committed[p] + Len(read) <= Len(t)
      <4>1. /\ Len(t) \in Nat
            /\ committed[p] \in Nat
            /\ i = committed[p] + 1
            /\ i <= Len(t)
            BY <1>1, <3>3
      <4> HIDE DEF count, i, t
      <4> QED  BY <3>2, <3>3, <4>1
    <3> QED  BY <3>3, <3>4, <3>6, <3>7
  <2> QED  BY <2>1, <2>2
<1> HIDE DEF read
<1>9. applying'[p] = read /\ committer'[p] = Tail(s)
      BY <1>7, FollowTypes
<1>10. Reached(p)' = committed[p] + Len(read) /\ Reached(p)' <= Head(s).upTo
       /\ Reached(p)' \in Nat
  <2>1. Len(read) \in Nat
        BY <1>8
  <2> QED  BY <1>1, <1>5, <1>7, <1>8, <1>9, <2>1 DEF Reached
<1>11. ToldCommit(n, p)' = ToldCommit(n, p)
       BY <1>7 DEF ToldCommit, AsksToAppend
<1>12. InTurn(n, p)'
  <2>1. Reached(p)' <= ToldCommit(n, p)'
    <3> DEFINE a == Reached(p)'
               b == Head(s).upTo
               c == ToldCommit(n, p)
    <3>1. a \in Nat /\ b \in Nat /\ c \in Nat /\ a <= b /\ b <= c
          BY <1>1, <1>4, <1>5, <1>10
    <3> HIDE DEF a, b, c
    <3>2. a <= c
          BY <3>1
    <3> QED  BY <3>2, <1>11 DEF a, c
  <2>2. Queued(Tail(s), Reached(p)', ToldCommit(n, p))
    <3> DEFINE rest == Tail(s)
               a == Reached(p)'
               b == Head(s).upTo
               c == ToldCommit(n, p)
    <3>1. /\ rest \in Seq(Items) /\ a \in Nat /\ b \in Nat /\ c \in Nat /\ a <= b
          /\ Queued(rest, b, c)
          BY <1>1, <1>4, <1>5, <1>10
    <3> HIDE DEF rest, a, b, c
    <3>2. Queued(rest, a, c)
          BY <3>1, QueuedWider
    <3> QED  BY <3>2 DEF rest, a, c
  <2>3. Queued(committer[p], Reached(p), ToldCommit(n, p))'
        BY <1>9, <1>11, <2>2 DEF Queued
  <2>4. ToldCommit(n, p)' <= committed'[n]
        BY <1>7, <1>11 DEF Follows, InTurn
  <2> QED  BY <2>1, <2>3, <2>4 DEF InTurn
<1>13. Applies(p)'
       BY <1>7, <1>8, <1>9, <1>10 DEF Follows, Applies
<1> QED  BY <1>7, <1>12, <1>13 DEF Follows

\* It applies one entry, which is the next.
LEMMA ApplyFollows ==
    ASSUME DataInv, DataInv', NEW n \in Node, OneLog(n), NEW p \in Node \ {n},
           Follows(n, p), ApplyEntry(p)
    PROVE  Follows(n, p)'
<1> DEFINE s == applying[p]
           t == log[p]
           i == committed[p] + 1
<1>1. /\ committed \in [Node -> Nat] /\ committed[p] \in Nat
      /\ t \in Seq(Entry) /\ Len(t) \in Nat
      /\ applying \in [Node -> Seq(Entry)] /\ s \in Seq(Entry) /\ Len(s) \in Nat
      /\ applied \in [Node -> Seq(Request)] /\ s # <<>>
      BY FollowTypes DEF ApplyEntry
<1>2. /\ Reached(p) = committed[p] + Len(s) /\ Reached(p) <= Len(t)
      /\ Len(applied[p]) = committed[p]
      /\ \A j \in 1..committed[p] : applied[p][j] = t[j].data
      /\ \A j \in 1..Len(s) : s[j] = t[committed[p] + j]
      BY DEF Reached, Follows, Applies
<1>3. Numbered(t)
      BY DEF OneLog, Begins, Numbered
<1>4. Head(s) = t[i] /\ i \in 1..Len(t) /\ t[i] \in Entry /\ t[i].index = i
  <2>1. 1 \in 1..Len(s) /\ Head(s) = s[1]
        BY <1>1
  <2>2. Head(s) = t[i] /\ i \in 1..Len(t)
        BY <1>1, <1>2, <2>1
  <2> QED  BY <1>1, <1>3, <2>2 DEF Numbered
<1>5. /\ applying' = [applying EXCEPT ![p] = Tail(s)]
      /\ applied' = [applied EXCEPT ![p] = Append(applied[p], t[i].data)]
      /\ committed' = [committed EXCEPT ![p] = i]
      /\ UNCHANGED <<log, callbacks, committer, call>>
  <2>1. Head(s).index = committed[p] + 1 /\ Head(s).data = t[i].data
        BY <1>4
  <2> QED  BY <2>1 DEF ApplyEntry, peerVars
<1>6. t[i].data \in Request
      BY <1>4 DEF Entry
<1> HIDE DEF t
<1>7. /\ applying'[p] = Tail(s) /\ applied'[p] = Append(applied[p], t[i].data)
      /\ committed'[p] = i /\ committed'[n] = committed[n] /\ i \in Nat
      BY <1>1, <1>5
<1>8. /\ Len(Tail(s)) = Len(s) - 1 /\ \A j \in 1..Len(s) - 1 : Tail(s)[j] = s[j + 1]
      BY <1>1
<1>9. /\ Len(applied'[p]) = i /\ applied'[p][i] = t[i].data
      /\ \A j \in 1..committed[p] : applied'[p][j] = applied[p][j]
  <2> DEFINE u == applied[p]
             e == t[i].data
  <2>1. u \in Seq(Request) /\ e \in Request /\ applied'[p] = Append(u, e)
        /\ Len(u) = committed[p]
        BY <1>1, <1>2, <1>6, <1>7
  <2> HIDE DEF u, e
  <2>2. /\ Len(Append(u, e)) = Len(u) + 1 /\ Append(u, e)[Len(u) + 1] = e
        /\ \A j \in 1..Len(u) : Append(u, e)[j] = u[j]
        BY <2>1
  <2> QED  BY <2>1, <2>2 DEF u, e
<1>10. Reached(p)' = Reached(p)
       BY <1>1, <1>2, <1>7, <1>8 DEF Reached
<1>11. ToldCommit(n, p)' = ToldCommit(n, p)
       BY <1>5, <1>7 DEF ToldCommit, AsksToAppend
<1>12. InTurn(n, p)'
       BY <1>5, <1>7, <1>10, <1>11 DEF Follows, InTurn, Queued
<1>13. Applies(p)'
  <2>1. \A j \in 1..committed'[p] : applied'[p][j] = t[j].data
    <3>1. \A j \in 1..i : j \in 1..committed[p] \/ j = i
          BY <1>1
    <3> QED  BY <1>2, <1>7, <1>9, <3>1
  <2>2. \A j \in 1..Len(applying'[p]) : applying'[p][j] = t[committed'[p] + j]
    <3>1. \A j \in 1..Len(s) - 1 : /\ j + 1 \in 1..Len(s)
                                   /\ committed[p] + (j + 1) = i + j
          BY <1>1
    <3> SUFFICES ASSUME NEW j \in 1..Len(applying'[p])
                 PROVE  applying'[p][j] = t[committed'[p] + j]
        OBVIOUS
    <3>2. j \in 1..Len(s) - 1 /\ applying'[p][j] = s[j + 1]
          BY <1>7, <1>8
    <3>3. j + 1 \in 1..Len(s) /\ committed[p] + (j + 1) = i + j
          BY <3>1, <3>2
    <3>4. s[j + 1] = t[committed[p] + (j + 1)]
          BY <1>2, <3>3
    <3> HIDE DEF i, s
    <3> QED  BY <1>7, <3>2, <3>3, <3>4
  <2> QED  BY <1>2, <1>5, <1>7, <1>9, <1>10, <2>1, <2>2 DEF Applies, t
<1> QED  BY <1>5, <1>12, <1>13 DEF Follows

\* Callbacks and other nodes' threads are none of its business.
LEMMA CommitterFollows ==
    ASSUME DataInv, DataInv', NEW n \in Node, OneLog(n), NEW p \in Node \ {n},
           Follows(n, p), NEW a \in Node, CommitterStep(a)
    PROVE  Follows(n, p)'
<1>1. /\ callbacks[p] = {} /\ committer = [m \in Node |-> committer[m]]
      /\ applying = [m \in Node |-> applying[m]] /\ applied = [m \in Node |-> applied[m]]
      /\ committed = [m \in Node |-> committed[m]] /\ committer[p] \in Seq(Items)
      BY FollowTypes DEF Follows
<1>2. CASE a = p /\ ReadEntries(p)
      BY <1>2, ReadFollows
<1>3. CASE a = p /\ ApplyEntry(p)
      BY <1>3, ApplyFollows
<1>4. ~RunReply(p)
  <2>1. committer[p] # <<>> => Head(committer[p]).op = "apply"
        BY <1>1, QueuedFirst DEF Follows, InTurn
  <2> QED  BY <2>1 DEF RunReply, NextItem
<1>5. CASE a # p
  <2>1. UNCHANGED <<log, callbacks, call>>
        BY DEF CommitterStep, RunReply, ReadEntries, ApplyEntry, peerVars
  <2>2. UNCHANGED <<committer[p], applying[p], applied[p], committed[p]>>
    <3>1. CASE RunReply(a)
          BY <1>1, <1>5, <3>1 DEF RunReply, NextItem
    <3>2. CASE ReadEntries(a)
          BY <1>1, <1>5, <3>2 DEF ReadEntries, NextItem
    <3>3. CASE ApplyEntry(a)
          BY <1>1, <1>5, <3>3 DEF ApplyEntry
    <3> QED  BY <3>1, <3>2, <3>3 DEF CommitterStep
  <2>3. committed'[n] = committed[n]
    <3>1. CASE ApplyEntry(a)
          BY <3>1, LeaderAppliesNone
    <3>2. CASE ~ApplyEntry(a)
          BY <3>2 DEF CommitterStep, RunReply, ReadEntries
    <3> QED  BY <3>1, <3>2
  <2>4. LeavesAlone(n, p)
        BY <1>1, <2>1, <2>2, <2>3 DEF LeavesAlone, TellsMore
  <2> QED  BY <2>4, FollowsAlone
<1> QED  BY <1>2, <1>3, <1>4, <1>5 DEF CommitterStep

\* Nothing is handled late when no RPC fails: a call whose handler threw has been served.
LEMMA NoneLate ==
    ASSUME MaxFails = 0, DataInv, DataInv', late = {}, [Next]_vars
    PROVE  late' = {}
<1>1. fails = 0 /\ fails' = 0
      BY DEF DataInv, CallerTypes
<1>2. ASSUME NEW k \in Link, CallFails(k[1], k[2]) PROVE late' = late
  <2>1. Threw(k[1], k[2])
        BY <1>1, <1>2 DEF CallFails
  <2> QED  BY <1>2, <2>1 DEF CallFails, Threw
<1>3. ASSUME NEW a, NEW x, PeerStep(a, x) \/ ServeCall(a, x) PROVE late' = late
      BY <1>3 DEF PeerStep, PopSleep, FallAsleep, PopElection, PopAppend, AppendLoop,
                  SendAppend, VoteResponse, AppendSuccess, AppendFailure, HandleNewTerm,
                  ServeCall, ServeVote, ServeAppend, envVars
<1>4. ASSUME NEW a, TimerStep(a) \/ CommitterStep(a) PROVE late' = late
      BY <1>4 DEF TimerStep, ElectionTimeout, ElectionCallback, AppendTimeout,
                  CommitterStep, RunReply, ReadEntries, ApplyEntry, envVars
<1>5. ASSUME NEW r, ReplicateStep(r) \/ \E a \in Node : CheckLeader(r, a)
      PROVE  late' = late
      BY <1>5 DEF ReplicateStep, WriteEntry, InsertCallback, CheckLeader
<1>6. CASE UNCHANGED vars
      BY <1>6 DEF vars, envVars
<1> QED  BY <1>2, <1>3, <1>4, <1>5, <1>6 DEF Next

\* Every follower of the only leader.
FollowInv ==
    late = {} /\ \A n \in Node : OnlyLeader(n) => \A p \in Node \ {n} : Follows(n, p)

LEMMA FollowInvNext ==
    ASSUME MaxFails = 0, KnownTypes, DataInv, Offices, OneLogInv, CallerInv,
           FollowInv, [Next]_vars
    PROVE  FollowInv'
<1>1. DataInv' /\ ThreadTypeOK
      BY DataInvNext DEF KnownTypes, ThreadInv
<1>2. late' = {}
      BY <1>1, NoneLate DEF FollowInv
<1>3. ASSUME NEW n \in Node, OnlyLeader(n)', NEW p \in Node \ {n} PROVE Follows(n, p)'
  <2>1. OnlyLeader(n)
        BY <1>3, LeadersStay DEF OnlyLeader
  <2>2. OneLog(n) /\ OneCaller /\ NothingPassed(n) /\ Follows(n, p) /\ late = {}
        BY <2>1 DEF OneLogInv, CallerInv, FollowInv
  <2>3. ASSUME NEW k \in Link, PeerStep(k[1], k[2]) PROVE Follows(n, p)'
        BY <1>1, <2>1, <2>2, <2>3, ThreadAlone, FollowsAlone
  <2>4. ASSUME NEW k \in Link, ServeCall(k[1], k[2]) PROVE Follows(n, p)'
        BY <1>1, <2>1, <2>2, <2>4, ServeFollows
  <2>5. ASSUME NEW a \in Node, CommitterStep(a) PROVE Follows(n, p)'
        BY <1>1, <2>2, <2>5, CommitterFollows
  <2>6. ASSUME \/ \E k \in Link : CallFails(k[1], k[2])
               \/ \E a \in Node : TimerStep(a)
               \/ \E r \in Request : ReplicateStep(r) \/ \E a \in Node : CheckLeader(r, a)
               \/ UNCHANGED vars
        PROVE  Follows(n, p)'
        BY <1>1, <2>1, <2>2, <2>6, OthersAlone, FollowsAlone
  <2> QED  BY <2>2, <2>3, <2>4, <2>5, <2>6 DEF Next
<1> QED  BY <1>2, <1>3 DEF FollowInv

LEMMA FollowInvInit == Init => FollowInv
<1> SUFFICES ASSUME Init, NEW n \in Node, NEW p \in Node \ {n} PROVE late = {} /\ Follows(n, p)
    BY DEF FollowInv, Init
<1>1. /\ late = {} /\ callbacks[p] = {} /\ committed[n] = 0 /\ committed[p] = 0
      /\ committer[p] = <<>> /\ applying[p] = <<>> /\ applied[p] = <<>> /\ log[p] = <<>>
      /\ call[<<n, p>>] = NoCall
      BY DEF Init, Link
<1>2. Len(<<>>) = 0
      OBVIOUS
<1>3. ~AsksToAppend(NoCall)
      BY DEF AsksToAppend, NoCall
<1>4. Reached(p) = 0 /\ ToldCommit(n, p) = 0
      BY <1>1, <1>2, <1>3 DEF Reached, ToldCommit
<1>5. InTurn(n, p)
      BY <1>1, <1>2, <1>4 DEF InTurn, Queued
<1>6. Applies(p)
  <2>1. Len(applied[p]) = 0 /\ Len(log[p]) = 0 /\ Len(applying[p]) = 0
        BY <1>1, <1>2
  <2> QED  BY <1>1, <1>4, <2>1 DEF Applies
<1> QED  BY <1>1, <1>5, <1>6 DEF Follows

\* Followers give the application the leader's committed entries, from the first on and
\* in the order of its log.  That needs no failed RPC, so that commit indexes arrive in
\* the order they were sent, and one call of replicate at a time, so that they grow: then
\* no task of handle_append_entries_request finds committed_index_ past its own, where the
\* count of entries to read would wrap (raft.hpp:297).
THEOREM FollowersApplyWhatIsCommitted ==
    ASSUME Concurrency = 1, MaxFails = 0
    PROVE  Spec => []StableFollowersApplyCommitted
<1> DEFINE Inv == KnownTypes /\ DataInv /\ Offices /\ OneLogInv /\ CallerInv /\ FollowInv
<1>1. Init => Inv
      BY KnownTypesInit, DataInvInit, OneLogInit, CallerInvInit, FollowInvInit
<1>2. Inv /\ [Next]_vars => Inv'
      BY KnownTypesNext, DataInvNext, OfficesNext, OneLogNext, CallerInvNext, FollowInvNext
<1>3. Inv => StableFollowersApplyCommitted
  <2> SUFFICES ASSUME Inv, Stable, leaders # {}, NEW p \in Node \ {TheLeader}
               PROVE  IsPrefix(applied[p], DataOf(CommittedPart(TheLeader)))
      BY DEF StableFollowersApplyCommitted
  <2>1. PICK n : n = TheLeader
        OBVIOUS
  <2>2. n \in Node /\ OneLog(n) /\ p \in Node \ {n}
        BY <2>1, TheLeaderLed
  <2>3. Follows(n, p)
    <3>1. PICK l : l = (CHOOSE k \in leaders : TRUE)
          OBVIOUS
    <3>2. l \in leaders /\ n = l[1]
          BY <2>1, <3>1 DEF TheLeader
    <3>3. OnlyLeader(n)
          BY <3>2 DEF Stable, OnlyLeader
    <3> QED  BY <2>2, <3>3 DEF FollowInv
  <2> DEFINE s == log[n]
             i == committed[n]
             part == SubSeq(s, 1, i)
             given == applied[p]
             data == DataOf(part)
  <2>4. s \in Seq(Entry) /\ i \in Nat /\ i <= Len(s) /\ Len(s) \in Nat
    <3>1. \A m \in Node : log[m] \in Seq(Entry) /\ Len(log[m]) \in Nat /\ Len(log[m]) <= Len(s)
      <4>1. \A m \in Node : log[m] \in Seq(Entry) /\ Begins(log[m], s)
            BY <2>2 DEF DataInv, LogTypes, OneLog
      <4> QED  BY <4>1 DEF Begins
    <3>2. i \in Nat /\ (i = 0 \/ \E m \in Node \ {n} : i <= Len(log[m]))
          BY <2>2 DEF DataInv, LogTypes, OneLog, StoredElsewhere
    <3> QED  BY <2>2, <3>1, <3>2
  <2>5. part \in Seq(Entry) /\ Len(part) = i /\ \A j \in 1..i : part[j] = s[j]
        BY <2>4
  <2>6. /\ given \in Seq(Request) /\ Len(given) = committed[p] /\ committed[p] <= i
        /\ committed[p] \in Nat /\ \A j \in 1..committed[p] : given[j] = s[j].data
    <3>1. /\ given \in Seq(Request) /\ committed[p] \in Nat /\ Len(applying[p]) \in Nat
          /\ Reached(p) \in Nat /\ ToldCommit(n, p) \in Nat /\ Len(log[p]) \in Nat
          BY <2>2, FollowTypes
    <3>2. /\ Reached(p) = committed[p] + Len(applying[p])
          /\ Reached(p) <= ToldCommit(n, p) /\ ToldCommit(n, p) <= i
          /\ Len(given) = committed[p] /\ Reached(p) <= Len(log[p])
          /\ \A j \in 1..committed[p] : given[j] = log[p][j].data
          BY <2>3 DEF Reached, Follows, InTurn, Applies
    <3>3. committed[p] <= i /\ committed[p] <= Len(log[p])
          BY <2>4, <3>1, <3>2
    <3>4. \A j \in 1..committed[p] : j \in 1..Len(log[p])
          BY <3>1, <3>3
    <3>5. \A j \in 1..Len(log[p]) : log[p][j] = s[j]
          BY <2>2 DEF OneLog, Begins
    <3> QED  BY <3>1, <3>2, <3>3, <3>4, <3>5
  <2> HIDE DEF part, given, s, i
  <2>7. data \in Seq(Request) /\ Len(data) = i /\ \A j \in 1..i : data[j] = s[j].data
    <3>1. DOMAIN part = 1..i /\ \A j \in 1..i : part[j] \in Entry /\ part[j] = s[j]
          BY <2>5
    <3>2. \A j \in 1..i : part[j].data \in Request
          BY <3>1 DEF Entry
    <3>3. data = [j \in 1..i |-> part[j].data]
          BY <3>1 DEF DataOf
    <3> QED  BY <2>4, <3>1, <3>2, <3>3
  <2> HIDE DEF data
  <2>8. Begins(given, data)
    <3>1. \A j \in 1..Len(given) : j \in 1..i /\ j \in 1..committed[p]
          BY <2>4, <2>6
    <3> QED  BY <2>6, <2>7, <3>1 DEF Begins
  <2>9. IsPrefix(given, data)
        BY <2>6, <2>7, <2>8, BeginsIsPrefix
  <2> QED  BY <2>1, <2>9 DEF given, data, part, s, i, CommittedPart
<1> HIDE DEF Inv
<1> QED  BY <1>1, <1>2, <1>3, PTL DEF Spec
=============================================================================
