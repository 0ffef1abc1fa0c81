------------------------------- MODULE Votes -------------------------------
(***************************************************************************)
(* Terms and votes of raft across restarts.  raft keeps current_term_ and   *)
(* voted_for_ in memory and in its metadata, but not in step: set_voted_for *)
(* writes both, set_term (called by the election timer only) writes both,   *)
(* and step_down assigns current_term_ without storing it.                  *)
(*                                                                          *)
(* Requests stay in the network for ever and may be handled again at any    *)
(* time.  The logs are left out: whether a request's log is long enough is  *)
(* a choice.  metadata_.set is taken to be durable when it returns.         *)
(***************************************************************************)
EXTENDS Integers

CONSTANTS
    Node, Nil,
    MaxTerm,      \* bound: terms
    MaxCrashes    \* bound: crashes

ASSUME VotesNil == Nil \notin Node
ASSUME VotesBounds == MaxTerm \in Nat /\ MaxCrashes \in Nat

VARIABLES
    currentTerm, votedFor,    \* in memory; voted_for_ is the same on disk
    storedTerm,               \* "current_term" in the metadata
    electing,    \* has this process sent e_election to its peer threads?
    requests,    \* the vote requests sent so far
    \* history
    campaigns,   \* the terms that each node has started an election in
    grants,      \* the votes granted
    forgotten,   \* per node, the terms from the stored one to the one it died in
    crashes

vars == <<currentTerm, votedFor, storedTerm, electing, requests,
          campaigns, grants, forgotten, crashes>>

Request == [candidate: Node, term: Nat]
Grant == [voter: Node, candidate: Node, term: Nat]

Init ==
    /\ currentTerm = [n \in Node |-> 0] /\ storedTerm = [n \in Node |-> 0]
    /\ votedFor = [n \in Node |-> Nil]
    /\ electing = [n \in Node |-> FALSE]
    /\ requests = {} /\ grants = {} /\ crashes = 0
    /\ campaigns = [n \in Node |-> {}]
    /\ forgotten = [n \in Node |-> {}]

\* The action of the election timer.  A vote of the term before stays in
\* voted_for_.
MutStore(n) == storedTerm[n]
Store(n) == currentTerm[n] + 1

ElectionTimeout(n) ==
    /\ currentTerm[n] < MaxTerm
    /\ currentTerm' = [currentTerm EXCEPT ![n] = @ + 1]
    /\ storedTerm' = [storedTerm EXCEPT ![n] = Store(n)]
    /\ electing' = [electing EXCEPT ![n] = TRUE]
    /\ campaigns' = [campaigns EXCEPT ![n] = @ \union {currentTerm[n] + 1}]
    /\ UNCHANGED <<votedFor, requests, grants, forgotten, crashes>>

\* do_election builds the request when its thread gets there, and again when a
\* call fails: it carries the term of that moment.
SendRequest(n) ==
    /\ electing[n]
    /\ requests' = requests \union {[candidate |-> n, term |-> currentTerm[n]]}
    /\ UNCHANGED <<currentTerm, votedFor, storedTerm, electing, campaigns, grants, forgotten, crashes>>

\* What step_down makes of term and vote.
TermAfter(n, t) == IF t > currentTerm[n] THEN t ELSE currentTerm[n]
MutVoteIn(n, t) == Nil
VoteIn(n, t) == IF t > currentTerm[n] THEN Nil ELSE votedFor[n]

\* handle_vote_request; logOk is its is_ok.
VoteAfter(n, q, logOk) ==
    IF q.term >= currentTerm[n] /\ logOk /\ VoteIn(n, q.term) = Nil
    THEN q.candidate ELSE VoteIn(n, q.term)

HandleVoteRequest(n, q, logOk) ==
    /\ currentTerm' = [currentTerm EXCEPT ![n] = TermAfter(n, q.term)]
    /\ votedFor' = [votedFor EXCEPT ![n] = VoteAfter(n, q, logOk)]
    /\ grants' = IF q.term >= currentTerm[n] /\ VoteAfter(n, q, logOk) = q.candidate
                 THEN grants \union {[voter |-> n, candidate |-> q.candidate, term |-> q.term]}
                 ELSE grants
    /\ UNCHANGED <<storedTerm, electing, requests, campaigns, forgotten, crashes>>

\* Every other handler that finds a later term in a request or an answer steps
\* down to it.  Every term began as a campaign.
LearnTerm(n, t) ==
    /\ \E m \in Node: t \in campaigns[m]
    /\ t > currentTerm[n]
    /\ currentTerm' = [currentTerm EXCEPT ![n] = t]
    /\ votedFor' = [votedFor EXCEPT ![n] = Nil]
    /\ UNCHANGED <<storedTerm, electing, requests, campaigns, grants, forgotten, crashes>>

\* The process dies and load_metadata reads what is stored.  It may die inside
\* step_down(t), when the vote has been cleared.
Restart(n, t) ==
    /\ crashes < MaxCrashes
    /\ crashes' = crashes + 1
    /\ currentTerm' = [currentTerm EXCEPT ![n] = storedTerm[n]]
    /\ votedFor' = [votedFor EXCEPT ![n] = VoteIn(n, t)]
    /\ electing' = [electing EXCEPT ![n] = FALSE]
    /\ forgotten' = [forgotten EXCEPT ![n] =
                       IF TermAfter(n, t) = storedTerm[n] THEN @
                       ELSE @ \union storedTerm[n] .. TermAfter(n, t)]
    /\ UNCHANGED <<storedTerm, requests, campaigns, grants>>

Crash(n) ==
    \/ Restart(n, currentTerm[n])
    \/ \E m \in Node: \E t \in campaigns[m]: t > currentTerm[n] /\ Restart(n, t)

Next ==
    \E n \in Node:
        \/ ElectionTimeout(n)
        \/ SendRequest(n)
        \/ \E q \in requests, logOk \in BOOLEAN: q.candidate # n /\ HandleVoteRequest(n, q, logOk)
        \/ \E m \in Node: \E t \in campaigns[m]: LearnTerm(n, t)
        \/ Crash(n)

Spec == Init /\ [][Next]_vars

-----------------------------------------------------------------------------
\* The state is typed, and the stored term is never ahead of the one in memory:
\* no step_down goes back behind a term this process has stored.
TypeOK ==
    /\ currentTerm \in [Node -> Nat] /\ storedTerm \in [Node -> Nat]
    /\ \A n \in Node: storedTerm[n] <= currentTerm[n]
    /\ votedFor \in [Node -> Node \union {Nil}]
    /\ electing \in [Node -> BOOLEAN]
    /\ requests \subseteq Request /\ grants \subseteq Grant
    /\ campaigns \in [Node -> SUBSET Nat] /\ forgotten \in [Node -> SUBSET Nat]
    /\ crashes \in Nat

\* No node starts two elections in one term, whenever it dies: the term it stands
\* in is stored before it asks for a vote, so the grants of an earlier election
\* cannot be counted for a later one.
CampaignsOnce ==
    [][\A n \in Node: ElectionTimeout(n) => currentTerm'[n] \notin campaigns[n]]_vars

\* A voter that grants its vote of one term to two candidates has died in between
\* with a term in memory that it had not stored, in one of the terms it lost then.
DoubleVotesWereForgotten ==
    \A g, h \in grants:
        g.voter = h.voter /\ g.term = h.term /\ g.candidate # h.candidate
            => g.term \in forgotten[g.voter]
=============================================================================
