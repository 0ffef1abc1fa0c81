---------------------------- MODULE VotesProofs ----------------------------
(***************************************************************************)
(* Proofs about Votes, for any number of nodes, terms and crashes.          *)
(***************************************************************************)
EXTENDS Votes, TLAPS

\* What a node has campaigned for, it has stored.
CampaignsStored == \A n \in Node: \A t \in campaigns[n]: t <= storedTerm[n]

\* The voter of a grant remembers its term, or has forgotten it.
GrantRemembered(g) ==
    \/ g.term \in forgotten[g.voter]
    \/ g.term < currentTerm[g.voter]
    \/ g.term = currentTerm[g.voter] /\ votedFor[g.voter] = g.candidate
GrantsRemembered == \A g \in grants: GrantRemembered(g)

IInv == TypeOK /\ CampaignsStored /\ GrantsRemembered /\ DoubleVotesWereForgotten

LEMMA IInvInit == Init => IInv
BY VotesNil DEF Init, IInv, TypeOK, CampaignsStored, GrantsRemembered,
                DoubleVotesWereForgotten

\* A vote request moves the voter's term forward or leaves its vote alone, so that
\* its grants stay remembered, and grants only what it then remembers.
LEMMA VoteRequestKeepsIInv ==
    ASSUME NEW n \in Node, NEW q \in requests, NEW logOk \in BOOLEAN,
           IInv, HandleVoteRequest(n, q, logOk)
    PROVE  IInv'
<1> DEFINE g0 == [voter |-> n, candidate |-> q.candidate, term |-> q.term]
<1>1. /\ q.candidate \in Node /\ q.term \in Nat
      /\ currentTerm[n] \in Nat /\ votedFor[n] \in Node \union {Nil}
      BY DEF IInv, TypeOK, Request
<1>2. /\ TermAfter(n, q.term) \in Nat
      /\ TermAfter(n, q.term) >= currentTerm[n]
      /\ VoteAfter(n, q, logOk) \in Node \union {Nil}
      BY <1>1 DEF TermAfter, VoteAfter, VoteIn
<1>3. grants' = grants \/ grants' = grants \union {g0}
      BY DEF HandleVoteRequest
<1>4. /\ g0 \in Grant
      /\ g0.voter = n /\ g0.candidate = q.candidate /\ g0.term = q.term
      BY <1>1 DEF Grant
<1>5. TypeOK'
  <2>1. \A m \in Node: storedTerm[m] <= currentTerm'[m]
        BY <1>1, <1>2 DEF IInv, TypeOK, HandleVoteRequest
  <2> QED  BY <1>2, <1>3, <1>4, <2>1 DEF IInv, TypeOK, HandleVoteRequest
<1>6. CampaignsStored'
      BY DEF IInv, CampaignsStored, HandleVoteRequest
<1>7. ASSUME NEW g \in grants
      PROVE  GrantRemembered(g)'
  <2>1. g.voter \in Node /\ g.candidate \in Node /\ g.term \in Nat
        BY DEF IInv, TypeOK, Grant
  <2>2. GrantRemembered(g)
        BY DEF IInv, GrantsRemembered
  <2>3. CASE g.voter # n
        BY <2>1, <2>2, <2>3 DEF IInv, TypeOK, GrantRemembered, HandleVoteRequest
  <2>4. CASE g.voter = n
    <3>1. /\ currentTerm'[n] = TermAfter(n, q.term)
          /\ votedFor'[n] = VoteAfter(n, q, logOk)
          /\ forgotten' = forgotten
          BY DEF IInv, TypeOK, HandleVoteRequest
    <3>2. g.term = currentTerm[n] /\ votedFor[n] = g.candidate /\ q.term <= currentTerm[n]
             => VoteAfter(n, q, logOk) = g.candidate /\ TermAfter(n, q.term) = currentTerm[n]
          BY <1>1, <2>1, VotesNil DEF VoteAfter, VoteIn, TermAfter
    <3>3. q.term > currentTerm[n] => TermAfter(n, q.term) > currentTerm[n]
          BY <1>1 DEF TermAfter
    <3> QED  BY <1>1, <1>2, <2>1, <2>2, <2>4, <3>1, <3>2, <3>3 DEF GrantRemembered
  <2> QED  BY <2>3, <2>4
<1>8. g0 \in grants' /\ g0 \notin grants
         => currentTerm'[n] = q.term /\ votedFor'[n] = q.candidate
      BY <1>1 DEF IInv, TypeOK, HandleVoteRequest, TermAfter
<1>9. GrantsRemembered'
  <2>1. g0 \in grants' /\ g0 \notin grants => GrantRemembered(g0)'
        BY <1>4, <1>8 DEF GrantRemembered
  <2> QED  BY <1>3, <1>7, <2>1 DEF GrantsRemembered
<1>10. ASSUME NEW h \in grants, g0 \in grants', g0 \notin grants,
              h.voter = n, h.term = q.term, h.candidate # q.candidate
       PROVE  q.term \in forgotten[n]
  <2>1. GrantRemembered(h)'
        BY <1>7
  <2> QED  BY <1>1, <1>8, <1>10, <2>1 DEF GrantRemembered, HandleVoteRequest
<1>11. DoubleVotesWereForgotten'
  <2>1. forgotten' = forgotten
        BY DEF HandleVoteRequest
  <2> QED  BY <1>3, <1>4, <1>10, <2>1 DEF IInv, DoubleVotesWereForgotten
<1> QED  BY <1>5, <1>6, <1>9, <1>11 DEF IInv

\* A restart forgets the terms between the stored one and the last, and says so.
LEMMA RestartKeepsIInv ==
    ASSUME NEW n \in Node, NEW t \in Nat, IInv, Restart(n, t)
    PROVE  IInv'
<1>1. /\ currentTerm[n] \in Nat /\ storedTerm[n] \in Nat
      /\ storedTerm[n] <= currentTerm[n]
      /\ TermAfter(n, t) \in Nat /\ TermAfter(n, t) >= currentTerm[n]
      BY DEF IInv, TypeOK, TermAfter
<1>2. /\ currentTerm' = [currentTerm EXCEPT ![n] = storedTerm[n]]
      /\ votedFor' = [votedFor EXCEPT ![n] = VoteIn(n, t)]
      /\ crashes' = crashes + 1
      /\ electing' = [electing EXCEPT ![n] = FALSE]
      /\ storedTerm' = storedTerm /\ campaigns' = campaigns
      /\ grants' = grants /\ requests' = requests
      BY DEF Restart
<1>3. VoteIn(n, t) \in Node \union {Nil}
      BY DEF IInv, TypeOK, VoteIn
<1>4. /\ forgotten' \in [Node -> SUBSET Nat]
      /\ \A m \in Node: forgotten[m] \subseteq forgotten'[m]
      /\ TermAfter(n, t) # storedTerm[n]
           => storedTerm[n] .. TermAfter(n, t) \subseteq forgotten'[n]
  <2>1. forgotten \in [Node -> SUBSET Nat]
        BY DEF IInv, TypeOK
  <2>2. storedTerm[n] .. TermAfter(n, t) \in SUBSET Nat
        BY <1>1
  <2> QED  BY <2>1, <2>2 DEF Restart
<1>5. TypeOK'
  <2>1. currentTerm' \in [Node -> Nat] /\ storedTerm' \in [Node -> Nat]
        BY <1>1, <1>2 DEF IInv, TypeOK
  <2>2. \A m \in Node: storedTerm'[m] <= currentTerm'[m]
        BY <1>1, <1>2 DEF IInv, TypeOK
  <2>3. votedFor' \in [Node -> Node \union {Nil}] /\ electing' \in [Node -> BOOLEAN]
        BY <1>2, <1>3 DEF IInv, TypeOK
  <2>4. crashes' \in Nat /\ requests' \subseteq Request /\ grants' \subseteq Grant
        BY <1>2 DEF IInv, TypeOK
  <2>5. campaigns' \in [Node -> SUBSET Nat]
        BY <1>2 DEF IInv, TypeOK
  <2> QED  BY <1>4, <2>1, <2>2, <2>3, <2>4, <2>5 DEF TypeOK
<1>6. CampaignsStored'
      BY <1>2 DEF IInv, CampaignsStored
<1>7. ASSUME NEW g \in grants
      PROVE  GrantRemembered(g)'
  <2>1. g.voter \in Node /\ g.candidate \in Node /\ g.term \in Nat
        BY DEF IInv, TypeOK, Grant
  <2>2. GrantRemembered(g)
        BY DEF IInv, GrantsRemembered
  <2>3. CASE g.voter # n
        BY <1>2, <1>4, <2>1, <2>2, <2>3 DEF IInv, TypeOK, GrantRemembered
  <2>4. CASE g.voter = n
    <3>1. currentTerm'[n] = storedTerm[n] /\ votedFor'[n] = VoteIn(n, t)
          BY <1>2 DEF IInv, TypeOK
    <3>2. TermAfter(n, t) = storedTerm[n]
             => currentTerm[n] = storedTerm[n] /\ VoteIn(n, t) = votedFor[n]
          BY <1>1 DEF TermAfter, VoteIn
    <3>3. TermAfter(n, t) # storedTerm[n] /\ g.term <= currentTerm[n] /\ g.term >= storedTerm[n]
             => g.term \in forgotten'[n]
          BY <1>1, <1>4, <2>1
    <3> QED  BY <1>1, <1>4, <2>1, <2>2, <2>4, <3>1, <3>2, <3>3 DEF GrantRemembered
  <2> QED  BY <2>3, <2>4
<1>8. GrantsRemembered'
      BY <1>2, <1>7 DEF GrantsRemembered
<1>9. DoubleVotesWereForgotten'
  <2>1. \A g \in grants: g.voter \in Node
        BY DEF IInv, TypeOK, Grant
  <2> QED  BY <1>2, <1>4, <2>1 DEF IInv, DoubleVotesWereForgotten
<1> QED  BY <1>5, <1>6, <1>8, <1>9 DEF IInv

LEMMA ElectionTimeoutKeepsIInv ==
    ASSUME NEW n \in Node, IInv, ElectionTimeout(n)
    PROVE  IInv'
<1>1. currentTerm[n] \in Nat /\ storedTerm[n] \in Nat /\ storedTerm[n] <= currentTerm[n]
      BY DEF IInv, TypeOK
<1>2. TypeOK'
      BY <1>1 DEF IInv, TypeOK, ElectionTimeout, Store
<1>3. CampaignsStored'
      BY <1>1 DEF IInv, TypeOK, CampaignsStored, ElectionTimeout, Store
<1>4. ASSUME NEW g \in grants
      PROVE  GrantRemembered(g)'
  <2>1. g.voter \in Node /\ g.term \in Nat
        BY DEF IInv, TypeOK, Grant
  <2>2. GrantRemembered(g)
        BY DEF IInv, GrantsRemembered
  <2> QED  BY <1>1, <2>1, <2>2 DEF IInv, TypeOK, GrantRemembered, ElectionTimeout
<1>5. GrantsRemembered'
      BY <1>4 DEF GrantsRemembered, ElectionTimeout
<1>6. DoubleVotesWereForgotten'
      BY DEF IInv, DoubleVotesWereForgotten, ElectionTimeout
<1> QED  BY <1>2, <1>3, <1>5, <1>6 DEF IInv

LEMMA LearnTermKeepsIInv ==
    ASSUME NEW n \in Node, NEW t \in Nat, IInv, LearnTerm(n, t)
    PROVE  IInv'
<1>1. currentTerm[n] \in Nat /\ storedTerm[n] \in Nat /\ storedTerm[n] <= currentTerm[n]
      BY DEF IInv, TypeOK
<1>2. TypeOK'
      BY <1>1 DEF IInv, TypeOK, LearnTerm
<1>3. ASSUME NEW g \in grants
      PROVE  GrantRemembered(g)'
  <2>1. g.voter \in Node /\ g.term \in Nat
        BY DEF IInv, TypeOK, Grant
  <2>2. GrantRemembered(g)
        BY DEF IInv, GrantsRemembered
  <2> QED  BY <1>1, <2>1, <2>2 DEF IInv, TypeOK, GrantRemembered, LearnTerm
<1>4. GrantsRemembered'
      BY <1>3 DEF GrantsRemembered, LearnTerm
<1> QED  BY <1>2, <1>4 DEF IInv, CampaignsStored, DoubleVotesWereForgotten, LearnTerm

LEMMA IInvNext == IInv /\ [Next]_vars => IInv'
<1> SUFFICES ASSUME IInv, [Next]_vars  PROVE IInv'
    OBVIOUS
<1>1. \A m \in Node: campaigns[m] \subseteq Nat
      BY DEF IInv, TypeOK
<1>2. ASSUME NEW n \in Node, ElectionTimeout(n)  PROVE IInv'
      BY <1>2, ElectionTimeoutKeepsIInv
<1>3. ASSUME NEW n \in Node, SendRequest(n)  PROVE IInv'
  <2>1. [candidate |-> n, term |-> currentTerm[n]] \in Request
        BY DEF IInv, TypeOK, Request
  <2> QED  BY <1>3, <2>1 DEF IInv, TypeOK, CampaignsStored, GrantsRemembered,
               GrantRemembered, DoubleVotesWereForgotten, SendRequest
<1>4. ASSUME NEW n \in Node, NEW q \in requests, NEW logOk \in BOOLEAN,
             HandleVoteRequest(n, q, logOk)
      PROVE  IInv'
      BY <1>4, VoteRequestKeepsIInv
<1>5. ASSUME NEW n \in Node, NEW m \in Node, NEW t \in campaigns[m], LearnTerm(n, t)
      PROVE  IInv'
      BY <1>1, <1>5, LearnTermKeepsIInv
<1>6. ASSUME NEW n \in Node, Crash(n)  PROVE IInv'
  <2>1. currentTerm[n] \in Nat
        BY DEF IInv, TypeOK
  <2> QED  BY <1>1, <1>6, <2>1, RestartKeepsIInv DEF Crash
<1>7. CASE UNCHANGED vars
      BY <1>7 DEF vars, IInv, TypeOK, CampaignsStored, GrantsRemembered,
                  GrantRemembered, DoubleVotesWereForgotten
<1> QED  BY <1>2, <1>3, <1>4, <1>5, <1>6, <1>7 DEF Next

\* Every reachable state of the vote-casting model satisfies the inductive invariant.
THEOREM VotesInv == Spec => []IInv
BY IInvInit, IInvNext, PTL DEF Spec

\* Whatever the nodes, restarts and repeated requests: a term that is not stored is
\* the only way to vote twice (step_down does not store it, set_term does).
THEOREM DoubleVotesNeedForgottenTerms == Spec => []DoubleVotesWereForgotten
<1>1. IInv => DoubleVotesWereForgotten
      BY DEF IInv
<1> QED  BY <1>1, VotesInv, PTL

\* Terms, votes and their history are typed, and no stored term is ahead of memory.
THEOREM VotesTyped == Spec => []TypeOK
<1>1. IInv => TypeOK
      BY DEF IInv
<1> QED  BY <1>1, VotesInv, PTL

\* No node starts two elections of one term, however often it dies.
THEOREM CampaignsAreUnique == Spec => CampaignsOnce
<1>1. IInv /\ [Next]_vars
        => [\A n \in Node: ElectionTimeout(n) => currentTerm'[n] \notin campaigns[n]]_vars
  <2> SUFFICES ASSUME IInv, NEW n \in Node, ElectionTimeout(n)
               PROVE  currentTerm'[n] \notin campaigns[n]
      OBVIOUS
  <2>1. /\ currentTerm[n] \in Nat /\ storedTerm[n] \in Nat
        /\ storedTerm[n] <= currentTerm[n] /\ currentTerm'[n] = currentTerm[n] + 1
        BY DEF IInv, TypeOK, ElectionTimeout
  <2>2. \A t \in campaigns[n]: t \in Nat /\ t <= storedTerm[n]
        BY DEF IInv, TypeOK, CampaignsStored
  <2> QED  BY <2>1, <2>2
<1> QED  BY <1>1, VotesInv, PTL DEF Spec, CampaignsOnce
=============================================================================
