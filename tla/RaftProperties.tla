--------------------------- MODULE RaftProperties ---------------------------
(***************************************************************************)
(* What is claimed of Raft.  Properties whose name starts with Stable speak *)
(* of runs in which one node only has ever been leader: with several the    *)
(* code does not keep them, see the README.                                 *)
(***************************************************************************)
EXTENDS Raft

-----------------------------------------------------------------------------
(* Types.                                                                   *)

Entry == [index : Nat, term : Nat, data : Request]

VoteRequests ==
    [type : {"vote"}, stage : {"request"}, term : Nat,
     lastIndex : Nat, lastTerm : Nat]
AppendRequests ==
    [type : {"append"}, stage : {"request"}, term : Nat, commit : Nat,
     prevIndex : Nat, prevTerm : Nat, entries : Seq(Entry)]
Answers ==
    [type : {"vote"}, stage : {"response"}, term : Nat, granted : BOOLEAN]
    \union
    [type : {"append"}, stage : {"response"}, term : Nat, success : BOOLEAN,
     lastIndex : Nat, sent : Seq(Nat)]
    \union
    [type : {"append"}, stage : {"exception"}]

Items ==
    [op : {"reply"}, req : Request, ok : BOOLEAN] \union
    [op : {"apply"}, upTo : Nat]

RaftTypeOK ==
    /\ currentTerm \in [Node -> Nat]
    /\ votedFor \in [Node -> Node \union {Nil}]
    /\ state \in [Node -> {Follower, Candidate, Leader}]
    /\ votes \in [Node -> Nat]
    /\ electionTimer \in [Node -> BOOLEAN]
    /\ firing \in [Node -> BOOLEAN]
    /\ abort \in [Node -> {"none", "truncate", "order", "terminate"}]

LogTypeOK ==
    /\ log \in [Node -> Seq(Entry)]
    /\ committed \in [Node -> Nat]
    /\ callbacks \in [Node -> SUBSET [index : Nat, waits : 1..Majority - 1,
                                      req : Request]]
    /\ appendTimers \in [Node -> SUBSET Request]
    /\ committer \in [Node -> Seq(Items)]
    /\ applying \in [Node -> Seq(Entry)]
    /\ applied \in [Node -> Seq(Request)]

PeerTypeOK ==
    /\ mode \in [Link -> {"run", "sleep", "asleep", "election", "append",
                          "build", "calling", "newterm"}]
    /\ cmds \in [Link -> Seq({"election", "append", "sleep"})]
    /\ next \in [Link -> Nat]
    /\ match \in [Link -> Nat]
    /\ beat \in [Link -> BOOLEAN]
    /\ call \in [Link -> VoteRequests \union AppendRequests \union Answers
                         \union {NoCall}]

EnvTypeOK ==
    /\ req \in [Request -> [pc : {"new", "checked", "written", "waiting",
                                  "ok", "failed"},
                            node : Node \union {Nil}, index : Nat]]
    /\ late \subseteq [from : Node, to : Node,
                       request : VoteRequests \union AppendRequests]
    /\ elections \in 0..MaxElections
    /\ fails \in 0..MaxFails
    /\ grants \subseteq [voter : Node, term : Nat, candidate : Node]
    /\ leaders \subseteq Node \X Nat

\* Every variable has its type; in particular a callback that waits for no
\* more acknowledgements is no longer in append_log_callbacks_.
TypeOK == RaftTypeOK /\ LogTypeOK /\ PeerTypeOK /\ EnvTypeOK

-----------------------------------------------------------------------------
(* Elections.                                                               *)

\* A node tells at most one candidate of a term that it has its vote, however
\* often requests are retried, delayed or handled late (handle_vote_request).
OneGrantPerTerm ==
    \A g, h \in grants :
        g.voter = h.voter /\ g.term = h.term => g.candidate = h.candidate

\* Nobody becomes leader of a term without the vote of another node in that
\* same term, although vote_responses_ outlives the term it was filled in.
\* (In clusters of up to three nodes, where one vote makes the majority.)
LeaderHasGrant ==
    \A l \in leaders :
        \E g \in grants : g.candidate = l[1] /\ g.term = l[2] /\ g.voter # l[1]

\* Two leaders of one term are possible, because a candidate does not record
\* its vote for itself, but only when one of them voted for the other.  (In
\* clusters of up to three nodes.)
TwoLeadersSharedAVote ==
    \A k, l \in leaders :
        k[2] = l[2] /\ k[1] # l[1] =>
            \E g \in grants : g.term = k[2]
                              /\ {g.voter, g.candidate} = {k[1], l[1]}

\* A running node that is not the leader has its election timer pending, or
\* its action waiting for the mutex: no order of step_down, become_leader and
\* the timer thread leaves a follower without a way to notice a dead leader.
ElectionTimerCovers ==
    \A n \in Node :
        Alive(n) /\ state[n] # Leader => electionTimer[n] \/ firing[n]

Sending == {"append", "build", "calling", "newterm"}

\* Every peer thread of a leader is in do_append_entries, or has the command
\* for it in its queue.
LeaderIsServing ==
    \A l \in Link :
        Alive(l[1]) /\ state[l[1]] = Leader =>
            mode[l] \in Sending \/ "append" \in ToSet(cmds[l])

\* A peer thread that still sends entries for a node that is leader no more
\* has a command in its queue, or a new term to report: it stops at the top
\* of the loop.
DeposedStops ==
    \A l \in Link :
        Alive(l[1]) /\ state[l[1]] # Leader /\ mode[l] \in Sending =>
            mode[l] = "newterm" \/ cmds[l] # <<>>

-----------------------------------------------------------------------------
(* Replication under one leader.                                            *)

Stable == \A k, l \in leaders : k[1] = l[1]
TheLeader == (CHOOSE l \in leaders : TRUE)[1]
DataOf(entries) == [i \in DOMAIN entries |-> entries[i].data]
CommittedPart(n) == SubSeq(log[n], 1, committed[n])

\* Every log is a prefix of the leader's, whatever requests are lost, sent
\* again or handled late (the checks of handle_append_entries_request).
StableLogsArePrefixes ==
    Stable /\ leaders # {} => \A p \in Node : IsPrefix(log[p], log[TheLeader])

\* What a peer thread believes to be stored (match_index_) is stored.
StableMatchIsStored ==
    Stable /\ leaders # {} =>
        \A p \in Node \ {TheLeader} :
            IsPrefix(SubSeq(log[TheLeader], 1, match[TheLeader, p]), log[p])

\* What the leader has committed is in the logs of a majority.  (In clusters of up
\* to three nodes: a heartbeat carries the last entry again, and
\* append_entries_callback counts each answer, not each peer.)
StableCommittedOnMajority ==
    Stable /\ leaders # {} =>
        Cardinality({p \in Node : IsPrefix(CommittedPart(TheLeader), log[p])})
            >= Majority

\* Followers give the application what the leader has committed, in the order
\* of its log and nothing else, though the commit index reaches them in
\* heartbeats and is applied on another thread.  (With one call of replicate
\* at a time: with two, the leader's commit index can go back.  And without a
\* failed RPC: a request that is handled late names an older commit index, behind
\* which the next count of entries to read wraps.)
StableFollowersApplyCommitted ==
    Stable /\ leaders # {} =>
        \A p \in Node \ {TheLeader} :
            IsPrefix(applied[p], DataOf(CommittedPart(TheLeader)))

\* committed_index_ never decreases: acknowledgements that arrive late, twice or after
\* a timeout never set it back.  (With one call of replicate at a time.)
StableCommitNeverRewinds ==
    [][Stable => \A n \in Node : committed'[n] >= committed[n]]_vars

-----------------------------------------------------------------------------
(* The callers of replicate.                                                *)

Replies(n, r) ==
    {i \in DOMAIN committer[n] :
        committer[n][i].op = "reply" /\ committer[n][i].req = r}

\* Where the answers are that are still to come for request r.
Pending(r) ==
    UNION {{<<n, "callback", c.index>> : c \in {d \in callbacks[n] : d.req = r}}
           \union {<<n, "reply", i>> : i \in Replies(n, r)} : n \in Node}

\* Another request went to the same index of the same node, and emplace keeps
\* one callback for both.  The node has then been leader, follower and leader
\* again between the write of the one and its insert_callback.
Collides(r) ==
    \E s \in Request \ {r} :
        req[s].node = req[r].node /\ req[s].index = req[r].index

\* The callback of a request runs once: acknowledgements, the timeout and
\* step_down never answer the same request twice, and none of them drops a
\* callback.  A request that waits is in append_log_callbacks_, or its answer is
\* on the way to the committer thread; no other request has an answer to come.
AnsweredOnce ==
    \A r \in Request :
        IF req[r].pc = "waiting"
        THEN /\ \A a, b \in Pending(r) : a = b
             /\ Alive(req[r].node) => Pending(r) # {} \/ Collides(r)
        ELSE Pending(r) = {}

\* A callback in append_log_callbacks_ still has its timer: should no
\* acknowledgement come, the caller is told.
CallbackCanTimeOut ==
    \A n \in Node : \A c \in callbacks[n] : c.req \in appendTimers[n]

-----------------------------------------------------------------------------
(* Assertions of the code.                                                  *)

\* raft.hpp:283: a conflicting entry is never committed.
TruncateAssertion == \A n \in Node : abort[n] # "truncate"

\* raft.hpp:300: entries are applied in the order of their indexes.
OrderAssertion == \A n \in Node : abort[n] # "order"

-----------------------------------------------------------------------------
(* Liveness: every thread of a running node goes on, timers expire, a       *)
(* request that is not lost is served, and what its handler throws arrives. *)
(* Nobody has to call replicate, no RPC has to fail, and late requests may  *)
(* stay on their connection.  What is under one WF happens one after the     *)
(* other: a peer thread waits for its call, and a timer that is due has its  *)
(* action waiting.                                                          *)

Fairness ==
    /\ \A l \in Link :
        WF_vars(\/ PeerStep(l[1], l[2]) \/ ServeCall(l[1], l[2])
                \/ Threw(l[1], l[2]) /\ CallFails(l[1], l[2]))
    /\ \A n \in Node :
        /\ WF_vars(ElectionTimeout(n) \/ ElectionCallback(n))
        /\ WF_vars(CommitterStep(n))
        /\ \A r \in Request : WF_vars(AppendTimeout(n, r))
    /\ \A r \in Request : WF_vars(ReplicateStep(r))

FairSpec == Spec /\ Fairness

\* Who calls replicate is answered, with success or failure, unless the
\* process dies.
EveryRequestAnswered ==
    \A r \in Request :
        req[r].pc \in {"checked", "written", "waiting"} ~>
            \/ req[r].pc \in {"ok", "failed"}
            \/ \E n \in Node : req[r].node = n /\ ~Alive(n)

\* No election disturbs n any more: none begins and no RPC fails, no old request of
\* another node is about, and the others follow in no newer term, with peer threads that have
\* nothing to do.  (A follower whose threads still ask for the votes of an election
\* it lost in the same term deposes the leader, which has recorded no vote.)
Undisturbed(n) ==
    /\ \/ elections + fails = MaxTrouble
       \/ elections = MaxElections /\ fails = MaxFails
    /\ ~firing[n] /\ \A m \in late : m.from = n
    /\ \A p \in Node \ {n} :
        /\ Alive(p) /\ state[p] = Follower /\ ~firing[p]
        /\ currentTerm[p] <= currentTerm[n]
        /\ \A m \in Node \ {p} :
            cmds[<<p, m>>] = <<>> /\ mode[<<p, m>>] \in {"run", "asleep"}

\* A candidate in a newer term whose requests are yet to be handled, by nodes whose
\* logs hold nothing that its own lacks.
Standing(n) ==
    /\ state[n] = Candidate
    /\ \A p \in Node \ {n} :
        /\ \/ "election" \in ToSet(cmds[<<n, p>>])
           \/ call[<<n, p>>] = VoteRequest(n)
        /\ currentTerm[p] < currentTerm[n] /\ IsPrefix(log[p], log[n])

\* It is elected, whatever is left of elections and offices before, and though a
\* request was lost.
UnopposedWins ==
    (\E n \in Node : Standing(n) /\ Undisturbed(n)) ~> \E n \in Node : state[n] = Leader

\* What an undisturbed leader has acknowledged every follower applies eventually:
\* the commit index of the last entry reaches it with a later heartbeat.
FollowersCatchUp ==
    \A r \in Request :
        (req[r].pc = "ok" /\ state[req[r].node] = Leader /\ Undisturbed(req[r].node))
            ~> \A p \in Node : r \in ToSet(applied[p])
=============================================================================
