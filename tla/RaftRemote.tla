----------------------------- MODULE RaftRemote -----------------------------
(***************************************************************************)
(* The Raft peer replicator of cocaine-core: one remote_node per cluster   *)
(* member (include/cocaine/detail/raft/remote.hpp), driven by the local    *)
(* Raft actor and its cluster (modelled from the spec, their code is not   *)
(* in the repository), against followers that answer the Raft wire of the *)
(* spec (section 6).                                                        *)
(*                                                                          *)
(* The local actor is the only node that ever leads: other members only    *)
(* raise their terms (failed candidacies) and vote.  Hence every follower  *)
(* log is a prefix of the local log, and flen[p] is its length.            *)
(***************************************************************************)
EXTENDS Naturals, FiniteSets, Sequences

CONSTANTS
    Peers,            \* cluster members, the local node included
    Self,             \* the local node (config().id())
    None,             \* a model value: no vote cast
    MaxTerm,          \* bound on terms
    MaxLog,           \* bound on the local log length
    MessageSize,      \* options().message_size
    MaxFaults,        \* bound on environment failures (errors, lost calls)
    ReplacedResolver, \* what a destroyed service_resolver_t does: "cancelled"
                      \* (its callbacks never run) or "orphaned" (they still run)
    WonTermInit       \* values m_won_term may start with (it is not initialised)

ASSUME /\ Self \in Peers /\ Cardinality(Peers) >= 2
       /\ MessageSize \in Nat \ {0}
       /\ ReplacedResolver \in {"cancelled", "orphaned"}
       /\ WonTermInit \subseteq Nat

Follower == "follower"
Candidate == "candidate"
Leader == "leader"

\* Continuations handed to ensure_connection.
Conts == {"vote", "replicate", "heartbeat"}
NoRes == "none"

VARIABLES
    \* Raft actor state (C4) and log view (C3).
    term, role, log, commitIndex, snapIdx,
    \* One remote_node per member: a record of its fields.
    peer,
    \* Raft RPCs in flight, each bound to the handler that sent it.
    rpcs,
    \* The followers (remote side of the wire).
    fterm, fvoted, flen,
    \* History: the terms in which each member granted its vote to Self.
    granted,
    \* Environment failures so far; whether the process hit a null handler.
    faults, crashed

actorVars == <<term, role, log, commitIndex, snapIdx>>
followerVars == <<fterm, fvoted, flen>>
vars == <<actorVars, peer, rpcs, followerVars, granted, faults, crashed>>

Remotes == Peers \ {Self}

MaxOf(a, b) == IF a >= b THEN a ELSE b
MinOf(a, b) == IF a =< b THEN a ELSE b

(***************************************************************************)
(* What remote_node reads from the actor: m_actor.config().current_term(), *)
(* is_leader(), log().  The code below takes it as a record so that an     *)
(* action can run remote_node code after the actor has changed.            *)
(***************************************************************************)
Actor == [term |-> term, role |-> role, log |-> log, snap |-> snapIdx]

LogTerm(a, i) == IF i = 0 THEN 0 ELSE a.log[i]
LastIndex(a) == Len(a.log)
SnapTerm(a) == LogTerm(a, a.snap)

(***************************************************************************)
(* remote_node fields: next = m_next_index, match = m_match_index,         *)
(* won = m_won_term, app/vote = m_append_state/m_vote_state non-null,      *)
(* last = m_last_index of the append handler in the slot, client =         *)
(* m_client non-null, res = continuation of m_resolver (NoRes when null),  *)
(* orph = continuations of destroyed resolvers that may still call back,   *)
(* timer = m_heartbeat_timer armed.                                         *)
(***************************************************************************)
PeerState ==
    [next : Nat, match : Nat, won : Nat, app : BOOLEAN, last : Nat,
     vote : BOOLEAN, client : BOOLEAN, res : Conts \cup {NoRes},
     orph : SUBSET Conts, timer : BOOLEAN]

\* An RPC: kind, the request's content, and the (term, success) reply.
\* active is the m_active flag of the handler it is bound to.
Rpc ==
    [peer : Peers, kind : {"vote", "append", "apply"}, active : BOOLEAN,
     stage : {"req", "rep"}, term : Nat, prev : Nat, prevTerm : Nat,
     last : Nat, rterm : Nat, ok : BOOLEAN]

\* The outcome of running a piece of remote_node code on one peer: its new
\* fields, the RPCs it sent, the handler kinds it disabled, whether it sent a
\* heartbeat and whether it dereferenced a null handler.
Out(ps, sent, off, hb, crash) ==
    [ps |-> ps, sent |-> sent, off |-> off, hb |-> hb, crash |-> crash]
Noop(ps) == Out(ps, {}, {}, FALSE, FALSE)
Crash(ps) == Out(ps, {}, {}, FALSE, TRUE)

AppendKinds == {"append", "apply"}

Request(a, p, kind, prev, prevTerm, last) ==
    [peer |-> p, kind |-> kind, active |-> TRUE, stage |-> "req", term |-> a.term,
     prev |-> prev, prevTerm |-> prevTerm, last |-> last, rterm |-> 0, ok |-> FALSE]

\* Disable the handlers of the given kinds of peer p: their calls go stale.
Disable(S, p, kinds) ==
    {IF r.peer = p /\ r.kind \in kinds THEN [r EXCEPT !.active = FALSE] ELSE r : r \in S}

\* A destroyed resolver: gone, or still able to call back.
Orphan(ps) ==
    IF ps.res # NoRes /\ ReplacedResolver = "orphaned" THEN ps.orph \cup {ps.res} ELSE ps.orph

-----------------------------------------------------------------------------
(* remote_node private operations *)

\* reset_vote_state / reset_append_state: forget the handler in the slot (the
\* caller disables it, see Disable).
\* Variant: a reply that leaves m_vote_state in place.
reset_vote_state_kept(ps) == ps

reset_vote_state(ps) == [ps EXCEPT !.vote = FALSE]
reset_append_state(ps) == [ps EXCEPT !.app = FALSE, !.last = 0]

\* request_vote_impl: send the vote request, or fail the handler at once.
request_vote_impl(a, p, ps) ==
    IF ~ps.vote THEN Crash(ps)
    ELSE IF ps.client
         THEN Out(ps, {Request(a, p, "vote", LastIndex(a), LogTerm(a, LastIndex(a)), 0)},
                  {}, FALSE, FALSE)
         ELSE Out(reset_vote_state(ps), {}, {"vote"}, FALSE, FALSE)

\* Index of the last entry one append carries (at most message_size entries).
LastSent(a, next) ==
    IF next + MessageSize <= LastIndex(a) THEN next + MessageSize - 1 ELSE LastIndex(a)

\* prev_term of send_append.
PrevTerm(a, next) == IF a.snap + 1 = next THEN SnapTerm(a) ELSE a.log[next - 1]

\* Variant: send_apply records last_index() rather than snapshot_index().
send_apply_last_index(a, p, ps) ==
    IF ~ps.app THEN Crash(ps)
    ELSE Out([ps EXCEPT !.last = LastIndex(a)],
             {Request(a, p, "apply", a.snap, SnapTerm(a), a.snap)}, {}, FALSE, FALSE)

send_apply(a, p, ps) ==
    IF ~ps.app THEN Crash(ps)
    ELSE Out([ps EXCEPT !.last = a.snap],
             {Request(a, p, "apply", a.snap, SnapTerm(a), a.snap)}, {}, FALSE, FALSE)

send_append(a, p, ps) ==
    IF ~ps.app THEN Crash(ps)
    ELSE Out([ps EXCEPT !.last = LastSent(a, ps.next)],
             {Request(a, p, "append", ps.next - 1, PrevTerm(a, ps.next), LastSent(a, ps.next))},
             {}, FALSE, FALSE)

replicate_impl(a, p, ps) ==
    IF ~ps.client \/ a.role # Leader
    THEN IF ~ps.app THEN Crash(ps)
         ELSE Out(reset_append_state(ps), {}, AppendKinds, FALSE, FALSE)
    ELSE IF ps.next <= a.snap THEN send_apply(a, p, ps)
    ELSE IF ps.next <= LastIndex(a) THEN send_append(a, p, ps)
    ELSE Noop(ps)

\* send_heartbeat: a bodyless append, sent only over a live client.
send_heartbeat(ps) == Out(ps, {}, {}, ps.client, FALSE)

RunCont(a, p, ps, k) ==
    CASE k = "vote"      -> request_vote_impl(a, p, ps)
      [] k = "replicate" -> replicate_impl(a, p, ps)
      [] k = "heartbeat" -> send_heartbeat(ps)

\* ensure_connection: run k now, or start a resolver (replacing any pending one).
ensure_connection(a, p, ps, k) ==
    IF ps.client THEN RunCont(a, p, ps, k)
    ELSE Noop([ps EXCEPT !.res = k, !.orph = Orphan(ps)])

\* Variant: reset() without m_resolver.reset(): a pending resolver survives.
reset_keeps_resolver(ps) ==
    [reset_append_state(reset_vote_state(ps)) EXCEPT !.client = FALSE]

\* reset: drop both handlers, the resolver and the client.
reset(ps) ==
    [reset_append_state(reset_vote_state(ps)) EXCEPT !.res = NoRes, !.orph = Orphan(ps),
                                                     !.client = FALSE]

-----------------------------------------------------------------------------
(* remote_node public operations *)

\* request_vote.  For Self the cluster's register_vote follows (see Elect).
request_vote(a, p, ps) ==
    IF ps.won >= a.term THEN Noop(ps)
    ELSE IF p = Self THEN Noop([ps EXCEPT !.won = a.term])
    ELSE IF ~ps.vote THEN ensure_connection(a, p, [ps EXCEPT !.vote = TRUE], "vote")
    ELSE Noop(ps)

\* replicate for a remote member (Self is SelfReplicate below).
replicate(a, p, ps) ==
    IF ~ps.app /\ a.role = Leader /\ LastIndex(a) >= ps.next
    THEN ensure_connection(a, p, [ps EXCEPT !.app = TRUE], "replicate")
    ELSE Noop(ps)

begin_leadership(a, ps) ==
    [ps EXCEPT !.timer = TRUE, !.match = 0, !.next = MaxOf(1, LastIndex(a))]

finish_leadership(ps) == reset([ps EXCEPT !.timer = FALSE])

-----------------------------------------------------------------------------
(* The cluster (C6) and the actor (C4): spec sections 4.4 and 4.6. *)

IsQuorum(S) == Cardinality(S) * 2 > Cardinality(Peers)

\* register_vote: a candidate holding a majority of won terms leads, and every
\* remote_node begins leadership.
register_vote(a, pm) ==
    IF a.role = Candidate /\ IsQuorum({q \in Peers : pm[q].won = a.term})
    THEN [role |-> Leader, pm |-> [q \in Peers |-> begin_leadership(a, pm[q])]]
    ELSE [role |-> a.role, pm |-> pm]

\* update_commit_index: the highest index a majority has matched, committed
\* only when it carries the current term.
update_commit_index(a, pm, c) ==
    LET agreed == {n \in 0..LastIndex(a) : IsQuorum({q \in Peers : pm[q].match >= n})}
        n == CHOOSE x \in agreed : \A y \in agreed : y =< x
    IN  IF n > c /\ LogTerm(a, n) = a.term THEN n ELSE c

\* replicate() on the Self member.
SelfReplicate(a, ps) == [ps EXCEPT !.match = LastIndex(a)]

\* Apply one outcome per member: new fields, handlers disabled, calls sent,
\* heartbeats delivered (they raise the follower's term), null dereferences.
Apply(a, O, base) ==
    /\ peer' = [q \in Peers |-> O[q].ps]
    /\ rpcs' = {IF r.kind \in O[r.peer].off THEN [r EXCEPT !.active = FALSE] ELSE r : r \in base}
               \cup UNION {O[q].sent : q \in Peers}
    /\ fterm' = [q \in Peers |-> IF O[q].hb /\ q # Self THEN MaxOf(fterm[q], a.term) ELSE fterm[q]]
    /\ fvoted' = [q \in Peers |-> IF O[q].hb /\ q # Self /\ a.term > fterm[q] THEN None ELSE fvoted[q]]
    /\ crashed' = (crashed \/ \E q \in Peers : O[q].crash)

\* One member's outcome, the others untouched.
Only(p, out) == [q \in Peers |-> IF q = p THEN out ELSE Noop(peer[q])]

\* step_down: a newer term makes the actor a follower; every remote_node
\* finishes leadership (timer stopped, handlers disabled, client dropped).
StepDown(t, base) ==
    /\ term' = t
    /\ role' = Follower
    /\ peer' = [q \in Peers |-> finish_leadership(peer[q])]
    /\ rpcs' = {[r EXCEPT !.active = FALSE] : r \in base}
    /\ UNCHANGED <<log, commitIndex, snapIdx, followerVars, crashed>>

-----------------------------------------------------------------------------
(* Actions of the actor (spec) *)

\* The election timer fires: a new term, and request_vote() on every member;
\* the cluster's register_vote for Self's own vote is applied after the loop.
Timeout ==
    /\ ~crashed
    /\ role \in {Follower, Candidate}
    /\ term < MaxTerm
    /\ LET a == [Actor EXCEPT !.term = term + 1, !.role = Candidate]
           O == [q \in Peers |-> request_vote(a, q, peer[q])]
           rv == register_vote(a, [q \in Peers |-> O[q].ps])
       IN  /\ term' = a.term
           /\ role' = rv.role
           /\ Apply(a, [q \in Peers |-> [O[q] EXCEPT !.ps = rv.pm[q]]], rpcs)
    /\ UNCHANGED <<log, commitIndex, snapIdx, flen, granted, faults>>

\* The leader appends an entry and calls replicate() on every member.
ClientAppend ==
    /\ ~crashed
    /\ role = Leader
    /\ Len(log) < MaxLog
    /\ LET a == [Actor EXCEPT !.log = Append(log, term)]
           O == [q \in Peers |-> IF q = Self THEN Noop(SelfReplicate(a, peer[q]))
                                 ELSE replicate(a, q, peer[q])]
       IN  /\ log' = a.log
           /\ commitIndex' = update_commit_index(a, [q \in Peers |-> O[q].ps], commitIndex)
           /\ Apply(a, O, rpcs)
    /\ UNCHANGED <<term, role, snapIdx, flen, granted, faults>>

\* Variant: the log store compacts entries not yet committed.
Compact_uncommitted ==
    /\ \E i \in (snapIdx + 1)..Len(log) : snapIdx' = i
    /\ UNCHANGED <<term, role, log, commitIndex, peer, rpcs, followerVars,
                   granted, faults, crashed>>

\* The log store compacts a committed prefix into a snapshot.
Compact ==
    /\ ~crashed
    /\ \E i \in (snapIdx + 1)..commitIndex : snapIdx' = i
    /\ UNCHANGED <<term, role, log, commitIndex, peer, rpcs, followerVars,
                   granted, faults, crashed>>

\* A request from member q carries a newer term (q is a candidate).
ReceiveHigherTerm(q) ==
    /\ ~crashed
    /\ q \in Remotes
    /\ fterm[q] > term
    /\ StepDown(fterm[q], rpcs)
    /\ UNCHANGED <<granted, faults>>

-----------------------------------------------------------------------------
(* Actions of remote_node *)

\* The heartbeat timer fires (heartbeat()).
Heartbeat(p) ==
    /\ ~crashed
    /\ LET ps == peer[p]
           beat == ps.app \/ ps.next > Len(log)
           out == IF beat THEN ensure_connection(Actor, p, ps, "heartbeat")
                  ELSE IF p = Self THEN Noop(SelfReplicate(Actor, ps))
                  ELSE replicate(Actor, p, ps)
       IN  /\ ps.timer
           /\ role = Leader
           /\ Apply(Actor, Only(p, out), rpcs)
           /\ commitIndex' = IF ~beat /\ p = Self
                             THEN update_commit_index(Actor, [peer EXCEPT ![p] = out.ps], commitIndex)
                             ELSE commitIndex
           /\ UNCHANGED <<term, role, log, snapIdx, flen, granted, faults>>

\* The pending resolver connects (on_client_connected).
ResolverConnected(p) ==
    /\ ~crashed
    /\ LET ps == peer[p]
       IN  /\ ps.res # NoRes
           /\ Apply(Actor, Only(p, RunCont(Actor, p, [ps EXCEPT !.res = NoRes, !.client = TRUE], ps.res)), rpcs)
           /\ UNCHANGED <<actorVars, flen, granted, faults>>

\* on_connection_error: run the continuation (it fails its handler), then reset.
AfterError(p, out) ==
    Only(p, [out EXCEPT !.ps = reset(out.ps), !.off = {"vote", "append", "apply"}])

\* The pending resolver fails (on_connection_error).
ResolverFailed(p) ==
    /\ ~crashed
    /\ LET ps == peer[p]
       IN  /\ ps.res # NoRes
           /\ faults < MaxFaults
           /\ faults' = faults + 1
           /\ Apply(Actor, AfterError(p, RunCont(Actor, p, [ps EXCEPT !.res = NoRes], ps.res)), rpcs)
           /\ UNCHANGED <<actorVars, flen, granted>>

\* A destroyed resolver connects after all: on_client_connected destroys the
\* pending resolver, adopts the client and runs the old continuation.
OrphanConnected(p, k) ==
    /\ ~crashed
    /\ LET ps == [peer[p] EXCEPT !.orph = @ \ {k}]
       IN  /\ k \in peer[p].orph
           /\ Apply(Actor, Only(p, RunCont(Actor, p,
                    [ps EXCEPT !.res = NoRes, !.orph = Orphan(ps), !.client = TRUE], k)), rpcs)
           /\ UNCHANGED <<actorVars, flen, granted, faults>>

\* A destroyed resolver fails after all (on_connection_error).
OrphanFailed(p, k) ==
    /\ ~crashed
    /\ LET ps == [peer[p] EXCEPT !.orph = @ \ {k}]
       IN  /\ k \in peer[p].orph
           /\ faults < MaxFaults
           /\ faults' = faults + 1
           /\ Apply(Actor, AfterError(p, RunCont(Actor, p, ps, k)), rpcs)
           /\ UNCHANGED <<actorVars, flen, granted>>

\* The client reports a transport error (on_error).
ClientError(p) ==
    /\ ~crashed
    /\ peer[p].client
    /\ faults < MaxFaults
    /\ faults' = faults + 1
    /\ Apply(Actor, AfterError(p, Noop(peer[p])), rpcs)
    /\ UNCHANGED <<actorVars, flen, granted>>

\* vote_handler_t::handle on a (term, granted) reply.
HandleVoteReply(m) ==
    /\ ~crashed
    /\ m \in rpcs
    /\ m.stage = "rep" /\ m.kind = "vote"
    /\ IF ~m.active
       THEN /\ rpcs' = rpcs \ {m}
            /\ UNCHANGED <<actorVars, peer, followerVars, crashed>>
       ELSE LET p == m.peer
                pm == [peer EXCEPT ![p] = reset_vote_state(@)]
                rest == Disable(rpcs \ {m}, p, {"vote"})
            IN  IF m.rterm > term
                THEN StepDown(m.rterm, rest)
                ELSE LET won == IF m.ok THEN [pm EXCEPT ![p].won = term] ELSE pm
                         rv == register_vote(Actor, won)
                     IN  /\ role' = IF m.ok THEN rv.role ELSE role
                         /\ peer' = IF m.ok THEN rv.pm ELSE pm
                         /\ rpcs' = rest
                         /\ UNCHANGED <<term, log, commitIndex, snapIdx, followerVars, crashed>>
    /\ UNCHANGED <<granted, faults>>

\* Variant: match is taken from the advanced m_next_index.
Advance_match_next(ps, last) ==
    LET n == MaxOf(last + 1, ps.next)
    IN  [ps EXCEPT !.next = n, !.match = MaxOf(ps.match, n)]

\* A successful append: next passes the handler's m_last_index, match rises to it.
Advance(ps, last) ==
    [ps EXCEPT !.next = MaxOf(last + 1, ps.next), !.match = MaxOf(ps.match, last)]

\* A rejected append: step next back by at most message_size, never below 1.
BackOff(ps) ==
    IF ps.next > 1 THEN [ps EXCEPT !.next = ps.next - MinOf(MessageSize, ps.next - 1)]
    ELSE ps

\* append_handler_t::handle on a (term, success) reply to append or apply.
HandleAppendReply(m) ==
    /\ ~crashed
    /\ m \in rpcs
    /\ m.stage = "rep" /\ m.kind \in AppendKinds
    /\ IF ~m.active
       THEN /\ rpcs' = rpcs \ {m}
            /\ UNCHANGED <<actorVars, peer, followerVars, crashed>>
       ELSE LET p == m.peer
                ps == peer[p]
                rest == Disable(rpcs \ {m}, p, AppendKinds)
                cleared == reset_append_state(ps)
                moved == IF m.ok THEN Advance(cleared, ps.last) ELSE BackOff(cleared)
                out == replicate(Actor, p, moved)
            IN  IF m.rterm > term
                THEN StepDown(m.rterm, rest)
                ELSE /\ commitIndex' = IF m.ok /\ ps.match < ps.last
                                       THEN update_commit_index(Actor, [peer EXCEPT ![p] = moved], commitIndex)
                                       ELSE commitIndex
                     /\ Apply(Actor, Only(p, out), rest)
                     /\ UNCHANGED <<term, role, log, snapIdx, flen>>
    /\ UNCHANGED <<granted, faults>>

\* raft_dispatch reports an error or a choke: the handler gets boost::none.
RpcFailed(m) ==
    /\ ~crashed
    /\ m \in rpcs
    /\ m.active
    /\ faults < MaxFaults
    /\ faults' = faults + 1
    /\ LET p == m.peer
           kinds == IF m.kind = "vote" THEN {"vote"} ELSE AppendKinds
       IN  /\ peer' = IF m.kind = "vote" THEN [peer EXCEPT ![p] = reset_vote_state(@)]
                      ELSE [peer EXCEPT ![p] = reset_append_state(@)]
           /\ rpcs' = Disable(rpcs \ {m}, p, kinds)
    /\ UNCHANGED <<actorVars, followerVars, granted, crashed>>

\* The dispatch of a disabled handler goes away with its client.
RpcDropped(m) ==
    /\ ~crashed
    /\ m \in rpcs
    /\ ~m.active
    /\ rpcs' = rpcs \ {m}
    /\ UNCHANGED <<actorVars, peer, followerVars, granted, faults, crashed>>

-----------------------------------------------------------------------------
(* The followers: the receiving side of the Raft wire (spec section 6) *)

\* Another member times out and stands for election (and loses).
FollowerTimeout(q) ==
    /\ ~crashed
    /\ q \in Remotes
    /\ fterm[q] < MaxTerm
    /\ fterm' = [fterm EXCEPT ![q] = @ + 1]
    /\ fvoted' = [fvoted EXCEPT ![q] = q]
    /\ UNCHANGED <<actorVars, peer, rpcs, flen, granted, faults, crashed>>

\* A follower answers a request_vote, append or apply.
FollowerReceive(m) ==
    /\ ~crashed
    /\ m \in rpcs
    /\ m.stage = "req"
    /\ LET q == m.peer
           t == MaxOf(fterm[q], m.term)
           v == IF m.term > fterm[q] THEN None ELSE fvoted[q]
           current == m.term = t
           grant == current /\ v \in {None, Self}
           ok == current /\ (m.kind = "apply" \/ (m.prev <= flen[q] /\ m.prevTerm = LogTerm(Actor, m.prev)))
           reply(success) == [m EXCEPT !.stage = "rep", !.rterm = t, !.ok = success]
       IN  /\ fterm' = [fterm EXCEPT ![q] = t]
           /\ IF m.kind = "vote"
              THEN /\ fvoted' = [fvoted EXCEPT ![q] = IF grant THEN Self ELSE v]
                   /\ granted' = [granted EXCEPT ![q] = IF grant THEN @ \cup {m.term} ELSE @]
                   /\ rpcs' = (rpcs \ {m}) \cup {reply(grant)}
                   /\ UNCHANGED flen
              ELSE /\ fvoted' = [fvoted EXCEPT ![q] = v]
                   /\ flen' = [flen EXCEPT ![q] = IF ok THEN MaxOf(@, m.last) ELSE @]
                   /\ rpcs' = (rpcs \ {m}) \cup {reply(ok)}
                   /\ UNCHANGED granted
    /\ UNCHANGED <<actorVars, peer, faults, crashed>>

-----------------------------------------------------------------------------

Init ==
    /\ term = 0
    /\ role = Follower
    /\ log = <<>>
    /\ commitIndex = 0
    /\ snapIdx = 0
    /\ \E w \in [Peers -> WonTermInit] :
          peer = [q \in Peers |-> [next |-> 1, match |-> 0, won |-> w[q], app |-> FALSE,
                                   last |-> 0, vote |-> FALSE, client |-> FALSE,
                                   res |-> NoRes, orph |-> {}, timer |-> FALSE]]
    /\ rpcs = {}
    /\ fterm = [q \in Peers |-> 0]
    /\ fvoted = [q \in Peers |-> None]
    /\ flen = [q \in Peers |-> 0]
    /\ granted = [q \in Peers |-> {}]
    /\ faults = 0
    /\ crashed = FALSE

\* Every action requires ~crashed: a null handler dereference ends the process.
Next ==
    \/ Timeout
    \/ ClientAppend
    \/ Compact
    \/ \E q \in Peers : ReceiveHigherTerm(q) \/ FollowerTimeout(q)
    \/ \E p \in Peers : \/ Heartbeat(p)
                        \/ ResolverConnected(p)
                        \/ ResolverFailed(p)
                        \/ ClientError(p)
                        \/ \E k \in Conts : OrphanConnected(p, k) \/ OrphanFailed(p, k)
    \/ \E m \in rpcs : HandleVoteReply(m)
    \/ \E m \in rpcs : HandleAppendReply(m)
    \/ \E m \in rpcs : RpcFailed(m)
    \/ \E m \in rpcs : RpcDropped(m)
    \/ \E m \in rpcs : FollowerReceive(m)

\* The reactor runs every ready callback: timers, resolver completions,
\* replies and (for the network) the followers' answers.
Fairness ==
    /\ \A p \in Peers : WF_vars(Heartbeat(p)) /\ WF_vars(ResolverConnected(p))
    /\ \A p \in Peers, k \in Conts : WF_vars(OrphanConnected(p, k))
    /\ WF_vars(\E m \in rpcs : FollowerReceive(m))
    /\ WF_vars(\E m \in rpcs : HandleVoteReply(m) \/ HandleAppendReply(m))

Spec == Init /\ [][Next]_vars /\ Fairness

-----------------------------------------------------------------------------
(* Properties *)

TypeOK ==
    /\ term \in 0..MaxTerm
    /\ role \in {Follower, Candidate, Leader}
    /\ log \in Seq(0..MaxTerm) /\ Len(log) <= MaxLog
    /\ commitIndex \in 0..Len(log) /\ snapIdx \in 0..commitIndex
    /\ peer \in [Peers -> PeerState]
    /\ rpcs \subseteq Rpc
    /\ fterm \in [Peers -> 0..MaxTerm]
    /\ fvoted \in [Peers -> Peers \cup {None}]
    /\ flen \in [Peers -> 0..MaxLog]
    /\ granted \in [Peers -> SUBSET (1..MaxTerm)]
    /\ faults \in 0..MaxFaults
    /\ crashed \in BOOLEAN


\* The length of the local log held by member q.
Holds(q) == IF q = Self THEN Len(log) ELSE flen[q]

\* No remote_node callback ever runs a handler through a null
\* m_append_state or m_vote_state (request_vote_impl, replicate_impl,
\* send_apply, send_append all dereference the slot without a check).
NoNullHandler == ~crashed

\* The leader never believes a follower holds more than it does: the
\* m_match_index that append_handler_t::handle records from m_last_index is
\* at most the follower's log length.
MatchSound == \A q \in Remotes : peer[q].match <= flen[q]

\* Every index the cluster commits (update_commit_index over the members'
\* m_match_index) is held by a majority of the members.
CommitSafe == IsQuorum({q \in Peers : Holds(q) >= commitIndex})

LeaderHasQuorum ==
    role = Leader => IsQuorum({Self} \cup {q \in Remotes : term \in granted[q]})

\* A vote request of a candidate is eventually answered, failed or
\* abandoned: m_vote_state does not stay set while the actor is not leader.
VoteSettles ==
    \A q \in Remotes : peer[q].vote ~> (~peer[q].vote \/ role = Leader)

\* An append of the leader eventually completes: m_append_state does not
\* stay set while the actor leads (the heartbeat is to re-drive it).
AppendSettles ==
    \A q \in Remotes : (role = Leader /\ peer[q].app) ~> (~peer[q].app \/ role # Leader)

=============================================================================
