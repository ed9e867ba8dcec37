----------------------------- MODULE NetworkNode -----------------------------
(***************************************************************************)
(* NetworkNode of crates/ipfrs-network/src/node.rs with its callers: Get    *)
(* of the Node (crates/ipfrs/src/node/block_ops.rs), geo_fetch_block, and  *)
(* the activation handles.                                                  *)
(*                                                                         *)
(* One task owns the swarm.  Callers reach it through a bounded channel of *)
(* commands (try_send: a full channel is an error) and wait for a oneshot  *)
(* reply with a timeout; the task tells the application what happens       *)
(* through a bounded channel of events (send().await: a full channel makes *)
(* the task wait).                                                          *)
(*                                                                         *)
(* libp2p is external: connections come and go, a query of the DHT yields  *)
(* provider sets and then ends, a request is answered or fails once.       *)
(***************************************************************************)
EXTENDS Integers, Sequences, FiniteSets, SequencesExt

CONSTANTS Peer, Cid,
          Junk,       \* bytes that hash to no member of Cid
          Alike,      \* the sets of CIDs whose bytes from_utf8_lossy makes one string of
          Owner,      \* whoever holds the NetworkNode by `&mut'
          Stager,     \* users of an ActivationHandle
          CmdCap,     \* capacity of the command channel (256)
          EventCap,   \* capacity of the event channel (1024)
          MaxTries,   \* providers that get tries (3)
          MaxConn,    \* bound: connections at once
          Id          \* bound: ids of the requests that are under way at once

Caller == Stager \cup {Owner}

ASSUME NetworkNodeAssumption ==
    /\ {CmdCap, EventCap, MaxTries, MaxConn} \subseteq Nat \ {0}
    /\ Owner \notin Stager /\ Junk \notin Cid /\ IsFiniteSet(Peer)
    /\ UNION Alike = Cid /\ \A s, t \in Alike : s = t \/ s \cap t = {}

VARIABLES loop,            \* the task: run, serving (a peer's request), blocked (in event_tx.send), ended
          stopped,         \* the node is stopped and its NetworkNode dropped
          rx,              \* the event receiver: held by the NetworkNode, taken, dropped
          events,          \* the number of events in the event channel
          cmds,            \* the command channel
          conns,           \* libp2p: established connections per peer
          sent,            \* libp2p: requests without an answer yet
          queries,         \* libp2p: provider queries under way
          connected_peers,
          pending,         \* pending_fetch and pending_activation: id -> whom to answer
          waiters,         \* provider_waiters: [Cid -> callers with a live receiver]
          op               \* [Caller -> the call in progress]

swarmVars == <<conns, sent, queries>>
chanVars == <<rx, events, loop>>
vars == <<loop, stopped, rx, events, cmds, conns, sent, queries, connected_peers, pending, waiters, op>>

\* What a oneshot receiver has got; Failed also stands for a dropped sender.
Reply == [kind : {"none", "failed", "block", "providers", "answer"}, cids : SUBSET (Cid \cup {Junk}), peers : SUBSET Peer]
NoReply == [kind |-> "none", cids |-> {}, peers |-> {}]
Failed == [NoReply EXCEPT !.kind = "failed"]

\* A sender whose receiver is gone is an empty `to': sending to it has no effect.
Command == [name : {"GetProviders", "FetchBlock", "RunStage", "Other"}, cids : SUBSET Cid, to : SUBSET Caller]
NoOp == [name |-> "idle", of |-> "none", cids |-> {}, todo |-> <<>>, reply |-> NoReply]
Idle(k) == op[k].name = "idle"

TypeOK ==
    /\ loop \in {"run", "serving", "blocked", "ended"} /\ stopped \in BOOLEAN
    /\ rx \in {"held", "taken", "dropped"} /\ events \in 0..EventCap
    /\ cmds \in Seq(Command) /\ Len(cmds) <= CmdCap
    /\ conns \in [Peer -> 0..MaxConn] /\ SumFunction(conns) <= MaxConn /\ sent \subseteq Id /\ queries \subseteq Cid
    /\ connected_peers \subseteq Peer
    /\ DOMAIN pending \subseteq Id
    /\ \A i \in DOMAIN pending : pending[i] \in [cids : SUBSET Cid, to : SUBSET Caller]
    /\ waiters \in [Cid -> SUBSET Caller]
    /\ \A k \in Caller :
        /\ op[k].name \in {"idle", "find", "next", "fetch", "stage"} /\ op[k].of \in {"none", "get", "geo"}
        /\ op[k].cids \subseteq Cid /\ op[k].todo \in Seq(Peer) /\ op[k].reply \in Reply
    /\ loop = "ended" => stopped

\* The state after start.
Init ==
    /\ loop = "run" /\ stopped = FALSE /\ rx = "held" /\ events = 0
    /\ cmds = <<>> /\ conns = [p \in Peer |-> 0] /\ sent = {} /\ queries = {}
    /\ connected_peers = {} /\ pending = <<>>
    /\ waiters = [c \in Cid |-> {}]
    /\ op = [k \in Caller |-> NoOp]

-----------------------------------------------------------------------------

(* Oneshot channels. *)

\* A caller stops listening: its senders lead nowhere.
Unsend(k) == cmds' = [i \in DOMAIN cmds |-> [cmds[i] EXCEPT !.to = @ \ {k}]]
Unpend(k) == pending' = [i \in DOMAIN pending |-> [pending[i] EXCEPT !.to = @ \ {k}]]
Unwait(k) == waiters' = [c \in Cid |-> waiters[c] \ {k}]

Deliver(ks, r) == op' = [k \in Caller |-> IF k \in ks THEN [op[k] EXCEPT !.reply = r] ELSE op[k]]

Become(k, o) == op' = [op EXCEPT ![k] = o]

HasRoom == Len(cmds) < CmdCap
try_send(name, cids, to) == cmds' = Append(cmds, [name |-> name, cids |-> cids, to |-> to])

-----------------------------------------------------------------------------

(* Calls of the owner. *)

\* The CIDs that share the entry of c in provider_waiters, whose key is a string.
Keyed(c) == UNION {s \in Alike : c \in s}

\* The entry of c is removed.
Unlist(c) == waiters' = [d \in Cid |-> IF d \in Keyed(c) THEN {} ELSE waiters[d]]

\* The first half of get and of geo_fetch_block.  A full channel: no providers.
find_providers_await(of, c) ==
    /\ ~stopped /\ Idle(Owner)
    /\ IF HasRoom
       THEN /\ waiters' = [waiters EXCEPT ![c] = @ \cup {Owner}]
            /\ try_send("GetProviders", {c}, {})
            /\ Become(Owner, [NoOp EXCEPT !.name = "find", !.of = of, !.cids = {c}])
       ELSE Unlist(c) /\ UNCHANGED <<cmds, op>>
    /\ UNCHANGED <<stopped, connected_peers, pending, chanVars, swarmVars>>

\* get tries the first few providers in the order of the answer, geo_fetch_block
\* those that plan_routing admits, in the order it ranks them.
Plans(of, ps) ==
    LET ordered == UNION {SetToSeqs(qs) : qs \in SUBSET ps} IN
    IF of = "get" THEN {q \in ordered : Len(q) = Min({MaxTries, Cardinality(ps)})} ELSE ordered

found ==
    /\ op[Owner].name = "find" /\ op[Owner].reply # NoReply
    /\ \E plan \in Plans(op[Owner].of, op[Owner].reply.peers) :
        Become(Owner, IF plan = <<>> THEN NoOp
                      ELSE [op[Owner] EXCEPT !.name = "next", !.todo = plan, !.reply = NoReply])
    /\ UNCHANGED <<stopped, cmds, connected_peers, pending, waiters, chanVars, swarmVars>>

\* The timeout clears every waiter of the entry.
find_times_out ==
    /\ op[Owner].name = "find" /\ op[Owner].reply = NoReply
    /\ \E c \in op[Owner].cids : Unlist(c)
    /\ Become(Owner, NoOp)
    /\ UNCHANGED <<stopped, cmds, connected_peers, pending, chanVars, swarmVars>>

\* The loop over the providers, and the checks of fetch_block_from_peer.
fetch_block_from_peer ==
    /\ op[Owner].name = "next"
    /\ LET o == op[Owner] IN
       IF o.todo = <<>> THEN Become(Owner, NoOp) /\ UNCHANGED cmds
       ELSE IF Head(o.todo) \in connected_peers /\ HasRoom
       THEN /\ try_send("FetchBlock", o.cids, {Owner})
            /\ Become(Owner, [o EXCEPT !.name = "fetch", !.todo = Tail(@)])
       ELSE Become(Owner, [o EXCEPT !.todo = Tail(@)]) /\ UNCHANGED cmds
    /\ UNCHANGED <<stopped, connected_peers, pending, waiters, chanVars, swarmVars>>

fetched ==
    /\ op[Owner].name = "fetch" /\ op[Owner].reply # NoReply
    /\ Become(Owner, IF op[Owner].reply.kind = "block" THEN NoOp
                     ELSE [op[Owner] EXCEPT !.name = "next", !.reply = NoReply])
    /\ UNCHANGED <<stopped, cmds, connected_peers, pending, waiters, chanVars, swarmVars>>

fetch_times_out ==
    /\ op[Owner].name = "fetch" /\ op[Owner].reply = NoReply
    /\ Unsend(Owner) /\ Unpend(Owner)
    /\ Become(Owner, [op[Owner] EXCEPT !.name = "next"])
    /\ UNCHANGED <<stopped, connected_peers, waiters, chanVars, swarmVars>>

\* dial, disconnect, provide, subscribe, publish: a command without a reply.
send_swarm_cmd ==
    /\ ~stopped /\ Idle(Owner) /\ HasRoom
    /\ try_send("Other", {}, {})
    /\ UNCHANGED <<stopped, connected_peers, pending, waiters, op, chanVars, swarmVars>>

take_event_receiver ==
    /\ ~stopped /\ Idle(Owner) /\ rx = "held"
    /\ rx' = "taken"
    /\ UNCHANGED <<loop, stopped, events, cmds, connected_peers, pending, waiters, op, swarmVars>>

\* The consumer task of start_model_consumer, and what it may publish in answer.
publish == IF HasRoom /\ loop # "ended" THEN try_send("Other", {}, {}) ELSE UNCHANGED cmds

\* Mutant: publish waits for room in the command channel.
recvWaits ==
    /\ rx = "taken" /\ events > 0 /\ HasRoom
    /\ events' = events - 1
    /\ UNCHANGED cmds \/ publish
    /\ UNCHANGED <<loop, stopped, rx, connected_peers, pending, waiters, op, swarmVars>>
recv ==
    /\ rx = "taken" /\ events > 0
    /\ events' = events - 1
    /\ UNCHANGED cmds \/ publish
    /\ UNCHANGED <<loop, stopped, rx, connected_peers, pending, waiters, op, swarmVars>>

\* Mutant: the receiver outlives the node.
stopKeepsReceiver ==
    /\ ~stopped /\ Idle(Owner)
    /\ stopped' = TRUE
    /\ UNCHANGED <<rx, events, loop, cmds, connected_peers, pending, waiters, op, swarmVars>>
\* Node::stop: the shutdown message, and the NetworkNode goes with its receiver.
stop ==
    /\ ~stopped /\ Idle(Owner)
    /\ stopped' = TRUE
    /\ IF rx = "held" THEN rx' = "dropped" /\ events' = 0 ELSE UNCHANGED <<rx, events>>
    /\ UNCHANGED <<loop, cmds, connected_peers, pending, waiters, op, swarmVars>>

-----------------------------------------------------------------------------

(* Calls through an ActivationHandle, which outlives the node. *)

run_stage(k, p) ==
    /\ Idle(k) /\ p \in connected_peers /\ HasRoom /\ loop # "ended"
    /\ try_send("RunStage", {}, {k})
    /\ Become(k, [NoOp EXCEPT !.name = "stage"])
    /\ UNCHANGED <<stopped, connected_peers, pending, waiters, chanVars, swarmVars>>

staged(k) ==
    /\ op[k].name = "stage" /\ op[k].reply # NoReply
    /\ Become(k, NoOp)
    /\ UNCHANGED <<stopped, cmds, connected_peers, pending, waiters, chanVars, swarmVars>>

\* A timeout of a stage, or a caller that drops its future in the middle of a call.
abandon(k) ==
    /\ ~Idle(k) /\ op[k].reply = NoReply
    /\ Unsend(k) /\ Unpend(k) /\ Unwait(k)
    /\ Become(k, NoOp)
    /\ UNCHANGED <<stopped, connected_peers, chanVars, swarmVars>>

stage_times_out(k) == op[k].name = "stage" /\ abandon(k)

-----------------------------------------------------------------------------

(* The task that owns the swarm. *)

\* A handler's last act: tell the application, and wait while the channel is full.
Emit ==
    IF rx = "dropped" THEN UNCHANGED chanVars
    ELSE IF events < EventCap THEN events' = events + 1 /\ UNCHANGED <<loop, rx>>
    ELSE loop' = "blocked" /\ UNCHANGED <<rx, events>>

unblock ==
    /\ loop = "blocked"
    /\ \/ rx = "dropped" /\ UNCHANGED events
       \/ rx # "dropped" /\ events < EventCap /\ events' = events + 1
    /\ loop' = "run"
    /\ UNCHANGED <<stopped, rx, cmds, connected_peers, pending, waiters, op, swarmVars>>

connection_established(p) ==
    /\ loop = "run" /\ SumFunction(conns) < MaxConn
    /\ conns' = [conns EXCEPT ![p] = @ + 1]
    /\ connected_peers' = connected_peers \cup {p}
    /\ Emit
    /\ UNCHANGED <<stopped, cmds, sent, queries, pending, waiters, op>>

\* n connections remain.
Untracked(p, n) == IF n = 0 THEN connected_peers \ {p} ELSE connected_peers

connection_closed(p) ==
    /\ loop = "run" /\ conns[p] > 0
    /\ conns' = [conns EXCEPT ![p] = @ - 1]
    /\ connected_peers' = Untracked(p, conns[p] - 1)
    /\ Emit
    /\ UNCHANGED <<stopped, cmds, sent, queries, pending, waiters, op>>

found_providers(c, ps) ==
    /\ loop = "run" /\ c \in queries
    /\ Deliver(UNION {waiters[d] : d \in Keyed(c)}, [NoReply EXCEPT !.kind = "providers", !.peers = ps])
    /\ Unlist(c)
    /\ Emit
    /\ UNCHANGED <<stopped, cmds, connected_peers, pending, swarmVars>>

\* The query fails or is over: the handler only logs.  Another query for the same
\* CID may still be under way.
query_ended(c) ==
    /\ loop = "run" /\ c \in queries
    /\ queries' \in {queries, queries \ {c}}
    /\ UNCHANGED <<stopped, cmds, conns, sent, connected_peers, pending, waiters, op, chanVars>>

\* Mutant: the bytes are not hashed.
VerifiedAny(c, cids) == [NoReply EXCEPT !.kind = "block", !.cids = {c}]
\* The answer to a request: its bytes must hash to the CID that was asked for.
Verified(c, cids) ==
    IF c \in cids THEN [NoReply EXCEPT !.kind = "block", !.cids = {c}] ELSE Failed

Settle(i, r) ==
    /\ loop = "run" /\ i \in sent
    /\ sent' = sent \ {i}
    /\ IF i \in DOMAIN pending
       THEN /\ Deliver(pending[i].to, r)
            /\ pending' = [j \in DOMAIN pending \ {i} |-> pending[j]]
       ELSE UNCHANGED <<op, pending>>
    /\ UNCHANGED <<stopped, cmds, conns, queries, connected_peers, waiters, chanVars>>

\* A block with the content of c (NotFound and TooLarge are failures).
fetch_response(i, c) == i \in DOMAIN pending /\ pending[i].cids # {} /\ Settle(i, Verified(c, pending[i].cids))
stage_response(i) == i \in DOMAIN pending /\ pending[i].cids = {} /\ Settle(i, [NoReply EXCEPT !.kind = "answer"])
\* Mutant: a failed request falls through to the last arm.
outbound_failureIgnored(i) ==
    /\ loop = "run" /\ i \in sent
    /\ sent' = sent \ {i}
    /\ UNCHANGED <<stopped, cmds, conns, queries, connected_peers, pending, waiters, op, chanVars>>
outbound_failure(i) == Settle(i, Failed)

\* Identify, listen addresses, mDNS, gossip, failed connections: an event for the application.
other_event ==
    /\ loop = "run" /\ Emit
    /\ UNCHANGED <<stopped, cmds, connected_peers, pending, waiters, op, swarmVars>>

\* A peer's request for a block, a search or a stage: the task awaits the callback
\* that answers it, and does nothing else meanwhile.
inbound_request ==
    /\ loop = "run" /\ loop' = "serving"
    /\ UNCHANGED <<stopped, rx, events, cmds, connected_peers, pending, waiters, op, swarmVars>>
send_response ==
    /\ loop = "serving" /\ loop' = "run"
    /\ UNCHANGED <<stopped, rx, events, cmds, connected_peers, pending, waiters, op, swarmVars>>

\* The request's id is known before its answer can be.
Request(cmd) ==
    \E i \in Id \ sent :
        /\ \A j \in Id \ sent : i <= j
        /\ sent' = sent \cup {i}
        /\ pending' = [j \in DOMAIN pending \cup {i} |->
                          IF j = i THEN [cids |-> cmd.cids, to |-> cmd.to] ELSE pending[j]]

handle_swarm_command ==
    /\ loop = "run" /\ cmds # <<>>
    /\ LET cmd == Head(cmds) IN
       \/ cmd.name = "GetProviders" /\ queries' = queries \cup cmd.cids /\ UNCHANGED <<sent, pending>>
       \/ cmd.name \in {"FetchBlock", "RunStage"} /\ Request(cmd) /\ UNCHANGED queries
       \/ cmd.name = "Other" /\ UNCHANGED <<queries, sent, pending>>
    /\ cmds' = Tail(cmds)
    /\ UNCHANGED <<stopped, conns, connected_peers, waiters, op, chanVars>>

\* The task ends; the swarm, the pending maps and the channel go with it, and with
\* them the senders they hold.
Senders == (UNION {cmds[i].to : i \in DOMAIN cmds}) \cup (UNION {pending[i].to : i \in DOMAIN pending})

\* Mutant: the channel of commands ends with commands in it that nobody drops.
shutdownSilent ==
    /\ loop = "run" /\ stopped
    /\ loop' = "ended"
    /\ Deliver(UNION {pending[i].to : i \in DOMAIN pending}, Failed)
    /\ cmds' = <<>> /\ pending' = <<>>
    /\ conns' = [p \in Peer |-> 0] /\ sent' = {} /\ queries' = {}
    /\ UNCHANGED <<stopped, rx, events, connected_peers, waiters>>
shutdown ==
    /\ loop = "run" /\ stopped
    /\ loop' = "ended"
    /\ Deliver(Senders, Failed)
    /\ cmds' = <<>> /\ pending' = <<>>
    /\ conns' = [p \in Peer |-> 0] /\ sent' = {} /\ queries' = {}
    /\ UNCHANGED <<stopped, rx, events, connected_peers, waiters>>

-----------------------------------------------------------------------------

OwnerStep == found \/ fetch_block_from_peer \/ fetched \/ find_times_out \/ fetch_times_out

SwarmEvent ==
    \/ \E p \in Peer : connection_established(p) \/ connection_closed(p)
    \/ \E c \in Cid : query_ended(c) \/ \E ps \in SUBSET Peer : found_providers(c, ps)
    \/ other_event \/ inbound_request

Answered(i) == stage_response(i) \/ outbound_failure(i) \/ \E c \in Cid \cup {Junk} : fetch_response(i, c)

Next ==
    \/ \E c \in Cid, of \in {"get", "geo"} : find_providers_await(of, c)
    \/ OwnerStep \/ send_swarm_cmd \/ take_event_receiver \/ recv \/ stop
    \/ \E k \in Stager : staged(k) \/ stage_times_out(k) \/ \E p \in Peer : run_stage(k, p)
    \/ \E k \in Caller : abandon(k)
    \/ SwarmEvent \/ (\E i \in Id : Answered(i))
    \/ handle_swarm_command \/ unblock \/ send_response \/ shutdown

Spec == Init /\ [][Next]_vars

\* Timers fire and tasks run.  select! chooses among its ready branches at random:
\* none is passed over for ever.  The swarm settles every request it is polled for
\* (its own timeout is 30 seconds).  The callbacks return: the Node's reads its store.
Fairness ==
    /\ WF_vars(OwnerStep) /\ WF_vars(recv) /\ WF_vars(unblock) /\ WF_vars(send_response)
    /\ \A k \in Stager : WF_vars(staged(k) \/ stage_times_out(k))
    /\ SF_vars(handle_swarm_command) /\ SF_vars(shutdown)
    /\ \A i \in Id : SF_vars(Answered(i))

FairSpec == Spec /\ Fairness

-----------------------------------------------------------------------------

InChannel(k) == {i \in DOMAIN cmds : k \in cmds[i].to}
InPending(k) == {i \in DOMAIN pending : k \in pending[i].to}

\* Whoever waits for a reply has one, or one sender of it is where an answer will
\* find it; and a call that is over left no sender behind that could answer the
\* next one.  (the oneshot channels of fetch_block_from_peer, run_stage and
\* find_providers_await against the pending maps, across timeouts, dropped calls
\* and the shutdown)
NobodyForgotten ==
    \A k \in Caller :
        LET senders == Cardinality(InChannel(k)) + Cardinality(InPending(k))
            listed  == {c \in Cid : k \in waiters[c]}
        IN /\ senders = IF op[k].name \in {"fetch", "stage"} /\ op[k].reply = NoReply THEN 1 ELSE 0
           /\ listed = IF op[k].name = "find" /\ op[k].reply = NoReply THEN op[k].cids ELSE {}

\* A pending entry exists exactly as long as the swarm owes an answer for it: late
\* answers, timeouts and failures leave none behind.  (handle_swarm_event and
\* handle_swarm_command)
PendingIsOwed == DOMAIN pending = sent

\* A block that is handed to a caller is the one the call is about, whatever the
\* peer sent and however late.  (handle_swarm_event, the hash of the response)
BlocksAreOwn == \A k \in Caller : op[k].reply.kind = "block" => op[k].name = "fetch" /\ op[k].reply.cids = op[k].cids

\* connected_peers is the set of peers with a connection, also when a peer had
\* several.  (handle_swarm_event, num_established)
ConnectedIsTrue == loop # "ended" => connected_peers = {p \in Peer : conns[p] > 0}

\* The task waits for room in a channel nobody reads.
Stalled == loop = "blocked" /\ rx = "held" /\ events = EventCap

\* A request is settled unless the task stalls on an event channel that nobody
\* reads; a consumer of the events is enough.  (start, event_tx.send().await)
RequestsSettle == \A i \in Id : i \in sent ~> (i \notin sent \/ Stalled)

\* A stopped node's task ends, even when it stood still on a full event channel.
\* (Node::stop, shutdown_rx and the receiver that is dropped with the node)
StopEnds == stopped ~> loop = "ended"

\* `The reply is delivered once the response arrives or the request fails.'
RepliesDelivered == \A i \in Id : i \in sent ~> i \notin sent

\* `Sender was dropped without sending (e.g. query failed)': nobody waits for
\* providers when no query is to come or under way.
FailedQueryWakes ==
    op[Owner].name = "find" /\ op[Owner].reply = NoReply =>
        op[Owner].cids \subseteq queries \cup UNION {cmds[i].cids : i \in DOMAIN cmds}

=============================================================================
