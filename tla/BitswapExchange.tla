---------------------------- MODULE BitswapExchange ----------------------------
(***************************************************************************)
(* The block exchange: crates/ipfrs-transport/src/bitswap.rs,              *)
(* BitswapExchange, over its peers.                                        *)
(*                                                                         *)
(* The want list, the peers and the pending requests have a lock each; a   *)
(* step is one acquisition, or the awaited put of receive_block.  Of the   *)
(* want list only its members are kept: what order it serves them in is    *)
(* the subject of WantList, and when a want expires is left open.          *)
(*                                                                         *)
(* The exchange sends nothing itself.  Its user is external: it takes a    *)
(* wanted block, or pops one, asks the peers selected for it and then      *)
(* calls mark_request_sent; it passes on the answers, and gives up on an   *)
(* answer that does not come, which may come all the same.                 *)
(***************************************************************************)
EXTENDS PeerManager

CONSTANTS User, Receiver,         \* threads that ask for blocks, and that pass on answers
          max_wants,
          max_peers_per_request,  \* peers asked at a time (3)
          MaxOwed                 \* bound: answers one peer owes for one block

Task == User \cup Receiver

ASSUME ExchangeAssumption ==
    /\ IsFiniteSet(User) /\ IsFiniteSet(Receiver)
    /\ {max_wants, max_peers_per_request, MaxOwed} \subseteq Nat

VARIABLES wants,   \* the CIDs of the want list
          pending, \* the keys of pending_requests
          store,   \* the blocks in the store
          owed,    \* network: [Cid \X Peer -> answers under way]
          call,    \* [Task -> the call in progress]
          asked,   \* history: wants accepted and not since served, cancelled, popped or expired
          leaky    \* history: peers whose request ended without a slot given back

vars == <<peerVars, wants, pending, store, owed, call, asked, leaky>>

\* to is whom mark_request_sent has still to mark, or who sent the block; late
\* says that the block was deleted after the call stored it.
NoCall == [pc |-> "idle", cids |-> {}, to |-> {}, late |-> FALSE]
Idle(t) == call[t].pc = "idle"
At(t, pc, c) == call[t].pc = pc /\ call[t].cids = {c}
Points == {"idle", "contains", "providers", "peers", "mark", "put", "success", "has", "unwant", "unpend"}

TypeOK ==
    /\ PeersTypeOK
    /\ wants \subseteq Cid /\ Cardinality(wants) <= max_wants
    /\ pending \subseteq Cid /\ store \subseteq Cid /\ asked \subseteq Cid /\ leaky \subseteq Peer
    /\ owed \in [Cid \X Peer -> 0 .. MaxOwed]
    /\ call \in [Task -> [pc : Points, cids : SUBSET Cid, to : SUBSET Peer, late : BOOLEAN]]

Init ==
    /\ PeersInit
    /\ wants = {} /\ pending = {} /\ store = {} /\ asked = {} /\ leaky = {}
    /\ owed = [r \in Cid \X Peer |-> 0]
    /\ call = [t \in Task |-> NoCall]

Begin(t, pc, cids, to) == Idle(t) /\ call' = [call EXCEPT ![t] = [pc |-> pc, cids |-> cids, to |-> to, late |-> FALSE]]
GoTo(t, pc) == call' = [call EXCEPT ![t].pc = pc]
Return(t) == call' = [call EXCEPT ![t] = NoCall]
Forget(cids) == wants' = wants \ cids /\ asked' = asked \ cids

-----------------------------------------------------------------------------
(* Wants *)

\* add_simple; when it refuses, want looks why.
want(t, c) ==
    /\ Idle(t)
    /\ IF c \notin wants /\ Cardinality(wants) < max_wants
       THEN wants' = wants \cup {c} /\ asked' = asked \cup {c} /\ UNCHANGED call
       ELSE Begin(t, "contains", {c}, {}) /\ UNCHANGED <<wants, asked>>
    /\ UNCHANGED <<peerVars, pending, store, owed, leaky>>

\* Already wanted (the priority is updated), or an error.
want_contains(t, c) ==
    /\ At(t, "contains", c)
    /\ asked' = IF c \in wants THEN asked \cup {c} ELSE asked
    /\ Return(t)
    /\ UNCHANGED <<peerVars, wants, pending, store, owed, leaky>>

cancel_want(t, c) ==
    /\ Begin(t, "unpend", {c}, {}) /\ Forget({c})
    /\ UNCHANGED <<peerVars, pending, store, owed, leaky>>
cleanup(t, expired) ==
    /\ Begin(t, "unpend", expired, {}) /\ Forget(expired)
    /\ UNCHANGED <<peerVars, pending, store, owed, leaky>>
unpend(t) ==
    /\ call[t].pc = "unpend"
    /\ pending' = pending \ call[t].cids
    /\ Return(t)
    /\ UNCHANGED <<peerVars, wants, store, owed, asked, leaky>>

-----------------------------------------------------------------------------
(* Requests *)

\* The user takes a block of get_wanted_cids, or pops one with next_want.
request(t, c) ==
    /\ c \in wants
    /\ Begin(t, "providers", {c}, {})
    /\ UNCHANGED <<peerVars, wants, pending, store, owed, asked, leaky>>
next_want(t, c) ==
    /\ c \in wants
    /\ Begin(t, "providers", {c}, {}) /\ Forget({c})
    /\ UNCHANGED <<peerVars, pending, store, owed, leaky>>

\* The requests go out.
Send(t, c, selected) ==
    /\ \A p \in selected : owed[<<c, p>>] < MaxOwed
    /\ owed' = [r \in Cid \X Peer |-> IF r[1] = c /\ r[2] \in selected THEN owed[r] + 1 ELSE owed[r]]
    /\ call' = [call EXCEPT ![t].pc = "mark", ![t].to = selected]

\* select_peers_for_request: peers that have the block, or else any that might.
select_providers_first(t, c) ==
    /\ At(t, "providers", c)
    /\ \E selected \in select_providers(c, max_peers_per_request) :
         IF selected = {} THEN GoTo(t, "peers") /\ UNCHANGED owed ELSE Send(t, c, selected)
    /\ UNCHANGED <<peerVars, wants, pending, store, asked, leaky>>
select_any(t, c) ==
    /\ At(t, "peers", c)
    /\ \E selected \in select_peers(c, max_peers_per_request) :
         IF selected = {} THEN Return(t) /\ UNCHANGED owed ELSE Send(t, c, selected)
    /\ UNCHANGED <<peerVars, wants, pending, store, asked, leaky>>

\* mark_request_sent: the peers one by one, then the pending request.
mark_peer(t, p) ==
    /\ call[t].pc = "mark" /\ p \in call[t].to
    /\ mark_request_sent(p)
    /\ call' = [call EXCEPT ![t].to = @ \ {p}]
    /\ UNCHANGED <<wants, pending, store, owed, asked, leaky>>
mark_pending(t) ==
    /\ call[t].pc = "mark" /\ call[t].to = {}
    /\ pending' = pending \cup call[t].cids
    /\ Return(t)
    /\ UNCHANGED <<peerVars, wants, store, owed, asked, leaky>>

-----------------------------------------------------------------------------
(* Answers *)

Answered(c, p) == owed[<<c, p>>] > 0 /\ owed' = [owed EXCEPT ![<<c, p>>] = @ - 1]

\* The answer to a request that is not yet marked finds no slot to give back.
Early(c, p) == \E t \in Task : At(t, "mark", c) /\ p \in call[t].to

\* A block that was asked for, or that comes unasked.
receive_block(t, c, p) ==
    /\ Begin(t, "put", {c}, {p})
    /\ \/ Answered(c, p) /\ leaky' = leaky \cup {q \in {p} : Early(c, q)}
       \/ UNCHANGED <<owed, leaky>>
    /\ UNCHANGED <<peerVars, wants, pending, store, asked>>

\* Mutant: the want goes although the store has refused the block.
put_failsUnwants(t, c) ==
    /\ At(t, "put", c)
    /\ Return(t) /\ leaky' = leaky \cup call[t].to /\ wants' = wants \ {c}
    /\ UNCHANGED <<peerVars, pending, store, owed, asked>>

\* The store takes the block, or the call ends with its error.
put_fails(t, c) ==
    /\ At(t, "put", c)
    /\ Return(t) /\ leaky' = leaky \cup call[t].to
    /\ UNCHANGED <<peerVars, wants, pending, store, owed, asked>>
put_block(t, c) ==
    /\ At(t, "put", c)
    /\ store' = store \cup {c} /\ GoTo(t, "success")
    /\ UNCHANGED <<peerVars, wants, pending, owed, asked, leaky>>
receive_success(t, c) ==
    /\ At(t, "success", c)
    /\ \E p \in call[t].to : record_success(p)
    /\ GoTo(t, "has")
    /\ UNCHANGED <<wants, pending, store, owed, asked, leaky>>
receive_has(t, c) ==
    /\ At(t, "has", c)
    /\ \E p \in call[t].to : record_has(p, c)
    /\ GoTo(t, "unwant")
    /\ UNCHANGED <<wants, pending, store, owed, asked, leaky>>
receive_unwant(t, c) ==
    /\ At(t, "unwant", c)
    /\ wants' = wants \ {c}
    /\ asked' = IF call[t].late THEN asked \ {c} ELSE asked
    /\ GoTo(t, "unpend")
    /\ UNCHANGED <<peerVars, pending, store, owed, leaky>>

\* The request failed, or its user gives up while the answer is still under way.
fail(c, p) ==
    /\ owed[<<c, p>>] > 0
    /\ \/ Answered(c, p) /\ leaky' = leaky \cup {q \in {p} : Early(c, q)}
       \/ UNCHANGED <<owed, leaky>>
    /\ record_failure(p)
    /\ UNCHANGED <<wants, pending, store, call, asked>>

\* HAVE comes any time; DONT_HAVE is an answer, and gives no slot back.
record_have(p, c) ==
    record_has(p, c) /\ UNCHANGED <<wants, pending, store, owed, call, asked, leaky>>
record_dont_have(p, c) ==
    /\ Answered(c, p) /\ record_doesnt_have(p, c) /\ leaky' = leaky \cup {p}
    /\ UNCHANGED <<wants, pending, store, call, asked>>

-----------------------------------------------------------------------------

\* A fresh entry of a peer has its slots, except for requests still to be marked.
connect(p) ==
    /\ add_peer(p)
    /\ leaky' = leaky \ {q \in {p} : \A t \in Task : q \notin call[t].to \/ call[t].pc # "mark"}
    /\ UNCHANGED <<wants, pending, store, owed, call, asked>>
disconnect(p) == Known(p) /\ remove_peer(p) /\ UNCHANGED <<wants, pending, store, owed, call, asked, leaky>>
pardon(p) == ban_ends(p) /\ UNCHANGED <<wants, pending, store, owed, call, asked, leaky>>
\* Blocks are deleted by others.
delete(c) ==
    /\ c \in store /\ store' = store \ {c}
    /\ asked' = IF c \in wants THEN asked ELSE asked \ {c}
    /\ call' = [t \in Task |-> IF call[t].pc \in {"success", "has", "unwant"} /\ call[t].cids = {c}
                               THEN [call[t] EXCEPT !.late = TRUE] ELSE call[t]]
    /\ UNCHANGED <<peerVars, wants, pending, owed, leaky>>

Step(t) ==
    \/ \E c \in Cid : \/ want_contains(t, c) \/ select_providers_first(t, c) \/ select_any(t, c)
                      \/ put_block(t, c) \/ put_fails(t, c)
                      \/ receive_success(t, c) \/ receive_has(t, c) \/ receive_unwant(t, c)
    \/ \E p \in Peer : mark_peer(t, p)
    \/ mark_pending(t) \/ unpend(t)

Refusal == \E c \in Cid, p \in Peer : fail(c, p) \/ record_dont_have(p, c)

Next ==
    \/ \E t \in User :
         \/ \E c \in Cid : want(t, c) \/ cancel_want(t, c) \/ request(t, c) \/ next_want(t, c)
         \/ \E expired \in SUBSET wants : cleanup(t, expired)
    \/ \E t \in Receiver, c \in Cid, p \in Peer : receive_block(t, c, p)
    \/ \E t \in Task : Step(t)
    \/ Refusal
    \/ \E c \in Cid, p \in Peer : record_have(p, c)
    \/ \E p \in Peer : connect(p) \/ disconnect(p) \/ pardon(p)
    \/ \E c \in Cid : delete(c)

Spec == Init /\ [][Next]_vars

\* Calls go on; the user asks for every wanted block again and again, and passes
\* on every answer.
FairSpec ==
    /\ Spec
    /\ \A t \in Task : WF_vars(Step(t))
    /\ \A c \in Cid : SF_vars(\E t \in User : request(t, c))
    /\ \A c \in Cid, p \in Peer : SF_vars(\E t \in Receiver : receive_block(t, c, p) /\ Answered(c, p))

-----------------------------------------------------------------------------

\* A want stays in the list until its block is in the store, unless somebody
\* takes it back, or deletes the block while the call that stored it is still
\* running.  (bitswap.rs, want against receive_block and its early return)
WantsStay == asked \subseteq wants \cup store

\* The answers of p that are under way, and those that receive_block handles.
Outstanding(p) ==
    Cardinality({r \in Cid \X (1 .. MaxOwed) : r[2] <= owed[<<r[1], p>>]})
        + Cardinality({t \in Task : call[t].pc \in {"put", "success"} /\ p \in call[t].to})

\* A peer has a slot taken only for an answer it owes, unless it said DONT_HAVE,
\* answered before its request was marked, or sent a block the store refused.
\* (bitswap.rs, mark_request_sent against receive_block and record_failure)
SlotsAreOwed == \A p \in Peer \ leaky : Known(p) => peers[p].active_requests <= Outstanding(p)

\* Without exception: the number of active requests to this peer.
SlotsComeBack ==
    (\A t \in Task : Idle(t)) => \A p \in Peer : Known(p) => peers[p].active_requests <= Outstanding(p)

\* A peer's limit is passed only by requests that were selected at one time: by
\* fewer than there are users.  (peer_manager.rs, can_accept_request against
\* mark_request_sent)
LimitNearlyHolds ==
    \A p \in Peer : Known(p) => peers[p].active_requests < max_concurrent + Cardinality(User)

\* A request is pending only for a block that is wanted or asked for.
PendingIsWanted ==
    (\A t \in Task : Idle(t)) =>
        \A c \in pending : c \in wants \/ \E p \in Peer : owed[<<c, p>>] > 0

\* want fails with "Want list full" only when the list is full.
FullMeansFull ==
    [][\A t \in Task, c \in Cid : want_contains(t, c) /\ c \notin wants => Cardinality(wants) >= max_wants]_vars

\* From some time on every answer is a block that the store takes.
Served == <>[][~Refusal /\ ~\E t \in Task, c \in Cid : put_fails(t, c)]_vars

\* A wanted block arrives or is taken back, if there is always a peer that may be
\* asked for it and every answer is a block.  (bitswap.rs,
\* select_peers_for_request and receive_block)
WantsServed ==
    \A c \in Cid :
        Served /\ <>[](\E p \in Peer : can_accept_request(p) /\ might_have(p, c)) => []<>(c \notin wants)

=============================================================================
