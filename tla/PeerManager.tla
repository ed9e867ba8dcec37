------------------------------ MODULE PeerManager ------------------------------
(***************************************************************************)
(* The peers of the exchange: crates/ipfrs-transport/src/peer_manager.rs,  *)
(* PeerManager.                                                            *)
(*                                                                         *)
(* ConcurrentPeerManager takes one lock around each call, so a call is one *)
(* step.  Scores are floating-point numbers: the order they give is any    *)
(* order, and a failure may take a score below the least one allowed.  A   *)
(* ban ends at a time of its own.  The exchange never changes `connected'. *)
(***************************************************************************)
EXTENDS Naturals, FiniteSets

CONSTANTS Peer, Cid,
          max_concurrent,  \* requests a peer may have (16)
          max_failures     \* failures in a row before a ban (10)

ASSUME PeerAssumption ==
    /\ IsFiniteSet(Peer) /\ IsFiniteSet(Cid)
    /\ {max_concurrent, max_failures} \subseteq Nat \ {0}

VARIABLES peers,     \* [Peer -> its PeerState, or Unknown]
          blacklist  \* the peers with a ban that has not ended

peerVars == <<peers, blacklist>>

\* what tells which blocks the peer has and has not.
PeerState == [active_requests : Nat, consecutive_failures : Nat, has_cids : SUBSET Cid, doesnt_have_cids : SUBSET Cid]
New == [active_requests |-> 0, consecutive_failures |-> 0, has_cids |-> {}, doesnt_have_cids |-> {}]
Unknown == [New EXCEPT !.consecutive_failures = max_failures]
Known(p) == peers[p] # Unknown

PeersTypeOK ==
    /\ peers \in [Peer -> PeerState] /\ blacklist \subseteq Peer
    /\ \A p \in Peer : /\ p \in blacklist => ~Known(p)
                       /\ Known(p) => peers[p].consecutive_failures < max_failures
                       /\ peers[p].has_cids \cap peers[p].doesnt_have_cids = {}

PeersInit == peers = [p \in Peer |-> New] /\ blacklist = {}

Update(p, s) == peers' = IF Known(p) THEN [peers EXCEPT ![p] = s] ELSE peers
OneLess(n) == IF n = 0 THEN 0 ELSE n - 1

-----------------------------------------------------------------------------

add_peer(p) ==
    /\ p \notin blacklist /\ ~Known(p)
    /\ peers' = [peers EXCEPT ![p] = New] /\ UNCHANGED blacklist
remove_peer(p) == peers' = [peers EXCEPT ![p] = Unknown] /\ UNCHANGED blacklist

\* Mutant: the slot is not given back.
record_successKeeps(p) ==
    Update(p, [peers[p] EXCEPT !.consecutive_failures = 0]) /\ UNCHANGED blacklist

record_success(p) ==
    /\ Update(p, [peers[p] EXCEPT !.consecutive_failures = 0, !.active_requests = OneLess(@)])
    /\ UNCHANGED blacklist

blacklist_peer(p) == peers' = [peers EXCEPT ![p] = Unknown] /\ blacklist' = blacklist \cup {p}

\* A ban for the failures in a row, or for the score.
record_failure(p) ==
    LET s == [peers[p] EXCEPT !.consecutive_failures = @ + 1, !.active_requests = OneLess(@)] IN
    \/ ~Known(p) /\ UNCHANGED peerVars
    \/ Known(p) /\ s.consecutive_failures < max_failures /\ Update(p, s) /\ UNCHANGED blacklist
    \/ Known(p) /\ blacklist_peer(p)

ban_ends(p) == p \in blacklist /\ blacklist' = blacklist \ {p} /\ UNCHANGED peers

record_has(p, c) ==
    /\ Update(p, [peers[p] EXCEPT !.has_cids = @ \cup {c}, !.doesnt_have_cids = @ \ {c}])
    /\ UNCHANGED blacklist
record_doesnt_have(p, c) ==
    /\ Update(p, [peers[p] EXCEPT !.doesnt_have_cids = @ \cup {c}, !.has_cids = @ \ {c}])
    /\ UNCHANGED blacklist

mark_request_sent(p) == Update(p, [peers[p] EXCEPT !.active_requests = @ + 1]) /\ UNCHANGED blacklist

-----------------------------------------------------------------------------

\* Mutant: one request too many.
can_accept_requestMore(p) == Known(p) /\ peers[p].active_requests <= max_concurrent

can_accept_request(p) == Known(p) /\ peers[p].active_requests < max_concurrent
might_have(p, c) == c \notin peers[p].doesnt_have_cids
has(p, c) == c \in peers[p].has_cids

\* The best `count' of S in an order that may be any.
Best(S, count) ==
    {T \in SUBSET S : Cardinality(T) = IF Cardinality(S) < count THEN Cardinality(S) ELSE count}

select_providers(c, count) == Best({p \in Peer : can_accept_request(p) /\ has(p, c)}, count)

\* Mutant: a peer is asked only for what it is known to have.
select_peersSure(c, count) == Best({p \in Peer : can_accept_request(p) /\ has(p, c)}, count)

select_peers(c, count) == Best({p \in Peer : can_accept_request(p) /\ might_have(p, c)}, count)

=============================================================================
