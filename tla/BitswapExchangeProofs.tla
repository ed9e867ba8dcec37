------------------------- MODULE BitswapExchangeProofs -------------------------
(***************************************************************************)
(* The exchange drops no want before its block is stored, keeps a peer's   *)
(* slot only for an answer that is owed, and passes a peer's limit by fewer *)
(* requests than there are users: for any number of blocks, peers, users   *)
(* and receivers and any limits.                                           *)
(***************************************************************************)
EXTENDS BitswapExchange, FiniteSetTheorems, TLAPS

\* Where receive_block is between storing its block and removing the want.
Storing == {"success", "has", "unwant"}

\* A call that has stored its block still finds it stored, unless it was told
\* that the block was deleted.
StoredInv ==
    \A t \in Task : call[t].pc \in Storing =>
        \E c \in Cid : call[t].cids = {c} /\ (c \in store \/ call[t].late)

CallType == call \in [Task -> [pc : Points, cids : SUBSET Cid, to : SUBSET Peer, late : BOOLEAN]]

WantsInv == CallType /\ wants \subseteq Cid /\ StoredInv /\ WantsStay

LEMMA InitWantsInv == Init => WantsInv
BY DEF Init, WantsInv, CallType, StoredInv, WantsStay, NoCall, Points, Storing

\* Steps of the peers and the network alone.
LEMMA QuietStep ==
    ASSUME WantsInv, UNCHANGED <<wants, asked, store, call>>
    PROVE  WantsInv'
BY DEF WantsInv, CallType, StoredInv, WantsStay

\* The calls that begin and end with the want list.
LEMMA UserStep ==
    ASSUME WantsInv, NEW t \in Task, NEW c \in Cid,
           want(t, c) \/ want_contains(t, c) \/ cancel_want(t, c) \/ next_want(t, c) \/ request(t, c)
    PROVE  WantsInv'
<1> USE DEF WantsInv, CallType, StoredInv, WantsStay, Points, Storing, Begin, Return, NoCall, Idle, At, Forget
<1>1. CASE want(t, c)
  <2>1. CASE c \notin wants /\ Cardinality(wants) < max_wants
    BY <1>1, <2>1 DEF want
  <2>2. CASE ~(c \notin wants /\ Cardinality(wants) < max_wants)
    <3>1. call' = [call EXCEPT ![t] = [pc |-> "contains", cids |-> {c}, to |-> {}, late |-> FALSE]]
      BY <1>1, <2>2 DEF want
    <3>2. UNCHANGED <<wants, asked, store>>
      BY <1>1, <2>2 DEF want
    <3>3. QED
      BY <3>1, <3>2
  <2>3. QED
    BY <2>1, <2>2
<1>2. CASE want_contains(t, c)
  BY <1>2 DEF want_contains
<1>3. CASE cancel_want(t, c)
  BY <1>3 DEF cancel_want
<1>4. CASE next_want(t, c)
  BY <1>4 DEF next_want
<1>5. CASE request(t, c)
  BY <1>5 DEF request
<1>6. QED
  BY <1>1, <1>2, <1>3, <1>4, <1>5

LEMMA CleanupStep ==
    ASSUME WantsInv, NEW t \in Task, NEW expired \in SUBSET wants, cleanup(t, expired)
    PROVE  WantsInv'
BY DEF WantsInv, CallType, StoredInv, WantsStay, Points, Storing, Begin, Idle, Forget, cleanup

\* Peers are selected and asked, and their requests marked.
LEMMA AskStep ==
    ASSUME WantsInv, NEW t \in Task, UNCHANGED <<wants, asked, store>>,
           NEW pc \in Points \ Storing, NEW to \in SUBSET Peer,
           \/ call' = [call EXCEPT ![t] = NoCall]
           \/ call' = [call EXCEPT ![t].pc = pc]
           \/ call' = [call EXCEPT ![t].pc = pc, ![t].to = to]
    PROVE  WantsInv'
<1>1. NoCall \in [pc : Points, cids : SUBSET Cid, to : SUBSET Peer, late : BOOLEAN] /\ NoCall.pc \notin Storing
  BY DEF NoCall, Points, Storing
<1>2. CallType'
  BY <1>1 DEF WantsInv, CallType
<1>3. StoredInv'
  BY <1>1 DEF WantsInv, CallType, StoredInv
<1>4. QED
  BY <1>2, <1>3 DEF WantsInv, WantsStay

LEMMA RequestStep ==
    ASSUME WantsInv, NEW t \in Task, NEW c \in Cid,
           select_providers_first(t, c) \/ select_any(t, c)
    PROVE  WantsInv'
<1>1. {"peers", "mark"} \subseteq Points \ Storing
  BY DEF Points, Storing
<1>2. CASE select_providers_first(t, c)
  <2>1. PICK selected \in SUBSET Peer :
             IF selected = {} THEN GoTo(t, "peers") ELSE Send(t, c, selected)
    BY <1>2 DEF select_providers_first, select_providers, Best
  <2>2. UNCHANGED <<wants, asked, store>>
    BY <1>2 DEF select_providers_first
  <2>3. QED
    BY <1>1, <2>1, <2>2, AskStep DEF GoTo, Send
<1>3. CASE select_any(t, c)
  <2>1. PICK selected \in SUBSET Peer :
             IF selected = {} THEN Return(t) ELSE Send(t, c, selected)
    BY <1>3 DEF select_any, select_peers, Best
  <2>2. UNCHANGED <<wants, asked, store>>
    BY <1>3 DEF select_any
  <2>3. QED
    BY <1>1, <2>1, <2>2, AskStep DEF Return, Send
<1>4. QED
  BY <1>2, <1>3

LEMMA MarkStep ==
    ASSUME WantsInv, NEW t \in Task,
           mark_pending(t) \/ unpend(t) \/ \E p \in Peer : mark_peer(t, p)
    PROVE  WantsInv'
<1> USE DEF WantsInv, CallType, StoredInv, WantsStay, Points, Storing, Return, NoCall
<1>1. CASE mark_pending(t)
  BY <1>1 DEF mark_pending
<1>2. CASE unpend(t)
  BY <1>2 DEF unpend
<1>3. CASE \E p \in Peer : mark_peer(t, p)
  BY <1>3 DEF mark_peer
<1>4. QED
  BY <1>1, <1>2, <1>3

\* receive_block: the block is stored before the want goes.
LEMMA ReceiveStep ==
    ASSUME WantsInv, NEW t \in Task, NEW c \in Cid,
           \/ put_block(t, c) \/ put_fails(t, c) \/ receive_success(t, c) \/ receive_has(t, c)
           \/ receive_unwant(t, c) \/ \E p \in Peer : receive_block(t, c, p)
    PROVE  WantsInv'
<1> USE DEF WantsInv, CallType, StoredInv, WantsStay, Points, Storing, GoTo, Return, NoCall, At, Begin, Idle
<1>1. CASE put_block(t, c)
  BY <1>1 DEF put_block
<1>2. CASE put_fails(t, c)
  BY <1>2 DEF put_fails
<1>3. CASE receive_success(t, c)
  BY <1>3 DEF receive_success
<1>4. CASE receive_has(t, c)
  BY <1>4 DEF receive_has
<1>5. CASE receive_unwant(t, c)
  BY <1>5 DEF receive_unwant
<1>6. CASE \E p \in Peer : receive_block(t, c, p)
  BY <1>6 DEF receive_block
<1>7. QED
  BY <1>1, <1>2, <1>3, <1>4, <1>5, <1>6

\* A deletion tells every call that has stored the block.
LEMMA DeleteStep ==
    ASSUME WantsInv, NEW c \in Cid, delete(c)
    PROVE  WantsInv'
<1> USE DEF WantsInv, Storing
<1>1. CallType' /\ wants' \subseteq Cid
  BY DEF delete, CallType
<1>2. StoredInv'
  <2> SUFFICES ASSUME NEW t \in Task, call'[t].pc \in Storing
               PROVE  \E d \in Cid : call'[t].cids = {d} /\ (d \in store' \/ call'[t].late)
    BY DEF StoredInv
  <2>1. call[t].pc \in Storing /\ call'[t].cids = call[t].cids
    BY DEF delete, CallType
  <2>2. PICK d \in Cid : call[t].cids = {d} /\ (d \in store \/ call[t].late)
    BY <2>1 DEF StoredInv
  <2>3. CASE d = c
    BY <2>1, <2>2, <2>3 DEF delete, CallType
  <2>4. CASE d # c
    BY <2>1, <2>2, <2>4 DEF delete, CallType
  <2>5. QED
    BY <2>3, <2>4
<1>3. WantsStay'
  BY DEF delete, WantsStay
<1>4. QED
  BY <1>1, <1>2, <1>3

LEMMA NextWantsInv == WantsInv /\ [Next]_vars => WantsInv'
<1> SUFFICES ASSUME WantsInv, [Next]_vars PROVE WantsInv'
  OBVIOUS
<1>1. CASE \E t \in User : \/ \E c \in Cid : want(t, c) \/ cancel_want(t, c) \/ request(t, c) \/ next_want(t, c)
                          \/ \E expired \in SUBSET wants : cleanup(t, expired)
  BY <1>1, UserStep, CleanupStep DEF Task
<1>2. CASE \E t \in Receiver, c \in Cid, p \in Peer : receive_block(t, c, p)
  BY <1>2, ReceiveStep DEF Task
<1>3. CASE \E t \in Task : Step(t)
  BY <1>3, UserStep, RequestStep, MarkStep, ReceiveStep DEF Step
<1>4. CASE Refusal
  BY <1>4, QuietStep DEF Refusal, fail, record_dont_have
<1>5. CASE \E c \in Cid, p \in Peer : record_have(p, c)
  BY <1>5, QuietStep DEF record_have
<1>6. CASE \E p \in Peer : connect(p) \/ disconnect(p) \/ pardon(p)
  BY <1>6, QuietStep DEF connect, disconnect, pardon
<1>7. CASE \E c \in Cid : delete(c)
  BY <1>7, DeleteStep
<1>8. CASE UNCHANGED vars
  BY <1>8, QuietStep DEF vars
<1>9. QED
  BY <1>1, <1>2, <1>3, <1>4, <1>5, <1>6, <1>7, <1>8 DEF Next

\* A want is dropped only once its block is stored, unless it is taken back or
\* the block is deleted under the call that stored it.  (bitswap.rs,
\* receive_block)
THEOREM WantsKept == Spec => []WantsStay
<1>1. WantsInv => WantsStay
  BY DEF WantsInv
<1>2. QED
  BY <1>1, InitWantsInv, NextWantsInv, PTL DEF Spec

-----------------------------------------------------------------------------

(***************************************************************************)
(* Slots.  Of a peer, four things are counted: its active requests, the    *)
(* requests that are sent and still to be marked, the answers it owes, and *)
(* the answers that receive_block handles.                                 *)
(***************************************************************************)
Marking(p) == {t \in Task : call[t].pc = "mark" /\ p \in call[t].to}
Owing(p) == {r \in Cid \X (1 .. MaxOwed) : r[2] <= owed[<<r[1], p>>]}
Handling(p) == {t \in Task : call[t].pc \in {"put", "success"} /\ p \in call[t].to}
Active(p) == peers[p].active_requests

SlotTypes ==
    /\ CallType
    /\ owed \in [Cid \X Peer -> 0 .. MaxOwed]
    /\ peers \in [Peer -> PeerState]
    /\ \A t \in Task : call[t].pc \in {"providers", "peers", "mark"} => t \in User
    /\ \A t \in Task : call[t].pc \in {"put", "success"} => \E p \in Peer : call[t].to = {p}

\* The requests that are still to be marked leave room for themselves: a user
\* selects the peer while it accepts requests, and has one request at a time.
Limit(p) == Known(p) => Active(p) + Cardinality(Marking(p)) < max_concurrent + Cardinality(User)

\* Every request that is still to be marked has an answer of its own to come.
Matched(p) ==
    \E f \in [Marking(p) -> Owing(p)] :
        /\ \A s, t \in Marking(p) : f[s] = f[t] => s = t
        /\ \A t \in Marking(p) : call[t].cids = {f[t][1]}

\* A slot, taken or about to be, stands for an answer.
Balance(p) == Active(p) + Cardinality(Marking(p)) <= Cardinality(Owing(p)) + Cardinality(Handling(p))

PeerInv(p) == Limit(p) /\ (p \notin leaky => Matched(p) /\ Balance(p))

SlotInv == SlotTypes /\ \A p \in Peer : PeerInv(p)

LEMMA SlotCounts ==
    ASSUME SlotTypes, NEW p \in Peer
    PROVE  /\ IsFiniteSet(Marking(p)) /\ IsFiniteSet(Owing(p)) /\ IsFiniteSet(Handling(p))
           /\ Cardinality(Marking(p)) \in Nat /\ Cardinality(Owing(p)) \in Nat /\ Cardinality(Handling(p)) \in Nat
           /\ Cardinality(User) \in Nat /\ Cardinality(Marking(p)) <= Cardinality(User)
           /\ Active(p) \in Nat
           /\ Matched(p) => Cardinality(Marking(p)) <= Cardinality(Owing(p))
<1>1. Marking(p) \in SUBSET User /\ IsFiniteSet(User)
  BY ExchangeAssumption DEF SlotTypes, Marking
<1>2. IsFiniteSet(Marking(p)) /\ Cardinality(Marking(p)) <= Cardinality(User)
  BY <1>1, FS_Subset
<1>3. IsFiniteSet(Task)
  BY ExchangeAssumption, FS_Union DEF Task
<1>4. Handling(p) \in SUBSET Task
  BY DEF Handling
<1>5. IsFiniteSet(Handling(p))
  BY <1>3, <1>4, FS_Subset
<1>6. IsFiniteSet(Cid) /\ IsFiniteSet(1 .. MaxOwed)
  <2>1. MaxOwed \in Int /\ 1 \in Int
    BY ExchangeAssumption
  <2>2. QED
    BY <2>1, PeerAssumption, FS_Interval
<1>7. IsFiniteSet(Cid \X (1 .. MaxOwed))
  BY <1>6, FS_Product
<1>8. Owing(p) \in SUBSET (Cid \X (1 .. MaxOwed))
  BY DEF Owing
<1>9. IsFiniteSet(Owing(p))
  BY <1>7, <1>8, FS_Subset
<1>10. Cardinality(Marking(p)) \in Nat /\ Cardinality(Owing(p)) \in Nat /\ Cardinality(Handling(p)) \in Nat /\ Cardinality(User) \in Nat
  BY <1>1, <1>2, <1>5, <1>9, FS_CardinalityType
<1>11. Active(p) \in Nat
  BY DEF SlotTypes, Active, PeerState
<1>12. ASSUME Matched(p) PROVE Cardinality(Marking(p)) <= Cardinality(Owing(p))
  <2>1. PICK f \in [Marking(p) -> Owing(p)] : \A s, t \in Marking(p) : f[s] = f[t] => s = t
    BY <1>12 DEF Matched
  <2>2. ~(Cardinality(Owing(p)) < Cardinality(Marking(p)))
    BY <1>2, <1>9, <2>1, FS_PigeonHole
  <2>3. QED
    BY <1>10, <2>2
<1>13. QED
  BY <1>2, <1>5, <1>9, <1>10, <1>11, <1>12

Counts ==
    \A p \in Peer :
        /\ IsFiniteSet(Marking(p)) /\ IsFiniteSet(Owing(p)) /\ IsFiniteSet(Handling(p))
        /\ Cardinality(Marking(p)) \in Nat /\ Cardinality(Owing(p)) \in Nat /\ Cardinality(Handling(p)) \in Nat
        /\ Cardinality(Marking(p)) <= Cardinality(User)
        /\ Active(p) \in Nat
        /\ Matched(p) => Cardinality(Marking(p)) <= Cardinality(Owing(p))

LEMMA CountsHold == SlotTypes => Counts
BY SlotCounts DEF Counts

LEMMA CountsHoldNext == SlotTypes' => Counts'
BY CountsHold, PTL

\* The marked requests are where they were, and so are their answers.
SameMarking(p) == Marking(p)' = Marking(p) /\ \A t \in Marking(p) : call'[t].cids = call[t].cids

\* Nothing of the peer grows but the answers in hand.
LEMMA PeerStays ==
    ASSUME SlotTypes, SlotTypes', NEW p \in Peer, PeerInv(p), SameMarking(p), Owing(p)' = Owing(p),
           Active(p)' <= Active(p), Known(p)' => Known(p), p \notin leaky' => p \notin leaky /\ Handling(p) \subseteq Handling(p)'
    PROVE  PeerInv(p)'
<1>1. /\ Cardinality(Marking(p)) \in Nat /\ Cardinality(Owing(p)) \in Nat /\ Cardinality(Handling(p)) \in Nat
      /\ Cardinality(User) \in Nat /\ Active(p) \in Nat /\ max_concurrent \in Nat
  BY SlotCounts, PeerAssumption
<1>2. (/\ IsFiniteSet(Handling(p)) /\ Cardinality(Handling(p)) \in Nat /\ Active(p) \in Nat)'
  BY CountsHoldNext DEF Counts
<1>4. Limit(p)'
  <2>1. Cardinality(Marking(p))' = Cardinality(Marking(p))
    BY DEF SameMarking
  <2>2. QED
    BY <1>1, <1>2, <2>1 DEF PeerInv, Limit
<1>5. ASSUME p \notin leaky' PROVE Matched(p)' /\ Balance(p)'
  <2>0. Cardinality(Handling(p)) <= Cardinality(Handling(p))'
    <3> DEFINE H == Handling(p)'
               G == Handling(p)
    <3>1. IsFiniteSet(H) /\ G \in SUBSET H
      BY <1>2, <1>5
    <3> HIDE DEF G, H
    <3>2. Cardinality(G) <= Cardinality(H)
      BY <3>1, FS_Subset
    <3>3. QED
      BY <3>2 DEF G, H
  <2>1. Matched(p) /\ Balance(p)
    BY <1>5 DEF PeerInv
  <2>2. Matched(p)'
    BY <2>1 DEF Matched, SameMarking
  <2>3. Cardinality(Marking(p))' = Cardinality(Marking(p)) /\ Cardinality(Owing(p))' = Cardinality(Owing(p))
    BY DEF SameMarking
  <2>4. Balance(p)'
    BY <1>1, <1>2, <2>0, <2>1, <2>3 DEF Balance
  <2>5. QED
    BY <2>2, <2>4
<1>6. QED
  BY <1>4, <1>5 DEF PeerInv

-----------------------------------------------------------------------------

(* What the steps of the peer manager do to a peer's count. *)

LEMMA PeerConstants == Unknown \in PeerState /\ New \in PeerState /\ Unknown.active_requests = 0 /\ New.active_requests = 0
BY PeerAssumption DEF Unknown, New, PeerState

\* The count falls, if it changes, and an unknown peer stays unknown.
Falls(p) == Active(p)' <= Active(p) /\ (Known(p)' => Known(p))

\* The count falls by one, or to zero.
GivesBack(p) == Falls(p) /\ (Active(p)' = 0 \/ Active(p)' = Active(p) - 1)

LEMMA UpdateFacts ==
    ASSUME SlotTypes, NEW p \in Peer, NEW s \in PeerState, Update(p, s)
    PROVE  /\ peers' \in [Peer -> PeerState] /\ \A q \in Peer : q # p => peers'[q] = peers[q]
           /\ Known(p) => peers'[p] = s
           /\ ~Known(p) => peers'[p] = peers[p] /\ ~Known(p)'
BY DEF SlotTypes, Update, Known

LEMMA UnchangedFalls ==
    ASSUME SlotTypes, NEW q \in Peer, peers'[q] = peers[q]
    PROVE  Falls(q)
BY SlotCounts DEF Falls, Active, Known

LEMMA RecordFacts ==
    ASSUME SlotTypes, NEW p \in Peer, NEW c \in Cid, record_has(p, c) \/ record_doesnt_have(p, c)
    PROVE  peers' \in [Peer -> PeerState] /\ \A q \in Peer : Falls(q)
<1>1. peers[p] \in PeerState
  BY DEF SlotTypes
<1>2. PICK s \in PeerState : s.active_requests = peers[p].active_requests /\ Update(p, s)
  <2>1. CASE record_has(p, c)
    <3> DEFINE s == [peers[p] EXCEPT !.has_cids = @ \cup {c}, !.doesnt_have_cids = @ \ {c}]
    <3>1. s \in PeerState /\ s.active_requests = peers[p].active_requests
      BY <1>1 DEF PeerState
    <3>2. Update(p, s)
      BY <2>1 DEF record_has
    <3> HIDE DEF s
    <3>3. QED
      BY <3>1, <3>2
  <2>2. CASE record_doesnt_have(p, c)
    <3> DEFINE s == [peers[p] EXCEPT !.doesnt_have_cids = @ \cup {c}, !.has_cids = @ \ {c}]
    <3>1. s \in PeerState /\ s.active_requests = peers[p].active_requests
      BY <1>1 DEF PeerState
    <3>2. Update(p, s)
      BY <2>2 DEF record_doesnt_have
    <3> HIDE DEF s
    <3>3. QED
      BY <3>1, <3>2
  <2>3. QED
    BY <2>1, <2>2
<1>3. /\ peers' \in [Peer -> PeerState] /\ \A q \in Peer : q # p => peers'[q] = peers[q]
      /\ Known(p) => peers'[p] = s
      /\ ~Known(p) => peers'[p] = peers[p] /\ ~Known(p)'
  BY <1>2, UpdateFacts
<1>4. Falls(p)
  BY <1>2, <1>3, SlotCounts DEF Falls, Active
<1>5. QED
  BY <1>3, <1>4, UnchangedFalls

LEMMA GiveBackFacts ==
    ASSUME SlotTypes, NEW p \in Peer, record_success(p) \/ record_failure(p)
    PROVE  peers' \in [Peer -> PeerState] /\ GivesBack(p) /\ \A q \in Peer : q # p => peers'[q] = peers[q]
<1>1. peers[p] \in PeerState /\ Active(p) \in Nat /\ Active(p) = peers[p].active_requests
  BY SlotCounts DEF SlotTypes, Active
<1>2. OneLess(peers[p].active_requests) \in Nat /\ OneLess(peers[p].active_requests) <= peers[p].active_requests
      /\ (OneLess(peers[p].active_requests) = 0 \/ OneLess(peers[p].active_requests) = peers[p].active_requests - 1)
  BY <1>1 DEF OneLess
<1>3. ASSUME NEW s \in PeerState, s.active_requests = OneLess(peers[p].active_requests), Known(p), Update(p, s)
      PROVE  peers' \in [Peer -> PeerState] /\ GivesBack(p) /\ \A q \in Peer : q # p => peers'[q] = peers[q]
  BY <1>1, <1>2, <1>3, UpdateFacts DEF GivesBack, Falls, Active
<1>4. ASSUME ~Known(p), peers' = peers
      PROVE  peers' \in [Peer -> PeerState] /\ GivesBack(p) /\ \A q \in Peer : q # p => peers'[q] = peers[q]
  BY <1>1, <1>4, PeerConstants DEF GivesBack, Falls, Active, Known, SlotTypes
<1>5. CASE record_success(p)
  <2> DEFINE s == [peers[p] EXCEPT !.consecutive_failures = 0, !.active_requests = OneLess(@)]
  <2>1. s \in PeerState /\ s.active_requests = OneLess(peers[p].active_requests)
    BY <1>1, <1>2 DEF PeerState
  <2>2. Update(p, s)
    BY <1>5 DEF record_success
  <2> HIDE DEF s
  <2>3. CASE Known(p)
    BY <1>3, <2>1, <2>2, <2>3
  <2>4. CASE ~Known(p)
    BY <1>4, <2>2, <2>4 DEF Update
  <2>5. QED
    BY <2>3, <2>4
<1>6. CASE record_failure(p)
  <2> DEFINE s == [peers[p] EXCEPT !.consecutive_failures = @ + 1, !.active_requests = OneLess(@)]
             n == OneLess(peers[p].active_requests)
             m == peers[p].consecutive_failures + 1
  <2>0. n \in Nat /\ m \in Nat
    BY <1>1, <1>2 DEF PeerState
  <2>a. s = [peers[p] EXCEPT !.consecutive_failures = m, !.active_requests = n]
    BY <1>1 DEF PeerState
  <2>b. ASSUME NEW i \in Nat, NEW j \in Nat, NEW o, o = [peers[p] EXCEPT !.consecutive_failures = i, !.active_requests = j]
        PROVE  o \in PeerState /\ o.active_requests = j
    BY <1>1, <2>b DEF PeerState
  <2> HIDE DEF m, n
  <2>1. s \in PeerState /\ s.active_requests = OneLess(peers[p].active_requests)
    <3>1. s \in PeerState /\ s.active_requests = n
      <4> HIDE DEF s
      <4>1. QED
        BY <2>0, <2>a, <2>b
    <3>2. QED
      BY <3>1 DEF n
  <2>2. \/ ~Known(p) /\ peers' = peers
        \/ Known(p) /\ Update(p, s)
        \/ Known(p) /\ peers' = [peers EXCEPT ![p] = Unknown]
    BY <1>6 DEF record_failure, peerVars, blacklist_peer
  <2> HIDE DEF s
  <2>3. CASE Known(p) /\ peers' = [peers EXCEPT ![p] = Unknown]
    BY <1>1, <2>3, PeerConstants DEF GivesBack, Falls, Active, SlotTypes
  <2>4. QED
    BY <1>3, <1>4, <2>1, <2>2, <2>3
<1>7. QED
  BY <1>5, <1>6

LEMMA MarkFacts ==
    ASSUME SlotTypes, NEW p \in Peer, mark_request_sent(p)
    PROVE  /\ peers' \in [Peer -> PeerState] /\ \A q \in Peer : q # p => peers'[q] = peers[q]
           /\ Active(p)' <= Active(p) + 1 /\ (Known(p)' => Known(p))
<1> DEFINE s == [peers[p] EXCEPT !.active_requests = @ + 1]
<1>1. peers[p] \in PeerState /\ Active(p) \in Nat /\ Active(p) = peers[p].active_requests
  BY SlotCounts DEF SlotTypes, Active
<1>2. s \in PeerState /\ s.active_requests = peers[p].active_requests + 1
  BY <1>1 DEF PeerState
<1>3. Update(p, s)
  BY DEF mark_request_sent
<1> HIDE DEF s
<1>4. QED
  BY <1>1, <1>2, <1>3, UpdateFacts DEF Active

-----------------------------------------------------------------------------

(* Types. *)

Roles ==
    /\ \A t \in Task : call[t].pc \in {"providers", "peers", "mark"} => t \in User
    /\ \A t \in Task : call[t].pc \in {"put", "success"} => \E p \in Peer : call[t].to = {p}

\* The call of one task goes on, as a call of its kind may.
LEMMA RolesStep ==
    ASSUME CallType, Roles, NEW t \in Task, \A s \in Task : s # t => call'[s] = call[s],
           call'[t].pc \in {"providers", "peers", "mark"} => t \in User,
           call'[t].pc \in {"put", "success"} => \E p \in Peer : call'[t].to = {p}
    PROVE  Roles'
BY DEF Roles

LEMMA CallFacts ==
    ASSUME CallType, NEW t \in Task, NEW pc, NEW cids, NEW to
    PROVE  /\ Begin(t, pc, cids, to) => /\ call[t].pc = "idle" /\ call'[t].pc = pc /\ call'[t].cids = cids /\ call'[t].to = to
                                        /\ \A s \in Task : s # t => call'[s] = call[s]
           /\ GoTo(t, pc) => /\ call'[t].pc = pc /\ call'[t].cids = call[t].cids /\ call'[t].to = call[t].to
                             /\ \A s \in Task : s # t => call'[s] = call[s]
           /\ Return(t) => /\ call'[t].pc = "idle" /\ \A s \in Task : s # t => call'[s] = call[s]
BY DEF CallType, Begin, GoTo, Return, Idle, NoCall

LEMMA SendFacts ==
    ASSUME SlotTypes, NEW t \in Task, NEW c \in Cid, NEW selected \in SUBSET Peer, Send(t, c, selected)
    PROVE  /\ call'[t].pc = "mark" /\ call'[t].to = selected /\ call'[t].cids = call[t].cids
           /\ \A s \in Task : s # t => call'[s] = call[s]
           /\ owed' \in [Cid \X Peer -> 0 .. MaxOwed]
           /\ \A p \in selected : owed[<<c, p>>] + 1 \in 1 .. MaxOwed
           /\ \A d \in Cid, p \in Peer : owed'[<<d, p>>] = IF d = c /\ p \in selected THEN owed[<<d, p>>] + 1 ELSE owed[<<d, p>>]
<1>1. MaxOwed \in Nat /\ owed \in [Cid \X Peer -> 0 .. MaxOwed]
  BY ExchangeAssumption DEF SlotTypes
<1>2. call'[t].pc = "mark" /\ call'[t].to = selected /\ call'[t].cids = call[t].cids /\ \A s \in Task : s # t => call'[s] = call[s]
  BY DEF Send, SlotTypes, CallType
<1>3. \A p \in selected : owed[<<c, p>>] \in 0 .. MaxOwed /\ owed[<<c, p>>] < MaxOwed
  BY <1>1 DEF Send
<1>4. \A p \in selected : owed[<<c, p>>] + 1 \in 1 .. MaxOwed
  BY <1>1, <1>3
<1>5. ASSUME NEW r \in Cid \X Peer
      PROVE  (IF r[1] = c /\ r[2] \in selected THEN owed[r] + 1 ELSE owed[r]) \in 0 .. MaxOwed
  <2>1. owed[r] \in 0 .. MaxOwed /\ r = <<r[1], r[2]>>
    BY <1>1
  <2>2. CASE r[1] = c /\ r[2] \in selected
    <3>1. r = <<c, r[2]>> /\ owed[<<c, r[2]>>] + 1 \in 1 .. MaxOwed
      BY <1>4, <2>1, <2>2
    <3>2. owed[r] + 1 \in 1 .. MaxOwed
      BY <3>1
    <3>3. QED
      BY <1>1, <2>2, <3>2
  <2>3. QED
    BY <2>1, <2>2
<1>6. owed' = [r \in Cid \X Peer |-> IF r[1] = c /\ r[2] \in selected THEN owed[r] + 1 ELSE owed[r]]
  BY DEF Send
<1>7. owed' \in [Cid \X Peer -> 0 .. MaxOwed]
  BY <1>5, <1>6
<1>8. \A d \in Cid, p \in Peer : owed'[<<d, p>>] = IF d = c /\ p \in selected THEN owed[<<d, p>>] + 1 ELSE owed[<<d, p>>]
  BY <1>6
<1>9. QED
  BY <1>2, <1>4, <1>7, <1>8

LEMMA AnsweredFacts ==
    ASSUME SlotTypes, NEW c \in Cid, NEW p \in Peer, Answered(c, p)
    PROVE  /\ owed' \in [Cid \X Peer -> 0 .. MaxOwed]
           /\ owed[<<c, p>>] \in 1 .. MaxOwed
           /\ \A d \in Cid, q \in Peer : owed'[<<d, q>>] = IF d = c /\ q = p THEN owed[<<c, p>>] - 1 ELSE owed[<<d, q>>]
<1>1. MaxOwed \in Nat /\ owed \in [Cid \X Peer -> 0 .. MaxOwed] /\ <<c, p>> \in Cid \X Peer
  BY ExchangeAssumption DEF SlotTypes
<1>2. owed[<<c, p>>] \in 1 .. MaxOwed /\ owed[<<c, p>>] - 1 \in 0 .. MaxOwed
  BY <1>1 DEF Answered
<1>3. owed' = [owed EXCEPT ![<<c, p>>] = owed[<<c, p>>] - 1]
  BY DEF Answered
<1>4. QED
  BY <1>1, <1>2, <1>3

\* The peers selected are known, and below their limit.
LEMMA SelectedFacts ==
    ASSUME NEW c \in Cid, NEW selected,
           selected \in select_providers(c, max_peers_per_request) \/ selected \in select_peers(c, max_peers_per_request)
    PROVE  selected \in SUBSET Peer /\ \A p \in selected : can_accept_request(p)
BY DEF select_providers, select_peers, Best

LEMMA SelectFacts ==
    ASSUME SlotTypes, NEW t \in Task, NEW c \in Cid, select_providers_first(t, c) \/ select_any(t, c)
    PROVE  /\ call[t].pc \in {"providers", "peers"} /\ call[t].cids = {c} /\ UNCHANGED <<peers, leaky>>
           /\ \/ (GoTo(t, "peers") \/ Return(t)) /\ owed' = owed
              \/ \E selected \in SUBSET Peer : (\A p \in selected : can_accept_request(p)) /\ Send(t, c, selected)
<1>1. CASE select_providers_first(t, c)
  <2>1. PICK selected \in select_providers(c, max_peers_per_request) :
             IF selected = {} THEN GoTo(t, "peers") /\ UNCHANGED owed ELSE Send(t, c, selected)
    BY <1>1 DEF select_providers_first
  <2>2. QED
    BY <1>1, <2>1, SelectedFacts DEF select_providers_first, At, peerVars
<1>2. CASE select_any(t, c)
  <2>1. PICK selected \in select_peers(c, max_peers_per_request) :
             IF selected = {} THEN Return(t) /\ UNCHANGED owed ELSE Send(t, c, selected)
    BY <1>2 DEF select_any
  <2>2. QED
    BY <1>2, <2>1, SelectedFacts DEF select_any, At, peerVars
<1>3. QED
  BY <1>1, <1>2

-----------------------------------------------------------------------------

(* The steps. *)

LEMMA Quiet ==
    ASSUME SlotInv, SlotTypes', owed' = owed,
           \A p \in Peer : /\ SameMarking(p) /\ Falls(p)
                           /\ p \notin leaky' => p \notin leaky /\ Handling(p) \subseteq Handling(p)'
    PROVE  SlotInv'
<1>1. ASSUME NEW p \in Peer PROVE PeerInv(p)'
  <2>1. Owing(p)' = Owing(p)
    BY DEF Owing
  <2>2. QED
    BY <2>1, PeerStays DEF SlotInv, Falls
<1>2. QED
  BY <1>1 DEF SlotInv

\* A call goes on that neither marks requests nor finishes with an answer.
LEMMA QuietCall ==
    ASSUME SlotInv, CallType', NEW t \in Task, \A s \in Task : s # t => call'[s] = call[s],
           call[t].pc # "mark" \/ call[t].to = {}, call'[t].pc # "mark",
           call'[t].pc \in {"providers", "peers"} => t \in User,
           call'[t].pc \in {"put", "success"} => \E p \in Peer : call'[t].to = {p},
           peers' \in [Peer -> PeerState], owed' = owed, \A p \in Peer : Falls(p),
           \A p \in Peer \ leaky' : /\ p \notin leaky
                                    /\ t \in Handling(p) => call'[t].pc \in {"put", "success"} /\ p \in call'[t].to
    PROVE  SlotInv'
<1>1. SlotTypes'
  <2>1. Roles'
    BY RolesStep DEF SlotInv, SlotTypes, Roles
  <2>2. QED
    BY <2>1 DEF SlotInv, SlotTypes, Roles
<1>2. \A p \in Peer : SameMarking(p)
  BY DEF SameMarking, Marking
<1>3. ASSUME NEW p \in Peer \ leaky' PROVE Handling(p) \subseteq Handling(p)'
  BY DEF Handling
<1>4. QED
  BY <1>1, <1>2, <1>3, Quiet

\* A step of the peers alone.
LEMMA QuietPeer ==
    ASSUME SlotInv, peers' \in [Peer -> PeerState], owed' = owed, call' = call,
           \A p \in Peer : Falls(p) /\ (p \notin leaky' => p \notin leaky)
    PROVE  SlotInv'
<1>1. SlotTypes'
  BY DEF SlotInv, SlotTypes, CallType
<1>2. \A p \in Peer : SameMarking(p) /\ Handling(p)' = Handling(p)
  BY DEF SameMarking, Marking, Handling
<1>3. QED
  BY <1>1, <1>2, Quiet

LEMMA UserSlots ==
    ASSUME SlotInv, CallType', NEW t \in User, NEW c,
           want(t, c) \/ cancel_want(t, c) \/ request(t, c) \/ next_want(t, c) \/ \E expired \in SUBSET wants : cleanup(t, expired)
    PROVE  SlotInv'
<1>1. t \in Task /\ UNCHANGED <<peers, owed, leaky>> /\ peers \in [Peer -> PeerState] /\ CallType
  BY DEF Task, SlotInv, SlotTypes, want, cancel_want, request, next_want, cleanup, peerVars
<1>2. \A p \in Peer : Falls(p)
  BY <1>1, UnchangedFalls DEF SlotInv
<1>3. CASE call' = call
  BY <1>1, <1>2, <1>3, QuietPeer
<1>4. CASE call' # call
  <2>1. PICK pc \in {"contains", "unpend", "providers"} : \E cids : Begin(t, pc, cids, {})
    BY <1>4 DEF want, cancel_want, request, next_want, cleanup
  <2>2. call[t].pc = "idle" /\ call'[t].pc = pc /\ \A s \in Task : s # t => call'[s] = call[s]
    BY <1>1, <2>1, CallFacts
  <2>3. \A p : t \notin Handling(p)
    BY <2>2 DEF Handling
  <2>4. QED
    BY <1>1, <1>2, <2>2, <2>3, QuietCall
<1>5. QED
  BY <1>3, <1>4

\* The calls' steps that leave the peers' slots alone.
LEMMA StepSlots ==
    ASSUME SlotInv, CallType', NEW t \in Task, NEW c,
           \/ want_contains(t, c) \/ put_block(t, c) \/ put_fails(t, c) \/ receive_has(t, c) \/ receive_unwant(t, c)
           \/ mark_pending(t) \/ unpend(t)
    PROVE  SlotInv'
<1>1. SlotTypes /\ CallType /\ peers \in [Peer -> PeerState]
  BY DEF SlotInv, SlotTypes
<1>2. ASSUME peers' = peers PROVE peers' \in [Peer -> PeerState] /\ \A p \in Peer : Falls(p)
  BY <1>1, <1>2, UnchangedFalls
<1>3. CASE want_contains(t, c) \/ mark_pending(t) \/ unpend(t)
  <2>1. /\ Return(t) /\ UNCHANGED <<peers, owed, leaky>>
        /\ call[t].pc \in {"contains", "mark", "unpend"} /\ (call[t].pc = "mark" => call[t].to = {})
    BY <1>3 DEF want_contains, mark_pending, unpend, At, peerVars
  <2>2. call'[t].pc = "idle" /\ \A s \in Task : s # t => call'[s] = call[s]
    BY <1>1, <2>1, CallFacts
  <2>3. \A p : t \notin Handling(p)
    BY <2>1 DEF Handling
  <2>4. QED
    BY <1>2, <2>1, <2>2, <2>3, QuietCall
<1>4. CASE put_block(t, c)
  <2>1. GoTo(t, "success") /\ UNCHANGED <<peers, owed, leaky>> /\ call[t].pc = "put"
    BY <1>4 DEF put_block, At, peerVars
  <2>2. call'[t].pc = "success" /\ call'[t].to = call[t].to /\ \A s \in Task : s # t => call'[s] = call[s]
    BY <1>1, <2>1, CallFacts
  <2>3. \E p \in Peer : call'[t].to = {p}
    BY <1>1, <2>1, <2>2 DEF SlotTypes
  <2>4. \A p : t \in Handling(p) => p \in call'[t].to
    BY <2>2 DEF Handling
  <2>5. QED
    BY <1>2, <2>1, <2>2, <2>3, <2>4, QuietCall
<1>5. CASE put_fails(t, c)
  <2>1. Return(t) /\ UNCHANGED <<peers, owed>> /\ call[t].pc = "put" /\ leaky' = leaky \cup call[t].to
    BY <1>5 DEF put_fails, At, peerVars
  <2>2. call'[t].pc = "idle" /\ \A s \in Task : s # t => call'[s] = call[s]
    BY <1>1, <2>1, CallFacts
  <2>3. \A p \in Peer \ leaky' : p \notin leaky /\ t \notin Handling(p)
    BY <2>1 DEF Handling
  <2>4. QED
    BY <1>2, <2>1, <2>2, <2>3, QuietCall
<1>6. CASE receive_has(t, c) \/ receive_unwant(t, c)
  <2>1. PICK pc \in {"unwant", "unpend"} : GoTo(t, pc) /\ call[t].pc \in {"has", "unwant"} /\ UNCHANGED <<owed, leaky>>
    BY <1>6 DEF receive_has, receive_unwant, At
  <2>2. call'[t].pc = pc /\ \A s \in Task : s # t => call'[s] = call[s]
    BY <1>1, <2>1, CallFacts
  <2>3. \A p : t \notin Handling(p)
    BY <2>1 DEF Handling
  <2>4. peers' \in [Peer -> PeerState] /\ \A p \in Peer : Falls(p)
    <3>1. CASE receive_has(t, c)
      <4>1. PICK p \in call[t].to : record_has(p, c)
        BY <3>1 DEF receive_has
      <4>2. call[t].cids = {c} /\ call[t].cids \subseteq Cid /\ call[t].to \subseteq Peer
        BY <1>1, <3>1 DEF receive_has, At, CallType
      <4>3. p \in Peer /\ c \in Cid
        BY <4>1, <4>2
      <4>4. QED
        BY <1>1, <4>1, <4>3, RecordFacts
    <3>2. CASE receive_unwant(t, c)
      BY <1>2, <3>2 DEF receive_unwant, peerVars
    <3>3. QED
      BY <1>6, <3>1, <3>2
  <2>5. QED
    BY <2>1, <2>2, <2>3, <2>4, QuietCall
<1>7. QED
  BY <1>3, <1>4, <1>5, <1>6

\* Blocks deleted by others change no call's place.
LEMMA DeleteSlots ==
    ASSUME SlotInv, CallType', NEW c \in Cid, delete(c)
    PROVE  SlotInv'
<1>1. SlotTypes /\ CallType /\ UNCHANGED <<peers, owed, leaky>>
  BY DEF SlotInv, SlotTypes, delete, peerVars
<1>2. \A t \in Task : call'[t].pc = call[t].pc /\ call'[t].to = call[t].to /\ call'[t].cids = call[t].cids
  BY <1>1 DEF delete, CallType
<1>3. SlotTypes'
  BY <1>1, <1>2 DEF SlotTypes
<1>4. \A p \in Peer : SameMarking(p) /\ Handling(p)' = Handling(p) /\ Falls(p)
  BY <1>1, <1>2, UnchangedFalls DEF SameMarking, Marking, Handling
<1>5. QED
  BY <1>1, <1>3, <1>4, Quiet

\* The limit needs only that neither side of it grows.
LEMMA LimitStays ==
    ASSUME SlotTypes, SlotTypes', NEW p \in Peer, Limit(p), SameMarking(p), Falls(p)
    PROVE  Limit(p)'
<1>1. Cardinality(Marking(p))' = Cardinality(Marking(p)) /\ Active(p)' <= Active(p)
  BY DEF SameMarking, Falls
<1>2. /\ Cardinality(Marking(p)) \in Nat /\ Cardinality(User) \in Nat /\ Active(p) \in Nat /\ max_concurrent \in Nat
      /\ (Active(p) \in Nat)'
  BY SlotCounts, CountsHoldNext, PeerAssumption DEF Counts
<1>3. QED
  BY <1>1, <1>2 DEF Limit, Falls

\* A request goes to the peer: it is to be marked, and an answer to it is owed.
LEMMA PeerIsAsked ==
    ASSUME SlotTypes, SlotTypes', NEW p \in Peer, PeerInv(p), can_accept_request(p), UNCHANGED <<peers, leaky>>,
           NEW t \in Task, t \notin Marking(p), NEW c \in Cid, NEW n \in 1 .. MaxOwed, <<c, n>> \notin Owing(p),
           Marking(p)' = Marking(p) \cup {t}, \A s \in Marking(p) : call'[s].cids = call[s].cids, call'[t].cids = {c},
           Owing(p)' = Owing(p) \cup {<<c, n>>}, Handling(p)' = Handling(p)
    PROVE  PeerInv(p)'
<1>1. /\ IsFiniteSet(Marking(p)) /\ IsFiniteSet(Owing(p))
      /\ Cardinality(Marking(p)) \in Nat /\ Cardinality(Owing(p)) \in Nat /\ Cardinality(Handling(p)) \in Nat
      /\ Cardinality(User) \in Nat /\ Active(p) \in Nat /\ max_concurrent \in Nat
  BY SlotCounts, PeerAssumption
<1>2. Cardinality(Marking(p) \cup {t}) = Cardinality(Marking(p)) + 1
  BY <1>1, FS_AddElement
<1>3. Cardinality(Owing(p) \cup {<<c, n>>}) = Cardinality(Owing(p)) + 1
  BY <1>1, FS_AddElement
<1>4. /\ Cardinality(Marking(p))' = Cardinality(Marking(p)) + 1 /\ Cardinality(Owing(p))' = Cardinality(Owing(p)) + 1
      /\ Cardinality(Handling(p))' = Cardinality(Handling(p)) /\ Active(p)' = Active(p)
  BY <1>2, <1>3 DEF Active
<1>5. Limit(p)'
  <2>1. (Cardinality(Marking(p)) <= Cardinality(User))'
    BY CountsHoldNext DEF Counts
  <2>2. Active(p) < max_concurrent
    BY DEF can_accept_request, Active
  <2>3. Active(p)' + Cardinality(Marking(p))' < max_concurrent + Cardinality(User)
    BY <1>1, <1>4, <2>1, <2>2
  <2>4. QED
    BY <2>3 DEF Limit
<1>6. ASSUME p \notin leaky' PROVE Matched(p)' /\ Balance(p)'
  <2>1. Matched(p) /\ Balance(p)
    BY <1>6 DEF PeerInv
  <2>2. Balance(p)'
    BY <1>1, <1>4, <2>1 DEF Balance
  <2>3. PICK f \in [Marking(p) -> Owing(p)] : /\ \A s, u \in Marking(p) : f[s] = f[u] => s = u
                                              /\ \A s \in Marking(p) : call[s].cids = {f[s][1]}
    BY <2>1 DEF Matched
  <2> DEFINE e == <<c, n>>
             g == [s \in Marking(p) \cup {t} |-> IF s = t THEN e ELSE f[s]]
  <2>4. e \notin Owing(p) /\ Owing(p)' = Owing(p) \cup {e} /\ e[1] = c
    OBVIOUS
  <2> HIDE DEF e
  <2>5. g[t] = e /\ \A s \in Marking(p) : g[s] = f[s] /\ f[s] \in Owing(p) /\ s # t
    BY <2>3
  <2>6. g \in [Marking(p)' -> Owing(p)']
    BY <2>4, <2>5
  <2>7. \A s, u \in Marking(p)' : g[s] = g[u] => s = u
    BY <2>3, <2>4, <2>5
  <2>8. \A s \in Marking(p)' : call'[s].cids = {g[s][1]}
    BY <2>3, <2>4, <2>5
  <2> HIDE DEF g
  <2>9. Matched(p)'
    BY <2>6, <2>7, <2>8 DEF Matched
  <2>10. QED
    BY <2>2, <2>9
<1>7. QED
  BY <1>5, <1>6 DEF PeerInv

LEMMA SendSlots ==
    ASSUME SlotInv, CallType', NEW t \in Task, NEW c \in Cid, NEW selected \in SUBSET Peer, \A p \in selected : can_accept_request(p),
           Send(t, c, selected), call[t].pc \in {"providers", "peers"}, call[t].cids = {c}, UNCHANGED <<peers, leaky>>
    PROVE  SlotInv'
<1>1. SlotTypes
  BY DEF SlotInv
<1>a. /\ call'[t].pc = "mark" /\ call'[t].to = selected /\ call'[t].cids = call[t].cids
      /\ \A s \in Task : s # t => call'[s] = call[s]
      /\ owed' \in [Cid \X Peer -> 0 .. MaxOwed]
      /\ \A p \in selected : owed[<<c, p>>] + 1 \in 1 .. MaxOwed
      /\ \A d \in Cid, p \in Peer : owed'[<<d, p>>] = IF d = c /\ p \in selected THEN owed[<<d, p>>] + 1 ELSE owed[<<d, p>>]
  BY <1>1, SendFacts
<1>2. /\ call'[t].pc = "mark" /\ call'[t].to = selected /\ call'[t].cids = {c}
      /\ \A s \in Task : s # t => call'[s] = call[s]
      /\ owed' \in [Cid \X Peer -> 0 .. MaxOwed]
      /\ \A p \in selected : owed[<<c, p>>] + 1 \in 1 .. MaxOwed
      /\ \A d \in Cid, p \in Peer : owed'[<<d, p>>] = IF d = c /\ p \in selected THEN owed[<<d, p>>] + 1 ELSE owed[<<d, p>>]
  BY <1>a
<1>3. SlotTypes'
  <2>1. t \in User
    BY <1>1 DEF SlotTypes
  <2>2. Roles'
    BY <1>1, <1>2, <2>1, RolesStep DEF SlotTypes, Roles
  <2>3. QED
    BY <1>1, <1>2, <2>2 DEF SlotTypes, Roles
<1>4. \A p : Handling(p)' = Handling(p)
  BY <1>2 DEF Handling
<1>5. ASSUME NEW p \in Peer, p \notin selected PROVE PeerInv(p)'
  <2>1. SameMarking(p)
    BY <1>2, <1>5 DEF SameMarking, Marking
  <2>2. Owing(p)' = Owing(p)
    <3>1. \A r \in Cid \X (1 .. MaxOwed) : owed'[<<r[1], p>>] = owed[<<r[1], p>>]
      BY <1>2, <1>5
    <3>2. QED
      BY <3>1 DEF Owing
  <2>3. Falls(p)
    BY <1>1, UnchangedFalls
  <2>4. QED
    BY <1>1, <1>3, <1>4, <2>1, <2>2, <2>3, PeerStays DEF SlotInv, Falls
<1>6. ASSUME NEW p \in Peer, p \in selected PROVE PeerInv(p)'
  <2> DEFINE n == owed[<<c, p>>] + 1
  <2>1. n \in 1 .. MaxOwed /\ owed[<<c, p>>] \in Nat
    BY <1>1, <1>2, <1>6, ExchangeAssumption DEF SlotTypes
  <2>2. t \notin Marking(p) /\ Marking(p)' = Marking(p) \cup {t} /\ \A s \in Marking(p) : call'[s].cids = call[s].cids
    BY <1>2, <1>6 DEF Marking
  <2>3. <<c, n>> \notin Owing(p)
    BY <2>1 DEF Owing
  <2>4. Owing(p)' = Owing(p) \cup {<<c, n>>}
    <3>1. ASSUME NEW d \in Cid, NEW m \in 1 .. MaxOwed
          PROVE  m <= owed'[<<d, p>>] <=> m <= owed[<<d, p>>] \/ (d = c /\ m = n)
      <4>1. CASE d = c
        BY <1>2, <1>6, <2>1, <4>1
      <4>2. CASE d # c
        BY <1>2, <4>2
      <4>3. QED
        BY <4>1, <4>2
    <3> HIDE DEF n
    <3>2. \A d, m : <<d, m>> \in Owing(p)' <=> <<d, m>> \in Owing(p) \cup {<<c, n>>}
      BY <2>1, <3>1 DEF Owing
    <3>3. \A r \in Owing(p)' \cup Owing(p) \cup {<<c, n>>} : r = <<r[1], r[2]>>
      BY DEF Owing
    <3>4. QED
      BY <3>2, <3>3
  <2> HIDE DEF n
  <2>5. QED
    BY <1>1, <1>2, <1>3, <1>4, <1>6, <2>1, <2>2, <2>3, <2>4, PeerIsAsked DEF SlotInv
<1>7. QED
  BY <1>3, <1>5, <1>6 DEF SlotInv

LEMMA SelectSlots ==
    ASSUME SlotInv, CallType', NEW t \in Task, NEW c \in Cid, select_providers_first(t, c) \/ select_any(t, c)
    PROVE  SlotInv'
<1>1. SlotTypes /\ CallType /\ peers \in [Peer -> PeerState]
  BY DEF SlotInv, SlotTypes
<1>2. /\ call[t].pc \in {"providers", "peers"} /\ call[t].cids = {c} /\ UNCHANGED <<peers, leaky>>
      /\ \/ (GoTo(t, "peers") \/ Return(t)) /\ owed' = owed
         \/ \E selected \in SUBSET Peer : (\A p \in selected : can_accept_request(p)) /\ Send(t, c, selected)
  BY <1>1, SelectFacts
<1>3. CASE (GoTo(t, "peers") \/ Return(t)) /\ owed' = owed
  <2>1. call'[t].pc \in {"peers", "idle"} /\ \A s \in Task : s # t => call'[s] = call[s]
    BY <1>1, <1>3, CallFacts
  <2>2. \A p : t \notin Handling(p)
    BY <1>2 DEF Handling
  <2>3. t \in User /\ \A p \in Peer : Falls(p)
    BY <1>1, <1>2, UnchangedFalls DEF SlotTypes
  <2>4. QED
    BY <1>1, <1>2, <1>3, <2>1, <2>2, <2>3, QuietCall
<1>4. QED
  BY <1>2, <1>3, SendSlots

-----------------------------------------------------------------------------

(* Marking, and the answers. *)

\* mark_request_sent: the request is counted, and no longer to be marked.
LEMMA PeerIsMarked ==
    ASSUME SlotTypes, SlotTypes', NEW p \in Peer, PeerInv(p), NEW t \in Marking(p), leaky' = leaky,
           Active(p)' <= Active(p) + 1, Known(p)' => Known(p),
           Marking(p)' = Marking(p) \ {t}, \A s \in Marking(p) : call'[s].cids = call[s].cids,
           Owing(p)' = Owing(p), Handling(p)' = Handling(p)
    PROVE  PeerInv(p)'
<1>1. /\ IsFiniteSet(Marking(p))
      /\ Cardinality(Marking(p)) \in Nat /\ Cardinality(Owing(p)) \in Nat /\ Cardinality(Handling(p)) \in Nat
      /\ Cardinality(User) \in Nat /\ Active(p) \in Nat /\ max_concurrent \in Nat /\ (Active(p) \in Nat)'
  BY SlotCounts, CountsHoldNext, PeerAssumption DEF Counts
<1>2. Cardinality(Marking(p) \ {t}) = Cardinality(Marking(p)) - 1
  BY <1>1, FS_RemoveElement
<1>3. /\ Cardinality(Marking(p))' = Cardinality(Marking(p)) - 1 /\ Cardinality(Owing(p))' = Cardinality(Owing(p))
      /\ Cardinality(Handling(p))' = Cardinality(Handling(p))
  BY <1>2
<1>4. Limit(p)'
  BY <1>1, <1>3 DEF PeerInv, Limit
<1>5. ASSUME p \notin leaky' PROVE Matched(p)' /\ Balance(p)'
  <2>1. Matched(p) /\ Balance(p)
    BY <1>5 DEF PeerInv
  <2>2. Balance(p)'
    BY <1>1, <1>3, <2>1 DEF Balance
  <2>3. PICK f \in [Marking(p) -> Owing(p)] : /\ \A s, u \in Marking(p) : f[s] = f[u] => s = u
                                              /\ \A s \in Marking(p) : call[s].cids = {f[s][1]}
    BY <2>1 DEF Matched
  <2> DEFINE g == [s \in Marking(p) \ {t} |-> f[s]]
  <2>4. g \in [Marking(p)' -> Owing(p)'] /\ (\A s, u \in Marking(p)' : g[s] = g[u] => s = u)
        /\ \A s \in Marking(p)' : call'[s].cids = {g[s][1]}
    BY <2>3
  <2> HIDE DEF g
  <2>5. Matched(p)'
    BY <2>4 DEF Matched
  <2>6. QED
    BY <2>2, <2>5
<1>6. QED
  BY <1>4, <1>5 DEF PeerInv

LEMMA MarkSlots ==
    ASSUME SlotInv, CallType', NEW t \in Task, NEW p \in Peer, mark_peer(t, p)
    PROVE  SlotInv'
<1>1. SlotTypes /\ CallType
  BY DEF SlotInv, SlotTypes
<1>2. call[t].pc = "mark" /\ p \in call[t].to /\ mark_request_sent(p) /\ UNCHANGED <<owed, leaky>>
  BY DEF mark_peer
<1>3. /\ call'[t].pc = "mark" /\ call'[t].to = call[t].to \ {p} /\ call'[t].cids = call[t].cids
      /\ \A s \in Task : s # t => call'[s] = call[s]
  BY <1>1, <1>2 DEF mark_peer, CallType
<1>4. /\ peers' \in [Peer -> PeerState] /\ \A q \in Peer : q # p => peers'[q] = peers[q]
      /\ Active(p)' <= Active(p) + 1 /\ (Known(p)' => Known(p))
  BY <1>1, <1>2, MarkFacts
<1>5. SlotTypes'
  <2>1. t \in User
    BY <1>1, <1>2 DEF SlotTypes
  <2>2. Roles'
    BY <1>1, <1>3, <2>1, RolesStep DEF SlotTypes, Roles
  <2>3. QED
    BY <1>1, <1>2, <1>4, <2>2 DEF SlotTypes, Roles
<1>6. \A q \in Peer : Owing(q)' = Owing(q) /\ Handling(q)' = Handling(q)
  BY <1>2, <1>3 DEF Owing, Handling
<1>7. ASSUME NEW q \in Peer, q # p PROVE PeerInv(q)'
  <2>1. SameMarking(q)
    BY <1>2, <1>3, <1>7 DEF SameMarking, Marking
  <2>2. Falls(q)
    BY <1>1, <1>4, <1>7, UnchangedFalls
  <2>3. QED
    BY <1>1, <1>2, <1>5, <1>6, <2>1, <2>2, PeerStays DEF SlotInv, Falls
<1>8. PeerInv(p)'
  <2>1. t \in Marking(p) /\ Marking(p)' = Marking(p) \ {t} /\ \A s \in Marking(p) : call'[s].cids = call[s].cids
    BY <1>2, <1>3 DEF Marking
  <2>2. QED
    BY <1>1, <1>2, <1>4, <1>5, <1>6, <2>1, PeerIsMarked DEF SlotInv
<1>9. QED
  BY <1>5, <1>7, <1>8 DEF SlotInv

\* An answer comes: one less is owed by the peer, and as much by the others.
LEMMA AnsweredOwing ==
    ASSUME SlotTypes, NEW c \in Cid, NEW p \in Peer, Answered(c, p)
    PROVE  /\ \A q \in Peer : q # p => Owing(q)' = Owing(q)
           /\ \E e \in Owing(p) : e[1] = c /\ Owing(p)' = Owing(p) \ {e}
<1>1. /\ owed[<<c, p>>] \in 1 .. MaxOwed /\ MaxOwed \in Nat
      /\ \A d \in Cid, q \in Peer : owed'[<<d, q>>] = IF d = c /\ q = p THEN owed[<<c, p>>] - 1 ELSE owed[<<d, q>>]
  BY AnsweredFacts, ExchangeAssumption
<1>2. ASSUME NEW q \in Peer, q # p PROVE Owing(q)' = Owing(q)
  <2>1. \A r \in Cid \X (1 .. MaxOwed) : owed'[<<r[1], q>>] = owed[<<r[1], q>>]
    BY <1>1, <1>2
  <2>2. QED
    BY <2>1 DEF Owing
<1> DEFINE n == owed[<<c, p>>]
           e == <<c, n>>
<1>3. e \in Owing(p) /\ e[1] = c
  BY <1>1 DEF Owing
<1>4. ASSUME NEW d \in Cid, NEW m \in 1 .. MaxOwed
      PROVE  m <= owed'[<<d, p>>] <=> m <= owed[<<d, p>>] /\ ~(d = c /\ m = n)
  <2>1. CASE d = c
    BY <1>1, <2>1
  <2>2. CASE d # c
    BY <1>1, <2>2
  <2>3. QED
    BY <2>1, <2>2
<1>5. n \in 1 .. MaxOwed
  BY <1>1
<1> HIDE DEF n
<1>6. \A d, m : <<d, m>> \in Owing(p)' <=> <<d, m>> \in Owing(p) \ {e}
  BY <1>4, <1>5 DEF Owing
<1>7. \A r \in Owing(p)' \cup Owing(p) : r = <<r[1], r[2]>>
  BY DEF Owing
<1> HIDE DEF e
<1>8. Owing(p)' = Owing(p) \ {e}
  BY <1>6, <1>7
<1>9. QED
  BY <1>2, <1>3, <1>8

\* An answer to a request that is marked is none that a request to be marked waits for.
LEMMA PeerAnswers ==
    ASSUME SlotTypes, SlotTypes', NEW p \in Peer, PeerInv(p), NEW c \in Cid, p \notin leaky' => p \notin leaky /\ ~Early(c, p),
           SameMarking(p), Falls(p), NEW e \in Owing(p), e[1] = c, Owing(p)' = Owing(p) \ {e},
           \/ \E t \in Handling(p)' : Handling(p) = Handling(p)' \ {t}
           \/ Handling(p)' = Handling(p) /\ GivesBack(p)
    PROVE  PeerInv(p)'
<1>1. Limit(p)'
  BY LimitStays DEF PeerInv
<1>2. ASSUME p \notin leaky' PROVE Matched(p)' /\ Balance(p)'
  <2>1. Matched(p) /\ Balance(p) /\ ~Early(c, p)
    BY <1>2 DEF PeerInv
  <2>2. PICK f \in [Marking(p) -> Owing(p)] : /\ \A s, u \in Marking(p) : f[s] = f[u] => s = u
                                              /\ \A s \in Marking(p) : call[s].cids = {f[s][1]}
    BY <2>1 DEF Matched
  <2>3. \A s \in Marking(p) : f[s] # e
    BY <2>1, <2>2 DEF Early, At, Marking
  <2>4. f \in [Marking(p)' -> Owing(p)']
    BY <2>2, <2>3 DEF SameMarking
  <2>5. Matched(p)'
    BY <2>2, <2>4 DEF Matched, SameMarking
  <2>6. /\ IsFiniteSet(Owing(p)) /\ Cardinality(Marking(p)) \in Nat /\ Cardinality(Owing(p)) \in Nat
        /\ Cardinality(Handling(p)) \in Nat /\ Active(p) \in Nat
    BY SlotCounts
  <2>7. (/\ IsFiniteSet(Handling(p)) /\ Cardinality(Handling(p)) \in Nat /\ Active(p) \in Nat
         /\ Cardinality(Marking(p)) <= Cardinality(Owing(p)))'
    BY <2>5, CountsHoldNext DEF Counts
  <2>8. Cardinality(Owing(p) \ {e}) = Cardinality(Owing(p)) - 1
    BY <2>6, FS_RemoveElement
  <2>9. Cardinality(Owing(p))' = Cardinality(Owing(p)) - 1 /\ Cardinality(Marking(p))' = Cardinality(Marking(p))
    BY <2>8 DEF SameMarking
  <2>10. CASE \E t \in Handling(p)' : Handling(p) = Handling(p)' \ {t}
    <3>1. PICK t \in Handling(p)' : Handling(p) = Handling(p)' \ {t}
      BY <2>10
    <3> DEFINE H == Handling(p)'
    <3>2. IsFiniteSet(H) /\ t \in H
      BY <2>7
    <3> HIDE DEF H
    <3>3. Cardinality(H \ {t}) = Cardinality(H) - 1
      BY <3>2, FS_RemoveElement
    <3>4. Cardinality(Handling(p)) = Cardinality(Handling(p))' - 1
      BY <3>1, <3>3 DEF H
    <3>5. QED
      BY <2>1, <2>5, <2>6, <2>7, <2>9, <3>4 DEF Balance, Falls
  <2>11. CASE Handling(p)' = Handling(p) /\ GivesBack(p)
    <3>1. Cardinality(Handling(p))' = Cardinality(Handling(p))
      BY <2>11
    <3>2. CASE Active(p)' = 0
      BY <2>5, <2>6, <2>7, <2>9, <3>1, <3>2 DEF Balance
    <3>3. CASE Active(p)' = Active(p) - 1
      BY <2>1, <2>5, <2>6, <2>7, <2>9, <3>1, <3>3 DEF Balance
    <3>4. QED
      BY <2>11, <3>2, <3>3 DEF GivesBack
  <2>12. QED
    BY <2>10, <2>11
<1>3. QED
  BY <1>1, <1>2 DEF PeerInv

LEMMA ReceiveSlots ==
    ASSUME SlotInv, CallType', NEW t \in Task, NEW c \in Cid, NEW p \in Peer, receive_block(t, c, p)
    PROVE  SlotInv'
<1>1. SlotTypes /\ CallType /\ peers \in [Peer -> PeerState] /\ peers' = peers
  BY DEF SlotInv, SlotTypes, receive_block, peerVars
<1>2. /\ call[t].pc = "idle" /\ call'[t].pc = "put" /\ call'[t].to = {p} /\ \A s \in Task : s # t => call'[s] = call[s]
  <2>1. Begin(t, "put", {c}, {p})
    BY DEF receive_block
  <2>2. QED
    BY <1>1, <2>1, CallFacts
<1>3. \A q \in Peer : Falls(q)
  BY <1>1, UnchangedFalls
<1>4. CASE UNCHANGED <<owed, leaky>>
  <2>1. \A q : t \notin Handling(q)
    BY <1>2 DEF Handling
  <2>2. QED
    BY <1>1, <1>2, <1>3, <1>4, <2>1, QuietCall
<1>5. CASE Answered(c, p) /\ leaky' = leaky \cup {q \in {p} : Early(c, q)}
  <2>1. SlotTypes'
    <3>1. Roles'
      BY <1>1, <1>2, RolesStep DEF SlotTypes, Roles
    <3>2. owed' \in [Cid \X Peer -> 0 .. MaxOwed]
      BY <1>1, <1>5, AnsweredFacts
    <3>3. QED
      BY <1>1, <3>1, <3>2 DEF SlotTypes, Roles
  <2>2. /\ \A q \in Peer : q # p => Owing(q)' = Owing(q)
        /\ \E e \in Owing(p) : e[1] = c /\ Owing(p)' = Owing(p) \ {e}
    BY <1>1, <1>5, AnsweredOwing
  <2>3. \A q \in Peer : SameMarking(q)
    BY <1>2 DEF SameMarking, Marking
  <2>4. t \in Handling(p)' /\ Handling(p) = Handling(p)' \ {t} /\ \A q \in Peer : q # p => Handling(q)' = Handling(q)
    BY <1>2 DEF Handling
  <2>5. ASSUME NEW q \in Peer, q # p PROVE PeerInv(q)'
    BY <1>1, <1>3, <1>5, <2>1, <2>2, <2>3, <2>4, <2>5, PeerStays DEF SlotInv, Falls
  <2>6. PeerInv(p)'
    BY <1>1, <1>3, <1>5, <2>1, <2>2, <2>3, <2>4, PeerAnswers DEF SlotInv
  <2>7. QED
    BY <2>1, <2>5, <2>6 DEF SlotInv
<1>6. QED
  BY <1>4, <1>5 DEF receive_block

LEMMA RefusalSlots ==
    ASSUME SlotInv, NEW c \in Cid, NEW p \in Peer, fail(c, p) \/ record_dont_have(p, c)
    PROVE  SlotInv'
<1>1. SlotTypes /\ call' = call
  BY DEF SlotInv, fail, record_dont_have
<1>2. \A q \in Peer : SameMarking(q) /\ Handling(q)' = Handling(q)
  BY <1>1 DEF SameMarking, Marking, Handling
<1>3. CASE fail(c, p)
  <2>1. peers' \in [Peer -> PeerState] /\ GivesBack(p) /\ \A q \in Peer : q # p => peers'[q] = peers[q]
    BY <1>1, <1>3, GiveBackFacts DEF fail
  <2>2. \A q \in Peer : Falls(q)
    BY <1>1, <2>1, UnchangedFalls DEF GivesBack
  <2>3. CASE UNCHANGED <<owed, leaky>>
    BY <1>1, <2>1, <2>2, <2>3, QuietPeer
  <2>4. CASE Answered(c, p) /\ leaky' = leaky \cup {q \in {p} : Early(c, q)}
    <3>1. SlotTypes'
      BY <1>1, <2>1, <2>4, AnsweredFacts DEF SlotTypes, CallType
    <3>2. /\ \A q \in Peer : q # p => Owing(q)' = Owing(q)
          /\ \E e \in Owing(p) : e[1] = c /\ Owing(p)' = Owing(p) \ {e}
      BY <1>1, <2>4, AnsweredOwing
    <3>3. ASSUME NEW q \in Peer, q # p PROVE PeerInv(q)'
      BY <1>1, <1>2, <2>2, <2>4, <3>1, <3>2, <3>3, PeerStays DEF SlotInv, Falls
    <3>4. PeerInv(p)'
      BY <1>1, <1>2, <2>1, <2>2, <2>4, <3>1, <3>2, PeerAnswers DEF SlotInv
    <3>5. QED
      BY <3>1, <3>3, <3>4 DEF SlotInv
  <2>5. QED
    BY <1>3, <2>3, <2>4 DEF fail
<1>4. CASE record_dont_have(p, c)
  <2>1. Answered(c, p) /\ leaky' = leaky \cup {p}
    BY <1>4 DEF record_dont_have
  <2>2. peers' \in [Peer -> PeerState] /\ \A q \in Peer : Falls(q)
    BY <1>1, <1>4, RecordFacts DEF record_dont_have
  <2>3. SlotTypes'
    BY <1>1, <2>1, <2>2, AnsweredFacts DEF SlotTypes, CallType
  <2>4. ASSUME NEW q \in Peer, q # p PROVE PeerInv(q)'
    <3>1. Owing(q)' = Owing(q)
      BY <1>1, <2>1, <2>4, AnsweredOwing
    <3>2. QED
      BY <1>1, <1>2, <2>1, <2>2, <2>3, <2>4, <3>1, PeerStays DEF SlotInv, Falls
  <2>5. PeerInv(p)'
    <3>1. Limit(p)'
      BY <1>1, <1>2, <2>2, <2>3, LimitStays DEF SlotInv, PeerInv
    <3>2. QED
      BY <2>1, <3>1 DEF PeerInv
  <2>6. QED
    BY <2>3, <2>4, <2>5 DEF SlotInv
<1>5. QED
  BY <1>3, <1>4

\* The answer is done with, and the slot given back with it.
LEMMA SuccessSlots ==
    ASSUME SlotInv, CallType', NEW t \in Task, NEW c \in Cid, receive_success(t, c)
    PROVE  SlotInv'
<1>1. SlotTypes /\ CallType /\ call[t].pc = "success" /\ GoTo(t, "has") /\ UNCHANGED <<owed, leaky>>
  BY DEF SlotInv, SlotTypes, receive_success, At
<1>2. PICK p \in Peer : call[t].to = {p}
  BY <1>1 DEF SlotTypes
<1>3. record_success(p)
  BY <1>2 DEF receive_success
<1>4. call'[t].pc = "has" /\ \A s \in Task : s # t => call'[s] = call[s]
  BY <1>1, CallFacts
<1>5. peers' \in [Peer -> PeerState] /\ GivesBack(p) /\ \A q \in Peer : q # p => peers'[q] = peers[q]
  BY <1>1, <1>3, GiveBackFacts
<1>6. SlotTypes'
  <2>1. Roles'
    BY <1>1, <1>4, RolesStep DEF SlotTypes, Roles
  <2>2. QED
    BY <1>1, <1>5, <2>1 DEF SlotTypes, Roles
<1>7. \A q \in Peer : SameMarking(q) /\ Owing(q)' = Owing(q)
  BY <1>1, <1>4 DEF SameMarking, Marking, Owing
<1>8. t \in Handling(p) /\ Handling(p)' = Handling(p) \ {t} /\ \A q \in Peer : q # p => Handling(q)' = Handling(q)
  BY <1>1, <1>2, <1>4 DEF Handling
<1>9. ASSUME NEW q \in Peer, q # p PROVE PeerInv(q)'
  <2>1. Falls(q)
    BY <1>1, <1>5, <1>9, UnchangedFalls
  <2>2. QED
    BY <1>1, <1>6, <1>7, <1>8, <1>9, <2>1, PeerStays DEF SlotInv, Falls
<1>10. PeerInv(p)'
  <2>1. Limit(p)'
    BY <1>1, <1>5, <1>6, <1>7, LimitStays DEF SlotInv, PeerInv, GivesBack
  <2>2. ASSUME p \notin leaky' PROVE Matched(p)' /\ Balance(p)'
    <3>1. Matched(p) /\ Balance(p)
      BY <1>1, <2>2 DEF SlotInv, PeerInv
    <3>2. Matched(p)'
      BY <1>7, <3>1 DEF Matched, SameMarking
    <3>3. /\ IsFiniteSet(Handling(p)) /\ Cardinality(Marking(p)) \in Nat /\ Cardinality(Owing(p)) \in Nat
          /\ Cardinality(Handling(p)) \in Nat /\ Active(p) \in Nat /\ Cardinality(Marking(p)) <= Cardinality(Owing(p))
      BY <1>1, <3>1, SlotCounts
    <3>4. (Cardinality(Handling(p)) \in Nat)'
      BY <1>6, CountsHoldNext DEF Counts
    <3>5. Cardinality(Handling(p) \ {t}) = Cardinality(Handling(p)) - 1
      BY <1>8, <3>3, FS_RemoveElement
    <3>6. /\ Cardinality(Handling(p))' = Cardinality(Handling(p)) - 1 /\ Cardinality(Marking(p))' = Cardinality(Marking(p))
          /\ Cardinality(Owing(p))' = Cardinality(Owing(p))
      BY <1>7, <1>8, <3>5 DEF SameMarking
    <3>7. CASE Active(p)' = 0
      BY <3>2, <3>3, <3>4, <3>6, <3>7 DEF Balance
    <3>8. CASE Active(p)' = Active(p) - 1
      BY <3>1, <3>2, <3>3, <3>6, <3>8 DEF Balance
    <3>9. QED
      BY <1>5, <3>7, <3>8 DEF GivesBack
  <2>3. QED
    BY <2>1, <2>2 DEF PeerInv
<1>11. QED
  BY <1>6, <1>9, <1>10 DEF SlotInv

LEMMA ConnectSlots ==
    ASSUME SlotInv, NEW p \in Peer, connect(p) \/ disconnect(p) \/ pardon(p)
    PROVE  SlotInv'
<1>1. SlotTypes /\ peers \in [Peer -> PeerState] /\ UNCHANGED <<owed, call>>
  BY DEF SlotInv, SlotTypes, connect, disconnect, pardon
<1>2. CASE disconnect(p) \/ pardon(p)
  <2>1. leaky' = leaky /\ (peers' = peers \/ peers' = [peers EXCEPT ![p] = Unknown])
    BY <1>2 DEF disconnect, pardon, remove_peer, ban_ends
  <2>2. peers' \in [Peer -> PeerState]
    BY <1>1, <2>1, PeerConstants
  <2>3. ASSUME NEW q \in Peer PROVE Falls(q)
    <3>1. CASE peers'[q] = peers[q]
      BY <1>1, <3>1, UnchangedFalls
    <3>2. CASE peers'[q] = Unknown
      BY <1>1, <3>2, SlotCounts, PeerConstants DEF Falls, Active, Known
    <3>3. QED
      BY <1>1, <2>1, <3>1, <3>2
  <2>4. QED
    BY <1>1, <2>1, <2>2, <2>3, QuietPeer
<1>3. CASE connect(p)
  <2>1. /\ ~Known(p) /\ peers' = [peers EXCEPT ![p] = New]
        /\ leaky' = leaky \ {q \in {p} : \A t \in Task : q \notin call[t].to \/ call[t].pc # "mark"}
    BY <1>3 DEF connect, add_peer
  <2>2. /\ peers' \in [Peer -> PeerState] /\ (\A q \in Peer : q # p => peers'[q] = peers[q])
        /\ Active(p)' = 0 /\ Active(p) = 0
    BY <1>1, <2>1, PeerConstants DEF Active, Known
  <2>3. SlotTypes'
    BY <1>1, <2>2 DEF SlotTypes, CallType
  <2>4. \A q \in Peer : SameMarking(q) /\ Owing(q)' = Owing(q) /\ Handling(q)' = Handling(q)
    BY <1>1 DEF SameMarking, Marking, Owing, Handling
  <2>5. ASSUME NEW q \in Peer, q # p PROVE PeerInv(q)'
    <3>1. Falls(q)
      BY <1>1, <2>2, <2>5, UnchangedFalls
    <3>2. QED
      BY <1>1, <2>1, <2>3, <2>4, <2>5, <3>1, PeerStays DEF SlotInv, Falls
  <2>6. PeerInv(p)'
    <3>1. (/\ Cardinality(Marking(p)) \in Nat /\ Cardinality(Owing(p)) \in Nat /\ Cardinality(Handling(p)) \in Nat
           /\ Cardinality(Marking(p)) <= Cardinality(User) /\ (Matched(p) => Cardinality(Marking(p)) <= Cardinality(Owing(p))))'
      BY <2>3, CountsHoldNext DEF Counts
    <3>2. Cardinality(User) \in Nat /\ max_concurrent \in Nat \ {0}
      BY <1>1, SlotCounts, PeerAssumption
    <3>3. Limit(p)'
      BY <2>2, <3>1, <3>2 DEF Limit
    <3>4. ASSUME p \notin leaky' PROVE Matched(p)'
      <4>1. CASE p \notin leaky
        <5>1. Matched(p)
          BY <4>1 DEF SlotInv, PeerInv
        <5>2. QED
          BY <2>4, <5>1, <1>1 DEF Matched, SameMarking
      <4>2. CASE p \in leaky
        <5>1. Marking(p)' = {}
          BY <1>1, <2>1, <3>4, <4>2 DEF Marking
        <5> DEFINE g == [s \in {} |-> s]
        <5>2. g \in [Marking(p)' -> Owing(p)']
          BY <5>1
        <5> HIDE DEF g
        <5>3. QED
          BY <5>1, <5>2 DEF Matched
      <4>3. QED
        BY <4>1, <4>2
    <3>5. ASSUME p \notin leaky' PROVE Balance(p)'
      BY <2>2, <3>1, <3>4, <3>5 DEF Balance
    <3>6. QED
      BY <3>3, <3>4, <3>5 DEF PeerInv
  <2>7. QED
    BY <2>3, <2>5, <2>6 DEF SlotInv
<1>4. QED
  BY <1>2, <1>3

-----------------------------------------------------------------------------

LEMMA InitSlotInv == Init => SlotInv
<1> SUFFICES ASSUME Init PROVE SlotInv
  OBVIOUS
<1>1. /\ call = [t \in Task |-> NoCall] /\ owed = [r \in Cid \X Peer |-> 0] /\ peers = [p \in Peer |-> New]
  BY DEF Init, PeersInit
<1>2. CallType /\ \A t \in Task : call[t].pc = "idle"
  BY <1>1 DEF CallType, NoCall, Points
<1>3. SlotTypes
  BY <1>1, <1>2, PeerConstants, ExchangeAssumption DEF SlotTypes
<1>4. ASSUME NEW p \in Peer PROVE PeerInv(p)
  <2>1. Marking(p) = {} /\ Active(p) = 0 /\ Cardinality({}) = 0
    BY <1>1, <1>2, PeerConstants, FS_EmptySet DEF Marking, Active
  <2>2. /\ Cardinality(Owing(p)) \in Nat /\ Cardinality(Handling(p)) \in Nat /\ Cardinality(User) \in Nat
        /\ max_concurrent \in Nat \ {0} /\ Cardinality(Marking(p)) = 0
    BY <1>3, <2>1, SlotCounts, PeerAssumption
  <2>3. Limit(p) /\ Balance(p)
    BY <2>1, <2>2 DEF Limit, Balance
  <2> DEFINE g == [s \in {} |-> s]
  <2>4. g \in [Marking(p) -> Owing(p)]
    BY <2>1
  <2> HIDE DEF g
  <2>5. Matched(p)
    BY <2>1, <2>4 DEF Matched
  <2>6. QED
    BY <2>3, <2>5 DEF PeerInv
<1>5. QED
  BY <1>3, <1>4 DEF SlotInv

LEMMA NextSlotInv == WantsInv /\ SlotInv /\ [Next]_vars => SlotInv'
<1> SUFFICES ASSUME WantsInv, SlotInv, [Next]_vars PROVE SlotInv'
  OBVIOUS
<1>1. CallType' /\ SlotTypes /\ peers \in [Peer -> PeerState]
  BY NextWantsInv DEF WantsInv, SlotInv, SlotTypes
<1>2. CASE \E t \in User : \/ \E c \in Cid : want(t, c) \/ cancel_want(t, c) \/ request(t, c) \/ next_want(t, c)
                          \/ \E expired \in SUBSET wants : cleanup(t, expired)
  <2>1. PICK t \in User : \/ \E c \in Cid : want(t, c) \/ cancel_want(t, c) \/ request(t, c) \/ next_want(t, c)
                          \/ \E expired \in SUBSET wants : cleanup(t, expired)
    BY <1>2
  <2>2. QED
    BY <1>1, <2>1, UserSlots
<1>3. CASE \E t \in Receiver, c \in Cid, p \in Peer : receive_block(t, c, p)
  BY <1>1, <1>3, ReceiveSlots DEF Task
<1>4. CASE \E t \in Task : Step(t)
  <2>1. PICK t \in Task : Step(t)
    BY <1>4
  <2>2. CASE mark_pending(t) \/ unpend(t)
    BY <1>1, <2>2, StepSlots
  <2>3. CASE \E c \in Cid : \/ want_contains(t, c) \/ put_block(t, c) \/ put_fails(t, c)
                            \/ receive_has(t, c) \/ receive_unwant(t, c)
    BY <1>1, <2>3, StepSlots
  <2>4. CASE \E c \in Cid : select_providers_first(t, c) \/ select_any(t, c) \/ receive_success(t, c)
    BY <1>1, <2>4, SelectSlots, SuccessSlots
  <2>5. CASE \E p \in Peer : mark_peer(t, p)
    BY <1>1, <2>5, MarkSlots
  <2>6. QED
    BY <2>1, <2>2, <2>3, <2>4, <2>5 DEF Step
<1>5. CASE Refusal
  BY <1>5, RefusalSlots DEF Refusal
<1>6. CASE \E c \in Cid, p \in Peer : record_have(p, c)
  BY <1>1, <1>6, RecordFacts, QuietPeer DEF record_have
<1>7. CASE \E p \in Peer : connect(p) \/ disconnect(p) \/ pardon(p)
  BY <1>7, ConnectSlots
<1>8. CASE \E c \in Cid : delete(c)
  BY <1>1, <1>8, DeleteSlots
<1>9. CASE UNCHANGED vars
  BY <1>1, <1>9, UnchangedFalls, QuietPeer DEF vars, peerVars
<1>10. QED
  BY <1>2, <1>3, <1>4, <1>5, <1>6, <1>7, <1>8, <1>9 DEF Next

LEMMA SlotInvImplies == SlotInv => SlotsAreOwed /\ LimitNearlyHolds
<1> SUFFICES ASSUME SlotInv, NEW p \in Peer
             PROVE  /\ p \notin leaky /\ Known(p) => peers[p].active_requests <= Outstanding(p)
                    /\ Known(p) => peers[p].active_requests < max_concurrent + Cardinality(User)
  BY DEF SlotsAreOwed, LimitNearlyHolds
<1>1. /\ Cardinality(Marking(p)) \in Nat /\ Cardinality(Owing(p)) \in Nat /\ Cardinality(Handling(p)) \in Nat
      /\ Cardinality(User) \in Nat /\ Active(p) \in Nat /\ max_concurrent \in Nat
  BY SlotCounts, PeerAssumption DEF SlotInv
<1>2. Outstanding(p) = Cardinality(Owing(p)) + Cardinality(Handling(p)) /\ Active(p) = peers[p].active_requests
  BY DEF Outstanding, Owing, Handling, Active
<1>3. p \notin leaky => Active(p) <= Outstanding(p)
  BY <1>1, <1>2 DEF SlotInv, PeerInv, Balance
<1>4. Known(p) => Active(p) < max_concurrent + Cardinality(User)
  BY <1>1 DEF SlotInv, PeerInv, Limit
<1>5. QED
  BY <1>2, <1>3, <1>4

\* A peer that has not refused, answered early or sent a block in vain has no more
\* slots taken than it owes answers, whatever the order in which requests are
\* marked, answered, failed and forgotten.  (bitswap.rs, mark_request_sent
\* against receive_block and record_failure)
THEOREM SlotsOwed == Spec => []SlotsAreOwed
<1>1. QED
  BY InitWantsInv, NextWantsInv, InitSlotInv, NextSlotInv, SlotInvImplies, PTL DEF Spec

\* The test of a peer's limit and the count of the request are two steps: they
\* pass the limit by fewer requests than there are users, never by more.
\* (peer_manager.rs, can_accept_request against mark_request_sent)
THEOREM LimitHolds == Spec => []LimitNearlyHolds
<1>1. QED
  BY InitWantsInv, NextWantsInv, InitSlotInv, NextSlotInv, SlotInvImplies, PTL DEF Spec

=============================================================================
