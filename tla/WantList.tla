------------------------------ MODULE WantList ------------------------------
(***************************************************************************)
(* The want list of the transport layer (ipfrs-transport/src/want_list.rs):*)
(* a map `entries' from wanted CIDs to want entries, and a binary heap that*)
(* is never updated in place.  Changing a priority pushes a second node    *)
(* with a fresh version and leaves the old one behind; removing a want     *)
(* leaves its node behind; pop discards nodes whose version is not the one *)
(* recorded for the CID.                                                   *)
(*                                                                         *)
(* ConcurrentWantList takes one lock around each call, so every operation  *)
(* is one step, and a batch call is a run of the single operations.        *)
(* Time is a counter of ticks; an entry may have been built by its caller  *)
(* some ticks before the call to add.                                      *)
(***************************************************************************)
EXTENDS Integers, FiniteSets

CONSTANTS
    Cid,            \* block identifiers
    PriorityArg,    \* the priorities callers pass in
    DeadlineArg,    \* the deadlines callers set, in ticks
    MaxWants,       \* WantListConfig::max_wants
    Timeout,        \* WantListConfig::default_timeout, in ticks
    UrgentWindow,   \* "less than 1 s left", in ticks
    HighWindow,     \* "less than 5 s left", in ticks
    MaxTime,        \* bound: last tick
    MaxVersion,     \* bound: versions handed out
    MaxRetries      \* bound: attempts recorded per want

ASSUME WantListAssumption ==
    /\ IsFiniteSet(Cid)
    /\ PriorityArg \subseteq Int
    /\ DeadlineArg \subseteq Nat
    /\ MaxWants \in Nat /\ Timeout \in Nat /\ MaxTime \in Nat
    /\ UrgentWindow \in Nat /\ HighWindow \in Nat
    /\ MaxVersion \in Nat /\ MaxRetries \in Nat

VARIABLES
    entries,          \* cid -> want entry together with its live version
    heap,             \* the heap's nodes (each has a version of its own)
    version_counter,
    now,              \* the clock
    out               \* the latest call, and the CIDs it handed back

vars == <<entries, heap, version_counter, now, out>>

Low      == 0
Normal   == 50
High     == 100
Urgent   == 200
Critical == 300

Never == -1           \* "no deadline"

WantEntry == [priority : Int, created_at : Nat, expires_at : Nat,
              deadline : Nat \cup {Never}, retry_count : Nat, version : Nat]

HeapEntry == [cid : Cid, priority : Int, created_at : Nat, version : Nat]

-----------------------------------------------------------------------------
(* Pure helpers                                                            *)

MaxOf(a, b) == IF a >= b THEN a ELSE b

\* The stored priority, raised as the deadline approaches and passes.
effective_priority(e, t) ==
    IF e.deadline = Never THEN e.priority
    ELSE IF t >= e.deadline THEN MaxOf(e.priority, Critical)
    ELSE IF e.deadline - t < UrgentWindow THEN MaxOf(e.priority, Urgent)
    ELSE IF e.deadline - t < HighWindow THEN MaxOf(e.priority, High)
    ELSE e.priority

is_expired(e, t) == t >= e.expires_at

\* Mutants of Before: the max-heap read as a min-heap; ties served latest first.
BeforeAsMinHeap(m, n) ==
    \/ m.priority < n.priority
    \/ m.priority = n.priority /\ m.created_at < n.created_at

BeforeLatestFirst(m, n) ==
    \/ m.priority > n.priority
    \/ m.priority = n.priority /\ m.created_at > n.created_at

\* HeapEntry's Ord: m is served before n.
Before(m, n) ==
    \/ m.priority > n.priority
    \/ m.priority = n.priority /\ m.created_at < n.created_at

\* A node is live when its CID is wanted under that very version.
Live(n) == n.cid \in DOMAIN entries /\ entries[n.cid].version = n.version

Node(c, p, created, v) ==
    [cid |-> c, priority |-> p, created_at |-> created, version |-> v]

\* A want re-inserted with priority p under version v.
Reprioritised(e, p, v) == [e EXCEPT !.priority = p, !.version = v]

Put(f, c, e) == [x \in DOMAIN f \cup {c} |-> IF x = c THEN e ELSE f[x]]

Without(f, S) == [x \in DOMAIN f \ S |-> f[x]]

Returns(op, S) == out' = [op |-> op, got |-> S]

-----------------------------------------------------------------------------
(* Operations                                                              *)

Init ==
    /\ entries = [c \in {} |-> 0]
    /\ heap = {}
    /\ version_counter = 0
    /\ now = 0
    /\ out = [op |-> "new", got |-> {}]

\* add: refused (no step) when the CID is already wanted or the list is full.
add(c, p, created, deadline) ==
    LET v == version_counter + 1
        e == [priority |-> p, created_at |-> created,
              expires_at |-> created + Timeout, deadline |-> deadline,
              retry_count |-> 0, version |-> v]
    IN  /\ v <= MaxVersion
        /\ c \notin DOMAIN entries
        /\ Cardinality(DOMAIN entries) < MaxWants
        /\ version_counter' = v
        /\ entries' = Put(entries, c, e)
        /\ heap' = heap \cup {Node(c, effective_priority(e, now), created, v)}
        /\ Returns("add", {c})
        /\ UNCHANGED now

add_simple(c, p) == add(c, p, now, Never)

\* Distinct versions, just handed out, for the members of S.
FreshVersions(S) ==
    LET n == version_counter
    IN  {ver \in [S -> (n + 1)..(n + Cardinality(S))] :
            \A c, d \in S : c # d => ver[c] # ver[d]}

\* add_batch runs add over a list under one lock: req maps the listed CIDs
\* to their priorities; how many get in depends on the room left, which ones
\* on the order of the list.
add_batch(req) ==
    LET new  == DOMAIN req \ DOMAIN entries
        room == MaxWants - Cardinality(DOMAIN entries)
        Entry(c, v) == [priority |-> req[c], created_at |-> now,
                        expires_at |-> now + Timeout, deadline |-> Never,
                        retry_count |-> 0, version |-> v]
    IN  \E A \in SUBSET new :
          /\ Cardinality(A) <= room
          /\ A # new => Cardinality(A) = room
          /\ version_counter + Cardinality(A) <= MaxVersion
          /\ \E ver \in FreshVersions(A) :
                /\ entries' = [c \in DOMAIN entries \cup A |->
                      IF c \in A THEN Entry(c, ver[c]) ELSE entries[c]]
                /\ heap' = heap \cup {Node(c, req[c], now, ver[c]) : c \in A}
          /\ version_counter' = version_counter + Cardinality(A)
          /\ Returns("add", A)
          /\ UNCHANGED now

\* remove forgets the want and leaves its heap node behind.
remove(c) ==
    /\ c \in DOMAIN entries
    /\ entries' = Without(entries, {c})
    /\ Returns("remove", {c})
    /\ UNCHANGED <<heap, version_counter, now>>

remove_batch(S) ==
    /\ entries' = Without(entries, S)
    /\ Returns("remove", S \cap DOMAIN entries)
    /\ UNCHANGED <<heap, version_counter, now>>

\* Mutants of update_priority: the new node is not pushed; it is pushed with
\* the time of the update as its age.
update_priorityNoPush(c, p) ==
    LET v == version_counter + 1
    IN  /\ v <= MaxVersion
        /\ c \in DOMAIN entries
        /\ version_counter' = v
        /\ entries' = [entries EXCEPT ![c] = Reprioritised(@, p, v)]
        /\ Returns("update", {})
        /\ UNCHANGED <<heap, now>>

update_priorityNewAge(c, p) ==
    LET v == version_counter + 1
    IN  /\ v <= MaxVersion
        /\ c \in DOMAIN entries
        /\ version_counter' = v
        /\ entries' = [entries EXCEPT ![c] = Reprioritised(@, p, v)]
        /\ heap' = heap \cup {Node(c, p, now, v)}
        /\ Returns("update", {})
        /\ UNCHANGED now

\* update_priority stores the priority and pushes a node for it under a
\* fresh version; the deadline plays no part.
update_priority(c, p) ==
    LET v == version_counter + 1
    IN  /\ v <= MaxVersion
        /\ c \in DOMAIN entries
        /\ version_counter' = v
        /\ entries' = [entries EXCEPT ![c] = Reprioritised(@, p, v)]
        /\ heap' = heap \cup {Node(c, p, entries[c].created_at, v)}
        /\ Returns("update", {})
        /\ UNCHANGED now

\* update_priorities_batch runs update_priority over a list under one lock.
update_priorities_batch(req) ==
    LET U == DOMAIN req \cap DOMAIN entries
    IN  /\ version_counter + Cardinality(U) <= MaxVersion
        /\ \E ver \in FreshVersions(U) :
              /\ entries' = [c \in DOMAIN entries |->
                    IF c \in U
                    THEN Reprioritised(entries[c], req[c], ver[c])
                    ELSE entries[c]]
              /\ heap' = heap \cup
                    {Node(c, req[c], entries[c].created_at, ver[c]) : c \in U}
        /\ version_counter' = version_counter + Cardinality(U)
        /\ Returns("update", {})
        /\ UNCHANGED now

\* boost_deadline_priorities re-inserts every want whose effective priority
\* has outgrown the stored one.  A want past its deadline is collected twice,
\* with the same priority, so it takes two consecutive versions and leaves a
\* node that is stale from the start.  The order is the hash map's.
ToBoost == {c \in DOMAIN entries :
                effective_priority(entries[c], now) > entries[c].priority}
BoostedTwice == {c \in ToBoost : now >= entries[c].deadline}

boost_deadline_priorities ==
    LET n == Cardinality(ToBoost) + Cardinality(BoostedTwice)
        eff(c) == effective_priority(entries[c], now)
        Pushed(c, v) == Node(c, eff(c), entries[c].created_at, v)
    IN  /\ ToBoost # {}
        /\ version_counter + n <= MaxVersion
        /\ version_counter' = version_counter + n
        /\ \E ver \in [ToBoost -> (version_counter + 1)..(version_counter + n)] :
              /\ \A c \in BoostedTwice : ver[c] - 1 > version_counter
              /\ \A c, d \in ToBoost : c # d =>
                    /\ ver[c] # ver[d]
                    /\ d \in BoostedTwice => ver[c] # ver[d] - 1
              /\ entries' = [c \in DOMAIN entries |->
                    IF c \in ToBoost
                    THEN Reprioritised(entries[c], eff(c), ver[c])
                    ELSE entries[c]]
              /\ heap' = heap \cup {Pushed(c, ver[c]) : c \in ToBoost}
                              \cup {Pushed(c, ver[c] - 1) : c \in BoostedTwice}
        /\ Returns("update", {})
        /\ UNCHANGED now

\* pop discards nodes in heap order until it meets a live one.  Nodes that
\* compare equal come out in any order, so stale ties may or may not go.
popSome(n) ==
    /\ Live(n)
    /\ \A m \in heap : Live(m) => ~Before(m, n)
    /\ \E ties \in SUBSET {m \in heap : ~Live(m) /\ ~Before(m, n) /\ ~Before(n, m)} :
          heap' = heap \ ({n} \cup {m \in heap : Before(m, n)} \cup ties)
    /\ entries' = Without(entries, {n.cid})
    /\ Returns("pop", {n.cid})
    /\ UNCHANGED <<version_counter, now>>

\* ... or runs the heap dry.
popNone ==
    /\ \A m \in heap : ~Live(m)
    /\ heap' = {}
    /\ Returns("pop", {})
    /\ UNCHANGED <<entries, version_counter, now>>

cleanup_expired ==
    LET expired == {c \in DOMAIN entries : is_expired(entries[c], now)}
    IN  /\ entries' = Without(entries, expired)
        /\ Returns("remove", expired)
        /\ UNCHANGED <<heap, version_counter, now>>

mark_attempted(c) ==
    /\ c \in DOMAIN entries
    /\ entries[c].retry_count < MaxRetries
    /\ entries' = [entries EXCEPT ![c].retry_count = @ + 1]
    /\ Returns("update", {})
    /\ UNCHANGED <<heap, version_counter, now>>

\* clear empties both containers and keeps the version counter.
clear ==
    /\ entries' = Without(entries, DOMAIN entries)
    /\ heap' = {}
    /\ Returns("remove", DOMAIN entries)
    /\ UNCHANGED <<version_counter, now>>

Tick ==
    /\ now < MaxTime
    /\ now' = now + 1
    /\ UNCHANGED <<entries, heap, version_counter, out>>

Next ==
    \/ \E c \in Cid, p \in PriorityArg : add_simple(c, p)
    \/ \E c \in Cid, p \in PriorityArg, created \in 0..now, d \in DeadlineArg :
          add(c, p, created, d)
    \/ \E S \in SUBSET Cid : \E req \in [S -> PriorityArg] : add_batch(req)
    \/ \E c \in Cid : remove(c)
    \/ \E S \in SUBSET Cid : remove_batch(S)
    \/ \E c \in Cid, p \in PriorityArg : update_priority(c, p)
    \/ \E S \in SUBSET Cid : \E req \in [S -> PriorityArg] :
          update_priorities_batch(req)
    \/ boost_deadline_priorities
    \/ \E n \in heap : popSome(n)
    \/ popNone
    \/ cleanup_expired
    \/ \E c \in Cid : mark_attempted(c)
    \/ clear
    \/ Tick

Spec == Init /\ [][Next]_vars

-----------------------------------------------------------------------------
(* Properties                                                              *)

\* Types of the want list's state.
TypeOK ==
    /\ DOMAIN entries \subseteq Cid
    /\ entries \in [DOMAIN entries -> WantEntry]
    /\ heap \subseteq HeapEntry
    /\ version_counter \in Nat
    /\ now \in Nat
    /\ out \in [op : {"new", "add", "remove", "update", "pop"}, got : SUBSET Cid]

\* Lazy deletion loses nobody: through any sequence of priority updates,
\* boosts, removals, re-additions and pops, every wanted CID has exactly one
\* heap node that pop will accept for it.
EveryWantIsPoppable ==
    \A c \in DOMAIN entries :
        \E n \in heap : /\ n.cid = c /\ Live(n)
                        /\ \A m \in heap : m.cid = c /\ Live(m) => m = n

\* The live node ranks a want at least as high as the priority stored for it,
\* never higher than its deadline justifies by now, and keeps its age: an update
\* that stored one priority and pushed another, or pushed it under the wrong
\* age, would let pop serve wants out of order.
LiveNodeMatchesEntry ==
    \A n \in heap : Live(n) =>
        /\ n.priority >= entries[n.cid].priority
        /\ n.priority <= effective_priority(entries[n.cid], now)
        /\ n.created_at = entries[n.cid].created_at

\* max_wants holds at every moment, whatever mix of calls got there.
CapacityRespected == Cardinality(DOMAIN entries) <= MaxWants

\* What pop hands out is never out-ranked by the stored priority of a want it
\* leaves behind: the deadline-driven boosts and the lazily deleted nodes
\* cannot invert the order of service.
PopNeverInverts ==
    [][\A n \in heap : popSome(n) =>
          \A c \in DOMAIN entries' :
              effective_priority(entries[n.cid], now) >= entries[c].priority]_vars

-----------------------------------------------------------------------------
(* Refinement: the rank of a want is that of its live node.                *)

LiveNode(c) == CHOOSE n \in heap : n.cid = c /\ Live(n)

Queue == [c \in DOMAIN entries |->
             [priority |-> LiveNode(c).priority,
              created  |-> LiveNode(c).created_at]]

Abstract == INSTANCE PriorityQueue WITH queue <- Queue

\* The lazily deleted heap implements a plain priority queue: pop serves a
\* want of highest rank and answers "nothing" only when nothing is wanted.
ImplementsPriorityQueue == Abstract!Spec
=============================================================================
