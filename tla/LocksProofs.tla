------------------------------ MODULE LocksProofs ------------------------------
(***************************************************************************)
(* Proofs about calls that take locks one after the other: those of the    *)
(* pin index (PinLocks), for any CIDs and any number of threads, and those *)
(* of request coalescing (RequestCoalescer), for any number of tasks and   *)
(* workers.  What is atomic to the callers, who is answered, and in which  *)
(* one way the threads can stand still.                                    *)
(***************************************************************************)
EXTENDS PinLocks, RequestCoalescer, FiniteSetTheorems, TLAPS

-----------------------------------------------------------------------------
(* The pin index: the invariant says who can hold what at the same time,   *)
(* and how far the three maps are ahead of what has been committed while   *)
(* somebody holds their locks.                                             *)

\* The calls that hold a lock for writing, by where they are.
PinsWriters == {"unpin_deps", "unpin_indirect", "clear_indirect", "clear_deps"}
IndirectWriters == {"add_indirect", "clear_deps"}

PinPoints == {"idle", "is_pinned", "add_indirect"} \cup PinsWriters
PinMap == [Cid -> PinType \cup {"None"}]
Call == [pc : PinPoints, cid : Cid \cup {NoCid}, cids : SUBSET Cid]

LockTypes ==
    /\ pins \in PinMap
    /\ indirect_pins \in SUBSET Cid
    /\ recursive_deps \in [Cid -> SUBSET Cid]
    /\ call \in [Thread -> Call]
    /\ committed \in [pins : PinMap, indirect : SUBSET Cid, deps : [Cid -> SUBSET Cid]]
    /\ \A t \in Thread : call[t].pc \in {"add_indirect", "unpin_deps", "unpin_indirect"} => call[t].cid \in Cid

\* One writer and no reader, or any number of readers.
Exclusion ==
    \A t, u \in Thread : t # u =>
        /\ call[t].pc \in PinsWriters => call[u].pc \notin PinsWriters \cup {"is_pinned"}
        /\ call[t].pc \in IndirectWriters => call[u].pc \notin IndirectWriters

PinsInv ==
    /\ (\A t \in Thread : call[t].pc \notin PinsWriters) => pins = committed.pins
    /\ \A t \in Thread :
          /\ call[t].pc \in {"unpin_deps", "unpin_indirect"} =>
                /\ committed.pins[call[t].cid] = "Recursive"
                /\ pins = [committed.pins EXCEPT ![call[t].cid] = "None"]
          /\ call[t].pc \in {"clear_indirect", "clear_deps"} => pins = [c \in Cid |-> "None"]

IndirectInv ==
    /\ (\A t \in Thread : call[t].pc \notin IndirectWriters) => indirect_pins = committed.indirect
    /\ \A t \in Thread :
          /\ call[t].pc = "add_indirect" =>
                indirect_pins \cup call[t].cids = committed.indirect \cup call[t].cids
          /\ call[t].pc = "clear_deps" => indirect_pins = {}

DepsInv ==
    /\ (\A t \in Thread : call[t].pc # "unpin_indirect") => recursive_deps = committed.deps
    /\ \A t \in Thread : call[t].pc = "unpin_indirect" =>
          /\ call[t].cids = committed.deps[call[t].cid]
          /\ recursive_deps = [committed.deps EXCEPT ![call[t].cid] = {}]

LockInv == LockTypes /\ Exclusion /\ PinsInv /\ IndirectInv /\ DepsInv

-----------------------------------------------------------------------------
(* Locks *)

\* A lock is free when no call is where it would hold it.
LEMMA Free ==
    /\ CanRead("pins") <=> \A t \in Thread : call[t].pc \notin PinsWriters
    /\ CanWrite("pins") <=> \A t \in Thread : call[t].pc \notin PinsWriters \cup {"is_pinned"}
    /\ CanRead("indirect") <=> \A t \in Thread : call[t].pc \notin IndirectWriters
    /\ CanWrite("indirect") <=> \A t \in Thread : call[t].pc \notin IndirectWriters
    /\ CanWrite("deps") <=> \A t \in Thread : call[t].pc # "unpin_indirect"
<1>1. \A t : /\ Writes(t, "pins") <=> call[t].pc \in PinsWriters
             /\ Writes(t, "indirect") <=> call[t].pc \in IndirectWriters
             /\ Writes(t, "deps") <=> call[t].pc = "unpin_indirect"
             /\ Reads(t, "pins") <=> call[t].pc = "is_pinned"
             /\ ~Reads(t, "indirect") /\ ~Reads(t, "deps")
  BY DEF Writes, Reads, PinsWriters, IndirectWriters
<1>2. QED
  BY <1>1 DEF CanRead, CanWrite

\* A step of t moves t alone.
LEMMA WaitFacts ==
    ASSUME LockTypes, NEW t \in Thread, NEW at \in PinPoints, NEW c \in Cid \cup {NoCid}, NEW cids \in SUBSET Cid,
           Wait(t, at, c, cids)
    PROVE  /\ call' \in [Thread -> Call]
           /\ call'[t].pc = at /\ call'[t].cid = c /\ call'[t].cids = cids
           /\ \A u \in Thread : u # t => call'[u] = call[u]
<1> DEFINE k == [pc |-> at, cid |-> c, cids |-> cids]
<1>1. k \in Call /\ k.pc = at /\ k.cid = c /\ k.cids = cids
  BY DEF Call
<1>2. call' = [call EXCEPT ![t] = k] /\ call \in [Thread -> Call]
  BY DEF Wait, LockTypes
<1> HIDE DEF k
<1>3. QED
  BY <1>1, <1>2

LEMMA ReturnFacts ==
    ASSUME LockTypes, NEW t \in Thread, Return(t)
    PROVE  /\ call' \in [Thread -> Call] /\ call'[t].pc = "idle"
           /\ \A u \in Thread : u # t => call'[u] = call[u]
<1>1. NoCall \in Call /\ NoCall.pc = "idle"
  BY DEF NoCall, Call, PinPoints
<1>2. call' = [call EXCEPT ![t] = NoCall] /\ call \in [Thread -> Call]
  BY DEF Return, LockTypes
<1> HIDE DEF NoCall
<1>3. QED
  BY <1>1, <1>2

\* A lock that is taken was free; one that is kept was held before.
LEMMA ExclusionStays ==
    ASSUME Exclusion, NEW t \in Thread,
           \A u \in Thread : u # t => call'[u] = call[u],
           \/ call'[t].pc \notin PinsWriters
           \/ call[t].pc \in PinsWriters
           \/ \A u \in Thread : call[u].pc \notin PinsWriters \cup {"is_pinned"},
           call'[t].pc = "is_pinned" => \A u \in Thread : call[u].pc \notin PinsWriters,
           \/ call'[t].pc \notin IndirectWriters
           \/ \A u \in Thread : call[u].pc \notin IndirectWriters
    PROVE  Exclusion'
<1> SUFFICES ASSUME NEW u \in Thread, NEW v \in Thread, u # v
             PROVE  /\ call'[u].pc \in PinsWriters => call'[v].pc \notin PinsWriters \cup {"is_pinned"}
                    /\ call'[u].pc \in IndirectWriters => call'[v].pc \notin IndirectWriters
  BY DEF Exclusion
<1>1. CASE u # t /\ v # t
  BY <1>1 DEF Exclusion
<1>2. CASE u = t
  BY <1>2 DEF Exclusion
<1>3. CASE v = t
  <2>1. call'[u] = call[u] /\ (call[t].pc \in PinsWriters => call[u].pc \notin PinsWriters)
    BY <1>3 DEF Exclusion
  <2>2. "is_pinned" \notin PinsWriters
    BY DEF PinsWriters
  <2>3. QED
    BY <1>3, <2>1, <2>2
<1>4. QED
  BY <1>1, <1>2, <1>3

-----------------------------------------------------------------------------
(* Every step keeps the invariant, and is a call of the atomic index or none *)

Refines == [Atomic!PinNext]_(Atomic!pinVars)

\* pin and load: the roots are replaced while nobody is near them.
LEMMA RootsStep ==
    ASSUME LockInv, NEW t \in Thread,
           \/ \E c \in Cid, pin_type \in PinType : pin(t, c, pin_type)
           \/ \E saved \in PinMap : load(t, saved)
    PROVE  LockInv' /\ Refines
<1>1. /\ \A u \in Thread : call[u].pc \notin PinsWriters
      /\ UNCHANGED <<indirect_pins, recursive_deps, call>>
      /\ committed' = [committed EXCEPT !.pins = pins'] /\ pins' \in PinMap
  BY Free DEF pin, load, LockInv, LockTypes, PinMap
<1>2. /\ committed'.pins = pins' /\ committed'.indirect = committed.indirect /\ committed'.deps = committed.deps
      /\ pins = committed.pins
  BY <1>1 DEF LockInv, LockTypes, PinsInv
<1>3. LockTypes'
  BY <1>1 DEF LockInv, LockTypes
<1>4. Exclusion' /\ IndirectInv' /\ DepsInv'
  BY <1>1, <1>2 DEF LockInv, Exclusion, IndirectInv, DepsInv
<1>5. PinsInv'
  BY <1>1, <1>2 DEF PinsInv, PinsWriters
<1>6. Refines
  <2>1. CASE \E c \in Cid, pin_type \in PinType : pin(t, c, pin_type)
    <3>1. PICK c \in Cid, pin_type \in PinType : pin(t, c, pin_type)
      BY <2>1
    <3>2. Atomic!pin(c, pin_type)
      BY <1>2, <3>1 DEF pin, Atomic!pin
    <3>3. QED
      BY <3>2 DEF Refines, Atomic!PinNext, Atomic!PinType, PinType
  <2>2. CASE \E saved \in PinMap : load(t, saved)
    <3>1. PICK saved \in PinMap : load(t, saved)
      BY <2>2
    <3>2. Atomic!load(saved)
      BY <1>2, <3>1 DEF load, Atomic!load
    <3>3. QED
      BY <3>2 DEF Refines, Atomic!PinNext, Atomic!PinType, PinType, PinMap
  <2>3. QED
    BY <2>1, <2>2
<1>7. QED
  BY <1>3, <1>4, <1>5, <1>6 DEF LockInv

\* is_pinned and the first steps of the calls of several locks: what is
\* written is not committed yet.
LEMMA BeginStep ==
    ASSUME LockInv, NEW t \in Thread,
           \/ \E c \in Cid : is_pinned(t, c)
           \/ \E root, c \in Cid : add_indirect(t, root, c)
           \/ \E root \in Cid, cids \in SUBSET Cid \ {{}} : add_indirect_many(t, root, cids)
           \/ clear(t)
    PROVE  LockInv' /\ Refines
<1>1. UNCHANGED <<recursive_deps, committed>> /\ call[t].pc = "idle"
  BY DEF is_pinned, add_indirect, add_indirect_many, clear, Idle
<1>2. Refines
  BY <1>1 DEF Refines, Atomic!pinVars
<1>3. CASE \E c \in Cid : is_pinned(t, c)
  <2>1. PICK c \in Cid : is_pinned(t, c)
    BY <1>3
  <2>2. Wait(t, "is_pinned", c, {}) /\ UNCHANGED <<pins, indirect_pins>>
    BY <2>1 DEF is_pinned
  <2>3. /\ call' \in [Thread -> Call] /\ call'[t].pc = "is_pinned"
        /\ \A u \in Thread : u # t => call'[u] = call[u]
    BY <2>2, WaitFacts DEF LockInv, PinPoints
  <2>4. LockTypes'
    BY <1>1, <2>2, <2>3 DEF LockInv, LockTypes
  <2>5. \A u \in Thread : call[u].pc \notin PinsWriters
    BY <2>1, Free DEF is_pinned
  <2>6. Exclusion'
    BY <2>3, <2>5, ExclusionStays DEF LockInv, PinsWriters, IndirectWriters
  <2>7. PinsInv' /\ IndirectInv' /\ DepsInv'
    BY <1>1, <2>2, <2>3 DEF LockInv, PinsInv, IndirectInv, DepsInv, PinsWriters, IndirectWriters
  <2>8. QED
    BY <1>2, <2>4, <2>6, <2>7 DEF LockInv
<1>4. ASSUME NEW root \in Cid, NEW cids \in SUBSET Cid, CanWrite("indirect"),
             Wait(t, "add_indirect", root, cids), UNCHANGED pins,
             indirect_pins' \in SUBSET Cid, indirect_pins' \cup cids = indirect_pins \cup cids
      PROVE  LockInv'
  <2>1. /\ call' \in [Thread -> Call] /\ call'[t].pc = "add_indirect" /\ call'[t].cid = root /\ call'[t].cids = cids
        /\ \A u \in Thread : u # t => call'[u] = call[u]
    BY <1>4, WaitFacts DEF LockInv, PinPoints
  <2>2. \A u \in Thread : call[u].pc \notin IndirectWriters
    BY <1>4, Free
  <2>3. LockTypes'
    BY <1>1, <1>4, <2>1 DEF LockInv, LockTypes
  <2>4. Exclusion'
    BY <2>1, <2>2, ExclusionStays DEF LockInv, PinsWriters
  <2>5. PinsInv' /\ DepsInv'
    BY <1>1, <1>4, <2>1 DEF LockInv, PinsInv, DepsInv, PinsWriters
  <2>6. indirect_pins = committed.indirect
    BY <2>2 DEF LockInv, IndirectInv
  <2>7. IndirectInv'
    BY <1>1, <1>4, <2>1, <2>2, <2>6 DEF IndirectInv, IndirectWriters
  <2>8. QED
    BY <2>3, <2>4, <2>5, <2>7 DEF LockInv
<1>5. CASE \E root, c \in Cid : add_indirect(t, root, c)
  <2>1. PICK root \in Cid, c \in Cid : add_indirect(t, root, c)
    BY <1>5
  <2> DEFINE cids == {c}
  <2>2. /\ cids \in SUBSET Cid /\ CanWrite("indirect") /\ Wait(t, "add_indirect", root, cids) /\ UNCHANGED pins
        /\ indirect_pins' = indirect_pins \cup cids
    BY <2>1 DEF add_indirect
  <2> HIDE DEF cids
  <2>3. indirect_pins' \in SUBSET Cid
    BY <2>2 DEF LockInv, LockTypes
  <2>4. QED
    BY <1>2, <1>4, <2>2, <2>3
<1>6. CASE \E root \in Cid, cids \in SUBSET Cid \ {{}} : add_indirect_many(t, root, cids)
  <2>1. PICK root \in Cid, cids \in SUBSET Cid : add_indirect_many(t, root, cids)
    BY <1>6
  <2>2. /\ CanWrite("indirect") /\ Wait(t, "add_indirect", root, cids) /\ UNCHANGED pins
        /\ indirect_pins' = indirect_pins /\ indirect_pins' \in SUBSET Cid
    BY <2>1 DEF add_indirect_many, LockInv, LockTypes
  <2>3. QED
    BY <1>2, <1>4, <2>2
<1>7. CASE clear(t)
  <2>1. Wait(t, "clear_indirect", NoCid, {}) /\ UNCHANGED indirect_pins /\ pins' = [c \in Cid |-> "None"]
    BY <1>7 DEF clear
  <2>2. /\ call' \in [Thread -> Call] /\ call'[t].pc = "clear_indirect"
        /\ \A u \in Thread : u # t => call'[u] = call[u]
    <3> DEFINE none == {}
    <3>1. LockTypes /\ "clear_indirect" \in PinPoints /\ NoCid \in Cid \cup {NoCid} /\ none \in SUBSET Cid
      BY DEF LockInv, PinPoints, PinsWriters
    <3>2. Wait(t, "clear_indirect", NoCid, none)
      BY <2>1
    <3> HIDE DEF none
    <3>3. QED
      BY <3>1, <3>2, WaitFacts
  <2>3. \A u \in Thread : call[u].pc \notin PinsWriters \cup {"is_pinned"}
    BY <1>7, Free DEF clear
  <2>4. pins' \in PinMap
    BY <2>1 DEF PinMap
  <2>5. LockTypes'
    BY <1>1, <2>1, <2>2, <2>4 DEF LockInv, LockTypes
  <2>6. Exclusion'
    BY <2>2, <2>3, ExclusionStays DEF LockInv, PinsWriters, IndirectWriters
  <2>7. IndirectInv' /\ DepsInv'
    BY <1>1, <2>1, <2>2 DEF LockInv, IndirectInv, DepsInv, IndirectWriters
  <2>8. PinsInv'
    BY <2>1, <2>2, <2>3 DEF PinsInv, PinsWriters
  <2>9. QED
    BY <1>2, <2>5, <2>6, <2>7, <2>8 DEF LockInv
<1>8. QED
  BY <1>3, <1>5, <1>6, <1>7

\* The end of is_pinned.
LEMMA IsPinnedStep ==
    ASSUME LockInv, NEW t \in Thread, is_pinned_indirect(t)
    PROVE  LockInv' /\ Refines
<1>1. Return(t) /\ call[t].pc = "is_pinned" /\ UNCHANGED <<pins, indirect_pins, recursive_deps, committed>>
  BY DEF is_pinned_indirect
<1>2. /\ call' \in [Thread -> Call] /\ call'[t].pc = "idle"
      /\ \A u \in Thread : u # t => call'[u] = call[u]
  BY <1>1, ReturnFacts DEF LockInv
<1>3. LockTypes'
  BY <1>1, <1>2 DEF LockInv, LockTypes
<1>4. Exclusion'
  BY <1>2, ExclusionStays DEF LockInv, PinsWriters, IndirectWriters
<1>5. PinsInv' /\ IndirectInv' /\ DepsInv'
  BY <1>1, <1>2 DEF LockInv, PinsInv, IndirectInv, DepsInv, PinsWriters, IndirectWriters
<1>6. Refines
  BY <1>1 DEF Refines, Atomic!pinVars
<1>7. QED
  BY <1>3, <1>4, <1>5, <1>6 DEF LockInv

\* add_indirect and add_indirect_many get the dependencies: both maps are
\* committed.
LEMMA AddStep ==
    ASSUME LockInv, NEW t \in Thread, add_indirect_deps(t)
    PROVE  LockInv' /\ Refines
<1> DEFINE root == call[t].cid
           cids == call[t].cids
<1>1. /\ Return(t) /\ call[t].pc = "add_indirect" /\ UNCHANGED pins
      /\ indirect_pins' = indirect_pins \cup cids
      /\ recursive_deps' = [recursive_deps EXCEPT ![root] = @ \cup cids]
      /\ committed' = [committed EXCEPT !.indirect = indirect_pins', !.deps = recursive_deps']
  BY DEF add_indirect_deps
<1>2. /\ call' \in [Thread -> Call] /\ call'[t].pc = "idle"
      /\ \A u \in Thread : u # t => call'[u] = call[u]
  BY <1>1, ReturnFacts DEF LockInv
<1>3. root \in Cid /\ cids \in SUBSET Cid
  BY <1>1 DEF LockInv, LockTypes, Call
<1>4. indirect_pins' \in SUBSET Cid /\ recursive_deps' \in [Cid -> SUBSET Cid]
  BY <1>1, <1>3 DEF LockInv, LockTypes
<1>5. /\ committed'.pins = committed.pins /\ committed'.indirect = indirect_pins' /\ committed'.deps = recursive_deps'
      /\ committed' \in [pins : PinMap, indirect : SUBSET Cid, deps : [Cid -> SUBSET Cid]]
  BY <1>1, <1>4 DEF LockInv, LockTypes
<1>6. \A u \in Thread : /\ call[u].pc # "unpin_indirect"
                        /\ u # t => call[u].pc \notin IndirectWriters
  BY <1>1, Free DEF add_indirect_deps, LockInv, Exclusion, IndirectWriters
<1>7. /\ indirect_pins \cup cids = committed.indirect \cup cids /\ recursive_deps = committed.deps
  BY <1>1, <1>6 DEF LockInv, IndirectInv, DepsInv
<1>8. LockTypes'
  BY <1>1, <1>2, <1>4, <1>5 DEF LockInv, LockTypes
<1>9. Exclusion'
  BY <1>2, ExclusionStays DEF LockInv, PinsWriters, IndirectWriters
<1>10. PinsInv'
  <2>1. \A u \in Thread : /\ call'[u].pc \in PinsWriters <=> call[u].pc \in PinsWriters
                          /\ call[u].pc \in PinsWriters => call'[u] = call[u]
    BY <1>1, <1>2 DEF PinsWriters
  <2>2. PinsInv /\ UNCHANGED pins /\ committed'.pins = committed.pins
    BY <1>1, <1>5 DEF LockInv
  <2>3. QED
    BY <2>1, <2>2 DEF PinsInv, PinsWriters
<1>11. IndirectInv' /\ DepsInv'
  BY <1>2, <1>5, <1>6 DEF IndirectInv, DepsInv, IndirectWriters
<1>12. Atomic!add_indirect_many(root, cids)
  BY <1>1, <1>5, <1>7 DEF Atomic!add_indirect_many
<1> HIDE DEF root, cids
<1>13. Refines
  BY <1>3, <1>12 DEF Refines, Atomic!PinNext
<1>14. QED
  BY <1>8, <1>9, <1>10, <1>11, <1>13 DEF LockInv

\* The first step of unpin: a direct pin is done, a recursive one goes on
\* with the lock of the roots in hand.
LEMMA UnpinStep ==
    ASSUME LockInv, NEW t \in Thread, NEW c \in Cid, unpin(t, c)
    PROVE  LockInv' /\ Refines
<1>1. /\ pins[c] # "None" /\ pins' = [pins EXCEPT ![c] = "None"] /\ pins' \in PinMap
      /\ UNCHANGED <<indirect_pins, recursive_deps>> /\ call[t].pc = "idle"
  BY DEF unpin, Idle, LockInv, LockTypes, PinMap
<1>2. \A u \in Thread : call[u].pc \notin PinsWriters \cup {"is_pinned"}
  BY Free DEF unpin
<1>3. pins = committed.pins
  BY <1>2 DEF LockInv, PinsInv
<1>4. CASE pins[c] = "Recursive"
  <2> DEFINE none == {}
  <2>1. Wait(t, "unpin_deps", c, none) /\ UNCHANGED committed
    BY <1>4 DEF unpin
  <2>2. LockTypes /\ "unpin_deps" \in PinPoints /\ c \in Cid \cup {NoCid} /\ none \in SUBSET Cid
    BY DEF LockInv, PinPoints, PinsWriters
  <2> HIDE DEF none
  <2>3. /\ call' \in [Thread -> Call] /\ call'[t].pc = "unpin_deps" /\ call'[t].cid = c
        /\ \A u \in Thread : u # t => call'[u] = call[u]
    BY <2>1, <2>2, WaitFacts
  <2>4. LockTypes'
    BY <1>1, <2>1, <2>3 DEF LockInv, LockTypes
  <2>5. Exclusion'
    BY <1>2, <2>3, ExclusionStays DEF LockInv, PinsWriters, IndirectWriters
  <2>6. IndirectInv' /\ DepsInv'
    BY <1>1, <2>1, <2>3 DEF LockInv, IndirectInv, DepsInv, IndirectWriters
  <2>7. PinsInv'
    BY <1>1, <1>2, <1>3, <1>4, <2>1, <2>3 DEF PinsInv, PinsWriters
  <2>8. Refines
    BY <2>1 DEF Refines, Atomic!pinVars
  <2>9. QED
    BY <2>4, <2>5, <2>6, <2>7, <2>8 DEF LockInv
<1>5. CASE pins[c] = "Direct"
  <2>1. UNCHANGED call /\ committed' = [committed EXCEPT !.pins = pins']
    BY <1>5 DEF unpin
  <2>2. /\ committed'.pins = pins' /\ committed'.indirect = committed.indirect /\ committed'.deps = committed.deps
    BY <2>1 DEF LockInv, LockTypes
  <2>3. LockTypes'
    BY <1>1, <2>1 DEF LockInv, LockTypes
  <2>4. Exclusion' /\ IndirectInv' /\ DepsInv'
    BY <1>1, <2>1, <2>2 DEF LockInv, Exclusion, IndirectInv, DepsInv
  <2>5. PinsInv'
    BY <1>2, <2>1, <2>2 DEF PinsInv, PinsWriters
  <2>6. Atomic!unpin(c)
    BY <1>1, <1>3, <1>5, <2>2 DEF Atomic!unpin
  <2>7. Refines
    BY <2>6 DEF Refines, Atomic!PinNext
  <2>8. QED
    BY <2>3, <2>4, <2>5, <2>7 DEF LockInv
<1>6. QED
  BY <1>1, <1>4, <1>5 DEF LockInv, LockTypes, PinMap, PinType

\* unpin gets the dependencies.
LEMMA UnpinDepsStep ==
    ASSUME LockInv, NEW t \in Thread, unpin_deps(t)
    PROVE  LockInv' /\ Refines
<1> DEFINE c == call[t].cid
           deps == recursive_deps[c]
<1>1. /\ call[t].pc = "unpin_deps" /\ recursive_deps' = [recursive_deps EXCEPT ![c] = {}]
      /\ UNCHANGED <<pins, indirect_pins>>
  BY DEF unpin_deps
<1>2. \A u \in Thread : /\ call[u].pc # "unpin_indirect"
                        /\ u # t => call[u].pc \notin PinsWriters
  BY <1>1, Free DEF unpin_deps, LockInv, Exclusion, PinsWriters
<1>3. c \in Cid /\ deps \in SUBSET Cid /\ recursive_deps' \in [Cid -> SUBSET Cid] /\ recursive_deps = committed.deps
  BY <1>1, <1>2 DEF LockInv, LockTypes, DepsInv
<1>4. committed.pins[c] = "Recursive" /\ pins = [committed.pins EXCEPT ![c] = "None"]
  BY <1>1 DEF LockInv, PinsInv
<1>5. CASE deps # {}
  <2>1. Wait(t, "unpin_indirect", c, deps) /\ UNCHANGED committed
    BY <1>5 DEF unpin_deps
  <2>2. LockTypes /\ "unpin_indirect" \in PinPoints /\ c \in Cid \cup {NoCid}
    BY <1>3 DEF LockInv, PinPoints, PinsWriters
  <2>a. recursive_deps' = [committed.deps EXCEPT ![c] = {}] /\ deps = committed.deps[c]
    BY <1>1, <1>3
  <2> HIDE DEF c, deps
  <2>3. /\ call' \in [Thread -> Call] /\ call'[t].pc = "unpin_indirect" /\ call'[t].cid = c /\ call'[t].cids = deps
        /\ \A u \in Thread : u # t => call'[u] = call[u]
    BY <1>3, <2>1, <2>2, WaitFacts
  <2>4. LockTypes'
    BY <1>1, <1>3, <2>1, <2>3 DEF LockInv, LockTypes
  <2>5. Exclusion'
    BY <1>1, <2>3, ExclusionStays DEF LockInv, PinsWriters, IndirectWriters
  <2>6. IndirectInv'
    BY <1>1, <2>1, <2>3 DEF LockInv, IndirectInv, IndirectWriters
  <2>7. PinsInv'
    BY <1>1, <1>2, <1>4, <2>1, <2>3 DEF PinsInv, PinsWriters
  <2>8. DepsInv'
    BY <1>2, <2>a, <2>1, <2>3 DEF DepsInv
  <2>9. Refines
    BY <2>1 DEF Refines, Atomic!pinVars
  <2>10. QED
    BY <2>4, <2>5, <2>6, <2>7, <2>8, <2>9 DEF LockInv
<1>6. CASE deps = {}
  <2>1. Return(t) /\ committed' = [committed EXCEPT !.pins = pins]
    BY <1>6 DEF unpin_deps
  <2>2. /\ committed'.pins = pins /\ committed'.indirect = committed.indirect /\ committed'.deps = committed.deps
    BY <2>1 DEF LockInv, LockTypes
  <2>3. /\ call' \in [Thread -> Call] /\ call'[t].pc = "idle"
        /\ \A u \in Thread : u # t => call'[u] = call[u]
    BY <2>1, ReturnFacts DEF LockInv
  <2>4. recursive_deps' = recursive_deps
    BY <1>1, <1>3, <1>6 DEF LockInv, LockTypes
  <2>5. LockTypes'
    BY <1>1, <2>1, <2>3, <2>4 DEF LockInv, LockTypes
  <2>6. Exclusion'
    BY <2>3, ExclusionStays DEF LockInv, PinsWriters, IndirectWriters
  <2>7. IndirectInv' /\ DepsInv'
    <3>1. IndirectInv'
      BY <1>1, <2>2, <2>3 DEF LockInv, IndirectInv, IndirectWriters
    <3>2. DepsInv'
      BY <1>1, <1>2, <1>3, <2>2, <2>3, <2>4 DEF LockInv, DepsInv
    <3>3. QED
      BY <3>1, <3>2
  <2>8. PinsInv'
    BY <1>1, <1>2, <2>2, <2>3 DEF PinsInv, PinsWriters
  <2>9. Atomic!unpin(c)
    <3>1. committed.deps[c] = {} /\ committed.deps = [committed.deps EXCEPT ![c] = {}]
      BY <1>1, <1>3, <1>6, <2>4
    <3>2. committed.indirect = committed.indirect \ (committed.deps[c] \ Atomic!StillNeeded(c))
      BY <3>1
    <3> HIDE DEF c
    <3>3. QED
      BY <1>4, <2>2, <3>1, <3>2 DEF Atomic!unpin
  <2>10. Refines
    BY <1>3, <2>9 DEF Refines, Atomic!PinNext
  <2>11. QED
    BY <2>5, <2>6, <2>7, <2>8, <2>10 DEF LockInv
<1>7. QED
  BY <1>5, <1>6

\* unpin gets the indirect pins: all three maps are committed.
LEMMA UnpinIndirectStep ==
    ASSUME LockInv, NEW t \in Thread, unpin_indirect(t)
    PROVE  LockInv' /\ Refines
<1> DEFINE c == call[t].cid
<1>1. /\ call[t].pc = "unpin_indirect" /\ Return(t) /\ UNCHANGED <<pins, recursive_deps>>
      /\ indirect_pins' = indirect_pins \ (call[t].cids \ UNION {recursive_deps[r] : r \in Cid})
      /\ committed' = [pins |-> pins, indirect |-> indirect_pins', deps |-> recursive_deps]
  BY DEF unpin_indirect
<1>2. /\ call' \in [Thread -> Call] /\ call'[t].pc = "idle"
      /\ \A u \in Thread : u # t => call'[u] = call[u]
  BY <1>1, ReturnFacts DEF LockInv
<1>3. \A u \in Thread : /\ call[u].pc \notin IndirectWriters
                        /\ u # t => call[u].pc \notin PinsWriters
  BY <1>1, Free DEF unpin_indirect, LockInv, Exclusion, PinsWriters
<1>4. committed'.pins = pins /\ committed'.indirect = indirect_pins' /\ committed'.deps = recursive_deps
  BY <1>1
<1>5. /\ c \in Cid /\ indirect_pins = committed.indirect /\ call[t].cids = committed.deps[c]
      /\ recursive_deps = [committed.deps EXCEPT ![c] = {}]
      /\ committed.pins[c] = "Recursive" /\ pins = [committed.pins EXCEPT ![c] = "None"]
  BY <1>1, <1>3 DEF LockInv, LockTypes, PinsInv, IndirectInv, DepsInv
<1>6. LockTypes'
  BY <1>1, <1>2 DEF LockInv, LockTypes
<1>7. Exclusion'
  BY <1>2, ExclusionStays DEF LockInv, PinsWriters, IndirectWriters
<1>8. PinsInv' /\ IndirectInv' /\ DepsInv'
  BY <1>1, <1>2, <1>3, <1>4 DEF PinsInv, IndirectInv, DepsInv, PinsWriters, IndirectWriters
<1>9. Atomic!unpin(c)
  <2>1. committed.deps \in [Cid -> SUBSET Cid]
    BY DEF LockInv, LockTypes
  <2>2. UNION {recursive_deps[r] : r \in Cid} = Atomic!StillNeeded(c)
    <3>1. recursive_deps[c] = {} /\ \A r \in Cid \ {c} : recursive_deps[r] = committed.deps[r]
      BY <1>5, <2>1
    <3> HIDE DEF c
    <3>2. QED
      BY <1>5, <3>1 DEF Atomic!StillNeeded
  <2>3. committed'.indirect = committed.indirect \ (committed.deps[c] \ Atomic!StillNeeded(c))
    BY <1>1, <1>4, <1>5, <2>2
  <2>4. committed'.pins = [committed.pins EXCEPT ![c] = "None"] /\ committed'.deps = [committed.deps EXCEPT ![c] = {}]
    BY <1>4, <1>5
  <2>5. committed.pins[c] = "Recursive"
    BY <1>5
  <2> HIDE DEF c
  <2>6. QED
    BY <2>3, <2>4, <2>5 DEF Atomic!unpin
<1>10. Refines
  BY <1>5, <1>9 DEF Refines, Atomic!PinNext
<1>11. QED
  BY <1>6, <1>7, <1>8, <1>10 DEF LockInv

\* clear gets the indirect pins.
LEMMA ClearIndirectStep ==
    ASSUME LockInv, NEW t \in Thread, clear_indirect(t)
    PROVE  LockInv' /\ Refines
<1> DEFINE none == {}
<1>1. /\ call[t].pc = "clear_indirect" /\ Wait(t, "clear_deps", NoCid, none) /\ indirect_pins' = {}
      /\ UNCHANGED <<pins, recursive_deps, committed>>
  BY DEF clear_indirect
<1>2. LockTypes /\ "clear_deps" \in PinPoints /\ NoCid \in Cid \cup {NoCid} /\ none \in SUBSET Cid
  BY DEF LockInv, PinPoints, PinsWriters
<1> HIDE DEF none
<1>3. /\ call' \in [Thread -> Call] /\ call'[t].pc = "clear_deps"
      /\ \A u \in Thread : u # t => call'[u] = call[u]
  BY <1>1, <1>2, WaitFacts
<1>4. \A u \in Thread : call[u].pc \notin IndirectWriters
  BY Free DEF clear_indirect
<1>5. LockTypes'
  BY <1>1, <1>2, <1>3 DEF LockTypes
<1>6. Exclusion'
  BY <1>1, <1>3, <1>4, ExclusionStays DEF LockInv, PinsWriters
<1>7. PinsInv'
  BY <1>1, <1>3 DEF LockInv, PinsInv, PinsWriters
<1>8. IndirectInv'
  BY <1>1, <1>3, <1>4 DEF IndirectInv, IndirectWriters
<1>9. DepsInv'
  BY <1>1, <1>3 DEF LockInv, DepsInv
<1>10. Refines
  BY <1>1 DEF Refines, Atomic!pinVars
<1>11. QED
  BY <1>5, <1>6, <1>7, <1>8, <1>9, <1>10 DEF LockInv

\* clear gets the dependencies: all three maps are committed.
LEMMA ClearDepsStep ==
    ASSUME LockInv, NEW t \in Thread, clear_deps(t)
    PROVE  LockInv' /\ Refines
<1>1. /\ call[t].pc = "clear_deps" /\ Return(t) /\ UNCHANGED <<pins, indirect_pins>>
      /\ recursive_deps' = [c \in Cid |-> {}] /\ pins = [c \in Cid |-> "None"] /\ indirect_pins = {}
      /\ committed' = [pins |-> pins, indirect |-> indirect_pins, deps |-> recursive_deps']
  BY DEF clear_deps, LockInv, PinsInv, IndirectInv
<1>2. /\ call' \in [Thread -> Call] /\ call'[t].pc = "idle"
      /\ \A u \in Thread : u # t => call'[u] = call[u]
  BY <1>1, ReturnFacts DEF LockInv
<1>3. \A u \in Thread : u # t => call[u].pc \notin PinsWriters \cup IndirectWriters
  BY <1>1 DEF LockInv, Exclusion, PinsWriters, IndirectWriters
<1>4. committed'.pins = pins /\ committed'.indirect = indirect_pins /\ committed'.deps = recursive_deps'
  BY <1>1
<1>5. LockTypes'
  BY <1>1, <1>2 DEF LockInv, LockTypes
<1>6. Exclusion'
  BY <1>2, ExclusionStays DEF LockInv, PinsWriters, IndirectWriters
<1>7. PinsInv' /\ IndirectInv' /\ DepsInv'
  BY <1>1, <1>2, <1>3, <1>4 DEF PinsInv, IndirectInv, DepsInv, PinsWriters, IndirectWriters
<1>8. Atomic!clear
  BY <1>1, <1>4 DEF Atomic!clear
<1>9. Refines
  BY <1>8 DEF Refines, Atomic!PinNext
<1>10. QED
  BY <1>5, <1>6, <1>7, <1>9 DEF LockInv

-----------------------------------------------------------------------------
(* The theorems *)

LEMMA InitLockInv == Init => LockInv /\ Atomic!new
<1> SUFFICES ASSUME Init PROVE LockInv /\ Atomic!new
  OBVIOUS
<1>1. /\ pins = [c \in Cid |-> "None"] /\ indirect_pins = {} /\ recursive_deps = [c \in Cid |-> {}]
      /\ committed.pins = pins /\ committed.indirect = indirect_pins /\ committed.deps = recursive_deps
      /\ \A t \in Thread : call[t].pc = "idle"
  BY DEF Init, NoCall
<1>2. LockTypes
  <2>1. NoCall \in Call
    BY DEF NoCall, Call, PinPoints
  <2>2. pins \in PinMap /\ recursive_deps \in [Cid -> SUBSET Cid]
    BY <1>1 DEF PinMap
  <2>3. QED
    BY <1>1, <2>1, <2>2 DEF Init, LockTypes
<1>3. Exclusion /\ PinsInv /\ IndirectInv /\ DepsInv
  BY <1>1 DEF Exclusion, PinsInv, IndirectInv, DepsInv, PinsWriters, IndirectWriters
<1>4. Atomic!new
  BY <1>1 DEF Atomic!new
<1>5. QED
  BY <1>2, <1>3, <1>4 DEF LockInv

LEMMA NextLockInv == LockInv /\ [Next]_vars => LockInv' /\ Refines
<1> SUFFICES ASSUME LockInv, [Next]_vars PROVE LockInv' /\ Refines
  OBVIOUS
<1>1. CASE UNCHANGED vars
  <2>1. LockInv'
    BY <1>1 DEF vars, LockInv, LockTypes, Exclusion, PinsInv, IndirectInv, DepsInv
  <2>2. Refines
    BY <1>1 DEF vars, Refines, Atomic!pinVars
  <2>3. QED
    BY <2>1, <2>2
<1>2. CASE Next
  <2>1. PICK t \in Thread :
          \/ \E c \in Cid, pin_type \in PinType : pin(t, c, pin_type)
          \/ \E saved \in PinMap : load(t, saved)
          \/ \E c \in Cid : is_pinned(t, c) \/ unpin(t, c)
          \/ \E root, c \in Cid : add_indirect(t, root, c)
          \/ \E root \in Cid, cids \in SUBSET Cid \ {{}} : add_indirect_many(t, root, cids)
          \/ clear(t)
          \/ Continue(t)
    BY <1>2 DEF Next, PinMap
  <2>2. CASE Continue(t)
    BY <2>2, IsPinnedStep, AddStep, UnpinDepsStep, UnpinIndirectStep, ClearIndirectStep, ClearDepsStep DEF Continue
  <2>3. CASE \/ \E c \in Cid, pin_type \in PinType : pin(t, c, pin_type)
             \/ \E saved \in PinMap : load(t, saved)
    BY <2>3, RootsStep
  <2>4. CASE \E c \in Cid : unpin(t, c)
    BY <2>4, UnpinStep
  <2>5. CASE \/ \E c \in Cid : is_pinned(t, c)
             \/ \E root, c \in Cid : add_indirect(t, root, c)
             \/ \E root \in Cid, cids \in SUBSET Cid \ {{}} : add_indirect_many(t, root, cids)
             \/ clear(t)
    BY <2>5, BeginStep
  <2>6. QED
    BY <2>1, <2>2, <2>3, <2>4, <2>5
<1>3. QED
  BY <1>1, <1>2

\* Whatever the interleaving of acquisitions, the maps that other threads can
\* see change as if each call of the pin index ran in one step: PinLocks
\* implements PinManager, step by step.
THEOREM CallsAreAtomic == Spec => ImplementsPinManager
<1>1. LockInv /\ [Next]_vars => LockInv' /\ [Atomic!PinNext]_(Atomic!pinVars)
  BY NextLockInv DEF Refines
<1>2. ImplementsPinManager <=> Atomic!new /\ [][Atomic!PinNext]_(Atomic!pinVars)
  BY DEF ImplementsPinManager, Atomic!PinSpec
<1>3. QED
  BY <1>1, <1>2, InitLockInv, PTL DEF Spec

\* Threads that all wait have between them an add_indirect that waits for the
\* dependencies and an unpin that holds them and waits for the indirect pins:
\* no other mix of the calls' orders of acquisition blocks for ever.
THEOREM OneWayToBlock == Spec => []OnlyInversionBlocks
<1>1. LockInv => OnlyInversionBlocks
  <2> SUFFICES ASSUME LockInv, NEW t \in Thread, ~Idle(t),
                      \A u \in Thread : ~Idle(u) => Blocked(u)
               PROVE  \E v, u \in Thread : call[v].pc = "add_indirect" /\ call[u].pc = "unpin_indirect"
    <3>1. \A v, u \in Thread : (call[v].pc = "add_indirect" /\ call[u].pc = "unpin_indirect") => ~Idle(v) /\ ~Idle(u)
      BY DEF Idle
    <3>2. QED
      BY <3>1 DEF OnlyInversionBlocks
  <2>1. \A u \in Thread : call[u].pc \in PinPoints
    BY DEF LockInv, LockTypes, Call
  <2>2. \A u \in Thread : call[u].pc \in {"add_indirect", "unpin_deps", "clear_deps"} =>
                            \E v \in Thread : call[v].pc = "unpin_indirect"
    BY Free DEF Idle, Blocked, NextLock
  <2>3. \A u \in Thread : call[u].pc \in {"is_pinned", "unpin_indirect", "clear_indirect"} =>
                            \E v \in Thread : call[v].pc \in IndirectWriters
    BY Free DEF Idle, Blocked, NextLock
  <2>4. \A u, v \in Thread : ~(call[u].pc = "clear_deps" /\ call[v].pc = "unpin_indirect")
    BY DEF LockInv, Exclusion, PinsWriters
  <2>5. call[t].pc \in {"add_indirect", "unpin_deps", "clear_deps", "is_pinned", "unpin_indirect", "clear_indirect"}
    BY <2>1 DEF Idle, PinPoints, PinsWriters
  <2>6. \E v \in Thread : call[v].pc \in IndirectWriters
    BY <2>2, <2>3, <2>5
  <2>7. PICK v \in Thread : call[v].pc \in IndirectWriters
    BY <2>6
  <2>8. PICK u \in Thread : call[u].pc = "unpin_indirect"
    BY <2>2, <2>7 DEF IndirectWriters
  <2>9. QED
    BY <2>4, <2>7, <2>8 DEF IndirectWriters
<1>2. QED
  BY <1>1, InitLockInv, NextLockInv, PTL DEF Spec

-----------------------------------------------------------------------------
(* Request coalescing: the invariant follows a channel from the task that  *)
(* makes it to its answer, and says what is so while no entry was taken    *)
(* away before its time.                                                   *)

\* Before its first look at the map a task has made no channel; while it fetches
\* for the channel it made, it is one of the Fetchers.
Fresh(t) == pc[t] \in {"start", "total", "lookup", "insert"}
Fetching(t) == pc[t] \in {"unique", "fetching", "report"}

CoalescerTypes ==
    /\ pending \in [tx : Tasks \cup {None}, waiter_count : Nat]
    /\ pending = NoEntry \/ pending.tx \in Tasks
    /\ guard \in Tasks \cup {None} /\ busy \subseteq Tasks \cup {Cleaner}
    /\ pc \in [Tasks -> Points] /\ rx \in [Tasks -> Tasks \cup {None}]
    /\ answer \in [Tasks -> [value : {"open", "ok", "err", "closed"}, by : Tasks \cup {Cleaner, None}]]
    /\ outcome \in [Tasks -> {"complete", "fail", "cancel", "none"}]

\* A channel is open as long as it is in the map, and is made once.
ChannelInv ==
    \A t \in Tasks :
        /\ guard = t => pc[t] = "coalesced"
        /\ pending.tx = t => answer[t] = Open
        /\ Fresh(t) => answer[t] = Open /\ pending.tx # t
        /\ outcome[t] # "none" => pc[t] \in {"report", "average", "done"}
        /\ pc[t] = "report" => outcome[t] # "none"
        /\ pc[t] \in {"coalesced", "waiting"} =>
              rx[t] \in Tasks /\ (answer[rx[t]] = Open => rx[t] = pending.tx)

\* In peace one task at most is between its look and its entry, and then there is
\* none; the task that fetches is the one whose channel is in the map.
PeaceInv ==
    ~Disturbed =>
        \A t \in Tasks :
            /\ pc[t] = "insert" => pending = NoEntry /\ \A u \in Tasks : pc[u] = "insert" => u = t
            /\ Fetching(t) => pending.tx = t
            /\ answer[t] = Open \/ answer[t].by = t

CoalescerInv == CoalescerTypes /\ ChannelInv /\ PeaceInv

LEMMA InitCoalescerInv ==
    ASSUME CoalescerInit
    PROVE  CoalescerInv
<1>1. CoalescerTypes
  BY CoalescerAssumption DEF CoalescerAssumption, CoalescerInit, CoalescerTypes, NoEntry, Open,
         Points
<1>2. ChannelInv
  BY CoalescerAssumption DEF CoalescerAssumption, CoalescerInit, ChannelInv, NoEntry, Fresh
<1>3. PeaceInv
  BY DEF CoalescerInit, PeaceInv, Fetching
<1>4. QED
  BY <1>1, <1>2, <1>3 DEF CoalescerInv

\* What the steps of a task leave of the types, whatever point it goes to.
LEMMA CoalescerGoTo ==
    ASSUME CoalescerTypes, NEW t \in Tasks, NEW point \in Points, GoTo(t, point)
    PROVE  /\ pc' \in [Tasks -> Points] /\ pc'[t] = point /\ \A u \in Tasks \ {t} : pc'[u] = pc[u]
           /\ busy' \subseteq Tasks \cup {Cleaner}
BY DEF CoalescerTypes, GoTo

\* A step that only moves a task from one point to another, and at most drops
\* its guard.
LEMMA CoalescerMove ==
    ASSUME CoalescerInv, NEW t \in Tasks, NEW point \in Points,
           GoTo(t, point), guard' = DropGuard(t) \/ (guard' = guard /\ guard # t),
           UNCHANGED <<pending, rx, answer, outcome, forced, raced>>,
           Fresh(t) => point \in {"total", "lookup"},
           Fresh(t)' => Fresh(t),
           Fetching(t)' => Fetching(t),
           point # "insert",
           outcome[t] # "none" => point \in {"average", "done"},
           point # "report",
           point = "waiting" => pc[t] = "coalesced",
           point # "coalesced"
    PROVE  CoalescerInv'
<1>1. /\ pc' \in [Tasks -> Points] /\ pc'[t] = point /\ \A u \in Tasks \ {t} : pc'[u] = pc[u]
      /\ busy' \subseteq Tasks \cup {Cleaner}
  BY CoalescerGoTo DEF CoalescerInv
<1>2. CoalescerTypes'
  BY <1>1 DEF CoalescerInv, CoalescerTypes, DropGuard, Points, StatsPoints,
              ShardPoints, NoEntry
<1>3. ASSUME NEW u \in Tasks PROVE guard' = u => guard = u /\ u # t
  BY CoalescerAssumption DEF DropGuard, CoalescerAssumption
<1>4. ChannelInv'
  BY <1>1, <1>3 DEF CoalescerInv, ChannelInv, Fresh, Open
<1>5. PeaceInv'
  BY <1>1 DEF CoalescerInv, PeaceInv, Fetching, Disturbed, NoEntry, Open
<1>6. QED
  BY <1>2, <1>4, <1>5 DEF CoalescerInv

LEMMA CoalescerStart ==
    ASSUME CoalescerInv, NEW t \in Tasks, start(t)
    PROVE  CoalescerInv'
<1> DEFINE point == Count("total", "lookup")
<1>1. /\ pc[t] = "start" /\ GoTo(t, point) /\ UNCHANGED <<pending, guard, rx, answer, outcome, forced, raced>>
      /\ point \in {"total", "lookup"} /\ point \in Points
  BY DEF start, Count, Points, StatsPoints, ShardPoints
<1> HIDE DEF point
<1>2. guard # t /\ outcome[t] = "none" /\ Fresh(t)
  BY <1>1 DEF CoalescerInv, ChannelInv, Fresh
<1>3. pc'[t] = point
  BY <1>1, CoalescerGoTo DEF CoalescerInv
<1>4. ~Fetching(t)'
  BY <1>1, <1>3 DEF Fetching
<1>5. QED
  BY <1>1, <1>2, <1>4, CoalescerMove

LEMMA CoalescerUpdate ==
    ASSUME CoalescerInv, NEW t \in Tasks, stats_update(t)
    PROVE  CoalescerInv'
<1> DEFINE point == Following(pc[t])
<1>1. /\ pc[t] \in {"total", "coalesced", "unique", "average"} /\ GoTo(t, point)
      /\ guard' = DropGuard(t) /\ UNCHANGED <<pending, rx, answer, outcome, forced, raced>>
  BY DEF stats_update, StatsPoints
<1>2. /\ pc[t] = "total" => point = "lookup"
      /\ pc[t] = "coalesced" => point \in {"remove", "waiting"}
      /\ pc[t] = "unique" => point = "fetching"
      /\ pc[t] = "average" => point = "done"
  BY <1>1 DEF Following, AfterJoin
<1> HIDE DEF point
<1>3. point \in {"lookup", "remove", "waiting", "fetching", "done"} /\ point \in Points
  BY <1>1, <1>2 DEF Points, StatsPoints, ShardPoints
<1>4. pc'[t] = point
  BY <1>1, <1>3, CoalescerGoTo DEF CoalescerInv
<1>5. /\ Fresh(t) => point \in {"total", "lookup"}
      /\ Fresh(t)' => Fresh(t)
      /\ Fetching(t)' => Fetching(t)
  BY <1>1, <1>2, <1>4 DEF Fresh, Fetching
<1>6. outcome[t] # "none" => point \in {"average", "done"}
  BY <1>1, <1>2 DEF CoalescerInv, ChannelInv
<1>7. QED
  BY <1>1, <1>2, <1>3, <1>5, <1>6, CoalescerMove

\* A look that finds no entry.
LEMMA CoalescerMiss ==
    ASSUME CoalescerInv, NEW t \in Tasks, lookup(t), pending = NoEntry
    PROVE  CoalescerInv'
<1>1. /\ pc[t] = "lookup" /\ GoTo(t, "insert") /\ raced' = (raced \/ \E u \in Tasks : pc[u] = "insert")
      /\ UNCHANGED <<pending, guard, rx, stats, answer, outcome, forced>> /\ guard # t
  BY DEF lookup, AtShard, CoalescerInv, ChannelInv
<1>2. /\ pc' \in [Tasks -> Points] /\ pc'[t] = "insert" /\ \A u \in Tasks \ {t} : pc'[u] = pc[u]
      /\ busy' \subseteq Tasks \cup {Cleaner}
  BY <1>1, CoalescerGoTo DEF CoalescerInv, Points, ShardPoints
<1>3. CoalescerTypes'
  BY <1>1, <1>2 DEF CoalescerInv, CoalescerTypes, Points, StatsPoints, ShardPoints,
                    NoEntry
<1>4. ChannelInv'
  BY <1>1, <1>2 DEF CoalescerInv, ChannelInv, Fresh, Open
<1>5. PeaceInv'
  <2> SUFFICES ASSUME ~Disturbed' PROVE PeaceInv'
    BY DEF PeaceInv
  <2>1. ~Disturbed /\ \A u \in Tasks : pc[u] # "insert"
    BY <1>1 DEF Disturbed
  <2>2. QED
    BY <1>1, <1>2, <2>1 DEF CoalescerInv, PeaceInv, Fetching, NoEntry, Open
<1>6. QED
  BY <1>3, <1>4, <1>5 DEF CoalescerInv

\* A look that finds one.
LEMMA CoalescerJoin ==
    ASSUME CoalescerInv, NEW t \in Tasks, lookup(t), pending # NoEntry
    PROVE  CoalescerInv'
<1> DEFINE point == Count("coalesced", IF pending'.waiter_count >= max_waiters_per_request THEN "remove" ELSE "waiting")
<1>1. /\ pc[t] = "lookup" /\ guard = None /\ GoTo(t, point)
      /\ pending' = [pending EXCEPT !.waiter_count = @ + 1]
      /\ rx' = [rx EXCEPT ![t] = pending.tx]
      /\ guard' = IF enable_stats THEN t ELSE None
      /\ UNCHANGED <<stats, answer, outcome, forced, raced>>
  BY DEF lookup, AtShard
<1>2. point \in {"coalesced", "remove", "waiting"} /\ (enable_stats => point = "coalesced") /\ point \in Points
  BY DEF Count, Points, StatsPoints, ShardPoints
<1> HIDE DEF point
<1>3. /\ pc' \in [Tasks -> Points] /\ pc'[t] = point /\ \A u \in Tasks \ {t} : pc'[u] = pc[u]
      /\ busy' \subseteq Tasks \cup {Cleaner}
  BY <1>1, <1>2, CoalescerGoTo DEF CoalescerInv
<1>4. /\ pending.tx \in Tasks /\ pending' \in [tx : Tasks \cup {None}, waiter_count : Nat] /\ pending'.tx = pending.tx
      /\ pending'.tx \in Tasks
  BY <1>1 DEF CoalescerInv, CoalescerTypes
<1>5. /\ rx' \in [Tasks -> Tasks \cup {None}] /\ rx'[t] = pending.tx /\ \A u \in Tasks \ {t} : rx'[u] = rx[u]
  BY <1>1, <1>4 DEF CoalescerInv, CoalescerTypes
<1>6. CoalescerTypes'
  BY <1>1, <1>3, <1>4, <1>5 DEF CoalescerInv, CoalescerTypes, Points, StatsPoints,
                                ShardPoints, NoEntry
<1>7. ASSUME NEW u \in Tasks PROVE guard' = u => u = t /\ point = "coalesced"
  BY <1>1, <1>2, CoalescerAssumption DEF CoalescerAssumption
<1>8. ChannelInv'
  <2>1. outcome[t] = "none" /\ pending.tx # t
    BY <1>1 DEF CoalescerInv, ChannelInv, Fresh
  <2>2. QED
    BY <1>1, <1>2, <1>3, <1>4, <1>5, <1>7, <2>1 DEF CoalescerInv, ChannelInv, Fresh, Open
<1>9. PeaceInv'
  <2> SUFFICES ASSUME ~Disturbed', NEW u \in Tasks
               PROVE  /\ pc'[u] # "insert"
                      /\ Fetching(u)' => pending'.tx = u
                      /\ answer[u] = Open \/ answer[u].by = u
    BY <1>1 DEF PeaceInv, Open
  <2>1. ~Disturbed
    BY <1>1 DEF Disturbed
  <2>2. pc[u] # "insert" /\ (Fetching(u) => pending.tx = u) /\ (answer[u] = Open \/ answer[u].by = u)
    BY <2>1 DEF CoalescerInv, PeaceInv
  <2>3. QED
    BY <1>2, <1>3, <1>4, <2>2 DEF Fetching
<1>10. QED
  BY <1>6, <1>8, <1>9 DEF CoalescerInv

\* A task takes its place at the statistics, or gets a worker.
LEMMA CoalescerWait ==
    ASSUME CoalescerInv, busy' \subseteq Tasks \cup {Cleaner}, UNCHANGED <<pending, guard, pc, rx, answer, outcome, forced, raced>>
    PROVE  CoalescerInv'
<1>1. CoalescerTypes'
  BY DEF CoalescerInv, CoalescerTypes, Points, StatsPoints, ShardPoints, NoEntry
<1>2. ChannelInv'
  BY DEF CoalescerInv, ChannelInv, Fresh, Open
<1>3. PeaceInv'
  BY DEF CoalescerInv, PeaceInv, Fetching, Disturbed, NoEntry, Open
<1>4. QED
  BY <1>1, <1>2, <1>3 DEF CoalescerInv

Messages == [value : {"open", "ok", "err", "closed"}, by : Tasks \cup {Cleaner, None}]

\* An answer changes the channel of the entry, which was open, and no other.
LEMMA CoalescerAnswer ==
    ASSUME CoalescerInv, NEW message \in Messages, message # Open,
           answer' = Send(message)
    PROVE  /\ answer' \in [Tasks -> Messages]
           /\ \A u \in Tasks : u # pending.tx => answer'[u] = answer[u]
           /\ \A u \in Tasks : u = pending.tx => answer'[u] = message
           /\ \A u \in Tasks : answer'[u] = Open => answer[u] = Open /\ u # pending.tx
           /\ (\E u \in Tasks : answer[u].by = Cleaner) => \E u \in Tasks : answer'[u].by = Cleaner
<1>1. answer \in [Tasks -> Messages] /\ pending.tx \in Tasks \cup {None}
  BY DEF CoalescerInv, CoalescerTypes, Messages
<1>2. /\ answer' \in [Tasks -> Messages]
      /\ \A u \in Tasks : u # pending.tx => answer'[u] = answer[u]
      /\ \A u \in Tasks : u = pending.tx => answer'[u] = message
  BY <1>1 DEF Send
<1>3. \A u \in Tasks : answer'[u] = Open => answer[u] = Open /\ u # pending.tx
  BY <1>2
<1>4. ASSUME NEW u \in Tasks, answer[u].by = Cleaner PROVE answer'[u].by = Cleaner
  <2>1. answer[u] # Open
    BY <1>4, CoalescerAssumption DEF Open, CoalescerAssumption
  <2>2. pending.tx # u
    BY <2>1 DEF CoalescerInv, ChannelInv
  <2>3. QED
    BY <1>2, <1>4, <2>2
<1>5. QED
  BY <1>2, <1>3, <1>4

\* The channel of an entry that is dropped is closed.
LEMMA CoalescerDrop ==
    ASSUME CoalescerInv
    PROVE  Drop(pending) = Send(Closed)
BY DEF CoalescerInv, ChannelInv, Drop, Send

LEMMA CoalescerClosed == Closed \in Messages /\ Closed # Open
BY DEF Closed, Open, Messages

\* A step that takes the entry away, with an answer to its channel.
LEMMA CoalescerGone ==
    ASSUME CoalescerInv, NEW message \in Messages, message # Open,
           answer' = Send(message), pending' = NoEntry,
           guard' = guard, rx' \in [Tasks -> Tasks \cup {None}], outcome' = outcome,
           busy' \subseteq Tasks \cup {Cleaner}, pc' \in [Tasks -> Points],
           \A u \in Tasks : \/ pc'[u] = pc[u] /\ rx'[u] = rx[u]
                            \/ guard # u /\ pc[u] = "remove" /\ pc'[u] = "fetching"
                            \/ guard # u /\ pc[u] = "report" /\ pc'[u] \in {"average", "done"}
    PROVE  CoalescerTypes' /\ ChannelInv'
<1>1. /\ answer' \in [Tasks -> Messages]
      /\ \A u \in Tasks : u # pending.tx => answer'[u] = answer[u]
      /\ \A u \in Tasks : answer'[u] = Open => answer[u] = Open /\ u # pending.tx
  BY CoalescerAnswer
<1>2. pending' \in [tx : Tasks \cup {None}, waiter_count : Nat] /\ \A u \in Tasks : pending'.tx # u
  BY CoalescerAssumption DEF NoEntry, CoalescerAssumption
<1>3. CoalescerTypes'
  BY <1>1, <1>2 DEF CoalescerInv, CoalescerTypes, Messages, Points, StatsPoints, ShardPoints,
                    NoEntry
<1>4. ASSUME NEW u \in Tasks
      PROVE  /\ guard' = u => pc'[u] = "coalesced"
             /\ Fresh(u)' => answer'[u] = Open /\ pending'.tx # u
             /\ outcome'[u] # "none" => pc'[u] \in {"report", "average", "done"}
             /\ pc'[u] = "report" => outcome'[u] # "none"
             /\ pc'[u] \in {"coalesced", "waiting"} =>
                   rx'[u] \in Tasks /\ answer'[rx'[u]] # Open
  <2>1. /\ guard = u => pc[u] = "coalesced"
        /\ Fresh(u) => answer[u] = Open /\ pending.tx # u
        /\ outcome[u] # "none" => pc[u] \in {"report", "average", "done"}
        /\ pc[u] = "report" => outcome[u] # "none"
        /\ pc[u] \in {"coalesced", "waiting"} =>
              rx[u] \in Tasks /\ (answer[rx[u]] = Open => rx[u] = pending.tx)
    BY DEF CoalescerInv, ChannelInv
  <2>2. CASE pc'[u] = pc[u] /\ rx'[u] = rx[u]
    <3>1. Fresh(u)' <=> Fresh(u)
      BY <2>2 DEF Fresh
    <3>2. QED
      BY <1>1, <1>2, <2>1, <2>2, <3>1
  <2>3. CASE guard # u /\ \/ pc[u] = "remove" /\ pc'[u] = "fetching"
                          \/ pc[u] = "report" /\ pc'[u] \in {"average", "done"}
    BY <2>1, <2>3 DEF Fresh
  <2>4. QED
    BY <2>2, <2>3
<1>5. ChannelInv'
  BY <1>2, <1>4 DEF ChannelInv, Open
<1>6. QED
  BY <1>3, <1>5

LEMMA CoalescerRemove ==
    ASSUME CoalescerInv, NEW t \in Tasks, remove(t)
    PROVE  CoalescerInv'
<1>1. /\ pc[t] = "remove" /\ guard # t /\ GoTo(t, "fetching") /\ pending' = NoEntry
      /\ answer' = Drop(pending) /\ rx' = [rx EXCEPT ![t] = None] /\ forced' = forced \cup {t}
      /\ UNCHANGED <<guard, outcome>>
  BY DEF remove, AtShard, CoalescerInv, ChannelInv
<1>2. answer' = Send(Closed)
  BY <1>1, CoalescerDrop
<1>3. /\ pc' \in [Tasks -> Points] /\ pc'[t] = "fetching" /\ \A u \in Tasks \ {t} : pc'[u] = pc[u]
      /\ busy' \subseteq Tasks \cup {Cleaner}
  BY <1>1, CoalescerGoTo DEF CoalescerInv, Points
<1>4. rx' \in [Tasks -> Tasks \cup {None}] /\ \A u \in Tasks \ {t} : rx'[u] = rx[u]
  BY <1>1 DEF CoalescerInv, CoalescerTypes
<1>5. CoalescerTypes' /\ ChannelInv'
  BY <1>1, <1>2, <1>3, <1>4, CoalescerGone, CoalescerClosed
<1>6. PeaceInv'
  BY <1>1 DEF PeaceInv, Disturbed
<1>7. QED
  BY <1>5, <1>6 DEF CoalescerInv

LEMMA CoalescerReport ==
    ASSUME CoalescerInv, NEW t \in Tasks, report(t)
    PROVE  CoalescerInv'
<1> DEFINE point == IF outcome[t] = "complete" /\ pending.waiter_count > 1 THEN Count("average", "done") ELSE "done"
<1>1. /\ pc[t] = "report" /\ guard # t /\ GoTo(t, point) /\ pending' = NoEntry
      /\ answer' = Send(Message(t)) /\ UNCHANGED <<guard, rx, outcome, forced, raced>>
  BY DEF report, AtShard, CoalescerInv, ChannelInv
<1>2. point \in {"average", "done"} /\ point \in Points
  BY DEF Count, Points, StatsPoints
<1> HIDE DEF point
<1>3. outcome[t] \in {"complete", "fail", "cancel"}
  BY <1>1 DEF CoalescerInv, CoalescerTypes, ChannelInv
<1>4. /\ Message(t) \in Messages /\ Message(t) # Open
      /\ outcome[t] # "cancel" => Message(t).by = t
  BY <1>3 DEF Message, Closed, Open, Messages
<1>5. /\ pc' \in [Tasks -> Points] /\ pc'[t] = point /\ \A u \in Tasks \ {t} : pc'[u] = pc[u]
      /\ busy' \subseteq Tasks \cup {Cleaner}
  BY <1>1, <1>2, CoalescerGoTo DEF CoalescerInv
<1>6. rx \in [Tasks -> Tasks \cup {None}]
  BY DEF CoalescerInv, CoalescerTypes
<1>7. CoalescerTypes' /\ ChannelInv'
  BY <1>1, <1>2, <1>4, <1>5, <1>6, CoalescerGone
<1>8. PeaceInv'
  <2> SUFFICES ASSUME ~Disturbed', NEW u \in Tasks
               PROVE  /\ ~Fetching(u)'
                      /\ pc'[u] = "insert" => \A v \in Tasks : pc'[v] = "insert" => v = u
                      /\ answer'[u] = Open \/ answer'[u].by = u
    BY <1>1 DEF PeaceInv, NoEntry, Open
  <2>1. ~Disturbed /\ outcome[t] # "cancel"
    BY <1>1, <1>4, CoalescerAnswer DEF Disturbed
  <2>2. pending.tx = t
    BY <1>1, <2>1 DEF CoalescerInv, PeaceInv, Fetching
  <2>3. /\ Fetching(u) => pending.tx = u
        /\ pc[u] = "insert" => \A v \in Tasks : pc[v] = "insert" => v = u
        /\ answer[u] = Open \/ answer[u].by = u
    BY <2>1 DEF CoalescerInv, PeaceInv
  <2>4. /\ u # t => answer'[u] = answer[u]
        /\ u = t => answer'[u] = Message(t)
    BY <1>1, <1>4, <2>2, CoalescerAnswer
  <2>5. QED
    BY <1>2, <1>4, <1>5, <2>1, <2>2, <2>3, <2>4 DEF Fetching
<1>9. QED
  BY <1>7, <1>8 DEF CoalescerInv

LEMMA CoalescerCleanup ==
    ASSUME CoalescerInv, cleanup_expired
    PROVE  CoalescerInv'
<1> DEFINE message == [value |-> "err", by |-> Cleaner]
<1>1. busy' \subseteq Tasks \cup {Cleaner} /\ UNCHANGED <<guard, pc, rx, outcome, forced, raced>>
  BY DEF cleanup_expired, CoalescerInv, CoalescerTypes
<1>2. CASE UNCHANGED <<pending, answer>>
  BY <1>1, <1>2, CoalescerWait
<1>3. CASE pending # NoEntry /\ pending' = NoEntry /\ answer' = Send(message)
  <2>1. message \in Messages /\ message # Open /\ message.by = Cleaner
    BY DEF Messages, Open
  <2> HIDE DEF message
  <2>2. rx \in [Tasks -> Tasks \cup {None}] /\ pc \in [Tasks -> Points] /\ pending.tx \in Tasks
    BY <1>3 DEF CoalescerInv, CoalescerTypes
  <2>3. CoalescerTypes' /\ ChannelInv'
    <3>1. pc' \in [Tasks -> Points]
      BY <1>1, <2>2
    <3>2. QED
      BY <1>1, <1>3, <2>1, <2>2, <3>1, CoalescerGone
  <2>4. answer'[pending.tx] = message
    BY <1>3, <2>1, <2>2, CoalescerAnswer
  <2>5. Disturbed'
    BY <2>1, <2>2, <2>4 DEF Disturbed
  <2>6. QED
    BY <2>3, <2>5 DEF CoalescerInv, PeaceInv
<1>4. QED
  BY <1>2, <1>3 DEF cleanup_expired

LEMMA CoalescerInsert ==
    ASSUME CoalescerInv, NEW t \in Tasks, insert(t)
    PROVE  CoalescerInv'
<1> DEFINE point == Count("unique", "fetching")
<1>1. /\ pc[t] = "insert" /\ guard # t /\ GoTo(t, point) /\ pending' = [tx |-> t, waiter_count |-> 1]
      /\ answer' = Drop(pending) /\ UNCHANGED <<guard, rx, outcome, forced, raced>>
  BY DEF insert, AtShard, CoalescerInv, ChannelInv
<1>2. point \in {"unique", "fetching"} /\ point \in Points
  BY DEF Count, Points, StatsPoints
<1> HIDE DEF point
<1>3. answer' = Send(Closed)
  BY <1>1, CoalescerDrop
<1>4. /\ answer' \in [Tasks -> Messages]
      /\ \A u \in Tasks : u # pending.tx => answer'[u] = answer[u]
      /\ \A u \in Tasks : answer'[u] = Open => answer[u] = Open /\ u # pending.tx
      /\ (\E u \in Tasks : answer[u].by = Cleaner) => \E u \in Tasks : answer'[u].by = Cleaner
  BY <1>3, CoalescerAnswer, CoalescerClosed
<1>5. /\ pc' \in [Tasks -> Points] /\ pc'[t] = point /\ \A u \in Tasks \ {t} : pc'[u] = pc[u]
      /\ busy' \subseteq Tasks \cup {Cleaner}
  BY <1>1, <1>2, CoalescerGoTo DEF CoalescerInv
<1>6. answer[t] = Open /\ pending.tx # t /\ outcome[t] = "none" /\ answer'[t] = Open
  BY <1>1, <1>4 DEF CoalescerInv, ChannelInv, Fresh
<1>7. pending' \in [tx : Tasks \cup {None}, waiter_count : Nat] /\ pending'.tx = t
  BY <1>1
<1>8. CoalescerTypes'
  BY <1>1, <1>4, <1>5, <1>7 DEF CoalescerInv, CoalescerTypes, Messages, Points, StatsPoints,
                                ShardPoints, NoEntry
<1>9. ASSUME NEW u \in Tasks
      PROVE  /\ guard' = u => pc'[u] = "coalesced"
             /\ pending'.tx = u => answer'[u] = Open
             /\ Fresh(u)' => answer'[u] = Open /\ pending'.tx # u
             /\ outcome'[u] # "none" => pc'[u] \in {"report", "average", "done"}
             /\ pc'[u] = "report" => outcome'[u] # "none"
             /\ pc'[u] \in {"coalesced", "waiting"} =>
                   rx'[u] \in Tasks /\ (answer'[rx'[u]] = Open => rx'[u] = pending'.tx)
  <2>1. /\ guard = u => pc[u] = "coalesced"
        /\ Fresh(u) => answer[u] = Open /\ pending.tx # u
        /\ outcome[u] # "none" => pc[u] \in {"report", "average", "done"}
        /\ pc[u] = "report" => outcome[u] # "none"
        /\ pc[u] \in {"coalesced", "waiting"} =>
              rx[u] \in Tasks /\ (answer[rx[u]] = Open => rx[u] = pending.tx)
    BY DEF CoalescerInv, ChannelInv
  <2>2. CASE u = t
    BY <1>1, <1>2, <1>5, <1>6, <1>7, <2>2 DEF Fresh
  <2>3. CASE u # t
    <3>1. pc'[u] = pc[u] /\ (Fresh(u)' <=> Fresh(u))
      BY <1>5, <2>3 DEF Fresh
    <3>2. QED
      BY <1>1, <1>4, <1>7, <2>1, <2>3, <3>1
  <2>4. QED
    BY <2>2, <2>3
<1>10. ChannelInv'
  BY <1>9 DEF ChannelInv, Open
<1>11. PeaceInv'
  <2> SUFFICES ASSUME ~Disturbed', NEW u \in Tasks
               PROVE  /\ pc'[u] # "insert"
                      /\ Fetching(u)' => u = t
                      /\ answer'[u] = Open \/ answer'[u].by = u
    BY <1>7 DEF PeaceInv, Open
  <2>1. ~Disturbed
    BY <1>1, <1>4 DEF Disturbed
  <2>2. /\ pending = NoEntry
        /\ pc[u] = "insert" => u = t
        /\ Fetching(u) => pending.tx = u
        /\ answer[u] = Open \/ answer[u].by = u
    BY <1>1, <2>1 DEF CoalescerInv, PeaceInv
  <2>3. pending.tx # u
    BY <2>2, CoalescerAssumption DEF NoEntry, CoalescerAssumption
  <2>4. QED
    BY <1>2, <1>4, <1>5, <2>2, <2>3 DEF Fetching
<1>12. QED
  BY <1>8, <1>10, <1>11 DEF CoalescerInv

LEMMA CoalescerFetched ==
    ASSUME CoalescerInv, NEW t \in Tasks, NEW result \in Outcomes, fetched(t, result)
    PROVE  CoalescerInv'
<1>1. /\ pc[t] = "fetching" /\ outcome' = [outcome EXCEPT ![t] = result] /\ pc' = [pc EXCEPT ![t] = "report"]
      /\ UNCHANGED <<pending, guard, busy, rx, answer, forced, raced>> /\ result \in {"complete", "fail", "cancel"}
  BY CoalescerAssumption DEF fetched, CoalescerAssumption
<1>2. /\ pc' \in [Tasks -> Points] /\ pc'[t] = "report" /\ \A u \in Tasks \ {t} : pc'[u] = pc[u]
      /\ outcome' \in [Tasks -> {"complete", "fail", "cancel", "none"}] /\ outcome'[t] = result
      /\ \A u \in Tasks \ {t} : outcome'[u] = outcome[u]
  BY <1>1 DEF CoalescerInv, CoalescerTypes, Points, ShardPoints
<1>3. outcome[t] = "none" /\ guard # t
  BY <1>1 DEF CoalescerInv, ChannelInv
<1>4. CoalescerTypes'
  BY <1>1, <1>2 DEF CoalescerInv, CoalescerTypes, Points, StatsPoints, ShardPoints,
                    NoEntry
<1>5. ChannelInv'
  BY <1>1, <1>2, <1>3 DEF CoalescerInv, ChannelInv, Fresh, Open
<1>6. PeaceInv'
  <2> SUFFICES ASSUME ~Disturbed' PROVE PeaceInv'
    BY DEF PeaceInv
  <2>1. ~Disturbed
    BY <1>1, <1>2, <1>3 DEF Disturbed
  <2>2. QED
    BY <1>1, <1>2, <2>1 DEF CoalescerInv, PeaceInv, Fetching, NoEntry, Open
<1>7. QED
  BY <1>4, <1>5, <1>6 DEF CoalescerInv

LEMMA CoalescerRecv ==
    ASSUME CoalescerInv, NEW t \in Tasks, recv(t)
    PROVE  CoalescerInv'
<1>1. /\ pc[t] = "waiting" /\ GoTo(t, "done") /\ UNCHANGED <<pending, guard, rx, answer, outcome, forced, raced>>
      /\ "done" \in Points
  BY DEF recv, Points
<1>2. guard # t /\ ~Fresh(t) /\ pc'[t] = "done"
  BY <1>1, CoalescerGoTo DEF CoalescerInv, ChannelInv, Fresh
<1>3. ~Fresh(t)' /\ ~Fetching(t)'
  BY <1>2 DEF Fresh, Fetching
<1>4. QED
  BY <1>1, <1>2, <1>3, CoalescerMove

LEMMA NextCoalescerInv ==
    ASSUME CoalescerInv, [CoalescerNext]_(coalescerVars)
    PROVE  CoalescerInv'
<1>1. CASE UNCHANGED coalescerVars
  BY <1>1, CoalescerWait DEF coalescerVars, CoalescerInv, CoalescerTypes
<1>2. ASSUME NEW t \in Tasks \cup {Cleaner}, poll(t) PROVE CoalescerInv'
  BY <1>2, CoalescerWait DEF poll, CoalescerInv, CoalescerTypes
<1>3. ASSUME NEW t \in Tasks, stats_write(t) PROVE CoalescerInv'
  BY <1>3, CoalescerWait DEF stats_write, CoalescerInv, CoalescerTypes
<1>4. ASSUME NEW t \in Tasks, lookup(t) PROVE CoalescerInv'
  BY <1>4, CoalescerMiss, CoalescerJoin
<1>5. ASSUME NEW t \in Tasks, Step(t) PROVE CoalescerInv'
  BY <1>3, <1>4, <1>5, CoalescerStart, CoalescerUpdate, CoalescerInsert, CoalescerRemove, CoalescerReport, CoalescerRecv
     DEF Step
<1>6. QED
  BY <1>1, <1>2, <1>5, CoalescerFetched, CoalescerCleanup DEF CoalescerNext

LEMMA CoalescerInvariant == CoalescerSpec => []CoalescerInv
<1>1. CoalescerInit => CoalescerInv
  BY InitCoalescerInv
<1>2. CoalescerInv /\ [CoalescerNext]_(coalescerVars) => CoalescerInv'
  BY NextCoalescerInv
<1>3. QED
  BY <1>1, <1>2, PTL DEF CoalescerSpec

\* An answer is of the fetch it was waited for, until a first request overlaps,
\* a fetch is forced at the limit of waiters or cancelled, or an entry expires:
\* complete_request and fail_request, which answer whatever entry they find, find
\* their own.
THEOREM AnswersStayOwn == CoalescerSpec => []AnswersAreOwn
<1>1. CoalescerInv => AnswersAreOwn
  BY DEF CoalescerInv, PeaceInv, AnswersAreOwn
<1>2. QED
  BY <1>1, CoalescerInvariant, PTL

\* A task that waits listens to the entry in the map or to a channel that has been
\* answered or closed, whatever way the entry left the map: completion, failure,
\* cancellation, expiry or a forced second fetch.
THEOREM NobodyIsForgotten == CoalescerSpec => []NobodyForgotten
<1>1. CoalescerInv => NobodyForgotten
  BY DEF CoalescerInv, ChannelInv, NobodyForgotten
<1>2. QED
  BY <1>1, CoalescerInvariant, PTL

\* The workers stand still only behind a task suspended in register_request, at
\* its await of the statistics with the guard of the entry alive.
THEOREM SuspendedGuard == CoalescerSpec => []OnlySuspendedGuardBlocks
<1>1. CoalescerInv => OnlySuspendedGuardBlocks
  <2> SUFFICES ASSUME CoalescerInv, Standstill
               PROVE  guard \notin busy /\ pc[guard] = "coalesced"
    BY DEF OnlySuspendedGuardBlocks
  <2>1. busy # {}
    BY FS_EmptySet, CoalescerAssumption DEF Standstill, CoalescerAssumption
  <2>2. guard # None /\ guard \in Tasks
    BY <2>1 DEF Standstill, NeedsHeldShard, CoalescerInv, CoalescerTypes
  <2>3. pc[guard] = "coalesced"
    BY <2>2 DEF CoalescerInv, ChannelInv
  <2>4. guard \notin busy
    BY <2>2, <2>3, CoalescerAssumption DEF Standstill, NeedsHeldShard, ShardPoints, CoalescerAssumption
  <2>5. QED
    BY <2>3, <2>4
<1>2. QED
  BY <1>1, CoalescerInvariant, PTL

=============================================================================
