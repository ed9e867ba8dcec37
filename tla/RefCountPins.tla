------------------------------ MODULE RefCountPins ------------------------------
(***************************************************************************)
(* The reference-counted pins of the storage layer:                        *)
(* crates/ipfrs-storage/src/pinning.rs, PinManager.                        *)
(*                                                                         *)
(* pins is a concurrent map, and a step is one operation on one of its     *)
(* entries: pin is one step, pin_recursive one per block it reaches, and   *)
(* unpin is two, since it looks whether to remove the entry under one lock *)
(* and decrements the count under another.  The resolver of links is given *)
(* by the caller and may fail.  Stacks of blocks are sets: their order is  *)
(* the order of the links in a block.  Names, times and the counters of    *)
(* PinStats, which the map's closures update, are left out.                *)
(***************************************************************************)
EXTENDS Naturals, FiniteSets

CONSTANTS Cids,
          Links,      \* [Cids -> SUBSET Cids], the links of a block
          Users,      \* threads that pin and unpin
          Pinnable,   \* who pins what, and how: a set of Holds
          MaxHolds,   \* how many pins a user has at a time
          MaxFaults,  \* how many calls to the resolver or the store may fail
          CleanUp     \* whether a user unpins what a failed pin_recursive left

ASSUME PinsAssumption ==
    /\ IsFiniteSet(Cids) /\ IsFiniteSet(Users)
    /\ Links \in [Cids -> SUBSET Cids]
    /\ Pinnable \subseteq [user : Users, kind : {"direct", "recursive"}, root : Cids]
    /\ MaxHolds \in Nat /\ MaxFaults \in Nat
    /\ CleanUp \in BOOLEAN

VARIABLES pins,     \* [Cids -> the PinInfo of its entry, or NoPin]
          call,     \* [Users -> the call in progress]
          failed,   \* [Users -> roots whose pin_recursive returned an error]
          holders,  \* history: [Cids -> the calls that pinned it and have not unpinned it]
          raced,    \* history: blocks with an entry that two unpins were decrementing at once
          faults    \* failures so far

pinVars == <<pins, call, failed, holders, raced>>

PinType == {"Direct", "Recursive", "Indirect"}
NoPin == [pin_type |-> "None", ref_count |-> 0]
Pinned(c) == pins[c] # NoPin

\* A hold stands for the count that one call has put on a block.
Hold(u, kind, root) == [user |-> u, kind |-> kind, root |-> root]
Holds == [user : Users, kind : {"direct", "recursive"}, root : Cids]

\* to_process and seen are the walk's own, links what is left of the block at
\* hand, count the block whose count unpin is about to decrement.
Idle == [op |-> "idle", kind |-> "direct", root |-> {}, to_process |-> {}, seen |-> {}, links |-> {}, count |-> {}]
Call == [op : {"idle", "pin", "unpin"}, kind : {"direct", "recursive"}, root : {{}} \cup {{c} : c \in Cids},
         to_process : SUBSET Cids, seen : SUBSET Cids, links : SUBSET Cids, count : SUBSET Cids]

PinsTypeOK ==
    /\ pins \in [Cids -> [pin_type : PinType \cup {"None"}, ref_count : Nat]]
    /\ call \in [Users -> Call]
    /\ failed \in [Users -> SUBSET Cids]
    /\ holders \in [Cids -> SUBSET Holds]
    /\ raced \subseteq Cids
    /\ faults \in 0 .. MaxFaults

PinsInit ==
    /\ pins = [c \in Cids |-> NoPin]
    /\ call = [u \in Users |-> Idle]
    /\ failed = [u \in Users |-> {}]
    /\ holders = [c \in Cids |-> {}]
    /\ raced = {}
    /\ faults = 0

-----------------------------------------------------------------------------

\* Mutant: an entry that exists is left as it is.
WithTypeOnce(info, type) ==
    IF info = NoPin THEN [pin_type |-> type, ref_count |-> 1] ELSE info

\* The entry a block has after pin_with_type or pin_indirect: a count more, a
\* type that only ever changes from direct to recursive.
WithType(info, type) ==
    IF info = NoPin THEN [pin_type |-> type, ref_count |-> 1]
    ELSE [pin_type |-> IF type = "Recursive" /\ info.pin_type = "Direct" THEN "Recursive" ELSE info.pin_type,
          ref_count |-> info.ref_count + 1]

Add(c, type, hold) ==
    /\ pins' = [pins EXCEPT ![c] = WithType(@, type)]
    /\ holders' = [holders EXCEPT ![c] = @ \cup {hold}]

\* A call of the walk returns when nothing is left to do.
Settle(k) == IF k.to_process \cup k.links \cup k.count = {} THEN Idle ELSE k

Fault == faults < MaxFaults /\ faults' = faults + 1
NoFault == UNCHANGED faults

\* What a user has pinned, the remains of calls that failed included: it does
\* not pin the same block in the same way again, and at most MaxHolds.
HoldsOf(u) == {h \in UNION {holders[c] : c \in Cids} : h.user = u}
MayPin(u, hold) ==
    call[u] = Idle /\ hold \in Pinnable /\ hold \notin HoldsOf(u) /\ Cardinality(HoldsOf(u)) < MaxHolds

pin(u, c) ==
    /\ MayPin(u, Hold(u, "direct", c))
    /\ Add(c, "Direct", Hold(u, "direct", c))
    /\ UNCHANGED <<call, failed, raced, faults>>

pin_recursive(u, c) ==
    /\ MayPin(u, Hold(u, "recursive", c))
    /\ Add(c, "Recursive", Hold(u, "recursive", c))
    /\ call' = [call EXCEPT ![u] = [Idle EXCEPT !.op = "pin", !.kind = "recursive", !.root = {c},
                                                !.to_process = {c}, !.seen = {c}]]
    /\ UNCHANGED <<failed, raced, faults>>

\* The next block of the walk: its links are resolved, or the call fails and
\* leaves the pins it has made.
pin_links(u) ==
    /\ call[u].op = "pin" /\ call[u].links = {}
    /\ \E c \in call[u].to_process :
         LET new == Links[c] \ call[u].seen IN
         \/ /\ call' = [call EXCEPT ![u] = Settle([call[u] EXCEPT !.links = new, !.seen = @ \cup new,
                                                                  !.to_process = (@ \ {c}) \cup new])]
            /\ NoFault /\ UNCHANGED failed
         \/ /\ call' = [call EXCEPT ![u] = Idle]
            /\ failed' = [failed EXCEPT ![u] = @ \cup call[u].root]
            /\ Fault
    /\ UNCHANGED <<pins, holders, raced>>

pin_indirect(u) ==
    /\ call[u].op = "pin"
    /\ \E link \in call[u].links, root \in call[u].root :
         /\ Add(link, "Indirect", Hold(u, "recursive", root))
         /\ call' = [call EXCEPT ![u] = Settle([call[u] EXCEPT !.links = @ \ {link}])]
    /\ UNCHANGED <<failed, raced, faults>>

-----------------------------------------------------------------------------

\* unpin and unpin_recursive of what the user has pinned.  A user that cleans
\* up also calls unpin_recursive after a failed pin_recursive.
unpin(u, kind, c) ==
    /\ call[u] = Idle
    /\ Hold(u, kind, c) \in holders[c]
    /\ c \in failed[u] /\ kind = "recursive" => CleanUp
    /\ call' = [call EXCEPT ![u] = [Idle EXCEPT !.op = "unpin", !.kind = kind, !.root = {c}, !.to_process = {c}]]
    /\ failed' = [failed EXCEPT ![u] = IF kind = "recursive" THEN @ \ {c} ELSE @]
    /\ UNCHANGED <<pins, holders, raced, faults>>

\* The block at hand is unpinned.  A recursive walk then takes up its links, if
\* they can be resolved.
Released(u, c, k) ==
    LET rest == [k EXCEPT !.to_process = @ \ {c}, !.seen = @ \cup {c}, !.count = {}]
    IN  /\ holders' = [holders EXCEPT ![c] = {h \in @ : ~(h.user = u /\ h.kind = k.kind /\ {h.root} = k.root)}]
        /\ \/ /\ call' = [call EXCEPT ![u] =
                     Settle(IF k.kind = "recursive" THEN [rest EXCEPT !.to_process = @ \cup (Links[c] \ rest.seen)] ELSE rest)]
              /\ NoFault
           \/ k.kind = "recursive" /\ Links[c] # {} /\ call' = [call EXCEPT ![u] = Settle(rest)] /\ Fault

\* Mutant: the last count is left to the decrement.
LastCountNever(info) == info.ref_count = 0

\* The test of unpin's remove_if.
LastCount(info) == info.ref_count <= 1

unpin_remove(u) ==
    /\ call[u].op = "unpin" /\ call[u].count = {}
    /\ \E c \in call[u].to_process :
         IF LastCount(pins[c])
         THEN /\ pins' = [pins EXCEPT ![c] = NoPin]
              /\ raced' = raced \ {c}
              /\ Released(u, c, call[u])
         ELSE /\ call' = [call EXCEPT ![u].count = {c}]
              /\ raced' = raced \cup {d \in {c} : \E v \in Users \ {u} : d \in call[v].count}
              /\ UNCHANGED <<pins, holders, faults>>
    /\ UNCHANGED failed

unpin_decrement(u) ==
    /\ \E c \in call[u].count :
         /\ pins' = [pins EXCEPT ![c] = IF @ = NoPin THEN NoPin ELSE [pins[c] EXCEPT !.ref_count = @ - 1]]
         /\ Released(u, c, call[u])
    /\ UNCHANGED <<failed, raced>>

PinStep(u) == pin_links(u) \/ pin_indirect(u) \/ unpin_remove(u) \/ unpin_decrement(u)

PinNext ==
    \E u \in Users :
        \/ \E c \in Cids : pin(u, c) \/ pin_recursive(u, c) \/ \E kind \in {"direct", "recursive"} : unpin(u, kind, c)
        \/ PinStep(u)

-----------------------------------------------------------------------------

\* Every call that has pinned a block and not yet unpinned it has its count,
\* also while calls overlap: no unpin takes a count that is not its own.
\* (pinning.rs, pin_with_type, pin_indirect, unpin)
CountsMatchHolders == \A c \in Cids : pins[c].ref_count = Cardinality(holders[c])

\* An entry that nobody holds any more, which no unpin will remove, is left
\* behind only where two unpins of one block overlapped.  (pinning.rs, unpin:
\* the test of remove_if and the decrement are two steps)
ZombiesNeedOverlap == \A c \in Cids : Pinned(c) /\ pins[c].ref_count = 0 => c \in raced

=============================================================================
