------------------------------- MODULE PinLocks -------------------------------
(***************************************************************************)
(* The pin index of crates/ipfrs/src/pin.rs lock by lock.                  *)
(*                                                                         *)
(* `pins', `indirect_pins' and `recursive_deps' are behind three separate  *)
(* read-write locks.  A method takes them one after the other and holds    *)
(* all it has until it returns.  A step here runs from one acquisition to  *)
(* the next; the last step of a call returns and frees its locks.  A call  *)
(* that needs one lock only is a single step.                              *)
(***************************************************************************)
CONSTANTS Cid, NoCid, Thread

ASSUME NoCidAssumption == NoCid \notin Cid

VARIABLES pins, indirect_pins, recursive_deps,  \* as in PinManager
          call,      \* [Thread -> the call it is in: pc, root cid and cids]
          committed  \* history: the maps without the updates of calls that
                     \* have not returned

vars == <<pins, indirect_pins, recursive_deps, call, committed>>

PinType == {"Direct", "Recursive"}
NoCall == [pc |-> "idle", cid |-> NoCid, cids |-> {}]

Init ==
    /\ pins = [c \in Cid |-> "None"]
    /\ indirect_pins = {}
    /\ recursive_deps = [c \in Cid |-> {}]
    /\ call = [t \in Thread |-> NoCall]
    /\ committed = [pins |-> pins, indirect |-> indirect_pins, deps |-> recursive_deps]

-----------------------------------------------------------------------------
(* Who holds what: a waiting call holds the locks it took before *)

Writes(t, lock) ==
    CASE lock = "pins" -> call[t].pc \in {"unpin_deps", "unpin_indirect",
                                          "clear_indirect", "clear_deps"}
      [] lock = "indirect" -> call[t].pc \in {"add_indirect", "clear_deps"}
      [] lock = "deps" -> call[t].pc = "unpin_indirect"

\* Mutant: is_pinned looks the owner of an indirect pin up first.
ReadsDepsToo(t, lock) == lock \in {"pins", "deps"} /\ call[t].pc = "is_pinned"

Reads(t, lock) == lock = "pins" /\ call[t].pc = "is_pinned"

CanRead(lock) == \A t \in Thread : ~Writes(t, lock)
CanWrite(lock) == \A t \in Thread : ~Writes(t, lock) /\ ~Reads(t, lock)

Idle(t) == call[t].pc = "idle"
Wait(t, pc, c, cids) == call' = [call EXCEPT ![t] = [pc |-> pc, cid |-> c, cids |-> cids]]
Return(t) == call' = [call EXCEPT ![t] = NoCall]

-----------------------------------------------------------------------------
(* Calls of one lock: pin, and the roots that load puts in place *)

pin(t, c, pin_type) ==
    /\ Idle(t) /\ CanWrite("pins")
    /\ pins' = [pins EXCEPT ![c] = pin_type]
    /\ committed' = [committed EXCEPT !.pins = pins']
    /\ UNCHANGED <<indirect_pins, recursive_deps, call>>

load(t, saved) ==
    /\ Idle(t) /\ CanWrite("pins")
    /\ pins' = saved
    /\ committed' = [committed EXCEPT !.pins = pins']
    /\ UNCHANGED <<indirect_pins, recursive_deps, call>>

-----------------------------------------------------------------------------
(* is_pinned reads the indirect pins while it holds the roots *)

is_pinned(t, c) ==
    /\ Idle(t) /\ CanRead("pins")
    /\ pins[c] = "None"
    /\ Wait(t, "is_pinned", c, {})
    /\ UNCHANGED <<pins, indirect_pins, recursive_deps, committed>>

is_pinned_indirect(t) ==
    /\ call[t].pc = "is_pinned" /\ CanRead("indirect")
    /\ Return(t)
    /\ UNCHANGED <<pins, indirect_pins, recursive_deps, committed>>

-----------------------------------------------------------------------------
(* add_indirect and add_indirect_many: indirect pins first, then the        *)
(* dependencies.  The former inserts before it asks for the second lock,    *)
(* the latter when it has both.                                             *)

add_indirect(t, root, c) ==
    /\ Idle(t) /\ CanWrite("indirect")
    /\ indirect_pins' = indirect_pins \cup {c}
    /\ Wait(t, "add_indirect", root, {c})
    /\ UNCHANGED <<pins, recursive_deps, committed>>

add_indirect_many(t, root, cids) ==
    /\ Idle(t) /\ CanWrite("indirect")
    /\ Wait(t, "add_indirect", root, cids)
    /\ UNCHANGED <<pins, indirect_pins, recursive_deps, committed>>

\* Mutant: the update of the dependencies is lost.
add_indirect_depsNoDeps(t) ==
    /\ call[t].pc = "add_indirect" /\ CanWrite("deps")
    /\ indirect_pins' = indirect_pins \cup call[t].cids
    /\ committed' = [committed EXCEPT !.indirect = indirect_pins']
    /\ Return(t)
    /\ UNCHANGED <<pins, recursive_deps>>

add_indirect_deps(t) ==
    /\ call[t].pc = "add_indirect" /\ CanWrite("deps")
    /\ indirect_pins' = indirect_pins \cup call[t].cids
    /\ recursive_deps' = [recursive_deps EXCEPT ![call[t].cid] = @ \cup call[t].cids]
    /\ committed' = [committed EXCEPT !.indirect = indirect_pins', !.deps = recursive_deps']
    /\ Return(t)
    /\ UNCHANGED pins

-----------------------------------------------------------------------------
(* unpin: roots, dependencies, indirect pins *)

unpin(t, c) ==
    /\ Idle(t) /\ CanWrite("pins")
    /\ pins[c] # "None"
    /\ pins' = [pins EXCEPT ![c] = "None"]
    /\ \/ /\ pins[c] = "Recursive"
          /\ Wait(t, "unpin_deps", c, {})
          /\ UNCHANGED committed
       \/ /\ pins[c] = "Direct"
          /\ committed' = [committed EXCEPT !.pins = pins']
          /\ UNCHANGED call
    /\ UNCHANGED <<indirect_pins, recursive_deps>>

\* A root that has no dependencies is done here.
unpin_deps(t) ==
    LET c == call[t].cid
    IN  /\ call[t].pc = "unpin_deps" /\ CanWrite("deps")
        /\ recursive_deps' = [recursive_deps EXCEPT ![c] = {}]
        /\ \/ /\ recursive_deps[c] # {}
              /\ Wait(t, "unpin_indirect", c, recursive_deps[c])
              /\ UNCHANGED committed
           \/ /\ recursive_deps[c] = {}
              /\ Return(t)
              /\ committed' = [committed EXCEPT !.pins = pins]
        /\ UNCHANGED <<pins, indirect_pins>>

unpin_indirect(t) ==
    /\ call[t].pc = "unpin_indirect" /\ CanWrite("indirect")
    /\ indirect_pins' =
         indirect_pins \ (call[t].cids \ UNION {recursive_deps[r] : r \in Cid})
    /\ committed' = [pins |-> pins, indirect |-> indirect_pins', deps |-> recursive_deps]
    /\ Return(t)
    /\ UNCHANGED <<pins, recursive_deps>>

-----------------------------------------------------------------------------
(* clear: roots, indirect pins, dependencies *)

clear(t) ==
    /\ Idle(t) /\ CanWrite("pins")
    /\ pins' = [c \in Cid |-> "None"]
    /\ Wait(t, "clear_indirect", NoCid, {})
    /\ UNCHANGED <<indirect_pins, recursive_deps, committed>>

clear_indirect(t) ==
    /\ call[t].pc = "clear_indirect" /\ CanWrite("indirect")
    /\ indirect_pins' = {}
    /\ Wait(t, "clear_deps", NoCid, {})
    /\ UNCHANGED <<pins, recursive_deps, committed>>

clear_deps(t) ==
    /\ call[t].pc = "clear_deps" /\ CanWrite("deps")
    /\ recursive_deps' = [c \in Cid |-> {}]
    /\ committed' = [pins |-> pins, indirect |-> indirect_pins, deps |-> recursive_deps']
    /\ Return(t)
    /\ UNCHANGED <<pins, indirect_pins>>

-----------------------------------------------------------------------------
Continue(t) ==
    \/ is_pinned_indirect(t)
    \/ add_indirect_deps(t)
    \/ unpin_deps(t) \/ unpin_indirect(t)
    \/ clear_indirect(t) \/ clear_deps(t)

Next ==
    \E t \in Thread :
        \/ \E c \in Cid, pin_type \in PinType : pin(t, c, pin_type)
        \/ \E saved \in [Cid -> PinType \cup {"None"}] : load(t, saved)
        \/ \E c \in Cid : is_pinned(t, c) \/ unpin(t, c)
        \/ \E root, c \in Cid : add_indirect(t, root, c)
        \/ \E root \in Cid, cids \in SUBSET Cid \ {{}} : add_indirect_many(t, root, cids)
        \/ clear(t)
        \/ Continue(t)

Spec == Init /\ [][Next]_vars

\* The locks are fair in the long run: a call that can get its next lock again
\* and again gets it.
FairSpec == Spec /\ \A t \in Thread : SF_vars(Continue(t))

-----------------------------------------------------------------------------
(* Properties *)

Atomic == INSTANCE PinManager WITH pins <- committed.pins,
                                   indirect_pins <- committed.indirect,
                                   recursive_deps <- committed.deps

\* Two-phase locking makes every call atomic: whatever the interleaving of
\* acquisitions, what other threads can see of the three maps changes as if
\* each call ran in one step.
ImplementsPinManager == Atomic!PinSpec

\* The next lock a call in progress waits for.
NextLock(t) ==
    CASE call[t].pc \in {"add_indirect", "unpin_deps", "clear_deps"} -> "deps"
      [] OTHER -> "indirect"

Blocked(t) ==
    IF call[t].pc = "is_pinned" THEN ~CanRead(NextLock(t)) ELSE ~CanWrite(NextLock(t))

\* The threads stand still only in one way: an add_indirect holds the indirect
\* pins and waits for the dependencies that an unpin holds while it waits for
\* the indirect pins.  No other mix of calls can block for ever.
OnlyInversionBlocks ==
    LET busy == {t \in Thread : ~Idle(t)}
    IN  (busy # {} /\ \A t \in busy : Blocked(t))
            => \E t, u \in busy : call[t].pc = "add_indirect" /\ call[u].pc = "unpin_indirect"

\* Every call returns ("unpin should succeed", pin.rs).
CallsReturn == \A t \in Thread : call[t].pc # "idle" ~> call[t].pc = "idle"
=============================================================================
