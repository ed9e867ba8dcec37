------------------------------ MODULE PinManager ------------------------------
(***************************************************************************)
(* The node's pin index (crates/ipfrs/src/pin.rs, PinManager).             *)
(*                                                                         *)
(* Three maps, each behind a lock of its own: `pins' (the roots), the set  *)
(* of indirect pins and, for every recursive root, the blocks it pins      *)
(* indirectly.  A method keeps every lock it takes until it returns, so a  *)
(* call is one step here; PinLocks.tla opens the calls up lock by lock.    *)
(* A CID without an entry in `pins' is "None"; a root without an entry in  *)
(* recursive_deps has the empty set.                                       *)
(***************************************************************************)
CONSTANT Cid

VARIABLES pins,            \* [Cid -> {"None", "Direct", "Recursive"}]
          indirect_pins,   \* SUBSET Cid
          recursive_deps   \* [Cid -> SUBSET Cid]

pinVars == <<pins, indirect_pins, recursive_deps>>

PinType == {"Direct", "Recursive"}

PinTypeOK ==
    /\ pins \in [Cid -> PinType \cup {"None"}]
    /\ indirect_pins \in SUBSET Cid
    /\ recursive_deps \in [Cid -> SUBSET Cid]

new ==
    /\ pins = [c \in Cid |-> "None"]
    /\ indirect_pins = {}
    /\ recursive_deps = [c \in Cid |-> {}]

-----------------------------------------------------------------------------
(* Queries *)

list == {c \in Cid : pins[c] # "None"}

is_pinned(c) == pins[c] # "None" \/ c \in indirect_pins

-----------------------------------------------------------------------------
(* Calls *)

\* An existing entry is overwritten, whatever its type was.
pin(c, pin_type) ==
    /\ pins' = [pins EXCEPT ![c] = pin_type]
    /\ UNCHANGED <<indirect_pins, recursive_deps>>

add_indirect(root, c) ==
    /\ indirect_pins' = indirect_pins \cup {c}
    /\ recursive_deps' = [recursive_deps EXCEPT ![root] = @ \cup {c}]
    /\ UNCHANGED pins

add_indirect_many(root, cids) ==
    /\ indirect_pins' = indirect_pins \cup cids
    /\ recursive_deps' = [recursive_deps EXCEPT ![root] = @ \cup cids]
    /\ UNCHANGED pins

\* Mutant: the dependencies of an unpinned root stay pinned.
StillNeededAlways(c) == Cid

\* The dependencies of c that another root still needs.
StillNeeded(c) == UNION {recursive_deps[r] : r \in Cid \ {c}}

\* Err(NotFound), and no step, unless c has an entry.  Only a root whose
\* entry is Recursive at this moment gives its indirect pins back.
unpin(c) ==
    /\ pins[c] # "None"
    /\ pins' = [pins EXCEPT ![c] = "None"]
    /\ \/ /\ pins[c] = "Recursive"
          /\ recursive_deps' = [recursive_deps EXCEPT ![c] = {}]
          /\ indirect_pins' = indirect_pins \ (recursive_deps[c] \ StillNeeded(c))
       \/ /\ pins[c] = "Direct"
          /\ UNCHANGED <<indirect_pins, recursive_deps>>

\* The roots are replaced by the ones read from the file; the other two
\* maps are neither cleared nor rebuilt.
load(saved) ==
    /\ pins' = saved
    /\ UNCHANGED <<indirect_pins, recursive_deps>>

clear ==
    /\ pins' = [c \in Cid |-> "None"]
    /\ indirect_pins' = {}
    /\ recursive_deps' = [c \in Cid |-> {}]

-----------------------------------------------------------------------------
(* A client that makes the calls in any order. *)

PinNext ==
    \/ \E c \in Cid, pin_type \in PinType : pin(c, pin_type)
    \/ \E root, c \in Cid : add_indirect(root, c)
    \/ \E root \in Cid, cids \in SUBSET Cid : add_indirect_many(root, cids)
    \/ \E c \in Cid : unpin(c)
    \/ \E saved \in [Cid -> PinType \cup {"None"}] : load(saved)
    \/ clear

PinSpec == new /\ [][PinNext]_pinVars

-----------------------------------------------------------------------------
(* Properties *)

\* The set of indirect pins and the per-root dependency sets are two copies
\* of one fact, kept by separate updates in add_indirect, add_indirect_many,
\* unpin and clear: a block is an indirect pin exactly when some root lists
\* it.  If unpin dropped a block that another root shares, or kept one that
\* no root lists, the copies would part.
IndirectAccounted == indirect_pins = UNION {recursive_deps[r] : r \in Cid}
=============================================================================
