------------------------------ MODULE MCNodeRepo ------------------------------
(* Small instances of NodeRepo, cut down to the CIDs of the instance. *)
EXTENDS NodeRepo

CONSTANTS top, mid, leaf

\* A chain: two roots can share the blocks below the lower one.
Chain ==
    [x \in Cid |-> (CASE x = top -> {mid} [] x = mid -> {leaf} [] OTHER -> {}) \cap Cid]
=============================================================================
