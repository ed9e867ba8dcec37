-------------------------- MODULE MCCachedBlockStore --------------------------
(* Batches of one and two blocks, for every choice and order of the blocks.  *)
(* Blocks that fit in the cache, and tasks, are interchangeable.             *)
EXTENDS CachedBlockStore

MCBatch == {<<x>> : x \in Cid} \cup {p \in Cid \X Cid : p[1] # p[2]}

Symmetry == Permutations(Small) \cup Permutations(Task)
=============================================================================
