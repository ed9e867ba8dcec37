--------------------------- MODULE CachedBlockStore ---------------------------
(***************************************************************************)
(* The store every Node works on: an LRU cache of small blocks (L1) in     *)
(* front of a backing store (L2).  crates/ipfrs-storage/src/cache.rs,      *)
(* CachedBlockStore.                                                       *)
(*                                                                         *)
(* The cache has a lock, held for one batch of lookups or insertions; the  *)
(* backing store is reached by an await.  A call is therefore two or three *)
(* steps, and calls of different tasks interleave between them.  A single  *)
(* get, put or delete is a batch of one.  has reads both levels and keeps  *)
(* nothing.  Blocks are immutable, so a block is its CID.                  *)
(***************************************************************************)
EXTENDS Lru

CONSTANTS Task,
          Batch,       \* the argument lists of get, put and delete
          Small        \* the blocks of at most max_block_bytes

ASSUME CacheAssumption ==
    /\ Batch \subseteq Seq(Cid) \ {<<>>}
    /\ Small \subseteq Cid

VARIABLES inner,       \* L2: the CIDs it holds
          cache,       \* L1: the cached CIDs, most recent first
          calls,       \* [Task -> the call in progress]
          contested    \* history: CIDs that a delete and a get or put of
                       \* another task have handled at the same time

cacheVars == <<inner, cache, calls, contested>>

\* Of the list it was given, a call still handles the blocks in `among'.
AtRest == [pc |-> "idle", cids |-> <<>>, among |-> {}]

CacheTypeOK ==
    /\ inner \in SUBSET Cid
    /\ Range(cache) \subseteq Small
    /\ IsInjective(cache)
    /\ Len(cache) <= l1_capacity
    /\ calls \in [Task -> [pc : {"idle", "get_l2", "fill", "delete_l2"},
                           cids : Batch \cup {<<>>}, among : SUBSET Cid]]
    /\ contested \in SUBSET Cid

CacheInit ==
    /\ inner = {}
    /\ cache = <<>>
    /\ calls = [t \in Task |-> AtRest]
    /\ contested = {}

Handles(t, c) == calls'[t].pc \in {"get_l2", "fill"} /\ c \in calls'[t].among
Deletes(t, c) == calls'[t].pc = "delete_l2" /\ c \in calls'[t].among

NoteContest ==
    contested' = contested \cup
        {c \in Cid : \E t, u \in Task : Handles(t, c) /\ Deletes(u, c)}

Done(t) == calls' = [calls EXCEPT ![t] = AtRest]

\* Goes on with the entries of cids in S, and returns if there are none.
GoOnWith(t, pc, cids, S) ==
    LET among == Range(cids) \cap S
    IN  IF among = {} THEN Done(t)
        ELSE calls' = [calls EXCEPT ![t] = [pc |-> pc, cids |-> cids, among |-> among]]

\* The loops over a list, each under one lock of the cache.
TouchAll(cids) ==
    LET after[i \in 0 .. Len(cids)] == IF i = 0 THEN cache ELSE touch(after[i - 1], cids[i])
    IN  after[Len(cids)]

PopAll(cids) ==
    LET after[i \in 0 .. Len(cids)] == IF i = 0 THEN cache ELSE pop(after[i - 1], cids[i])
    IN  after[Len(cids)]

PushAll(cids, among) ==
    LET after[i \in 0 .. Len(cids)] ==
            IF i = 0 THEN cache
            ELSE IF cids[i] \in among THEN push(after[i - 1], cids[i], l1_capacity)
            ELSE after[i - 1]
    IN  after[Len(cids)]

-----------------------------------------------------------------------------
(* get, get_many *)

get_many(t, cids) ==
    /\ calls[t].pc = "idle"
    /\ cache' = TouchAll(cids)
    /\ GoOnWith(t, "get_l2", cids, Cid \ Range(cache))
    /\ NoteContest
    /\ UNCHANGED inner

get_many_l2(t) ==
    /\ calls[t].pc = "get_l2"
    /\ GoOnWith(t, "fill", calls[t].cids, calls[t].among \cap inner \cap Small)
    /\ NoteContest
    /\ UNCHANGED <<inner, cache>>

get_many_fails(t) ==
    /\ calls[t].pc = "get_l2"
    /\ Done(t)
    /\ NoteContest
    /\ UNCHANGED <<inner, cache>>

-----------------------------------------------------------------------------
(* put, put_many: L2 first; a failed put has changed nothing *)

put_many(t, cids) ==
    /\ calls[t].pc = "idle"
    /\ inner' = inner \cup Range(cids)
    /\ GoOnWith(t, "fill", cids, Small)
    /\ NoteContest
    /\ UNCHANGED cache

\* The second half of both: the blocks go into the cache in the order given.
l1_insert(t) ==
    /\ calls[t].pc = "fill"
    /\ cache' = PushAll(calls[t].cids, calls[t].among)
    /\ Done(t)
    /\ NoteContest
    /\ UNCHANGED inner

\* Node::add_bytes writes to the backing store directly.
put_inner(c) ==
    /\ c \notin inner
    /\ inner' = inner \cup {c}
    /\ UNCHANGED <<cache, calls, contested>>

-----------------------------------------------------------------------------
(* delete, delete_many: out of the cache, then out of L2 *)

\* Mutant: the cache is not told.
delete_manyKeepsL1(t, cids) ==
    /\ calls[t].pc = "idle"
    /\ GoOnWith(t, "delete_l2", cids, Cid)
    /\ NoteContest
    /\ UNCHANGED <<inner, cache>>

delete_many(t, cids) ==
    /\ calls[t].pc = "idle"
    /\ cache' = PopAll(cids)
    /\ GoOnWith(t, "delete_l2", cids, Cid)
    /\ NoteContest
    /\ UNCHANGED inner

delete_many_l2(t) ==
    /\ calls[t].pc = "delete_l2"
    /\ inner' = inner \ calls[t].among
    /\ Done(t)
    /\ NoteContest
    /\ UNCHANGED cache

delete_many_fails(t) ==
    /\ calls[t].pc = "delete_l2"
    /\ Done(t)
    /\ NoteContest
    /\ UNCHANGED <<inner, cache>>

-----------------------------------------------------------------------------
(* Maintenance of the cache alone *)

invalidate(c) ==
    /\ Has(cache, c)
    /\ cache' = pop(cache, c)
    /\ UNCHANGED <<inner, calls, contested>>

clear_cache ==
    /\ cache # <<>>
    /\ cache' = <<>>
    /\ UNCHANGED <<inner, calls, contested>>

CacheNext ==
    \/ \E t \in Task, cids \in Batch : get_many(t, cids) \/ put_many(t, cids) \/ delete_many(t, cids)
    \/ \E t \in Task : get_many_l2(t) \/ get_many_fails(t) \/ l1_insert(t) \/ delete_many_l2(t) \/ delete_many_fails(t)
    \/ \E c \in Cid : put_inner(c) \/ invalidate(c)
    \/ clear_cache

CacheSpec == CacheInit /\ [][CacheNext]_cacheVars

-----------------------------------------------------------------------------
(* Properties *)

AllIdle == \A t \in Task : calls[t].pc = "idle"

\* The cache is a cache: when no call is in progress it holds nothing the
\* backing store does not hold ("Remove from L1 and L2", delete).  A cached
\* block that is in no store is served by get and vouched for by has, yet no
\* listing shows it and no collection frees it.
CacheWithinStore == AllIdle => Range(cache) \subseteq inner

\* Such a ghost has one cause: a delete of the block and a get or put of the
\* same block by another task were in progress at the same time.  Failed
\* calls, evictions, direct writes to L2 and batches never make one.
GhostsNeedOverlap == Range(cache) \subseteq inner \cup contested
=============================================================================
