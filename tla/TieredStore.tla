------------------------------ MODULE TieredStore ------------------------------
(***************************************************************************)
(* A store behind the two-tier cache: TieredCachedBlockStore of            *)
(* crates/ipfrs-storage/src/cache.rs.                                      *)
(*                                                                         *)
(* Every call of the store is a call of TieredCache and an awaited call of *)
(* the backing store, one after the other; the calls of other threads come *)
(* in between.  put fills the cache before it knows whether the backing    *)
(* store takes the block.                                                  *)
(***************************************************************************)
EXTENDS TieredCache

VARIABLES store,       \* the blocks in the backing store
          op,          \* [Thread -> the call in progress]
          overlapped,  \* history: blocks that a delete and another call handled at once
          refused      \* history: blocks whose put the backing store has refused

allVars == <<vars, store, op, overlapped, refused>>

\* hit says whether the cache had the block.
NoOp == [name |-> "idle", cid |-> {}, hit |-> FALSE]

TypeOK ==
    /\ {Range(l1), Range(l2)} \subseteq SUBSET Cid
    /\ IsInjective(l1) /\ IsInjective(l2)
    /\ Len(l1) <= l1_capacity /\ Len(l2) <= l2_capacity
    /\ call \in [Thread -> [pc : {"idle", "get_l2", "promote", "cascade", "remove_l2", "clear_l2"},
                            cid : {{}} \cup {{c} : c \in Cid}]]
    /\ op \in [Thread -> [name : {"idle", "put", "get", "has", "fill", "delete", "close"},
                          cid : {{}} \cup {{c} : c \in Cid}, hit : BOOLEAN]]
    /\ \A t \in Thread : op[t] = NoOp => Idle(t)
    /\ store \subseteq Cid /\ overlapped \subseteq Cid /\ refused \subseteq Cid

StoreInit ==
    /\ Init
    /\ store = {} /\ overlapped = {} /\ refused = {}
    /\ op = [t \in Thread |-> NoOp]

Note ==
    overlapped' = overlapped \cup
        {c \in Cid : \E t, u \in Thread : /\ op'[t].name = "delete" /\ op'[t].cid = {c}
                                          /\ op'[u].name \in {"put", "get", "has", "fill"} /\ op'[u].cid = {c}}

Become(t, name, cids, hit) == op' = [op EXCEPT ![t] = [name |-> name, cid |-> cids, hit |-> hit]] /\ Note
Finish(t) == op' = [op EXCEPT ![t] = NoOp] /\ Note

\* The cache's part of a call: it begins and takes its locks one by one.
store_put(t, c) == op[t] = NoOp /\ put(t, c) /\ Become(t, "put", {c}, FALSE) /\ UNCHANGED <<store, refused>>
lookup(t, c, name) ==
    /\ op[t] = NoOp /\ get(t, c)
    /\ IF Has(l1, c) THEN Finish(t) ELSE Become(t, name, {c}, FALSE)
    /\ UNCHANGED <<store, refused>>
store_delete(t, c) == op[t] = NoOp /\ remove(t, c) /\ Become(t, "delete", {c}, FALSE) /\ UNCHANGED <<store, refused>>
close(t) == op[t] = NoOp /\ clear(t) /\ Become(t, "close", {}, FALSE) /\ UNCHANGED <<store, refused>>

cache_step(t) ==
    /\ Continue(t)
    /\ IF call'[t].pc = "promote" THEN Become(t, op[t].name, op[t].cid, TRUE) ELSE UNCHANGED op /\ Note
    /\ UNCHANGED <<store, refused>>

\* The cache is done: the backing store's part of the call.
AtStore(t, name) == op[t].name = name /\ Idle(t)

put_l3(t) ==
    /\ AtStore(t, "put")
    /\ \/ store' = store \cup op[t].cid /\ UNCHANGED refused
       \/ refused' = refused \cup op[t].cid /\ UNCHANGED store
    /\ Finish(t) /\ UNCHANGED vars

\* A block the cache has is returned; one the backing store has is cached.
get_l3(t, c) ==
    /\ AtStore(t, "get") /\ op[t].cid = {c}
    /\ IF c \in store /\ ~op[t].hit THEN Become(t, "fill", {c}, FALSE) ELSE Finish(t)
    /\ UNCHANGED <<vars, store, refused>>

\* The lock of the hot tier may have to be waited for.
fill(t, c) ==
    /\ AtStore(t, "fill") /\ op[t] = [name |-> "fill", cid |-> {c}, hit |-> FALSE]
    /\ put(t, c)
    /\ Become(t, "fill", {c}, TRUE)
    /\ UNCHANGED <<store, refused>>

\* Mutant: get reads its answer from the hot tier, and starts again when it is gone.
filledAgain(t) ==
    /\ AtStore(t, "fill") /\ op[t].hit
    /\ IF op[t].cid \subseteq Range(l1) THEN Finish(t) ELSE Become(t, "get", op[t].cid, FALSE)
    /\ UNCHANGED <<vars, store, refused>>

filled(t) == AtStore(t, "fill") /\ op[t].hit /\ Finish(t) /\ UNCHANGED <<vars, store, refused>>

has_l3(t) == AtStore(t, "has") /\ Finish(t) /\ UNCHANGED <<vars, store, refused>>

delete_l3(t) ==
    /\ AtStore(t, "delete")
    /\ store' \in {store, store \ op[t].cid}
    /\ Finish(t) /\ UNCHANGED <<vars, refused>>

close_l3(t) == AtStore(t, "close") /\ Finish(t) /\ UNCHANGED <<vars, store, refused>>

GoOn(t) ==
    \/ cache_step(t) \/ put_l3(t) \/ filled(t) \/ has_l3(t) \/ delete_l3(t) \/ close_l3(t)
    \/ \E c \in Cid : get_l3(t, c) \/ fill(t, c)

StoreNext ==
    \E t \in Thread :
        \/ \E c \in Cid : store_put(t, c) \/ store_delete(t, c) \/ \E name \in {"get", "has"} : lookup(t, c, name)
        \/ close(t)
        \/ GoOn(t)

StoreSpec == StoreInit /\ [][StoreNext]_allVars

\* A thread whose next lock is free again and again gets it in the end.
FairStoreSpec == StoreSpec /\ \A t \in Thread : SF_allVars(GoOn(t))

-----------------------------------------------------------------------------

\* A block that is cached and in no store was put there by a put in progress, or
\* by one that failed, or was handled by a delete and another call at the same
\* time: evictions, promotions and failing deletes never make one.  (cache.rs,
\* TieredCachedBlockStore)
GhostsNeedCause ==
    Range(l1) \cup Range(l2) \subseteq
        store \cup overlapped \cup refused \cup UNION {op[t].cid : t \in {u \in Thread : op[u].name = "put"}}

\* The cache holds nothing that the backing store does not hold, when all is quiet.
TiersWithinStore == (\A t \in Thread : op[t] = NoOp) => Range(l1) \cup Range(l2) \subseteq store

\* Threads at a standstill: a promotion holds the tier a cascade needs, and the
\* other way round.
Inversion == \E t, u \in Thread : call[t].pc = "promote" /\ call[u].pc = "cascade"

\* Every call returns, unless a promotion meets a cascade.  (cache.rs, the guards
\* that `if let' keeps, under get and put)
CallsReturnOrInvert == \A t \in Thread : op[t] # NoOp ~> (op[t] = NoOp \/ Inversion)

=============================================================================
