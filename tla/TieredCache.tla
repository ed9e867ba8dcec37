------------------------------ MODULE TieredCache ------------------------------
(***************************************************************************)
(* The cache with a hot and a warm tier, TieredBlockCache of               *)
(* crates/ipfrs-storage/src/cache.rs, lock by lock.                        *)
(*                                                                         *)
(* Each tier has a mutex.  `if let Some(x) = tier.lock().op()' keeps the   *)
(* guard for the whole body of the `if', so a get that found its block in  *)
(* the warm tier holds that tier while it takes the hot one, and a put     *)
(* that displaced a block holds the hot tier while it takes the warm one.  *)
(***************************************************************************)
EXTENDS Lru

CONSTANTS Thread, l2_capacity

ASSUME TierAssumption == l2_capacity \in Nat \ {0}

VARIABLES l1, l2,  \* the two tiers, most recent first
          call     \* [Thread -> the call in progress, with its block]

vars == <<l1, l2, call>>

NoCall == [pc |-> "idle", cid |-> {}]

Init ==
    /\ l1 = <<>> /\ l2 = <<>>
    /\ call = [t \in Thread |-> NoCall]

Idle(t) == call[t].pc = "idle"
GoTo(t, pc, cids) == call' = [call EXCEPT ![t] = [pc |-> pc, cid |-> cids]]
Return(t) == call' = [call EXCEPT ![t] = NoCall]

\* A tier is free unless a thread holds it across a wait for the other tier.
L1Free == \A t \in Thread : call[t].pc # "cascade"

L2Free == \A t \in Thread : call[t].pc # "promote"

-----------------------------------------------------------------------------
get(t, c) ==
    /\ Idle(t) /\ L1Free
    /\ l1' = touch(l1, c)
    /\ IF Has(l1, c) THEN UNCHANGED call ELSE GoTo(t, "get_l2", {c})
    /\ UNCHANGED l2

get_l2(t, c) ==
    /\ call[t] = [pc |-> "get_l2", cid |-> {c}] /\ L2Free
    /\ l2' = touch(l2, c)
    /\ IF Has(l2, c) THEN GoTo(t, "promote", {c}) ELSE Return(t)
    /\ UNCHANGED l1

\* The block the promotion displaces from the hot tier is dropped.
promote(t, c) ==
    /\ call[t] = [pc |-> "promote", cid |-> {c}] /\ L1Free
    /\ l1' = push(l1, c, l1_capacity)
    /\ Return(t)
    /\ UNCHANGED l2

put(t, c) ==
    /\ Idle(t) /\ L1Free
    /\ l1' = push(l1, c, l1_capacity)
    /\ LET victim == displaced(l1, c, l1_capacity)
       IN  IF victim = {} THEN UNCHANGED call ELSE GoTo(t, "cascade", victim)
    /\ UNCHANGED l2

cascade(t, c) ==
    /\ call[t] = [pc |-> "cascade", cid |-> {c}] /\ L2Free
    /\ l2' = push(l2, c, l2_capacity)
    /\ Return(t)
    /\ UNCHANGED l1

remove(t, c) ==
    /\ Idle(t) /\ L1Free
    /\ l1' = pop(l1, c)
    /\ GoTo(t, "remove_l2", {c})
    /\ UNCHANGED l2

\* Mutant: a removal stops at the hot tier.
remove_l2Keeps(t, c) ==
    /\ call[t] = [pc |-> "remove_l2", cid |-> {c}]
    /\ Return(t)
    /\ UNCHANGED <<l1, l2>>

remove_l2(t, c) ==
    /\ call[t] = [pc |-> "remove_l2", cid |-> {c}] /\ L2Free
    /\ l2' = pop(l2, c)
    /\ Return(t)
    /\ UNCHANGED l1

clear(t) ==
    /\ Idle(t) /\ L1Free
    /\ l1' = <<>>
    /\ GoTo(t, "clear_l2", {})
    /\ UNCHANGED l2

clear_l2(t) ==
    /\ call[t].pc = "clear_l2" /\ L2Free
    /\ l2' = <<>>
    /\ Return(t)
    /\ UNCHANGED l1

Continue(t) ==
    \/ \E c \in Cid : get_l2(t, c) \/ promote(t, c) \/ cascade(t, c) \/ remove_l2(t, c)
    \/ clear_l2(t)

Next ==
    \E t \in Thread :
        \/ \E c \in Cid : get(t, c) \/ put(t, c) \/ remove(t, c)
        \/ clear(t)
        \/ Continue(t)

Spec == Init /\ [][Next]_vars

\* A thread whose next lock is free again and again gets it in the end.
FairSpec == Spec /\ \A t \in Thread : SF_vars(Continue(t))

-----------------------------------------------------------------------------
(* Properties *)

Blocked(t) == IF call[t].pc = "promote" THEN ~L1Free ELSE ~L2Free

\* The threads stand still only when a get promotes a block while a put
\* cascades one: each holds the tier the other needs.  Removals and clears,
\* which hold one tier at a time, and two calls of one kind never block.
OnlyInversionBlocks ==
    LET busy == {t \in Thread : ~Idle(t)}
    IN  (busy # {} /\ \A t \in busy : Blocked(t))
            => \E t, u \in busy : call[t].pc = "promote" /\ call[u].pc = "cascade"

\* Every call returns: "checks L1 then L2; promotes L2 hits to L1" (get).
CallsReturn == \A t \in Thread : call[t].pc # "idle" ~> call[t].pc = "idle"

\* "L2 catches blocks evicted from L1": a block that leaves the hot tier, and
\* is not removed, is in the warm tier or about to be put there.
L2CatchesEvicted ==
    [][\A c \in Cid :
          (/\ Has(l1, c) /\ ~Has(l1', c)
           /\ ~\E t \in Thread : Idle(t) /\ call'[t].pc \in {"remove_l2", "clear_l2"})
              => \/ Has(l2', c)
                 \/ \E t \in Thread : call'[t] = [pc |-> "cascade", cid |-> {c}]]_vars
=============================================================================
