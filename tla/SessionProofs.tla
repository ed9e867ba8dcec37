--------------------------- MODULE SessionProofs ---------------------------
(***************************************************************************)
(* Proofs about a session, for any number of threads and any finite set of *)
(* blocks.  The first invariant says which call is where; the second what  *)
(* the counters count, however often a block is added or marked.           *)
(***************************************************************************)
EXTENDS Session, FiniteSetTheorems, TLAPS

\* Where each kind of call can be.
CallShape ==
    \A t \in Thread :
        /\ call[t].pc = "idle" <=> call[t].op = "none"
        /\ call[t].pc \in {"insert", "count"} <=> call[t].op = "add"
        /\ call[t].pc = "stats" => call[t].op \in {"received", "failed"}
        /\ call[t].pc = "count" => call[t].cid \subseteq blocks
        /\ call[t].pc \in {"insert", "count", "stats"} => call[t].cid # {}

\* The first inductive invariant.
ShapeInv == TypeOK /\ CallShape

\* A new session.
LEMMA InitShape == Init => ShapeInv
<1> SUFFICES ASSUME Init PROVE ShapeInv
  OBVIOUS
<1>1. NoCall \in Call
  BY DEF NoCall, Call
<1>a. call \in [Thread -> Call]
  BY <1>1 DEF Init
<1>b. adds \in [Cid -> 0 .. MaxAdds] /\ marks \in [Cid -> 0 .. MaxMarks]
  BY SessionAssumption DEF Init
<1>2. TypeOK
  BY <1>a, <1>b DEF Init, TypeOK, SessionState
<1> QED
  BY <1>2 DEF Init, ShapeInv, CallShape, NoCall

\* The other threads stay where they are.
OnlyMoves(t) == \A u \in Thread \ {t} : call'[u] = call[u]

\* A call that begins finds its thread idle.
LEMMA BeginMoves ==
    ASSUME TypeOK, NEW t \in Thread, NEW op \in Ops,
           NEW pc \in {"insert", "stats", "transition"},
           NEW cids \in {{}} \cup {{c} : c \in Cid}, Begin(t, op, pc, cids)
    PROVE  /\ call' \in [Thread -> Call] /\ OnlyMoves(t)
           /\ call'[t] = [op |-> op, pc |-> pc, cid |-> cids]
           /\ call[t].pc = "idle"
BY DEF TypeOK, Begin, Call, OnlyMoves, Idle

\* A call that moves on keeps its operation and its block.
LEMMA GoToMoves ==
    ASSUME TypeOK, NEW t \in Thread, NEW pc \in {"count", "transition", "send", "event"},
           GoTo(t, pc)
    PROVE  /\ call' \in [Thread -> Call] /\ OnlyMoves(t)
           /\ call'[t].op = call[t].op /\ call'[t].pc = pc /\ call'[t].cid = call[t].cid
<1>1. call[t] \in Call
  BY DEF TypeOK
<1>2. [call[t] EXCEPT !.pc = pc] \in Call
  BY <1>1 DEF Call
<1>3. call' = [call EXCEPT ![t] = [call[t] EXCEPT !.pc = pc]]
  BY DEF GoTo
<1>4. call' \in [Thread -> Call] /\ OnlyMoves(t) /\ call'[t] = [call[t] EXCEPT !.pc = pc]
  BY <1>2, <1>3 DEF TypeOK, OnlyMoves
<1> QED
  BY <1>1, <1>4 DEF Call

\* A call that returns leaves its thread idle.
LEMMA ReturnMoves ==
    ASSUME TypeOK, NEW t \in Thread, Return(t)
    PROVE  call' \in [Thread -> Call] /\ OnlyMoves(t) /\ call'[t] = NoCall
<1>1. NoCall \in Call
  BY DEF NoCall, Call
<1> QED
  BY <1>1 DEF TypeOK, Return, OnlyMoves

\* What is left to show of a step that moves thread t and may add blocks.
LEMMA ShapeStep ==
    ASSUME ShapeInv, TypeOK', NEW t \in Thread, OnlyMoves(t), blocks \subseteq blocks',
           call'[t].pc = "idle" <=> call'[t].op = "none",
           call'[t].pc \in {"insert", "count"} <=> call'[t].op = "add",
           call'[t].pc = "stats" => call'[t].op \in {"received", "failed"},
           call'[t].pc = "count" => call'[t].cid \subseteq blocks',
           call'[t].pc \in {"insert", "count", "stats"} => call'[t].cid # {}
    PROVE  ShapeInv'
BY DEF ShapeInv, CallShape, OnlyMoves

-----------------------------------------------------------------------------
(* The steps, one lemma for each kind *)

\* An add begins.
LEMMA AddShape ==
    ASSUME ShapeInv, NEW t \in Thread, NEW c \in Cid, add_block(t, c)
    PROVE  ShapeInv'
<1>1. /\ call' \in [Thread -> Call] /\ OnlyMoves(t)
      /\ call'[t] = [op |-> "add", pc |-> "insert", cid |-> {c}]
  <2>1. TypeOK /\ "add" \in Ops /\ {c} \in {{}} \cup {{d} : d \in Cid} /\ Begin(t, "add", "insert", {c})
    BY DEF add_block, ShapeInv, Ops
  <2> QED
    BY <2>1, BeginMoves
<1>2. adds' \in [Cid -> 0 .. MaxAdds]
  BY SessionAssumption DEF add_block, ShapeInv, TypeOK
<1>3. TypeOK'
  BY <1>1, <1>2 DEF add_block, ShapeInv, TypeOK
<1> QED
  BY <1>1, <1>3, ShapeStep DEF add_block

\* An add enters its block.
LEMMA InsertShape ==
    ASSUME ShapeInv, NEW t \in Thread, NEW c \in Cid, add_block_insert(t, c)
    PROVE  ShapeInv'
<1>1. /\ call' \in [Thread -> Call] /\ OnlyMoves(t) /\ call'[t].op = call[t].op
      /\ call'[t].pc = "count" /\ call'[t].cid = {c}
  BY GoToMoves DEF add_block_insert, ShapeInv
<1>2. TypeOK'
  BY <1>1 DEF add_block_insert, ShapeInv, TypeOK
<1>3. call[t].op = "add"
  BY DEF add_block_insert, ShapeInv, CallShape
<1> QED
  BY <1>1, <1>2, <1>3, ShapeStep DEF add_block_insert

\* An add is counted: its block is in the map.
LEMMA CountShape ==
    ASSUME ShapeInv, NEW t \in Thread, NEW c \in Cid, add_block_count(t, c)
    PROVE  ShapeInv'
<1>1. call' \in [Thread -> Call] /\ OnlyMoves(t) /\ call'[t] = NoCall
  BY ReturnMoves DEF add_block_count, ShapeInv
<1>2. c \in blocks
  BY DEF add_block_count, ShapeInv, CallShape
<1>3. stats' \in [total : Nat, received : Nat, failed : Nat]
  BY DEF add_block_count, ShapeInv, TypeOK
<1>4. TypeOK'
  BY <1>1, <1>2, <1>3 DEF add_block_count, ShapeInv, TypeOK
<1> QED
  BY <1>1, <1>4, ShapeStep DEF add_block_count, NoCall

\* A mark begins.
LEMMA MarkShape ==
    ASSUME ShapeInv, NEW t \in Thread, NEW c \in Cid, mark_received(t, c) \/ mark_failed(t, c)
    PROVE  ShapeInv'
<1>1. PICK op \in {"received", "failed"} : Begin(t, op, "stats", {c})
  BY DEF mark_received, mark_failed
<1>2. /\ call' \in [Thread -> Call] /\ OnlyMoves(t)
      /\ call'[t] = [op |-> op, pc |-> "stats", cid |-> {c}]
  BY <1>1, BeginMoves DEF ShapeInv, Ops
<1>3. marks' \in [Cid -> 0 .. MaxMarks] /\ repeats' \in Nat
  BY SessionAssumption DEF mark_received, mark_failed, MarkOnce, ShapeInv, TypeOK
<1>4. TypeOK'
  BY <1>2, <1>3 DEF mark_received, mark_failed, ShapeInv, TypeOK
<1> QED
  BY <1>2, <1>4, ShapeStep DEF mark_received, mark_failed

\* A mark is counted.
LEMMA StatsShape ==
    ASSUME ShapeInv, NEW t \in Thread, mark_received_stats(t) \/ mark_failed_stats(t)
    PROVE  ShapeInv'
<1>1. /\ call[t].pc = "stats" /\ call[t].op \in {"received", "failed"}
      /\ UNCHANGED <<state, watch, unseen, blocks, pending, waiter, adds, marks, requested, repeats, late>>
  BY DEF mark_received_stats, mark_failed_stats, At
<1>2. \/ \E pc \in {"transition", "event"} : GoTo(t, pc)
      \/ Return(t)
  BY DEF mark_received_stats, mark_failed_stats
<1>3. stats' \in [total : Nat, received : Nat, failed : Nat]
  BY DEF mark_received_stats, mark_failed_stats, ShapeInv, TypeOK
<1>4. /\ call' \in [Thread -> Call] /\ OnlyMoves(t)
      /\ \/ call'[t] = NoCall
         \/ call'[t].op = call[t].op /\ call'[t].pc \in {"transition", "event"}
  BY <1>2, GoToMoves, ReturnMoves DEF ShapeInv
<1>5. TypeOK'
  BY <1>1, <1>3, <1>4 DEF ShapeInv, TypeOK
<1> QED
  BY <1>1, <1>4, <1>5, ShapeStep DEF NoCall

\* A pause, a resume or a cancellation begins.
LEMMA ControlShape ==
    ASSUME ShapeInv, NEW t \in Thread, NEW op, control(t, op)
    PROVE  ShapeInv'
<1>1. /\ call' \in [Thread -> Call] /\ OnlyMoves(t)
      /\ call'[t] = [op |-> op, pc |-> "transition", cid |-> {}]
  BY BeginMoves DEF control, ShapeInv, Ops
<1>2. TypeOK'
  BY <1>1 DEF control, ShapeInv, TypeOK
<1> QED
  BY <1>1, <1>2, ShapeStep DEF control

\* A call changes the state, announces it or reports.
LEMMA TransitionShape ==
    ASSUME ShapeInv, NEW t \in Thread, transition_state(t) \/ send(t) \/ event(t)
    PROVE  ShapeInv'
<1>0. NewState(call[t].op) \in SessionState \ {"Completing"}
  BY DEF NewState, SessionState
<1>1. call[t].pc \in {"transition", "send", "event"} /\ call[t].op \notin {"none", "add"}
  BY DEF transition_state, send, event, ShapeInv, CallShape
<1>2. \/ \E pc \in {"send", "event"} : GoTo(t, pc)
      \/ Return(t)
  BY DEF transition_state, send, event
<1>3. /\ call' \in [Thread -> Call] /\ OnlyMoves(t)
      /\ \/ call'[t] = NoCall
         \/ call'[t].op = call[t].op /\ call'[t].pc \in {"send", "event"}
  BY <1>2, GoToMoves, ReturnMoves DEF ShapeInv
<1>4. UNCHANGED <<blocks, pending, stats, waiter, adds, marks, requested, repeats>>
  BY DEF transition_state, send, event
<1>5. {state', watch'} \subseteq SessionState \ {"Completing"} /\ unseen' \in BOOLEAN /\ late' \in BOOLEAN
  BY <1>0 DEF transition_state, send, event, ShapeInv, TypeOK
<1>6. TypeOK'
  BY <1>3, <1>4, <1>5 DEF ShapeInv, TypeOK
<1> QED
  BY <1>1, <1>3, <1>4, <1>6, ShapeStep DEF NoCall

\* The waiting task moves, or nothing does.
LEMMA WaitShape ==
    ASSUME ShapeInv, wait_completion \/ changed \/ UNCHANGED vars
    PROVE  ShapeInv'
<1>1. UNCHANGED <<state, watch, blocks, pending, stats, call, adds, marks, requested, repeats, late>>
  BY DEF wait_completion, changed, vars
<1>2. unseen' \in BOOLEAN /\ waiter' \in {"none", "waiting", "returned"}
  BY DEF wait_completion, changed, vars, ShapeInv, TypeOK
<1> QED
  BY <1>1, <1>2 DEF ShapeInv, TypeOK, CallShape

\* Every step keeps the calls where they can be.
LEMMA NextShape == ShapeInv /\ [Next]_vars => ShapeInv'
BY AddShape, InsertShape, CountShape, MarkShape, StatsShape, ControlShape, TransitionShape,
   WaitShape DEF Next, Continue

\* Who waits for a lock waits for a thread that waits too.  The chain ends at a
\* mark_failed that waits for the lock it holds.
LEMMA ShapeBlocks == ShapeInv => OnlyLastFailureBlocks
<1> DEFINE busy == {t \in Thread : ~Idle(t)}
           waitsForStats(t) == call[t].pc \in {"count", "stats", "event"} /\ ~StatsFree
           waitsForEntry(t) ==
               /\ call[t].pc = "insert"
               /\ \E c \in call[t].cid : Marking("received", c) \/ Marking("failed", c)
<1> SUFFICES ASSUME ShapeInv, busy # {}, \A t \in busy : waitsForStats(t) \/ waitsForEntry(t)
             PROVE  \E t \in busy : At(t, "failed", "event")
  BY DEF OnlyLastFailureBlocks
<1>1. CASE \E t \in busy : waitsForStats(t)
  <2>1. PICK u \in Thread : HoldsStats(u)
    BY <1>1 DEF StatsFree
  <2>2. u \in busy /\ call[u].op = "failed" /\ call[u].pc \in {"transition", "send", "event"}
    BY <2>1 DEF HoldsStats, Idle
  <2>3. call[u].pc = "event"
    BY <2>2
  <2> QED
    BY <2>2, <2>3 DEF At
<1>2. CASE ~\E t \in busy : waitsForStats(t)
  <2>1. PICK t \in busy : waitsForEntry(t)
    BY <1>2
  <2>2. PICK u \in Thread : call[u].op \in {"received", "failed"}
    BY <2>1 DEF Marking
  <2>3. u \in busy /\ call[u].pc # "insert"
    BY <2>2 DEF ShapeInv, CallShape, Idle
  <2> QED
    BY <1>2, <2>3
<1> QED
  BY <1>1, <1>2

-----------------------------------------------------------------------------
(* The theorems about any application *)

\* The invariant of the calls.
THEOREM ShapeInvariance == Spec => []ShapeInv
BY InitShape, NextShape, PTL DEF Spec

\* The session is well typed; Completing is never entered.
THEOREM TypeCorrect == Spec => []TypeOK
<1>1. ShapeInv => TypeOK
  BY DEF ShapeInv
<1> QED
  BY <1>1, ShapeInvariance, PTL

\* Threads that use a session stand still only behind a mark_failed that
\* completes it, however many they are and whatever they call.
THEOREM StandstillNeedsLastFailure == Spec => []OnlyLastFailureBlocks
BY ShapeBlocks, ShapeInvariance, PTL

-----------------------------------------------------------------------------
(* What the counters count *)

\* The marks that are not counted yet, and the blocks that have been marked.
Counting == {t \in Thread : call[t].pc = "stats"}
Marked == {c \in Cid : marks[c] > 0}

\* The second inductive invariant: every accepted block is in the total, a repeated
\* add more than once, and every mark counted or under way is the first of its
\* block or a repeated one.
CountInv ==
    /\ ShapeInv
    /\ IsFiniteSet(Counting)
    /\ Marked \subseteq requested
    /\ Cardinality(requested) <= stats.total
    /\ stats.received + stats.failed + Cardinality(Counting) = Cardinality(Marked) + repeats

\* A new session has counted nothing.
LEMMA InitCount == Init => CountInv
<1> SUFFICES ASSUME Init PROVE CountInv
  OBVIOUS
<1>1. requested = {} /\ Marked = {} /\ Counting = {}
  BY DEF Init, Marked, Counting, NoCall
<1>2. Cardinality({}) = 0 /\ IsFiniteSet({})
  BY FS_EmptySet
<1> QED
  BY <1>1, <1>2, InitShape DEF Init, CountInv

\* Sets of blocks are finite, and the counters are numbers.
LEMMA FiniteBlocks ==
    ASSUME CountInv
    PROVE  /\ IsFiniteSet(requested) /\ Cardinality(requested) \in Nat
           /\ IsFiniteSet(Marked) /\ Cardinality(Marked) \in Nat
           /\ Cardinality(Counting) \in Nat /\ repeats \in Nat
           /\ stats.total \in Nat /\ stats.received \in Nat /\ stats.failed \in Nat
<1>1. requested \in SUBSET Cid /\ Marked \in SUBSET Cid
  BY DEF CountInv, ShapeInv, TypeOK, Marked
<1>2. IsFiniteSet(requested) /\ IsFiniteSet(Marked)
  BY <1>1, SessionAssumption, FS_Subset
<1>3. repeats \in Nat /\ stats.total \in Nat /\ stats.received \in Nat /\ stats.failed \in Nat
  BY DEF CountInv, ShapeInv, TypeOK
<1> QED
  BY <1>2, <1>3, FS_CardinalityType DEF CountInv

\* Steps that neither count an add nor begin or count a mark.
LEMMA CountFrame ==
    ASSUME CountInv, ShapeInv', UNCHANGED <<stats, marks, requested, repeats>>, Counting' = Counting
    PROVE  CountInv'
<1>1. Marked' = Marked
  BY DEF Marked
<1> QED
  BY <1>1 DEF CountInv

\* An add is counted: its block may have been accepted before.
LEMMA AcceptCount ==
    ASSUME CountInv, NEW t \in Thread, NEW c \in Cid, add_block_count(t, c)
    PROVE  CountInv'
<1>1. ShapeInv'
  BY CountShape DEF CountInv
<1>2. OnlyMoves(t) /\ call'[t] = NoCall /\ call[t].pc = "count"
  BY ReturnMoves DEF add_block_count, CountInv, ShapeInv
<1>3. Counting' = Counting
  BY <1>2 DEF OnlyMoves, Counting, NoCall
<1>4. /\ stats'.total = stats.total + 1 /\ stats'.received = stats.received /\ stats'.failed = stats.failed
      /\ requested' = requested \cup {c} /\ UNCHANGED <<marks, repeats>>
  BY DEF add_block_count, CountInv, ShapeInv, TypeOK
<1>5. Cardinality(requested') <= Cardinality(requested) + 1
  <2>1. CASE c \in requested
    <3>1. requested' = requested
      BY <1>4, <2>1
    <3> QED
      BY <3>1, FiniteBlocks
  <2>2. CASE c \notin requested
    <3>1. Cardinality(requested \cup {c}) = Cardinality(requested) + 1
      BY <2>2, FiniteBlocks, FS_AddElement
    <3> QED
      BY <1>4, <3>1, FiniteBlocks
  <2> QED
    BY <2>1, <2>2
<1>6. Cardinality(requested') \in Nat
  <2>1. IsFiniteSet(requested')
    BY <1>4, FiniteBlocks, FS_AddElement
  <2> QED
    BY <2>1, FS_CardinalityType
<1>7. Cardinality(requested') <= stats'.total
  BY <1>4, <1>5, <1>6, FiniteBlocks DEF CountInv
<1>8. Marked' = Marked
  BY <1>4 DEF Marked
<1> QED
  BY <1>1, <1>3, <1>4, <1>7, <1>8 DEF CountInv

\* A mark begins: it is the first of its block, or a repeated one.
LEMMA MarkCount ==
    ASSUME CountInv, NEW t \in Thread, NEW c \in Cid, mark_received(t, c) \/ mark_failed(t, c)
    PROVE  CountInv'
<1>1. ShapeInv'
  BY MarkShape DEF CountInv
<1>2. PICK op \in {"received", "failed"} : Begin(t, op, "stats", {c})
  BY DEF mark_received, mark_failed
<1>3. /\ OnlyMoves(t) /\ call[t].pc = "idle"
      /\ call'[t] = [op |-> op, pc |-> "stats", cid |-> {c}]
  <2>1. TypeOK /\ op \in Ops /\ {c} \in {{}} \cup {{d} : d \in Cid}
    BY DEF CountInv, ShapeInv, Ops
  <2> QED
    BY <1>2, <2>1, BeginMoves
<1>4. /\ marks'[c] > 0 /\ \A d \in Cid \ {c} : marks'[d] = marks[d]
      /\ repeats' = IF marks[c] > 0 THEN repeats + 1 ELSE repeats
      /\ c \in requested /\ UNCHANGED <<stats, requested>>
  BY SessionAssumption DEF mark_received, mark_failed, MarkOnce, CountInv, ShapeInv, TypeOK
<1>5. Counting' = Counting \cup {t} /\ t \notin Counting
  BY <1>3 DEF OnlyMoves, Counting
<1>6. IsFiniteSet(Counting') /\ Cardinality(Counting') = Cardinality(Counting) + 1
  BY <1>5, FS_AddElement DEF CountInv
<1>7. Marked' = Marked \cup {c}
  BY <1>4 DEF Marked
<1>8. Cardinality(Marked') + repeats' = Cardinality(Marked) + repeats + 1
  <2>1. CASE marks[c] > 0
    <3>1. Marked' = Marked /\ repeats' = repeats + 1
      BY <1>4, <1>7, <2>1 DEF Marked
    <3> QED
      BY <3>1, FiniteBlocks
  <2>2. CASE ~(marks[c] > 0)
    <3>1. c \notin Marked /\ repeats' = repeats
      BY <1>4, <2>2 DEF Marked
    <3>2. Cardinality(Marked') = Cardinality(Marked) + 1
      BY <1>7, <3>1, FiniteBlocks, FS_AddElement
    <3> QED
      BY <3>1, <3>2, FiniteBlocks
  <2> QED
    BY <2>1, <2>2
<1>9. Marked' \subseteq requested'
  BY <1>4, <1>7 DEF CountInv
<1>10. stats'.received + stats'.failed + Cardinality(Counting') = Cardinality(Marked') + repeats'
  BY <1>4, <1>6, <1>8, FiniteBlocks DEF CountInv
<1> QED
  BY <1>1, <1>4, <1>6, <1>9, <1>10 DEF CountInv

\* A mark is counted.
LEMMA StatsCount ==
    ASSUME CountInv, NEW t \in Thread, mark_received_stats(t) \/ mark_failed_stats(t)
    PROVE  CountInv' /\ UNCHANGED <<marks, requested, repeats>>
<1>1. ShapeInv'
  BY StatsShape DEF CountInv
<1>2. t \in Counting
  BY DEF mark_received_stats, mark_failed_stats, At, Counting
<1>3. /\ stats'.total = stats.total
      /\ stats'.received + stats'.failed = stats.received + stats.failed + 1
      /\ UNCHANGED <<marks, requested, repeats>>
  BY DEF mark_received_stats, mark_failed_stats, CountInv, ShapeInv, TypeOK
<1>4. \/ \E pc \in {"transition", "event"} : GoTo(t, pc)
      \/ Return(t)
  BY DEF mark_received_stats, mark_failed_stats
<1>5. OnlyMoves(t) /\ call'[t].pc \in {"idle", "transition", "event"}
  BY <1>4, GoToMoves, ReturnMoves DEF CountInv, ShapeInv, NoCall
<1>6. Counting' = Counting \ {t}
  BY <1>5 DEF OnlyMoves, Counting
<1>7. IsFiniteSet(Counting') /\ Cardinality(Counting') = Cardinality(Counting) - 1
  BY <1>2, <1>6, FS_RemoveElement DEF CountInv
<1>8. Marked' = Marked
  BY <1>3 DEF Marked
<1>9. stats'.received + stats'.failed + Cardinality(Counting') = Cardinality(Marked') + repeats'
  BY <1>3, <1>7, <1>8, FiniteBlocks DEF CountInv
<1>10. Marked' \subseteq requested' /\ Cardinality(requested') <= stats'.total
  BY <1>3, <1>8 DEF CountInv
<1> QED
  BY <1>1, <1>3, <1>7, <1>9, <1>10 DEF CountInv

\* The other steps of a thread neither count nor mark.
LEMMA OtherCount ==
    ASSUME CountInv, NEW t \in Thread,
           \/ \E c \in Cid : add_block(t, c) \/ add_block_insert(t, c)
           \/ \E op \in Calls : control(t, op)
           \/ transition_state(t) \/ send(t) \/ event(t)
    PROVE  CountInv'
<1>1. ShapeInv'
  BY AddShape, InsertShape, ControlShape, TransitionShape DEF CountInv
<1>2. UNCHANGED <<stats, marks, requested, repeats>>
  BY DEF add_block, add_block_insert, control, transition_state, send, event
<1>3. OnlyMoves(t) /\ call[t].pc # "stats" /\ call'[t].pc # "stats"
  <2>1. ASSUME NEW c \in Cid, add_block(t, c)
        PROVE  OnlyMoves(t) /\ call[t].pc # "stats" /\ call'[t].pc # "stats"
    <3>1. OnlyMoves(t) /\ call[t].pc = "idle" /\ call'[t] = [op |-> "add", pc |-> "insert", cid |-> {c}]
      <4>1. TypeOK /\ "add" \in Ops /\ {c} \in {{}} \cup {{d} : d \in Cid} /\ Begin(t, "add", "insert", {c})
        BY <2>1 DEF add_block, CountInv, ShapeInv, Ops
      <4> QED
        BY <4>1, BeginMoves
    <3> QED
      BY <3>1
  <2>2. ASSUME NEW op \in Calls, control(t, op)
        PROVE  OnlyMoves(t) /\ call[t].pc # "stats" /\ call'[t].pc # "stats"
    <3>1. Begin(t, op, "transition", {}) /\ op \in Ops
      BY <2>2 DEF control, Ops
    <3>2. OnlyMoves(t) /\ call[t].pc = "idle" /\ call'[t] = [op |-> op, pc |-> "transition", cid |-> {}]
      BY <3>1, BeginMoves DEF CountInv, ShapeInv
    <3> QED
      BY <3>2
  <2>3. ASSUME \/ \E c \in Cid : add_block_insert(t, c)
               \/ transition_state(t) \/ send(t) \/ event(t)
        PROVE  OnlyMoves(t) /\ call[t].pc # "stats" /\ call'[t].pc # "stats"
    <3>1. /\ call[t].pc # "stats"
          /\ \/ \E pc \in {"count", "send", "event"} : GoTo(t, pc)
             \/ Return(t)
      BY <2>3 DEF add_block_insert, transition_state, send, event
    <3> QED
      BY <3>1, GoToMoves, ReturnMoves DEF CountInv, ShapeInv, NoCall
  <2> QED
    BY <2>1, <2>2, <2>3
<1>4. Counting' = Counting
  BY <1>3 DEF OnlyMoves, Counting
<1> QED
  BY <1>1, <1>2, <1>4, CountFrame

\* Every step keeps the counters within what they count.
LEMMA NextCount == CountInv /\ [Next]_vars => CountInv'
<1> SUFFICES ASSUME CountInv, [Next]_vars PROVE CountInv'
  OBVIOUS
<1>1. CASE wait_completion \/ changed \/ UNCHANGED vars
  <2>1. ShapeInv'
    BY <1>1, WaitShape DEF CountInv
  <2>2. UNCHANGED <<call, stats, marks, requested, repeats>>
    BY <1>1 DEF wait_completion, changed, vars
  <2>3. Counting' = Counting
    BY <2>2 DEF Counting
  <2> QED
    BY <2>1, <2>2, <2>3, CountFrame
<1> QED
  BY <1>1, AcceptCount, MarkCount, StatsCount, OtherCount DEF Next, Continue

\* The decision to complete is taken when no more accepted blocks lack a mark than
\* marks were repeated.
LEMMA DecisionCovers ==
    ASSUME CountInv, [Next]_vars, NEW t \in Thread, Decides(t)
    PROVE  Cardinality(Unmarked) <= repeats
<1>0. call[t].pc = "stats" /\ call'[t].pc = "transition"
  BY DEF Decides
<1>1. mark_received_stats(t) \/ mark_failed_stats(t)
  <2>1. call[t] \in Call /\ call[t].op \in {"received", "failed"}
    BY <1>0 DEF CountInv, ShapeInv, TypeOK, CallShape
  <2>2. call' # call
    BY <1>0
  <2>3. PICK u \in Thread : \/ \E c \in Cid : \/ add_block(u, c) \/ mark_received(u, c)
                                            \/ mark_failed(u, c)
                            \/ \E op \in Calls : control(u, op)
                            \/ Continue(u)
    BY <2>2 DEF Next, vars, wait_completion, changed
  <2>4. OnlyMoves(u)
    BY <2>3 DEF Continue, add_block, mark_received, mark_failed, control, Begin, GoTo, Return,
                OnlyMoves, add_block_insert, add_block_count, mark_received_stats,
                mark_failed_stats, transition_state, send, event, CountInv, ShapeInv, TypeOK
  <2>5. u = t
    BY <1>0, <2>4 DEF OnlyMoves
  <2> QED
    BY <1>0, <2>3, <2>5 DEF Continue, add_block, mark_received, mark_failed, control, Begin, Idle,
                      add_block_insert, add_block_count, transition_state, send, event
<1>2. CountInv' /\ UNCHANGED <<marks, requested, repeats>>
  BY <1>1, StatsCount
<1>3. is_complete(stats')
  <2>1. CASE mark_received_stats(t)
    <3>1. ~is_complete(stats') => call'[t].pc = "event"
      BY <2>1, GoToMoves DEF mark_received_stats, CountInv, ShapeInv
    <3> QED
      BY <1>0, <3>1
  <2>2. CASE mark_failed_stats(t)
    <3>1. ~is_complete(stats') => call'[t].pc = "idle"
      BY <2>2, ReturnMoves DEF mark_failed_stats, CountInv, ShapeInv, NoCall
    <3> QED
      BY <1>0, <3>1
  <2> QED
    BY <1>1, <2>1, <2>2
<1>4. /\ stats'.received \in Nat /\ stats'.failed \in Nat /\ stats'.total \in Nat /\ Cardinality(Counting') \in Nat
      /\ Marked' = Marked /\ Cardinality(Counting)' = Cardinality(Counting')
  <2>1. (stats.received \in Nat /\ stats.failed \in Nat /\ stats.total \in Nat)'
    BY <1>2 DEF CountInv, ShapeInv, TypeOK
  <2>2. Cardinality(Counting') \in Nat
    BY <1>2, FS_CardinalityType DEF CountInv
  <2> QED
    BY <1>2, <2>1, <2>2 DEF Marked
<1>5. stats'.received + stats'.failed <= Cardinality(Marked) + repeats
  BY <1>2, <1>4, FiniteBlocks DEF CountInv
<1>6. Cardinality(requested) <= stats'.received + stats'.failed
  BY <1>2, <1>3, <1>4, FiniteBlocks DEF CountInv, is_complete
<1>7. Cardinality(Unmarked) = Cardinality(requested) - Cardinality(Marked)
  <2>1. Unmarked = requested \ Marked /\ requested \cap Marked = Marked
    <3>1. \A c \in requested : c \in Cid /\ marks[c] \in Nat
      BY SessionAssumption DEF CountInv, ShapeInv, TypeOK
    <3> QED
      BY <3>1 DEF Unmarked, Marked, CountInv
  <2>2. Cardinality(requested \ Marked) = Cardinality(requested) - Cardinality(requested \cap Marked)
    BY FiniteBlocks, FS_Difference
  <2> QED
    BY <2>1, <2>2
<1> QED
  BY <1>4, <1>5, <1>6, <1>7, FiniteBlocks

\* However often the application adds and marks a block and however its threads
\* interleave, completion is decided with at most as many accepted blocks missing
\* as marks were repeated: with none, where no block is marked twice.
THEOREM CompletionCovers == Spec => CompletionCoversAdds
<1>1. CountInv /\ [Next]_vars => [\A t \in Thread : Decides(t) => Cardinality(Unmarked) <= repeats]_vars
  BY DecisionCovers
<1> QED
  BY <1>1, InitCount, NextCount, PTL DEF Spec, CompletionCoversAdds
=============================================================================
