-------------------------------- MODULE Session --------------------------------
(***************************************************************************)
(* A session of block requests: crates/ipfrs-transport/src/session.rs,     *)
(* Session, with the event channel its SessionManager always gives it.     *)
(*                                                                         *)
(* The state, the statistics and the map of requests have a lock each, and *)
(* the watch channel that wakes wait_completion is a fourth cell.  A step  *)
(* is one acquisition and what is done under it.  The lock of the state is *)
(* never held across a step; the entry of a block is held for the whole of *)
(* mark_received (for writing) and mark_failed (for reading); the          *)
(* statistics are held across steps by mark_failed alone.  Sizes, times    *)
(* and the events other than their reads of the statistics are left out.   *)
(***************************************************************************)
EXTENDS Naturals, FiniteSets

CONSTANTS Cid,
          Thread,
          Calls,     \* the calls the application makes
          MaxAdds,   \* how often it adds one block
          MaxMarks   \* how often it marks one block

Ops == {"add", "received", "failed", "pause", "resume", "cancel"}

ASSUME SessionAssumption ==
    /\ Calls \subseteq Ops
    /\ MaxAdds \in Nat /\ MaxMarks \in Nat
    /\ IsFiniteSet(Cid)

VARIABLES state,      \* the SessionState
          watch,      \* the value last sent on the watch channel
          unseen,     \* wait_completion has not looked since that send
          blocks,     \* the keys of the map of requests
          pending,    \* the requests whose completed_at is None
          stats,      \* total_blocks, blocks_received, blocks_failed
          call,       \* [Thread -> the call in progress]
          waiter,     \* the task in wait_completion
          adds, marks,\* how often a block has been added and marked
          requested,  \* history: the blocks whose add_block has returned Ok
          repeats,    \* history: the marks of a block that had been marked before
          late        \* history: the last announcement came after the session had ended

vars == <<state, watch, unseen, blocks, pending, stats, call, waiter, adds, marks, requested, repeats, late>>

\* Completing is declared and never entered.
SessionState == {"Active", "Paused", "Completing", "Completed", "Cancelled"}
Terminal == {"Completed", "Cancelled"}

NoCall == [op |-> "none", pc |-> "idle", cid |-> {}]
Idle(t) == call[t].pc = "idle"
AllIdle == \A t \in Thread : Idle(t)

Call == [op : Calls \cup {"none"},
         pc : {"idle", "insert", "count", "stats", "transition", "send", "event"},
         cid : {{}} \cup {{c} : c \in Cid}]

TypeOK ==
    /\ {state, watch} \subseteq SessionState \ {"Completing"}
    /\ unseen \in BOOLEAN
    /\ pending \subseteq blocks /\ blocks \subseteq Cid /\ requested \subseteq blocks
    /\ stats \in [total : Nat, received : Nat, failed : Nat]
    /\ call \in [Thread -> Call]
    /\ waiter \in {"none", "waiting", "returned"}
    /\ adds \in [Cid -> 0 .. MaxAdds] /\ marks \in [Cid -> 0 .. MaxMarks]
    /\ repeats \in Nat /\ late \in BOOLEAN

Init ==
    /\ state = "Active" /\ watch = "Active" /\ unseen = FALSE
    /\ blocks = {} /\ pending = {} /\ requested = {}
    /\ stats = [total |-> 0, received |-> 0, failed |-> 0]
    /\ call = [t \in Thread |-> NoCall]
    /\ waiter = "none"
    /\ adds = [c \in Cid |-> 0] /\ marks = [c \in Cid |-> 0]
    /\ repeats = 0 /\ late = FALSE

Begin(t, op, pc, cids) ==
    /\ op \in Calls /\ Idle(t)
    /\ call' = [call EXCEPT ![t] = [op |-> op, pc |-> pc, cid |-> cids]]
At(t, op, pc) == call[t].op = op /\ call[t].pc = pc
GoTo(t, pc) == call' = [call EXCEPT ![t].pc = pc]
Return(t) == call' = [call EXCEPT ![t] = NoCall]

\* Mutant: mark_received keeps the statistics too.
HoldsStatsBoth(t) ==
    call[t].op \in {"failed", "received"} /\ call[t].pc \in {"transition", "send", "event"}

HoldsStats(t) == call[t].op = "failed" /\ call[t].pc \in {"transition", "send", "event"}
StatsFree == ~\E t \in Thread : HoldsStats(t)

Marking(op, c) == \E t \in Thread : call[t].op = op /\ call[t].cid = {c}

-----------------------------------------------------------------------------
(* SessionStats *)

\* Mutant: one block short of the end is the end.
is_completeEarly(s) == s.received + s.failed + 1 >= s.total

is_complete(s) == s.received + s.failed >= s.total

-----------------------------------------------------------------------------
(* add_block: the check of the state, the entry, the count *)

add_block(t, c) ==
    /\ state = "Active"
    /\ adds[c] < MaxAdds
    /\ Begin(t, "add", "insert", {c})
    /\ adds' = [adds EXCEPT ![c] = @ + 1]
    /\ UNCHANGED <<state, watch, unseen, blocks, pending, stats, waiter, marks, requested, repeats, late>>

add_block_insert(t, c) ==
    /\ call[t].pc = "insert" /\ call[t].cid = {c}
    /\ ~Marking("received", c) /\ ~Marking("failed", c)
    /\ blocks' = blocks \cup {c}
    /\ pending' = pending \cup {c}
    /\ GoTo(t, "count")
    /\ UNCHANGED <<state, watch, unseen, stats, waiter, adds, marks, requested, repeats, late>>

add_block_count(t, c) ==
    /\ call[t].pc = "count" /\ call[t].cid = {c}
    /\ StatsFree
    /\ stats' = [stats EXCEPT !.total = @ + 1]
    /\ requested' = requested \cup {c}
    /\ Return(t)
    /\ UNCHANGED <<state, watch, unseen, blocks, pending, waiter, adds, marks, repeats, late>>

-----------------------------------------------------------------------------
(* mark_received and mark_failed, for a block whose add_block has returned *)

MarkOnce(c) ==
    /\ c \in requested
    /\ marks[c] < MaxMarks
    /\ marks' = [marks EXCEPT ![c] = @ + 1]
    /\ repeats' = IF marks[c] > 0 THEN repeats + 1 ELSE repeats

mark_received(t, c) ==
    /\ MarkOnce(c)
    /\ ~Marking("received", c) /\ ~Marking("failed", c)
    /\ Begin(t, "received", "stats", {c})
    /\ pending' = pending \ {c}
    /\ UNCHANGED <<state, watch, unseen, blocks, stats, waiter, adds, requested, late>>

\* The session is complete: on to the transition, else to the events.
mark_received_stats(t) ==
    /\ At(t, "received", "stats") /\ StatsFree
    /\ stats' = [stats EXCEPT !.received = @ + 1]
    /\ GoTo(t, IF is_complete(stats') /\ state = "Active" THEN "transition" ELSE "event")
    /\ UNCHANGED <<state, watch, unseen, blocks, pending, waiter, adds, marks, requested, repeats, late>>

mark_failed(t, c) ==
    /\ MarkOnce(c)
    /\ ~Marking("received", c)
    /\ Begin(t, "failed", "stats", {c})
    /\ UNCHANGED <<state, watch, unseen, blocks, pending, stats, waiter, adds, requested, late>>

\* The session is complete: on to the transition with the lock held.
mark_failed_stats(t) ==
    /\ At(t, "failed", "stats") /\ StatsFree
    /\ stats' = [stats EXCEPT !.failed = @ + 1]
    /\ IF is_complete(stats') /\ state = "Active" THEN GoTo(t, "transition") ELSE Return(t)
    /\ UNCHANGED <<state, watch, unseen, blocks, pending, waiter, adds, marks, requested, repeats, late>>

-----------------------------------------------------------------------------
(* pause, resume and cancel look at nothing before they transition *)

control(t, op) ==
    /\ op \in {"pause", "resume", "cancel"}
    /\ Begin(t, op, "transition", {})
    /\ UNCHANGED <<state, watch, unseen, blocks, pending, stats, waiter, adds, marks, requested, repeats, late>>

-----------------------------------------------------------------------------
(* transition_state *)

NewState(op) ==
    CASE op = "pause" -> "Paused"
      [] op = "resume" -> "Active"
      [] op = "cancel" -> "Cancelled"
      [] OTHER -> "Completed"

transition_state(t) ==
    /\ call[t].pc = "transition"
    /\ state' = NewState(call[t].op)
    /\ GoTo(t, "send")
    /\ UNCHANGED <<watch, unseen, blocks, pending, stats, waiter, adds, marks, requested, repeats, late>>

\* Mutant: a cancellation is not announced.
sendCompleted(t) ==
    /\ call[t].pc = "send"
    /\ IF call[t].op = "cancel" THEN UNCHANGED <<watch, unseen, late>>
       ELSE watch' = NewState(call[t].op) /\ unseen' = TRUE /\ late' = (state \in Terminal /\ watch' \notin Terminal)
    /\ IF NewState(call[t].op) = "Completed" THEN GoTo(t, "event") ELSE Return(t)
    /\ UNCHANGED <<state, blocks, pending, stats, waiter, adds, marks, requested, repeats>>

send(t) ==
    /\ call[t].pc = "send"
    /\ watch' = NewState(call[t].op)
    /\ unseen' = TRUE
    /\ late' = (state \in Terminal /\ watch' \notin Terminal)
    /\ IF NewState(call[t].op) = "Completed" THEN GoTo(t, "event") ELSE Return(t)
    /\ UNCHANGED <<state, blocks, pending, stats, waiter, adds, marks, requested, repeats>>

\* The events Completed and Progress carry a copy of the statistics.
event(t) ==
    /\ call[t].pc = "event" /\ StatsFree
    /\ Return(t)
    /\ UNCHANGED <<state, watch, unseen, blocks, pending, stats, waiter, adds, marks, requested, repeats, late>>

-----------------------------------------------------------------------------
(* wait_completion.  Its receiver is a clone of one that never looks, so a *)
(* send made before the call is news to it.                                *)

wait_completion ==
    /\ waiter = "none"
    /\ state \in Terminal => StatsFree
    /\ waiter' = IF state \in Terminal THEN "returned" ELSE "waiting"
    /\ UNCHANGED <<state, watch, unseen, blocks, pending, stats, call, adds, marks, requested, repeats, late>>

changed ==
    /\ waiter = "waiting" /\ unseen
    /\ watch \in Terminal => StatsFree
    /\ unseen' = FALSE
    /\ waiter' = IF watch \in Terminal THEN "returned" ELSE "waiting"
    /\ UNCHANGED <<state, watch, blocks, pending, stats, call, adds, marks, requested, repeats, late>>

Continue(t) ==
    \/ \E c \in Cid : add_block_insert(t, c) \/ add_block_count(t, c)
    \/ mark_received_stats(t)
    \/ mark_failed_stats(t)
    \/ transition_state(t)
    \/ send(t)
    \/ event(t)

Next ==
    \/ \E t \in Thread, c \in Cid : add_block(t, c) \/ mark_received(t, c) \/ mark_failed(t, c)
    \/ \E t \in Thread, op \in Calls : control(t, op)
    \/ \E t \in Thread : Continue(t)
    \/ wait_completion \/ changed

Spec == Init /\ [][Next]_vars

\* Threads are scheduled, and a lock that is free again and again is taken.
\* The application owes no call.
FairSpec == Spec /\ (\A t \in Thread : SF_vars(Continue(t))) /\ SF_vars(changed)

-----------------------------------------------------------------------------
(* Properties *)

\* A mark decides that the session is complete, and which blocks are not marked.
Decides(t) == call[t].pc = "stats" /\ call'[t].pc = "transition"
Unmarked == {c \in requested : marks[c] = 0}

\* When a mark decides that the session is complete, no more blocks whose
\* add_block had returned are missing than marks were repeated: a block that
\* arrives twice is counted twice, and nothing else makes the counters of
\* mark_received and mark_failed run ahead of the requests, whoever adds, marks,
\* pauses or resumes at the same time.  (session.rs:302 and 361, the counters that
\* is_complete compares)
CompletionCoversAdds == [][\A t \in Thread : Decides(t) => Cardinality(Unmarked) <= repeats]_vars

\* Every block has been marked by then ("All Blocks Received").
CompletionCoversAll == [][\A t \in Thread : Decides(t) => Unmarked = {}]_vars

\* The mark that accounts for the last block of an active session notices that it
\* is the last, whoever else adds, marks, pauses or cancels: nothing else would
\* ever complete the session.  (mark_received and mark_failed, the check under the
\* statistics lock)
LastMarkCompletes ==
    [][\A t \in Thread :
          (/\ call[t].pc = "stats" /\ call'[t].pc # "stats" /\ state = "Active"
           /\ \A u \in Thread \ {t} : call[u].pc # "stats"
           /\ \A c \in blocks : marks[c] > 0)
              => call'[t].pc = "transition"]_vars

\* An active session at rest has a block to wait for: the last arrival always
\* notices that it was the last (the check under the statistics lock).
CompletesWhenReceived ==
    AllIdle /\ blocks # {} /\ pending = {} => state # "Active"

\* A completed session at rest has every block it accepted.
CompletedMeansMarked ==
    AllIdle /\ state = "Completed" => \A c \in blocks : marks[c] > 0

\* Nobody waits for a lock except behind a mark_failed that completes the
\* session: it holds the statistics and waits to read them.
OnlyLastFailureBlocks ==
    LET busy == {t \in Thread : ~Idle(t)}
        waitsForStats(t) == call[t].pc \in {"count", "stats", "event"} /\ ~StatsFree
        waitsForEntry(t) ==
            /\ call[t].pc = "insert"
            /\ \E c \in call[t].cid : Marking("received", c) \/ Marking("failed", c)
    IN  (busy # {} /\ \A t \in busy : waitsForStats(t) \/ waitsForEntry(t))
            => \E t \in busy : At(t, "failed", "event")

\* Every call returns ("Transition state outside the stats lock to avoid
\* deadlock").
CallsReturn == \A t \in Thread : ~Idle(t) ~> Idle(t)

\* A mark_failed that has completed the session and waits for itself.
LastFailure == \E t \in Thread : At(t, "failed", "event")

\* wait_completion returns when the session has ended for good, unless its last
\* block has failed, or the last announcement on the channel is that of a pause or
\* a resume that was overtaken by the end between its two writes: there is no
\* other way to sleep through it.  (transition_state, session.rs:448-449, which
\* writes the state and the channel in two steps; wait_completion, which looks at both)
WaiterWakesOrFail ==
    <>[](state \in Terminal /\ ~late /\ ~LastFailure) => []<>(waiter # "waiting")

\* A session that has ended stays ended: no pause, resume or late completion
\* reopens it ("Should not be able to add blocks to cancelled session").
EndedIsFinal == [][(state \in Terminal) => (state' \in Terminal)]_vars

\* wait_completion returns when the session has ended for good.
WaiterWakes == <>[](state \in Terminal) => []<>(waiter # "waiting")
=============================================================================
