---------------------------- MODULE RequestCoalescer ----------------------------
(***************************************************************************)
(* Requests for one block that share one fetch:                            *)
(* crates/ipfrs-transport/src/request_coalescing.rs, RequestCoalescer.     *)
(*                                                                         *)
(* Tasks run on the worker threads of an asynchronous runtime.  A task     *)
(* that awaits leaves its worker; a task that needs the shard of the map   *)
(* while another holds its guard keeps its worker and blocks it.  The      *)
(* statistics are behind a fair asynchronous lock, which register_request  *)
(* awaits with the guard of the entry alive.  A channel is named after the *)
(* task that made it.  Each task makes one request and, when told to,      *)
(* fetches the block and reports the outcome.  The values of the           *)
(* statistics and of the time are left out: an entry may expire any time.  *)
(***************************************************************************)
EXTENDS Naturals, Sequences, FiniteSets

CONSTANTS Tasks,
          Cleaner,                  \* the task that calls cleanup_expired
          Workers,                  \* number of worker threads
          max_waiters_per_request,
          enable_stats,
          Outcomes,                 \* how fetches may end
          None

ASSUME CoalescerAssumption ==
    /\ IsFiniteSet(Tasks) /\ Cleaner \notin Tasks /\ None \notin Tasks \cup {Cleaner}
    /\ Workers \in Nat \ {0} /\ max_waiters_per_request \in Nat
    /\ enable_stats \in BOOLEAN
    /\ Outcomes \subseteq {"complete", "fail", "cancel"}

VARIABLES pending,  \* the entry of the block: its channel and its waiters
          guard,    \* who holds a guard of the shard across an await
          stats,    \* the queue of the lock of the statistics, its holder first
          busy,     \* the tasks that have a worker
          pc,       \* [Tasks -> where the task is]
          rx,       \* [Tasks -> the channel the task listens on]
          answer,   \* [Tasks -> what was sent on the channel the task made, and by whom]
          outcome,  \* [Tasks -> how its fetch ended]
          forced,   \* history: tasks told to fetch because of too many waiters
          raced     \* history: two first requests have overlapped

coalescerVars == <<pending, guard, stats, busy, pc, rx, answer, outcome, forced, raced>>

NoEntry == [tx |-> None, waiter_count |-> 0]
Open == [value |-> "open", by |-> None]
Closed == [value |-> "closed", by |-> None]

\* Points at which a task needs a lock; the others are outside the coalescer.
StatsPoints == {"total", "coalesced", "unique", "average"}
ShardPoints == {"lookup", "insert", "remove", "report"}
Points == StatsPoints \cup ShardPoints \cup {"start", "fetching", "waiting", "done"}

TypeOK ==
    /\ pending \in [tx : Tasks \cup {None}, waiter_count : 0 .. Cardinality(Tasks)]
    /\ pending.tx = None <=> pending.waiter_count = 0
    /\ guard \in Tasks \cup {None}
    /\ stats \in Seq(Tasks) /\ Len(stats) <= Cardinality(Tasks)
    /\ busy \subseteq Tasks \cup {Cleaner} /\ Cardinality(busy) <= Workers
    /\ pc \in [Tasks -> Points]
    /\ rx \in [Tasks -> Tasks \cup {None}]
    /\ answer \in [Tasks -> [value : {"open", "ok", "err", "closed"}, by : Tasks \cup {Cleaner, None}]]
    /\ outcome \in [Tasks -> Outcomes \cup {"none"}]
    /\ forced \subseteq Tasks /\ raced \in BOOLEAN

CoalescerInit ==
    /\ pending = NoEntry /\ guard = None /\ stats = <<>> /\ busy = {}
    /\ pc = [t \in Tasks |-> "start"]
    /\ rx = [t \in Tasks |-> None]
    /\ answer = [t \in Tasks |-> Open]
    /\ outcome = [t \in Tasks |-> "none"]
    /\ forced = {} /\ raced = FALSE

-----------------------------------------------------------------------------

InQueue(t) == \E i \in DOMAIN stats : stats[i] = t

\* A task can run unless it waits for its turn at the statistics, for an answer
\* or for the network.
Runnable(t) ==
    \/ pc[t] \in ShardPoints \cup {"start"}
    \/ pc[t] \in StatsPoints /\ (InQueue(t) => Head(stats) = t)

\* The runtime gives a free worker to a task that can run.
poll(t) ==
    /\ t \notin busy /\ Cardinality(busy) < Workers
    /\ IF t = Cleaner THEN TRUE ELSE Runnable(t)
    /\ busy' = busy \cup {t}
    /\ UNCHANGED <<pending, guard, stats, pc, rx, answer, outcome, forced, raced>>

\* The task goes on to a point; it leaves its worker if it has to wait there.
GoTo(t, point) ==
    /\ pc' = [pc EXCEPT ![t] = point]
    /\ busy' = IF point \in {"fetching", "waiting", "done"} THEN busy \ {t} ELSE busy

\* Points at statistics that are not kept are passed over.
Count(point, next) == IF enable_stats THEN point ELSE next

start(t) ==
    /\ t \in busy /\ pc[t] = "start"
    /\ GoTo(t, Count("total", "lookup"))
    /\ UNCHANGED <<pending, guard, stats, rx, answer, outcome, forced, raced>>

\* stats.write().await: the task takes its place and leaves its worker if it is
\* not the first.
stats_write(t) ==
    /\ t \in busy /\ pc[t] \in StatsPoints /\ ~InQueue(t)
    /\ stats' = Append(stats, t)
    /\ busy' = IF stats = <<>> THEN busy ELSE busy \ {t}
    /\ UNCHANGED <<pending, guard, pc, rx, answer, outcome, forced, raced>>

\* What follows a point at the statistics; after the join the guard is dropped,
\* and a request with too many waiters is removed.
TooMany == pending.waiter_count >= max_waiters_per_request
AfterJoin == IF TooMany THEN "remove" ELSE "waiting"
Following(point) ==
    CASE point = "total"     -> "lookup"
      [] point = "coalesced" -> AfterJoin
      [] point = "unique"    -> "fetching"
      [] point = "average"   -> "done"

\* Mutant: the guard is alive when the entry is removed.
DropGuardLate(t) == IF guard = t /\ ~TooMany THEN None ELSE guard

DropGuard(t) == IF guard = t THEN None ELSE guard

\* Mutant: the lock of the statistics is kept while the caller fetches.
stats_updateKeeps(t) ==
    /\ t \in busy /\ pc[t] \in StatsPoints /\ InQueue(t) /\ Head(stats) = t
    /\ stats' = IF pc[t] = "unique" THEN stats ELSE Tail(stats)
    /\ guard' = DropGuard(t)
    /\ GoTo(t, Following(pc[t]))
    /\ UNCHANGED <<pending, rx, answer, outcome, forced, raced>>

stats_update(t) ==
    /\ t \in busy /\ pc[t] \in StatsPoints /\ InQueue(t) /\ Head(stats) = t
    /\ stats' = Tail(stats)
    /\ guard' = DropGuard(t)
    /\ GoTo(t, Following(pc[t]))
    /\ UNCHANGED <<pending, rx, answer, outcome, forced, raced>>

-----------------------------------------------------------------------------

\* The worker goes on only if nobody holds the guard.
AtShard(t, point) == t \in busy /\ pc[t] = point /\ guard = None

\* The channel of an entry that is dropped is closed, unless it was answered.
Drop(entry) == [t \in Tasks |-> IF t = entry.tx /\ answer[t] = Open THEN Closed ELSE answer[t]]

\* get_mut finds an entry and joins it, or finds none.
lookup(t) ==
    /\ AtShard(t, "lookup")
    /\ IF pending = NoEntry
       THEN /\ GoTo(t, "insert")
            /\ raced' = (raced \/ \E u \in Tasks : pc[u] = "insert")
            /\ UNCHANGED <<pending, guard, rx>>
       ELSE /\ pending' = [pending EXCEPT !.waiter_count = @ + 1]
            /\ rx' = [rx EXCEPT ![t] = pending.tx]
            /\ guard' = IF enable_stats THEN t ELSE None
            /\ GoTo(t, Count("coalesced", IF pending'.waiter_count >= max_waiters_per_request THEN "remove" ELSE "waiting"))
            /\ UNCHANGED raced
    /\ UNCHANGED <<stats, answer, outcome, forced>>

\* A new entry, in the place of one that came meanwhile.
insert(t) ==
    /\ AtShard(t, "insert")
    /\ pending' = [tx |-> t, waiter_count |-> 1]
    /\ answer' = Drop(pending)
    /\ GoTo(t, Count("unique", "fetching"))
    /\ UNCHANGED <<guard, stats, rx, outcome, forced, raced>>

\* Too many waiters: whatever entry there is goes, and the task fetches.
remove(t) ==
    /\ AtShard(t, "remove")
    /\ pending' = NoEntry
    /\ answer' = Drop(pending)
    /\ rx' = [rx EXCEPT ![t] = None]
    /\ forced' = forced \cup {t}
    /\ GoTo(t, "fetching")
    /\ UNCHANGED <<guard, stats, outcome, raced>>

\* The network answers, or does not, and the caller reports it.
fetched(t, result) ==
    /\ pc[t] = "fetching" /\ result \in Outcomes
    /\ outcome' = [outcome EXCEPT ![t] = result]
    /\ pc' = [pc EXCEPT ![t] = "report"]
    /\ UNCHANGED <<pending, guard, stats, busy, rx, answer, forced, raced>>

\* Mutant: fail_request only removes.
MessageOfSuccess(t) == IF outcome[t] = "complete" THEN [value |-> "ok", by |-> t] ELSE Closed

\* What is sent on the channel of the entry: by complete_request and
\* fail_request, not by cancel_request.
Message(t) ==
    CASE outcome[t] = "complete" -> [value |-> "ok", by |-> t]
      [] outcome[t] = "fail"     -> [value |-> "err", by |-> t]
      [] outcome[t] = "cancel"   -> Closed

Send(message) == [t \in Tasks |-> IF t = pending.tx THEN message ELSE answer[t]]

\* complete_request, fail_request and cancel_request.
report(t) ==
    /\ AtShard(t, "report")
    /\ pending' = NoEntry
    /\ answer' = Send(Message(t))
    /\ GoTo(t, IF outcome[t] = "complete" /\ pending.waiter_count > 1 THEN Count("average", "done") ELSE "done")
    /\ UNCHANGED <<guard, stats, rx, outcome, forced, raced>>

\* recv: the answer has come or the channel is closed.
recv(t) ==
    /\ pc[t] = "waiting" /\ answer[rx[t]] # Open
    /\ GoTo(t, "done")
    /\ UNCHANGED <<pending, guard, stats, rx, answer, outcome, forced, raced>>

\* retain: the entry is expired or not.
cleanup_expired ==
    /\ Cleaner \in busy /\ guard = None
    /\ \E expired \in {pending # NoEntry, FALSE} :
         /\ pending' = IF expired THEN NoEntry ELSE pending
         /\ answer' = IF expired THEN Send([value |-> "err", by |-> Cleaner]) ELSE answer
    /\ busy' = busy \ {Cleaner}
    /\ UNCHANGED <<guard, stats, pc, rx, outcome, forced, raced>>

Step(t) ==
    start(t) \/ stats_write(t) \/ stats_update(t) \/ lookup(t) \/ insert(t) \/ remove(t) \/ report(t) \/ recv(t)

CoalescerNext ==
    \/ \E t \in Tasks : poll(t) \/ Step(t) \/ \E result \in Outcomes : fetched(t, result)
    \/ poll(Cleaner) \/ cleanup_expired

CoalescerSpec == CoalescerInit /\ [][CoalescerNext]_coalescerVars

\* Workers run what they are given, the runtime is fair, every fetch ends.
FairCoalescerSpec ==
    /\ CoalescerSpec
    /\ \A t \in Tasks : WF_coalescerVars(Step(t)) /\ SF_coalescerVars(poll(t)) /\ WF_coalescerVars(\E result \in Outcomes : fetched(t, result))
    /\ WF_coalescerVars(cleanup_expired)

-----------------------------------------------------------------------------

\* A task that waits for an answer listens to the entry of the map, or to a
\* channel that has been answered or closed: nobody waits for a channel that
\* nobody can reach.  (request_coalescing.rs, the paths that drop an entry)
NobodyForgotten == \A t \in Tasks : pc[t] = "waiting" /\ answer[rx[t]] = Open => rx[t] = pending.tx

\* Every worker is blocked at the shard.
NeedsHeldShard(t) == IF t = Cleaner THEN guard # None ELSE pc[t] \in ShardPoints /\ guard # None
Standstill == Cardinality(busy) = Workers /\ \A t \in busy : NeedsHeldShard(t)

NoStandstill == ~Standstill

\* The workers stand still only behind a task that awaits the statistics with
\* the guard in its hand and has no worker to go on with.  (request_coalescing.rs,
\* register_request, lines 134 to 144; its drop(entry) before remove)
OnlySuspendedGuardBlocks == Standstill => guard \notin busy /\ pc[guard] = "coalesced"

\* An answer to a channel is that of the fetch it was made for, and no channel
\* is closed without one, unless an entry was taken away before its time: by an
\* overlapping first request, at the limit of waiters, by a cancellation or by
\* its expiry.  (request_coalescing.rs, complete_request and fail_request, which
\* take whatever entry they find)
Disturbed == raced \/ forced # {} \/ \E t \in Tasks : outcome[t] = "cancel" \/ answer[t].by = Cleaner
AnswersAreOwn == Disturbed \/ \A t \in Tasks : answer[t] = Open \/ answer[t].by = t

\* The answer of a fetch never reaches the waiters of another.
NoStrayAnswer == \A t \in Tasks : answer[t].by \in {None, Cleaner, t}

\* Every request ends, unless the workers come to a standstill.
\* (request_coalescing.rs, register_request with the three reports)
RequestsEnd == \A t \in Tasks : pc[t] # "start" ~> (pc[t] = "done" \/ Standstill)

=============================================================================
