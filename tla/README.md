# A TLA+ verification of ipfrs

ipfrs (`src/ipfrs_source/crates`) is a content-addressed storage node written
in Rust: blocks named by the hash of their content (CIDs), a store for them, an
exchange that fetches them from peers, and a facade, `Node`, that pins them and
collects the ones nobody wants.  This directory models the parts of it that
carry concurrent state, checks them with TLC on small instances and proves the
most important properties with TLAPS for every instance.

Paths below are relative to `src/ipfrs_source/crates/`.

## 1. The system and its components

| Component | State | Operations | Interacts with | What is hard |
|---|---|---|---|---|
| Want list, `ipfrs-transport/src/want_list.rs` | a map of wants, a heap that is never updated in place, a version counter | add, remove, update, boost, pop, cleanup, batches | the exchange pops it | stale heap nodes; priorities that depend on the time |
| Pin index, `ipfrs/src/pin.rs` | roots, indirect pins, dependencies of each root: three maps, three locks | pin, add_indirect, unpin, load, save, clear | node calls, both collectors | locks taken in different orders; two copies of the same fact |
| Node pin, collect and remove, `ipfrs/src/node/{pin_ops,repo_ops,block_ops,core}.rs`, `ipfrs/src/gc.rs` | the calls in progress; the index file; the snapshot registry | pin_add, pin_rm, pin_save, pin_load, repo_gc, gc_blocks, put_block, delete_block, block_rm, stop, start | pin index, store, orphan collector | every call awaits between its check and its use |
| Orphan collector, `ipfrs-storage/src/gc.rs` | counters | collect | called by gc_blocks | follows no links |
| Block cache, `ipfrs-storage/src/cache.rs` | an LRU tier over a store; or two LRU tiers | get, put, delete, batches, invalidate, clear | backing store | filled after an await; two mutexes |
| Session, `ipfrs-transport/src/session.rs` | state, counters, requests, watch channel: four cells | add_block, mark_received, mark_failed, pause, resume, cancel, wait_completion | application threads, event channel | a decision under one lock carried out under another |
| Storage collector and scheduler, `ipfrs-storage/src/gc.rs` | mark set, cancel flag, running flag | collect, cancel, schedule | reference-counted pins | cancel racing start |
| Tiered store, `ipfrs-storage/src/cache.rs` | two LRU tiers and a store | put, get, has, delete, close | tiered cache, backing store | the cache is filled before the store |
| Reference-counted pins, `ipfrs-storage/src/pinning.rs` | a count and a type per CID | pin, pin_recursive, unpin | storage collector | read, then write, of a count |
| Block exchange, `ipfrs-transport/src/{bitswap,peer_manager}.rs` | want list, pending requests, slots, failures and bans of the peers | want, cancel, request, receive, failure, cleanup | want list, network | independently locked parts, an unreliable network |
| Request coalescing, `ipfrs-transport/src/request_coalescing.rs` | pending fetches and their waiters | register, complete, fail, cancel, expire | exchange | check, then insert |
| Raft node, `ipfrs-storage/src/raft.rs` | term, vote, log, commit index | RequestVote, AppendEntries, election timer | peers outside the repository | lock released between steps |
| Write-ahead log, `ipfrs-storage/src/wal.rs` | entries, sequence, checkpoint | append, checkpoint, truncate, replay | none | concurrent checkpoints |
| Circuit breakers, `ipfrs-{storage,network}/src/circuit_breaker.rs` | a state, counters, a clock | call, success, failure | stores and peers | half-open probes |
| Versioned and replicated stores, `ipfrs-storage/src/{vcs,eventual_consistency,replication}.rs` | HEAD, branches, version vectors | commit, put_versioned, sync | store | HEAD read before an await, written after it |
| Network node, `ipfrs-network/src/node.rs` | the swarm task, two bounded channels, pending requests, provider waiters, connected peers | get, geo_fetch_block, activations, events, stop | node facade, libp2p | replies with one sender, a full channel, an answer that races a timeout |
| Backends, `ipfrs-storage/src/{blockstore,memory,traits}.rs` | the CIDs held | put, get, delete, list | all of the above | may fail |

The rest is listed in `PROJECT.json` with the reason it is left out: the
remaining modules of the storage and transport crates (single-owner data
structures, encodings, sockets), the rest of the libp2p layer, the vector indexes and tensor
logic (floating point), the knowledge graph, the core types (hashing, chunking)
and the gateways and bindings.

What makes each modelled part correct:

- want list: no want is ever lost, the capacity holds, wants are served in
  priority order although nodes go stale;
- pin index: its two copies of the indirect pins agree, its calls are atomic,
  its locks do not block each other for ever;
- node: a pinned root stays stored, a collection deletes nothing that stayed
  reachable, leaves nothing that was garbage and returns, a recursive pin covers
  its graph;
- cache: nothing is cached that the store does not hold;
- session: it completes exactly when every accepted block is accounted for, and
  whoever waits for that wakes;
- storage collector and counted pins: a count is the number of its holders, a
  run deletes nothing held since it began, a cancelled marking does not sweep,
  garbage goes in the end;
- tiered store: nothing is cached that the store does not hold, its calls return;
- request coalescing: nobody waits on a channel nobody can answer, every request
  ends with an answer to that request;
- exchange: no want is dropped before its block is stored, a peer's slots come
  back, a want that can be served is;
- Raft node: its log is the leaders' log, what it commits and applies the cluster
  has committed, it votes once in a term;
- network node: each reply has one sender that will use it, every call returns,
  a stopped task ends.

`PROJECT.json` lists the hazards behind these, each at its line of code.

## 2. The modules

```
PriorityQueue  <--refines--  WantList  <--EXTENDS--  MCWantList, WantListProofs
PinManager     <--refines--  PinLocks
PinManager     <--EXTENDS--  NodeRepo  <--EXTENDS--  MCNodeRepo, NodeRepoProofs
Lru            <--EXTENDS--  CachedBlockStore  <--EXTENDS--  MCCachedBlockStore
Lru            <--EXTENDS--  TieredCache
Session        <--EXTENDS--  SessionProofs
RefCountPins   <--EXTENDS--  StorageGc  <--EXTENDS--  MCStorageGc, StorageGcProofs
TieredCache    <--EXTENDS--  TieredStore
PeerManager    <--EXTENDS--  BitswapExchange  <--EXTENDS--  BitswapExchangeProofs
RaftNode       <--EXTENDS--  MCRaftNode
PinLocks, RequestCoalescer     <--EXTENDS--  LocksProofs
TieredStore, CachedBlockStore  <--EXTENDS--  CachesProofs
NetworkNode, RaftNode          <--EXTENDS--  NodesProofs
```

Names are those of the code.  An operator whose comment begins with "Mutant"
is a plausible slip in the definition that follows it; no specification uses it.
The last three proof modules extend two components each, which have nothing to do
with each other but the kind of argument; so that both can be extended, the
specifications of one of the two have names of their own (`CoalescerSpec`,
`CacheSpec`, `RaftSpec` and what belongs to them).

**WantList** (`want_list.rs`).  `entries` is the map of wants, `heap` the set of
heap nodes (live and stale), `version_counter` the counter that tells them
apart.  `ConcurrentWantList` takes one lock per call, so a call is a step: `add`,
`add_simple`, `add_batch`, `remove`, `remove_batch`, `update_priority`,
`update_priorities_batch`, `boost_deadline_priorities`, `popSome` and `popNone`
(the two ends of `pop`), `cleanup_expired`, `mark_attempted`, `clear`.  `Tick`
moves the clock; the code's 1 s and 5 s windows before a deadline are the
constants `UrgentWindow` and `HighWindow`.  `out` records what the last call
returned, for the refinement.

**PriorityQueue** is what the want list promises: a bounded map from CIDs to
ranks, whose `Pop` takes an element of highest rank.  It has no heap, no version
and no stale nodes.

**PinManager** (`pin.rs`): `pins`, `indirect_pins`, `recursive_deps`, one step
per call.  **PinLocks** is the same file with every lock acquisition a step; its
refinement mapping shows PinManager the maps without the updates of calls that
have not returned.

**NodeRepo** adds the node: `blocks` is the store, `file` the index on disk,
`snapshot_pins` the registry, and `padd`, `gc`, `rm`, `io` hold the local
variables of the calls in progress, one record per task.  A call is cut at each
`.await` and each lock of the pin index and nowhere else:

| Code | Steps |
|---|---|
| `pin_add`, `mark_recursive_pins` | `pin_add` (the block is there), `pin_add_pin`, then per block `mark_visit` and per link `mark_link`, `pin_add_done`; `pin_add_fails` |
| `repo_gc`, `GarbageCollector::collect` | `repo_gc` (roots listed), `mark_reachable` per block, `list_cids`, per CID `sweep_get` and `sweep_delete`, `collect_done`; `collect_fails` |
| `gc_blocks`, `collect_inner` | `gc_blocks`, then the same steps with nothing to mark |
| `block_rm` | `block_rm` (not pinned), `block_rm_delete` |
| `pin_save`, `pin_load` | `pin_save`, `save_truncate`, `save_write`; `pin_load`, `load_apply` |
| `pin_rm`, `put_block`, `delete_block` | one step each |
| `stop`, then `start` | `restart`: of the same `Node`, or of a new process |
| a process that dies | `crash`: every call ends where it is, the file stays as it is |

`acked`, `complete`, `held`, `roots`, `kept` and `exposed` are history: no guard reads
them.  A load inserts entry by entry and stops at a CID it cannot read, so
`load_apply` takes any part of what was saved.  The calls of the pin index are one
step each here; what their locks do to each other is the subject of PinLocks.

**Lru** is the `lru` crate as `cache.rs` uses it (external), with what both caches
have: the CIDs and the capacity of the cache that is asked first.
**CachedBlockStore** cuts `get_many`, `put_many` and `delete_many` at the awaits on
the backing store (`inner`), each of which may fail; `get`, `put` and `delete` are
batches of one, `l1_insert` is the second half of a get or put, and `put_inner` is a
write that goes to the store directly.  `contested` is history.  A call keeps the list it was given (`cids`) and which of it
it still handles (`among`: the misses, what L2 had, what fits); the loops over a
list, each under one lock of the cache, are `TouchAll`, `PopAll` and `PushAll`.
**TieredCache** has a step per mutex acquisition of
`TieredBlockCache`, and keeps a guard as long as `if let` does.

**Session** has a step per lock acquisition; `call` says where each thread is,
`watch` and `unseen` are the watch channel.  `adds` and `marks` bound how often
the application adds and marks a block; a mark is of a block whose `add_block`
has returned.  `repeats` (marks of a block that was marked before) and `late` (the
last announcement on the channel is one that the end of the session had overtaken)
are history.

**RefCountPins** (`pinning.rs`).  `pins` has a type and a count for each CID;
every operation on an entry of the concurrent map is a step, so `pin` is one,
`pin_recursive` one per block it reaches, and `unpin` two (it looks under one
lock and decrements under another).  The resolver may fail in the middle.
`holders` (who has pinned what) and `raced` are history.  **StorageGc** (`gc.rs`)
adds `store`, the `cancelled` flag, the scheduler's `running` flag and the runs in
progress: `collect`, `list_pins`, `mark_phase`, the check before the sweep,
`sweep_phase` block by block, `delete_batch`, and `put`, `cancel` and `reset_cancel`
from outside.  Whoever has the collector may call `collect` beside the scheduler; a
run may be `dropped` at an await, its future cancelled or its resolver or store
panicking, and then nobody clears `running`.  `config` is the configuration together
with the program around it: who calls `collect`, and what is pinned.  `since` and
`revived` (runs cut short whose cancellation was taken back) are history.

**TieredStore** is `TieredCachedBlockStore`: a call is the steps TieredCache has
for the cache's part, then the awaited call of the store, which may fail.
`overlapped` and `refused` are history.

**RequestCoalescer** (`request_coalescing.rs`) has the one entry of a block, the
shard's `guard`, the fair queue of the statistics' lock (`stats`) and the tasks
that occupy a worker thread (`busy`).  `register_request` awaits the statistics
with the guard alive; whoever needs the shard meanwhile blocks its worker.

**PeerManager** (`peer_manager.rs`) has per peer its active requests, failures in
a row and what it is known to have or not to have, and the `blacklist`; one lock,
so a call is a step.  **BitswapExchange** (`bitswap.rs`) adds the want list (as a
set: its order is WantList's subject), `pending`, the store and the calls of the
user threads and of the threads that pass on answers, a step per lock.  `owed`
is the network: an answer comes early, late, twice, wrong or never.  `asked` and
`leaky` are history.

**RaftNode** (`raft.rs`).  A handler holds the lock of the term from its first
line to its last and is one step; the election timer takes four.  Nothing in the
code sends a request or becomes leader, so the rest of the cluster is external: a
history of honest leaders chosen at the start (`Honest` says what Raft guarantees
of it), whose requests arrive in any order, repeatedly or not at all, with as many
or as few entries as the leader likes and any commit index it has known.  A crash of
the node is `restart`: the node keeps nothing, the store keeps what it was given.
`applied` (what each start has given to the store), `grants` and `leftovers` (the
starts in which the commit index went over an entry after the end of a request that
its leader does not have) are history.

**NetworkNode** (`node.rs`, with `get` of `ipfrs/src/node/block_ops.rs`).  `loop`
is the task that owns the swarm: running, waiting for the callback that serves a
peer's request, blocked in the send of an event, or ended.  `cmds` and `events`
are the bounded channels, `pending` and `waiters`
hold the senders of the replies, `op` the calls of the owner and of the users of
activation handles, each of which may be dropped at its await.  The waiters for
providers are listed under a string made of the CID's bytes with
`String::from_utf8_lossy`; CIDs that become one string (`Alike`) share an entry.
`conns`, `sent`
and `queries` are libp2p, external.

## 3. The runs

`cd` here and run `tlc -workers 4 -config <cfg> <module>`; each run of the first
table takes at most a few minutes.

| Run | Instance (distinct states) | What it shows |
|---|---|---|
| `wantlist` (`MCWantList.cfg`) | 3 CIDs, capacity 2, symmetric (158 k) | `EveryWantIsPoppable`: each want has exactly one node that pop accepts.  `LiveNodeMatchesEntry`: that node's priority lies between the stored one and what the deadline justifies.  `PopNeverInverts`, and `ImplementsPriorityQueue`: the lazy heap is a priority queue that keeps its capacity. |
| `noderepo_gc` (`MCNodeRepoGc.cfg`) | a block and its child, direct pins, one task each to pin, collect and remove, limits 0 and 1, both collectors, a restart or crash, fair (515 k) | `PinnedIsStored`: a pinned root leaves the store only by a deletion that was past its look at the pins when it was pinned, or by `delete_block`.  `SweepSparesStableDag`: the marks are old when the sweep uses them, and still sound for whatever stayed reachable.  `GarbageIsSwept`: a full collection leaves nothing that was garbage from its beginning.  `CollectionsEnd`: marks and sweeps end although blocks appear and vanish under them. |
| `noderepo_walks` (`MCNodeRepoWalks.cfg`) | 2 CIDs, two pin_adds at once, saves and loads (4.5 M) | `IndirectAccounted`: `indirect_pins` is the union of `recursive_deps`.  `CompletePinsCover`: an undisturbed recursive pin covers its graph when two walks build it and the index is written and read back under them. |
| `pinlocks` (`PinLocks.cfg`) | 3 threads, 2 CIDs | `ImplementsPinManager`: the calls are atomic.  `OnlyInversionBlocks`: exactly one pair of calls can block each other. |
| `cache` (`MCCachedBlockStore.cfg`) | 4 CIDs, one too large to cache, capacity 2, 2 tasks, symmetric (441 k) | `GhostsNeedOverlap`: a cached block that no store holds has one possible cause, a delete that overlaps a get or put of that block; failures, evictions and batches never make one. |
| `tiered_store` (`TieredStore.cfg`) | 2 threads, 2 CIDs, tiers of 1, failing store, fair (236 k) | `GhostsNeedCause`: a block only the cache has needs a refused put or an overlapping delete.  `CallsReturnOrInvert`: only a promotion against a cascade keeps a call from returning. |
| `session` (`Session.cfg`) | 2 threads, 2 blocks, every call, each block marked up to twice, fair (300 k) | `CompletionCoversAdds`: when completion is decided, no more accepted blocks are unmarked than marks were repeated.  `OnlyLastFailureBlocks`: only a failing last block blocks the threads.  `WaiterWakesOrFail`: only that, or an announcement of a pause or resume that comes after the end, keeps a waiter asleep in a session that has ended. |
| `storage_gc` (`StorageGc.cfg`) | a root and its child, three programs (below), fair (413 k) | `CountsMatchHolders` and `ZombiesNeedOverlap`: a count is the number of its holders, unless two unpins overlapped.  `NothingHeldIsDoomed`: what was held since before the run is not deleted.  `CutShortNeverSweeps`: a marking that was cancelled is swept from only if somebody reset the flag under it, by `reset_cancel` or by a second `collect`.  `GarbageIsCollected`: failures, limits and cancels do not wedge the scheduler, only a dropped run does, and what stays unreachable goes. |
| `coalescing` (`RequestCoalescer.cfg`) | 3 requests, a cleaner, 2 workers, fair (224 k) | `AnswersAreOwn`: an answer is of the fetch waited for, unless its entry was taken away before its time.  `OnlySuspendedGuardBlocks`: workers stand still only behind one suspended guard.  `RequestsEnd`: short of that, every request ends. |
| `exchange` (`BitswapExchange.cfg`) | 1 block, 1 peer, 2 users, 1 receiver, fair (355 k) | `WantsStay`: no want is dropped before its block is stored.  `SlotsAreOwed`: a slot is held for an answer still owed, except after three named endings.  `LimitNearlyHolds`: the limit of a peer is overrun by fewer requests than there are users.  `WantsServed`: a want whose peers are free, and stay so, is served. |
| `raft` (`RaftNode.cfg`) | 2 terms, logs of up to 2 entries, every honest history, requests of any length and commit index, 1 restart, fair (831 k) | `LogMatching`: entries of equal index and term have equal prefixes in the log and the leaders'.  `CommittedUnlessLeftover`, `AppliedUnlessLeftover`: what is committed here, and what any start has given to the store, the cluster committed, unless the commit index went over a leftover.  `OneGrantPerTerm`: in one start.  `AppliedWhenQuiet`: when requests pause, all that is committed is applied. |
| `network` (`NetworkNode.cfg`) | 2 peers, 1 block, an owner and a user of a handle, channels of 1, fair (122 k) | `NobodyForgotten`, `PendingIsOwed`: a caller that waits has one live sender, and an entry has an answer coming.  `BlocksAreOwn`: bytes of another CID are never returned.  `RequestsSettle`: while somebody reads the events, every request is settled.  `StopEnds`: a stopped task ends. |

`SessionThreads.cfg` (Session) has three threads (4.8 M).  It checks the type invariant,
`OnlyLastFailureBlocks`, `CompletionCoversAdds`, and `LastMarkCompletes`: the mark of
the last block of an active session completes it.  It has no fairness and says
nothing of the waiter.

**Bounds.**  Three CIDs are the fewest for two wants that compete with a third for
a list of two; the runs of the node have a root and its child, and what a larger
graph could show, a shared descendant for one, is proved for every graph.  `MaxVersion = 3`
lets a CID be added, changed and changed again (or removed and added again), so a
node can be stale in both ways; `MaxTime` and the windows put a want inside and
outside each of them.  In the node one task of each kind suffices for a race
between two kinds; two pin_adds are needed for two walks of one root.  A limit of
1 stops a sweep that has more to do.  One restart separates "before" from
"after".  A cache of two is exceeded by three small blocks and overrun by a batch
of two.  In PinLocks three threads leave one to run into a standstill of the other
two.  In the session two threads are enough for a call between any two steps of
another, and two marks of a block for a repeated delivery.
Counters that the code lets grow (`version_counter`, the clock, attempts,
restarts, adds, marks) have a named bound in their guards; the collected count is
kept only where a limit reads it.

In StorageGc two users with one pin each (`MaxHolds`) are enough for a shared
child and for two unpins of one entry; a limit and a batch of one are exceeded by
the second block.  The run is of three programs: the scheduler's collector beside a
recursive pin of the root and a direct one of the child; the scheduler's and one of
the application's at once beside a direct pin, which is what it takes to reset the
flag of a run; and a dry run with a time limit beside a recursive and a direct pin of
one root.  In
`StorageGcDiffers.cfg` both collectors serve both.  `MaxFaults = 1` lets any one call
of the resolver or the store fail, or one run be dropped.  In the coalescer a
standstill takes a suspended guard and one task per
worker: three requests and the cleaner on two workers.  In the exchange
`max_concurrent = 2` and `max_failures = 2` are reached and passed by two users
and two answers (`MaxOwed`).  Two terms and two entries are the fewest in which a
leader overwrites what an earlier one left.  In the network node channels of one
place (`CmdCap`, `EventCap`) are full at once, and two ids are one request per
caller; one connection (`MaxConn`) comes and goes between two peers, and two, which
tell a closed one from the last one, are in `NetworkNodeDiffers.cfg`.  Two CIDs of one
string take a larger instance: with `Cid = {a, b}`, `Alike = {{a, b}}` and two
connections the invariants of the run hold without fairness too (1.5 M states), and
they are proved for every `Alike`.

**Deadlock.**  It is checked in `cache`, `storage_gc` and `exchange`.  The want list and
the Raft node end at their bounds, a stopped network node rests, in NodeRepo
and the session nobody has to make a call, and in the locking modules the
threads may block, which is what `OnlyInversionBlocks`, `OnlyLastFailureBlocks`
and `OnlySuspendedGuardBlocks` are about.  Those configurations say
`CHECK_DEADLOCK FALSE`.

**Fairness.**  In NodeRepo a task that has begun a call is polled until it
returns: weak fairness of each task's own steps, which is what the tokio runtime
gives a future that is always ready.  Nobody has to begin a call, no call has to
fail, and nothing is assumed of puts, deletes or time.  In Session, PinLocks,
TieredCache and TieredStore a step also needs a lock, so fairness is strong, per
thread: a lock that is free again and again is taken in the end (parking_lot's locks are
eventually fair, and the shards of DashMap are contended only briefly).  A thread
that waits for a lock nobody releases is not helped by it, so fairness hides no
deadlock.

In StorageGc the calls of the users and the steps of a run go on, nobody has to drop
one, and the application calls the scheduler again and again (`maybe_run` is made for a loop).
In the coalescer a task that has a worker goes on, a task that is ready gets a
worker in the end (strong fairness of `poll`: workers are free now and then, and
tokio's queues are fair), and a fetch ends somehow.  In RaftNode only the ticking
of the application loop is assumed; `AppliedWhenQuiet` speaks of behaviours in
which the requests pause.  In NetworkNode the timers of the callers run down, the
task's `select!` does not pass over a ready branch for ever (it picks at random
among the ready ones; strong fairness), a callback returns (the Node's reads a block
from its store), and libp2p settles each request, which it does by its own time
limit.  In the exchange calls go on, and the user, which is
outside the repository, requests a block that stays wanted and passes on the
answers that come: without that nothing the exchange does serves a want.

## 4. The proofs

`tlapm <module>`; the theorems hold for every value of the constants that the
named assumptions of the modules admit (types, finite sets where cardinalities
are taken, tasks of two kinds being different tasks, one term at least).  Where a
theorem assumes more, it assumes the absence of a behaviour that section 6 shows
to break the property or what it rests on: the assumption is listed with the theorem, and the run of
the property is of an instance that satisfies it.

| Module | Theorem | Property | Assumes |
|---|---|---|---|
| WantListProofs | `TypeCorrect`, `NoWantIsLost`, `NodesMatchEntries`, `ServiceOrder`, `CapacityHolds` | `TypeOK`, `EveryWantIsPoppable`, `LiveNodeMatchesEntry`, `PopNeverInverts`, `CapacityRespected` | |
| | `HeapIsPriorityQueue` | `ImplementsPriorityQueue` (refinement) | |
| NodeRepoProofs | `TypeCorrect`, `PinnedRootsStay`, `StableDagSpared`, `NoFloatingGarbage`, `IndirectPinsAccounted`, `PinsAccounted` | `TypeOK`, `PinnedIsStored`, `SweepSparesStableDag`, `GarbageIsSwept`, `IndirectAccounted` (of the node and of the index alone) | |
| | `PinsCover` | `CompletePinsCover` | `MaxRestarts = 0 \/ Saver = {}`: no restart, or no load |
| LocksProofs | `CallsAreAtomic` | `ImplementsPinManager` (refinement) | |
| | `OneWayToBlock` | `OnlyInversionBlocks` | |
| | `AnswersStayOwn`, `NobodyIsForgotten`, `SuspendedGuard` | `AnswersAreOwn`, `NobodyForgotten`, `OnlySuspendedGuardBlocks` of RequestCoalescer | |
| CachesProofs | `TieredGhosts` | `GhostsNeedCause` of TieredStore | |
| | `CacheGhosts` | `GhostsNeedOverlap` of CachedBlockStore | |
| SessionProofs | `TypeCorrect`, `StandstillNeedsLastFailure` | `TypeOK`, `OnlyLastFailureBlocks` | |
| | `CompletionCovers` | `CompletionCoversAdds` | |
| StorageGcProofs | `TypeCorrect`, `CountsMatch`, `ZombiesOverlap`, `HeldIsKept` | `TypeOK`, `CountsMatchHolders`, `ZombiesNeedOverlap`, `NothingHeldIsDoomed` | `~CleanUp`: nobody unpins what a failed `pin_recursive` left |
| | `CutNeverSweeps` | `CutShortNeverSweeps` | |
| BitswapExchangeProofs | `WantsKept`, `SlotsOwed`, `LimitHolds` | `WantsStay`, `SlotsAreOwed`, `LimitNearlyHolds` | |
| NodesProofs | `LogsMatch`, `OneGrant` | `LogMatching`, `OneGrantPerTerm` of RaftNode | |
| | `CommitsAreCommitted`, `AppliesAreCommitted`, `RaftTypeCorrect` | `CommittedUnlessLeftover`, `AppliedUnlessLeftover`, `RaftTypeOK` of RaftNode | |
| | `Remembered`, `Owed`, `OwnBlocks`, `ConnectedMatches` | `NobodyForgotten`, `PendingIsOwed`, `BlocksAreOwn`, `ConnectedIsTrue` of NetworkNode | |

**WantListProofs.**  `EveryWantIsPoppable` is not inductive: a step
could hand out a version that some stale node has.  The invariant `IInv` adds
`VersionsHandedOut` (no node or entry has a version not handed out yet) and
`VersionsUnique`.  Calls that push nodes share the lemmas `PushIInv` and
`RepushIInv`, calls that drop wants share `DropIInv`.  `ServiceOrder`, an action
property, follows from `IInv`: the popped node heads the heap, and the live node
of any want left behind has at least that want's stored priority.  The refinement
maps a want to the priority of its live node; each call is then a step of the
queue, and a `pop` takes an element of highest rank because the head of the heap
that it accepts out-ranks every live node.

**NodeRepoProofs.**  The node only changes the index by calls of the index, so its
part of the invariant is inherited from `PinInv`, which every call of the index
keeps.  For the collections, `MarkInv` is the invariant of a tracing
collector that runs while the graph changes: what is marked, no longer on the
worklist and has been stored since the collection began has its links marked;
marks are reachable from the listed roots; what the sweep holds is not marked; and
every block stored since the beginning is marked or still to be swept.
Reachability is the least closed set (`Reach`), so soundness follows from the
closedness of the marks, and completeness from their minimality.  `PinsCover`
needs to know what a walk in progress has achieved (`WalkInv`): a walk nobody
disturbed has listed under its root all that it has found, and what it has visited, of
the blocks stored since it began, has its links found or in hand.  When nothing is
left in hand the list is closed under links, so it holds all that is reachable
(`Covered`); unpins of other roots leave the list of this one alone.  For
`PinnedRootsStay` the pinned roots that are not `exposed` are stored and no call is on
its way to delete them (`SafeRoots`): a `block_rm` that is past its test found the
block unpinned, and a sweep that began with the root listed has it marked.

**LocksProofs**, the pin index.  `LockInv` says which call holds which lock where (`Exclusion`),
and for each map what an unfinished call has already written to it (`PinsInv`,
`IndirectInv`, `DepsInv`).  The refinement maps each map to `committed`, the map without
those writes; one acquisition of a call is the step of `PinManager`, and
every other one is a stutter.  `OneWayToBlock` follows the waits: a thread
waits for a lock whose holder waits too, and the orders of acquisition leave a
cycle only between `add_indirect` and `unpin`.

**LocksProofs**, request coalescing.  `ChannelInv` follows a channel: it is made once, stays open
as long as it is in the map, and whoever listens to an open one listens to the
one in the map; nothing is assumed of expiries, cancellations or forced fetches, so
`NobodyIsForgotten` holds with all of them.  `PeaceInv` says what is so until one of them
happens: at most one task is between its look at the map and its insertion, and
the task that fetches is the one whose channel is in the map.  That is why the
outcome, which is delivered to whatever entry there is, reaches the right one.
`SuspendedGuard` needs the first line of `ChannelInv`, that a guard is held across
an await at one place only.

**CachesProofs**, the tiers.  `GhostsNeedCause` speaks of what is in a tier; a block may also be on
its way into one, displaced from the hot tier or read from the store before a
delete.  `TieredCaused` extends the property to those blocks, and `TieredLeaving`
says what a delete has achieved: as long as nobody else handles the block, it
is in neither the hot tier nor a cascade, and after the second lock not in the
warm tier, so the last step of the delete makes no ghost.  What the operations of
Lru do to the keys of a list (`PopFacts`, `TouchFacts`, `PushFacts`,
`DisplacedFacts`) is shown once, for lists without repetition, and used by both
stores.

**CachesProofs**, the single cache.  The invariant has the same two parts (`CacheCaused`, `CacheLeaving`)
and `CacheNoted`: a delete and a get or put at the same block have left their mark.
A batch is a loop over its list.  What a loop makes of the cache (`TouchAllFacts`,
`PopAllFacts`, `PushAllFacts`) is shown for lists of any length, without the
library's induction theorems: the natural numbers are well founded, so there would
be a least turn after which a claim fails, and the turn before it contradicts
that (`LoopInduction`); `LoopRuns` shows in the same way that the recursive function
of the loop exists.

**SessionProofs.**  `ShapeInv` says which call can be where; with it, a
standstill leads to the one thread that holds the statistics.  `CompletionCovers`
rests on `CountInv`, which reads the counters as cardinalities: the total is at least
the number of accepted blocks, and received plus failed, with the marks about to be
counted, is the number of marked blocks plus that of repeated marks.  The comparison
in the code then says how many accepted blocks can be unmarked.  Nothing is assumed of
who adds or marks what how often.

**StorageGcProofs.**  A decrement takes a count of its own only if the call holds
the block it comes to.  `unpin_recursive` finds its blocks by walking the graph
again, so this rests on what the earlier `pin_recursive` did: `PinWalk` says which
blocks such a call has its count on while it walks, `Closed` that after it returned
well they are closed under links, and `UnpinWalk` that an unpin holds every block
it has still to visit.  `Decrements` adds that two unpins about to decrement one
entry have met (`raced`), and that one alone finds a count of two at least.  A call
that fails leaves its blocks unclosed, which is why `CleanUp` breaks the property.
`GcInv` then carries the
argument of `NothingHeldIsDoomed`: what has been held since before the run is an
entry of the map when the run lists its roots, hence marked, and the sweep takes
only what is not marked.  `CutInv`: from
the look that cuts a marking short to `should_stop` the flag stays raised, or somebody
has reset it and the run is one of those `revived`.

**BitswapExchangeProofs.**  The step that could break `WantsStay` is the one of
`receive_block` that takes the want away, three locks after the step that stored
the block.  `WantsInv` adds what a call knows meanwhile: a call past its put still
finds the block stored, unless the block was deleted after that put (`StoredInv`).
`SlotInv` counts, of a peer, the slots taken and the requests sent and still to be
marked.  Together they stay below the limit plus the number of users (`Limit`),
because a user selects a peer that accepts requests and has one request at a time.
Together they are at most the answers owed and those being handled (`Balance`),
which is kept when an answer is taken because each request still to be marked has
an answer of its own to come (`Matched`, an injection); where it does not, the
answer was early and the peer is one of the `leaky` exceptions.

**NodesProofs**, the Raft node.  For `LogMatching` the invariant is about the leaders' logs
(`LogInv`): by `Honest`, two leaders that have an entry of one index and term have
the same log up to it, so cutting the log at a conflict and
appending the rest of a request leaves every prefix a prefix of a leader's log.
`GrantInv` bounds the terms of the votes granted by the current term and says what
`voted_for` must be in the term of the last one, also between the two steps in
which the timer raises the term and takes its own vote.  `CommitInv` says, of a start
whose commit index has gone over no leftover, that the
committed part of the log is what the leader of some term the node has seen knew
to be committed (`KnownCommit`); by `Honest` every later leader has it in its log, so
no later request cuts it off, and what is applied is a prefix of it.  A request that
ends before its commit index keeps this when every entry after its end, up to that
index, is the leader's, which is what `leftovers` excludes and nothing more.  What an
earlier start has applied is not touched any more.

**NodesProofs**, the network node.  `NetInv` states for each caller where the sender of its
reply is (`CallerInv`): in the channel, in one entry of a pending map, in the list
of waiters, or nowhere, and that the entry of a fetch carries the CID of the
call.  The counts of `NobodyForgotten` are kept as
uniqueness (`OneSender`) through the proof and become cardinalities at its end.

**Model-checked only.**  Liveness (`CollectionsEnd`, `CallsReturnOrInvert`,
`WaiterWakesOrFail`, `GarbageIsCollected`, `RequestsEnd`, `WantsServed`,
`AppliedWhenQuiet`, `RequestsSettle`, `StopEnds`), which is out of this prover's
reach; every safety property of the runs is proved.  The type invariant of NetworkNode, whose bound
on the connections is a sum over a function.

## 5. What is not modelled

Reports that change nothing (pin_verify, gc_stats, repo_stat, fsck), hit and miss
counters, wording, events other than their reads of locked state, block contents
and sizes (a block is its CID, its links a constant, "small enough to cache" a
set), pin names and times.  In NodeRepo: the batch size of 1000 of the orphan
collector, file import and DHT announcements.  The order in which a worklist or a
listing is served is left open.  That a recursive pin_add returns is not checked: the
walks are in a run without fairness, whose states are too many for it, and the locks
its steps take, which can block it for ever, are PinLocks' (section 6).
`SessionManager` is a map of sessions.

In RefCountPins: `save_to_file` and `load_from_file` (one write and one read of a
snapshot), `clear` and `PinSet`.  In the exchange: scores and latencies (any
order of the peers is allowed), `send_block`, which only reads, the retry policy
and the breaker of `peer_manager.rs`, which nothing calls, and the TensorSwap
streams.  In the network node: what a callback answers to the requests of other
peers (that the task waits for it is modelled), a callback that never returns, semantic search
requests (the path of the activations), AutoNAT, DCUtR, relay reservations and
statistics.  In the Raft node: what a command does to the store; a no-op, and a command
whose CID cannot be decoded, which the code passes over, count as given to it.

The write-ahead log, the circuit breakers and the versioned stores are still to be
modelled (section 7).  Most of the repository's lines are outside this project for
good: several hundred modules of the semantic, tensor-logic, network and storage
crates are estimators, planners, schedulers and registries with one owner, behind
`&mut self`, computing with floating-point numbers, and no other module calls
them.  They have no interleaving, no failure and no order of messages for a model
checker to explore, and what they compute is a matter for tests.

## 6. Where the code and its documentation differ

The configurations below reproduce the disagreements met while modelling: TLC
finds each property of the table violated.  A configuration with several of them
stops at the first; leave the others out, or run TLC with `-continue`.  `TypeOK`, `RaftTypeOK`, `CacheTypeOK`,
`OnlyInversionBlocks`, `NobodyForgotten`, `ConflictIsEarlier` and `ConnectedIsTrue`,
which some of them list too, hold on the whole of their instances; the type
invariants of NodeRepo and StorageGc are proved (section 4).

| Configuration (module) | Property | What the code does, and what is said of it |
|---|---|---|
| `NodeRepoRaces.cfg` (MCNodeRepo) | `PinnedNeverCollected` | `gc.rs:134` lists the pins once; a `pin_add` that returns Ok after that does not stop the sweep.  `pin_ops.rs:12`: "Pin a block (prevent it from being garbage collected)". |
| same | `AckedStaysPinned` | `core.rs:133`: start never loads the saved index and stop never saves it, so a new process has no pins.  Same quotation. |
| same | `SnapshotBlocksKept` | `repo_ops.rs:40` passes an empty snapshot set.  `core.rs:269`: "so the OrphanGarbageCollector never deletes them". |
| same | `YoungBlocksSpared` | `gc.rs:93` never reads `min_age_seconds`: what is put after a collection began is swept by it.  `repo_ops.rs:46`: "blocks younger than this many seconds are spared". |
| same | `PinnedNotRemoved` | `block_ops.rs:529` checks the pin, then awaits the delete.  `block_ops.rs:511`: "Pinned blocks are protected and cannot be removed until unpinned". |
| same | `IndirectHasOwner` | `pin_ops.rs:51`: a walk goes on after its root was unpinned, and its indirect pins stay.  `pin.rs:73`: "blocks pinned because they're referenced by recursive pins". |
| `NodeRepoSaves.cfg` (MCNodeRepo) | `CompletePinsCover` | `pin.rs:234`: load restores the roots only.  `pin.rs:18`: "the block and all referenced blocks are pinned". |
| `NodeRepoRaces.cfg` (MCNodeRepo) | `OnlyUnreferencedCollected` | `repo_ops.rs:27` hands the pinned *roots* to a collector that follows no links, so the children of a complete recursive pin go.  `repo_ops.rs:19`: "Collects blocks that are present in the store but are not referenced by any pinned CID". |
| `NodeRepoSaves.cfg` (MCNodeRepo) | `SavedIndexReadable` | `pin.rs:219` truncates the file before it fills it: a process that dies in between leaves no index, neither the old nor the new.  `pin.rs:209`: "Save pin index to disk". |
| `PinLocksDeadlock.cfg` (PinLocks) | `CallsReturn` | `pin.rs:150` takes the dependencies and then the indirect pins, `pin.rs:116` the reverse. |
| `CachedBlockStoreGhost.cfg` (MCCachedBlockStore) | `CacheWithinStore` | `cache.rs:247` fills the cache after an await that a delete may overtake.  `cache.rs:263`: "Remove from L1 and L2." |
| `TieredCacheDiffers.cfg` (TieredCache) | `L2CatchesEvicted` | `cache.rs:559`: what a promotion displaces is dropped.  `cache.rs:515`: "L2 catches blocks evicted from L1." |
| same | `CallsReturn` | `cache.rs:556` holds L2 and takes L1, `cache.rs:571` the reverse. |
| `TieredStoreGhost.cfg` (TieredStore) | `TiersWithinStore` | `cache.rs:696` fills the cache before the store has taken the block: a put that fails leaves a block `get` returns. |
| `StorageGcDiffers.cfg` (MCStorageGc) | `CutShortStops` | `gc.rs:230`: a run that begins resets the cancel flag, which takes back the cancellation of a run beside it: that run sweeps from a marking that was cut short. |
| same | `FlagHasRun` | `gc.rs:472`: a `maybe_run` that is dropped, or panics, leaves `running` set, and no later one collects.  `gc.rs:463`: "Prevent concurrent runs"; it prevents all. |
| same | `CountsMatchHolders` | `pinning.rs:198`: a `pin_recursive` that fails leaves some of its counts raised; the caller's `unpin_recursive` then takes away counts of others. |
| same | `LimitHolds` | `gc.rs:307`: a full run deletes its whole listing.  `gc.rs:33`: "Maximum blocks to collect in a single run (0 = unlimited)". |
| `RequestCoalescerDiffers.cfg` (RequestCoalescer) | `NoStandstill` | `request_coalescing.rs:141` awaits the statistics with the guard of the entry alive; the workers that need the shard block, and nobody runs the holder of the statistics. |
| same | `NoStrayAnswer` | `request_coalescing.rs:198`: the outcome is delivered to the entry of the CID, which may be of a later fetch. |
| `RaftNodeCommit.cfg` (MCRaftNode) | `CommittedIsCommitted` | `raft.rs:452` follows the leader's commit index to the end of the log, not of the request: a leftover tail counts as committed.  `raft.rs:4`: "RAFT provides strong consistency guarantees". |
| `RaftNodeRestart.cfg` (MCRaftNode) | `VoteSurvivesRestart` | nothing stores the term, the vote or the log.  `raft.rs:183`: "must survive restarts". |
| same | `NothingAppliedTwice` | `last_applied` begins at 0 again, so a store that has survived is given every entry anew, a delete after a put of the same block included. |
| same | `ConflictIsFirst` | `raft.rs:423`: the search starts at the end of the log, not at the conflicting entry, and gives up at once when the last entry has another term.  `raft.rs:420`: "Find conflicting term's first index". |
| `NetworkNodeDiffers.cfg` (NetworkNode) | `RepliesDelivered` | `node.rs:1309`: the task waits for room in the event channel, and when nobody reads it no reply is delivered any more.  `node.rs:635`: "The reply is delivered once the response arrives or the request fails." |
| same | `FailedQueryWakes` | `node.rs:1272`: a query that ends without providers leaves its waiters to their timeout.  `node.rs:1899`: "Sender was dropped without sending (e.g. query failed)". |
| `BitswapExchangeDiffers.cfg` (BitswapExchange) | `SlotsComeBack` | `bitswap.rs:249`: DONT_HAVE gives no slot back, nor does a block the store refuses, so a peer fills up with requests that are over.  `peer_manager.rs:270`: "Number of active requests to this peer". |
| same | `PendingIsWanted` | `bitswap.rs:268`: a request that is marked after its answer has come stays pending, and no cleanup finds it.  `bitswap.rs:277`: "Clean up stale wants and expired requests". |
| same | `FullMeansFull` | `bitswap.rs:109`: a refused want looks under a second lock whether it was there already; if it was, and has been served in between, the error says "Want list full". |
| `SessionMarks.cfg` (Session) | `CallsReturn` | `session.rs:366` calls `transition_state(Completed)` with the write guard of the statistics alive, and `session.rs:455` reads them: when the last block fails, the call waits for itself.  `session.rs:325`: "Transition state outside the stats lock to avoid deadlock". |
| `SessionResume.cfg` (Session) | `CompletesWhenReceived` | the last block arrives while the session is paused; `resume` (`session.rs:392`) does not look, and the session stays active.  `ARCHITECTURE.md:379-384` of the transport crate: "All Blocks Received" leads to "Completed". |
| same | `EndedIsFinal` | `resume` reopens a cancelled or completed session; the test at `session.rs:685`: "Should not be able to add blocks to cancelled session". |
| `SessionLateSend.cfg` | `WaiterWakes` | `session.rs:449`: two transitions write the state in one order and announce it in the other, and the waiter sees the older one last. |
| `SessionMarks.cfg` | `CompletionCoversAll` | `session.rs:302` counts a block that arrives twice twice. |
| `SessionResume.cfg` | `CompletedMeansMarked` | `session.rs:268`: an add that saw an active session counts its block after the session has completed. |

## 7. Plan

Done: WantList with its abstract specification; the pin index, call by call and
lock by lock; the node on top of it, with restarts and crashes; the caches and the
store behind them; the session; the storage collector with its pins; request
coalescing; the exchange; the Raft node; the network node; the proofs of section 4.

To model: the write-ahead log (two checkpoints append in one order and store
`checkpoint_sequence` in the other, `wal.rs:249`); `vcs.rs` (a commit takes its
parent from HEAD before an await and writes HEAD after it, `vcs.rs:348`);
`eventual_consistency.rs` (an insertion under a read guard of the same map, line
247); circuit breakers; the exchange over WantList instead of a set.

To prove: the type invariant of NetworkNode, and that the modules above keep
theirs; nothing that a run checks is left but liveness.
