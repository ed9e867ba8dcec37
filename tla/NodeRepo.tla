------------------------------- MODULE NodeRepo -------------------------------
(***************************************************************************)
(* Pinning, garbage collection and block removal as a Node interleaves     *)
(* them: crates/ipfrs/src/node/{pin_ops,repo_ops,block_ops,core}.rs and    *)
(* crates/ipfrs/src/gc.rs over the pin index of pin.rs, with the orphan    *)
(* collector and the snapshot registry of crates/ipfrs-storage/src/gc.rs.  *)
(*                                                                         *)
(* All these methods take &self: calls of different tasks interleave at    *)
(* every .await and at every lock of the pin index.  A call is cut there   *)
(* and nowhere else.  stop() takes &mut self, so it meets no other call.   *)
(* A block is its CID; its links are the constant Links.  What a worklist  *)
(* of the code orders (a stack of CIDs, the listing of the store) is a set *)
(* here, served in any order.                                              *)
(***************************************************************************)
EXTENDS PinManager, Naturals

CONSTANTS Links,        \* [Cid -> SUBSET Cid]: the links in each block
          NoCid,        \* no CID: the argument of a task with no call
          Pinner,       \* tasks calling pin_add
          Collector,    \* tasks calling repo_gc or gc_blocks
          Remover,      \* tasks calling block_rm
          Saver,        \* tasks calling pin_save and pin_load
          CollectKind,  \* the collections the Collectors run
          Recursive,    \* values of pin_add's argument `recursive'
          Limit,        \* values of max_blocks_per_run (0 = unlimited)
          MaxRestarts   \* bound on stop/start cycles

ASSUME LinksAssumption == Links \in [Cid -> SUBSET Cid] /\ NoCid \notin Cid
ASSUME TaskAssumption == Pinner \cap Collector = {}
ASSUME KindAssumption ==
    /\ CollectKind \subseteq {"repo_gc", "gc_blocks"}
    /\ Recursive \subseteq BOOLEAN
ASSUME LimitAssumption == Limit \subseteq Nat /\ MaxRestarts \in Nat

VARIABLES blocks,         \* the CIDs in the block store
          snapshot_pins,  \* SledSnapshotPinRegistry, on disk
          file,           \* the pin index on disk
          padd,           \* [Pinner -> the pin_add in progress]
          gc,             \* [Collector -> the collection in progress]
          rm,             \* [Remover -> the block_rm in progress]
          io,             \* [Saver -> the pin_save or pin_load in progress]
          restarts

\* History, read by the properties only.
VARIABLES acked,     \* roots whose pin_add returned Ok, not unpinned since
          complete,  \* recursive roots whose walk finished undisturbed and
                     \* that nobody unpinned or pinned again since
          held,      \* pin_adds whose root nobody has unpinned or re-pinned
          roots,     \* [Collector -> listed roots nobody has unpinned since]
          kept,      \* [task -> blocks stored without a gap since it began]
          exposed    \* pinned roots that a deletion may take: see Threatened

vars == <<pins, indirect_pins, recursive_deps, blocks, snapshot_pins, file,
          padd, gc, rm, io, restarts, acked, complete, held, roots, kept, exposed>>

PinMap == [Cid -> PinType \cup {"None"}]
NoPins == [c \in Cid |-> "None"]

NoPinAdd == [pc |-> "idle", root |-> NoCid, recursive |-> FALSE,
             to_visit |-> {}, visited |-> {}, links |-> {}]
NoCollect == [pc |-> "idle", kind |-> "repo_gc", dry_run |-> FALSE, max |-> 0,
              reachable |-> {}, to_visit |-> {}, all_cids |-> {},
              cid |-> NoCid, collected |-> 0, listed |-> {}]
NoRemove == [pc |-> "idle", cid |-> NoCid]
NoIo == [pc |-> "idle", pins |-> NoPins]

PinAdd == [pc : {"idle", "pin", "visit", "link"}, root : Cid \cup {NoCid},
           recursive : BOOLEAN, to_visit : SUBSET Cid, visited : SUBSET Cid,
           links : SUBSET Cid]
Collect == [pc : {"idle", "mark", "sweep", "delete"}, kind : {"repo_gc", "gc_blocks"},
            dry_run : BOOLEAN, max : Limit \cup {0}, reachable : SUBSET Cid,
            to_visit : SUBSET Cid, all_cids : SUBSET Cid, cid : Cid \cup {NoCid},
            collected : Nat, listed : SUBSET Cid]
Remove == [pc : {"idle", "delete"}, cid : Cid \cup {NoCid}]
Io == [pc : {"idle", "truncate", "write", "apply"}, pins : PinMap]

TypeOK ==
    /\ PinTypeOK
    /\ blocks \in SUBSET Cid
    /\ snapshot_pins \in SUBSET Cid
    /\ file \in [state : {"absent", "torn", "whole"}, pins : PinMap]
    /\ padd \in [Pinner -> PinAdd]
    /\ gc \in [Collector -> Collect]
    /\ rm \in [Remover -> Remove]
    /\ io \in [Saver -> Io]
    /\ restarts \in 0..MaxRestarts
    /\ acked \in SUBSET Cid /\ complete \in SUBSET Cid /\ exposed \in SUBSET Cid
    /\ held \in SUBSET Pinner
    /\ roots \in [Collector -> SUBSET Cid]
    /\ kept \in [Pinner \cup Collector -> SUBSET Cid]

Init ==
    /\ new
    /\ blocks = {} /\ snapshot_pins = {}
    /\ file = [state |-> "absent", pins |-> NoPins]
    /\ padd = [t \in Pinner |-> NoPinAdd]
    /\ gc = [t \in Collector |-> NoCollect]
    /\ rm = [t \in Remover |-> NoRemove]
    /\ io = [t \in Saver |-> NoIo]
    /\ restarts = 0
    /\ acked = {} /\ complete = {} /\ held = {} /\ exposed = {}
    /\ roots = [t \in Collector |-> {}]
    /\ kept = [t \in Pinner \cup Collector |-> {}]

\* The CIDs reachable from `from' along the links of the blocks in `through':
\* the least set that contains `from' and is closed under those links.
Closed(S, through) == \A c \in S \cap through : Links[c] \subseteq S
Reach(from, through) ==
    {c \in Cid : \A S \in SUBSET Cid :
                    (from \subseteq S /\ Closed(S, through)) => c \in S}

storeVars == <<blocks, snapshot_pins, file>>
taskVars == <<padd, gc, rm, io, restarts>>
histVars == <<acked, complete, held, roots, kept, exposed>>

\* A call that is past its look at the pins is about to delete c, or c has gone.
Threatened(c) ==
    \/ c \notin blocks
    \/ \E t \in Remover : rm[t].pc = "delete" /\ rm[t].cid = c
    \/ \E t \in Collector : \/ gc[t].pc = "mark" /\ c \notin gc[t].reachable
                            \/ c \in gc[t].all_cids \cup {gc[t].cid}

-----------------------------------------------------------------------------
(* The block store: put_block and delete_block *)

put_block(c) ==
    /\ c \notin blocks
    /\ blocks' = blocks \cup {c}
    /\ UNCHANGED <<pinVars, snapshot_pins, file, taskVars, histVars>>

\* BlockStore::delete, with the history it ends; deleting an absent block is Ok.
delete(c) ==
    /\ blocks' = blocks \ {c}
    /\ kept' = [t \in DOMAIN kept |-> kept[t] \ {c}]
    /\ UNCHANGED <<snapshot_pins, file>>

\* Whether the block is pinned is not asked.
delete_block(c) ==
    /\ c \in blocks
    /\ delete(c)
    /\ exposed' = exposed \cup ({c} \cap list)
    /\ UNCHANGED <<pinVars, taskVars, acked, complete, held, roots>>

-----------------------------------------------------------------------------
(* pin_add and mark_recursive_pins *)

\* Whoever walks or has walked the graph of root c sees it unpinned.
Disturbed(c) == {t \in Pinner : padd[t].root = c}

pin_add(t, c, recursive) ==
    /\ padd[t].pc = "idle"
    /\ c \in blocks
    /\ padd' = [padd EXCEPT ![t] = [pc |-> "pin", root |-> c, recursive |-> recursive,
                                    to_visit |-> {}, visited |-> {}, links |-> {}]]
    /\ UNCHANGED <<pinVars, storeVars, gc, rm, io, restarts, histVars>>

pin_add_pin(t) ==
    LET c == padd[t].root
    IN  /\ padd[t].pc = "pin"
        /\ \/ /\ padd[t].recursive
              /\ pin(c, "Recursive")
              /\ padd' = [padd EXCEPT ![t].pc = "visit", ![t].to_visit = {c}]
              /\ held' = held \cup {t}
              /\ kept' = [kept EXCEPT ![t] = blocks]
              /\ UNCHANGED acked
           \/ /\ ~padd[t].recursive
              /\ pin(c, "Direct")
              /\ padd' = [padd EXCEPT ![t] = NoPinAdd]
              /\ acked' = acked \cup {c}
              /\ held' = held \ Disturbed(c)
              /\ UNCHANGED kept
        /\ complete' = complete \ {c}
        /\ exposed' = exposed \cup {d \in {c} : Threatened(d)}
        /\ UNCHANGED <<storeVars, gc, rm, io, restarts, roots>>

\* The block is fetched; the links of one that is there are pinned one by one.
mark_visit(t, c) ==
    /\ padd[t].pc = "visit"
    /\ c \in padd[t].to_visit
    /\ padd' = [padd EXCEPT
         ![t].to_visit = @ \ {c}, ![t].visited = @ \cup {c},
         ![t].links = IF c \in blocks THEN Links[c] ELSE {},
         ![t].pc = IF c \in blocks /\ Links[c] # {} THEN "link" ELSE "visit"]
    /\ UNCHANGED <<pinVars, storeVars, gc, rm, io, restarts, histVars>>

\* Mutant: a link is recorded under the wrong root.
mark_linkWrongRoot(t, l) ==
    /\ padd[t].pc = "link"
    /\ l \in padd[t].links
    /\ add_indirect(l, l)
    /\ padd' = [padd EXCEPT
         ![t].links = @ \ {l},
         ![t].to_visit = @ \cup ({l} \ padd[t].visited),
         ![t].pc = IF padd[t].links = {l} THEN "visit" ELSE "link"]
    /\ UNCHANGED <<storeVars, gc, rm, io, restarts, histVars>>

mark_link(t, l) ==
    /\ padd[t].pc = "link"
    /\ l \in padd[t].links
    /\ add_indirect(padd[t].root, l)
    /\ padd' = [padd EXCEPT
         ![t].links = @ \ {l},
         ![t].to_visit = @ \cup ({l} \ padd[t].visited),
         ![t].pc = IF padd[t].links = {l} THEN "visit" ELSE "link"]
    /\ UNCHANGED <<storeVars, gc, rm, io, restarts, histVars>>

pin_add_done(t) ==
    LET c == padd[t].root
    IN  /\ padd[t].pc = "visit"
        /\ padd[t].to_visit = {}
        /\ padd' = [padd EXCEPT ![t] = NoPinAdd]
        /\ acked' = acked \cup ({c} \cap list)
        /\ complete' = IF t \in held /\ Reach({c}, Cid) \subseteq kept[t]
                       THEN complete \cup {c} ELSE complete
        /\ held' = held \ {t}
        /\ UNCHANGED <<pinVars, storeVars, gc, rm, io, restarts, roots, kept, exposed>>

\* A fetch fails: Err, with the pin and the indirect pins so far left behind.
pin_add_fails(t) ==
    /\ padd[t].pc = "visit"
    /\ padd[t].to_visit # {}
    /\ padd' = [padd EXCEPT ![t] = NoPinAdd]
    /\ held' = held \ {t}
    /\ UNCHANGED <<pinVars, storeVars, gc, rm, io, restarts, acked, complete,
                   roots, kept, exposed>>

pin_rm(c) ==
    /\ unpin(c)
    /\ acked' = acked \ {c}
    /\ complete' = complete \ {c}
    /\ held' = held \ Disturbed(c)
    /\ roots' = [t \in Collector |-> roots[t] \ {c}]
    /\ exposed' = exposed \ {c}
    /\ UNCHANGED <<storeVars, taskVars, kept>>

-----------------------------------------------------------------------------
(* Collections: repo_gc marks from the roots, gc_blocks does not *)

\* The roots are listed and marked.
Begun(kind, dry_run, max, to_visit) ==
    [pc |-> "mark", kind |-> kind, dry_run |-> dry_run, max |-> max,
     reachable |-> list, to_visit |-> to_visit, all_cids |-> {},
     cid |-> NoCid, collected |-> 0, listed |-> list]

\* GarbageCollector::collect.  min_age_seconds is in the config and in no test.
repo_gc(t, dry_run, max) ==
    /\ "repo_gc" \in CollectKind
    /\ gc[t].pc = "idle"
    /\ gc' = [gc EXCEPT ![t] = Begun("repo_gc", dry_run, max, list)]
    /\ roots' = [roots EXCEPT ![t] = list]
    /\ kept' = [kept EXCEPT ![t] = blocks]
    /\ UNCHANGED <<pinVars, storeVars, padd, rm, io, restarts, acked, complete, held, exposed>>

\* The set of pinned CIDs that is handed to OrphanGarbageCollector::collect
\* holds the roots; the snapshot registry handed on is empty.
gc_blocks(t, dry_run) ==
    /\ "gc_blocks" \in CollectKind
    /\ gc[t].pc = "idle"
    /\ gc' = [gc EXCEPT ![t] = Begun("gc_blocks", dry_run, 0, {})]
    /\ roots' = [roots EXCEPT ![t] = list]
    /\ kept' = [kept EXCEPT ![t] = blocks]
    /\ UNCHANGED <<pinVars, storeVars, padd, rm, io, restarts, acked, complete, held, exposed>>

gcFrame == UNCHANGED <<pinVars, padd, rm, io, restarts, acked, complete, held, roots, exposed>>

\* What a marked block that is still stored adds to the marked set.
NewLinks(t, c) == IF c \in blocks THEN Links[c] \ gc[t].reachable ELSE {}

\* Mutant: the links of a block are not followed.
mark_reachableShallow(t, c) ==
    /\ gc[t].pc = "mark"
    /\ c \in gc[t].to_visit
    /\ gc' = [gc EXCEPT ![t].to_visit = @ \ {c}]
    /\ gcFrame /\ UNCHANGED <<storeVars, kept>>

\* Mutant: the block is looked at but never taken off the worklist.
mark_reachableStuck(t, c) ==
    /\ gc[t].pc = "mark"
    /\ c \in gc[t].to_visit
    /\ gc' = [gc EXCEPT ![t].reachable = @ \cup NewLinks(t, c),
                        ![t].to_visit = @ \cup NewLinks(t, c)]
    /\ gcFrame /\ UNCHANGED <<storeVars, kept>>

mark_reachable(t, c) ==
    /\ gc[t].pc = "mark"
    /\ c \in gc[t].to_visit
    /\ gc' = [gc EXCEPT ![t].reachable = @ \cup NewLinks(t, c),
                        ![t].to_visit = (@ \ {c}) \cup NewLinks(t, c)]
    /\ gcFrame /\ UNCHANGED <<storeVars, kept>>

\* list_cids, without the CIDs the loop skips as reachable.
list_cids(t) ==
    /\ gc[t].pc = "mark"
    /\ gc[t].to_visit = {}
    /\ gc' = [gc EXCEPT ![t].pc = "sweep",
                        ![t].all_cids = blocks \ gc[t].reachable]
    /\ gcFrame /\ UNCHANGED <<storeVars, kept>>

LimitReached(t) == gc[t].max > 0 /\ gc[t].collected >= gc[t].max

\* The count is kept only where a limit reads it.
Counted(t) == IF gc[t].max > 0 THEN gc[t].collected + 1 ELSE 0

\* Mutant: a block found in the store is passed over, one that is gone is not.
sweep_getInverted(t, c) ==
    /\ gc[t].pc = "sweep"
    /\ c \in gc[t].all_cids
    /\ ~LimitReached(t)
    /\ \/ /\ c \notin blocks
          /\ gc' = [gc EXCEPT ![t].pc = "delete", ![t].cid = c,
                              ![t].all_cids = @ \ {c}]
       \/ /\ c \in blocks
          /\ gc' = [gc EXCEPT ![t].all_cids = @ \ {c}]
    /\ gcFrame /\ UNCHANGED <<storeVars, kept>>

\* The block is fetched for its size.  repo_gc passes over one that is gone,
\* gc_blocks deletes whatever the answer.
sweep_get(t, c) ==
    /\ gc[t].pc = "sweep"
    /\ c \in gc[t].all_cids
    /\ ~LimitReached(t)
    /\ \/ /\ c \in blocks \/ gc[t].kind = "gc_blocks"
          /\ ~gc[t].dry_run
          /\ gc' = [gc EXCEPT ![t].pc = "delete", ![t].cid = c,
                              ![t].all_cids = @ \ {c}]
       \/ /\ c \in blocks \/ gc[t].kind = "gc_blocks"
          /\ gc[t].dry_run
          /\ gc' = [gc EXCEPT ![t].collected = Counted(t),
                              ![t].all_cids = @ \ {c}]
       \/ /\ c \notin blocks
          /\ gc[t].kind = "repo_gc"
          /\ gc' = [gc EXCEPT ![t].all_cids = @ \ {c}]
    /\ gcFrame /\ UNCHANGED <<storeVars, kept>>

sweep_delete(t) ==
    /\ gc[t].pc = "delete"
    /\ delete(gc[t].cid)
    /\ gc' = [gc EXCEPT ![t].pc = "sweep", ![t].cid = NoCid,
                        ![t].collected = Counted(t)]
    /\ gcFrame

\* repo_gc gives up at the first error; gc_blocks records it and goes on.
collect_fails(t) ==
    /\ \/ /\ gc[t].kind = "repo_gc"
          /\ gc[t].pc # "idle"
          /\ gc' = [gc EXCEPT ![t] = NoCollect]
       \/ /\ gc[t].kind = "gc_blocks"
          /\ gc[t].pc = "mark"
          /\ gc' = [gc EXCEPT ![t] = NoCollect]
       \/ /\ gc[t].kind = "gc_blocks"
          /\ gc[t].pc = "delete"
          /\ gc' = [gc EXCEPT ![t].pc = "sweep", ![t].cid = NoCid]
    /\ gcFrame /\ UNCHANGED <<storeVars, kept>>

collect_done(t) ==
    /\ gc[t].pc = "sweep"
    /\ gc[t].all_cids = {} \/ LimitReached(t)
    /\ gc' = [gc EXCEPT ![t] = NoCollect]
    /\ gcFrame /\ UNCHANGED <<storeVars, kept>>

-----------------------------------------------------------------------------
(* block_rm: the pin is looked up, then the block is deleted *)

\* Mutant: the pin is not looked up.
block_rmUnasked(t, c) ==
    /\ rm[t].pc = "idle"
    /\ rm' = [rm EXCEPT ![t] = [pc |-> "delete", cid |-> c]]
    /\ UNCHANGED <<pinVars, storeVars, padd, gc, io, restarts, histVars>>

block_rm(t, c) ==
    /\ rm[t].pc = "idle"
    /\ ~is_pinned(c)
    /\ rm' = [rm EXCEPT ![t] = [pc |-> "delete", cid |-> c]]
    /\ UNCHANGED <<pinVars, storeVars, padd, gc, io, restarts, histVars>>

block_rm_delete(t) ==
    /\ rm[t].pc = "delete"
    /\ delete(rm[t].cid)
    /\ rm' = [rm EXCEPT ![t] = NoRemove]
    /\ UNCHANGED <<pinVars, padd, gc, io, restarts, acked, complete, held, roots, exposed>>

-----------------------------------------------------------------------------
(* pin_save and pin_load *)

\* The roots are copied under the read lock; tokio::fs::write then empties
\* the file and fills it.
pin_save(t) ==
    /\ io[t].pc = "idle"
    /\ io' = [io EXCEPT ![t] = [pc |-> "truncate", pins |-> pins]]
    /\ UNCHANGED <<pinVars, storeVars, padd, gc, rm, restarts, histVars>>

save_truncate(t) ==
    /\ io[t].pc = "truncate"
    /\ file' = [state |-> "torn", pins |-> NoPins]
    /\ io' = [io EXCEPT ![t].pc = "write"]
    /\ UNCHANGED <<pinVars, blocks, snapshot_pins, padd, gc, rm,
                   restarts, histVars>>

save_write(t) ==
    /\ io[t].pc = "write"
    /\ file' = [state |-> "whole", pins |-> io[t].pins]
    /\ io' = [io EXCEPT ![t] = NoIo]
    /\ UNCHANGED <<pinVars, blocks, snapshot_pins, padd, gc, rm,
                   restarts, histVars>>

\* A missing or torn file is an Err that leaves the index alone.
pin_load(t) ==
    /\ io[t].pc = "idle"
    /\ file.state = "whole"
    /\ io' = [io EXCEPT ![t] = [pc |-> "apply", pins |-> file.pins]]
    /\ UNCHANGED <<pinVars, storeVars, padd, gc, rm, restarts, histVars>>

\* An entry whose CID cannot be read ends the load with an Err: the old roots are
\* gone and only the entries before it are in place.
load_apply(t) ==
    \E read \in SUBSET {c \in Cid : io[t].pins[c] # "None"} :
        LET saved == [c \in Cid |-> IF c \in read THEN io[t].pins[c] ELSE "None"]
            whole == {c \in Cid : saved[c] = "Recursive"}
        IN  /\ io[t].pc = "apply"
            /\ load(saved)
            /\ io' = [io EXCEPT ![t] = NoIo]
            /\ acked' = acked \cap read
            /\ complete' = complete \cap whole
            /\ held' = {u \in held : padd[u].root \in whole}
            /\ roots' = [u \in Collector |-> roots[u] \cap read]
            /\ exposed' = {c \in read : c \in exposed \/ (c \notin list /\ Threatened(c))}
            /\ UNCHANGED <<storeVars, padd, gc, rm, restarts, kept>>

-----------------------------------------------------------------------------
(* stop() and the next start() *)

AllIdle ==
    /\ \A t \in Pinner : padd[t].pc = "idle"
    /\ \A t \in Collector : gc[t].pc = "idle"
    /\ \A t \in Remover : rm[t].pc = "idle"
    /\ \A t \in Saver : io[t].pc = "idle"

\* stop() registers every stored CID when the semantic index was in use and
\* its snapshot could be written.  The next start() is of the same Node, which
\* still has its pins, or of the Node of a new process, which has none: start()
\* never loads the saved index.
restart(snapshot, same) ==
    /\ AllIdle
    /\ restarts < MaxRestarts
    /\ restarts' = restarts + 1
    /\ snapshot_pins' = IF snapshot THEN snapshot_pins \cup blocks ELSE snapshot_pins
    /\ IF same THEN UNCHANGED <<pinVars, exposed>> ELSE clear /\ exposed' = {}
    /\ UNCHANGED <<blocks, file, padd, gc, rm, io, acked, complete, held, roots, kept>>

\* The process dies, in the middle of whatever calls there are, and a new one
\* starts: the store, the registry and the index file are as they were.
crash ==
    /\ restarts < MaxRestarts
    /\ restarts' = restarts + 1
    /\ clear
    /\ padd' = [t \in Pinner |-> NoPinAdd]
    /\ gc' = [t \in Collector |-> NoCollect]
    /\ rm' = [t \in Remover |-> NoRemove]
    /\ io' = [t \in Saver |-> NoIo]
    /\ held' = {}
    /\ roots' = [t \in Collector |-> {}]
    /\ kept' = [t \in Pinner \cup Collector |-> {}]
    /\ exposed' = {}
    /\ UNCHANGED <<storeVars, acked, complete>>

-----------------------------------------------------------------------------
\* A task begins a call, goes on with it, or sees it fail.
PinnerStep(t) ==
    \/ pin_add_pin(t)
    \/ \E c \in Cid : mark_visit(t, c)
    \/ \E l \in Cid : mark_link(t, l)
    \/ pin_add_done(t)

CollectorStep(t) ==
    \/ \E c \in Cid : mark_reachable(t, c)
    \/ list_cids(t)
    \/ \E c \in Cid : sweep_get(t, c)
    \/ sweep_delete(t)
    \/ collect_done(t)

SaverStep(t) == save_truncate(t) \/ save_write(t) \/ load_apply(t)

Next ==
    \/ \E c \in Cid : put_block(c) \/ delete_block(c) \/ pin_rm(c)
    \/ \E t \in Pinner, c \in Cid, recursive \in Recursive : pin_add(t, c, recursive)
    \/ \E t \in Pinner : PinnerStep(t) \/ pin_add_fails(t)
    \/ \E t \in Collector, dry_run \in BOOLEAN, max \in Limit : repo_gc(t, dry_run, max)
    \/ \E t \in Collector, dry_run \in BOOLEAN : gc_blocks(t, dry_run)
    \/ \E t \in Collector : CollectorStep(t) \/ collect_fails(t)
    \/ \E t \in Remover, c \in Cid : block_rm(t, c)
    \/ \E t \in Remover : block_rm_delete(t)
    \/ \E t \in Saver : pin_save(t) \/ pin_load(t) \/ SaverStep(t)
    \/ \E snapshot, same \in BOOLEAN : restart(snapshot, same)
    \/ crash

Spec == Init /\ [][Next]_vars

\* A call that has begun is polled until it returns: the runtime is fair to
\* every task.  Nobody has to begin a call, and no call has to fail.
FairSpec ==
    /\ Spec
    /\ \A t \in Pinner : WF_vars(PinnerStep(t))
    /\ \A t \in Collector : WF_vars(CollectorStep(t))
    /\ \A t \in Remover : WF_vars(block_rm_delete(t))
    /\ \A t \in Saver : WF_vars(SaverStep(t))

-----------------------------------------------------------------------------
(* What the calls promise *)

\* The mark phase may race with pin_add, pin_rm, put and delete, but what it
\* hands to the sweep is sound: repo_gc never picks for deletion a block that
\* can be reached, through blocks stored all along, from a root that was
\* pinned before the mark and has not been unpinned since.  gc_blocks, which
\* follows no links, spares those roots themselves.
SweepSparesStableDag ==
    \A t \in Collector :
        gc[t].pc = "delete" =>
            gc[t].cid \notin
                Reach(roots[t], IF gc[t].kind = "repo_gc" THEN kept[t] ELSE {})

\* A repo_gc without limit that runs to its end leaves no floating garbage:
\* of the blocks stored all along, only those reachable from the roots it
\* listed are left.
GarbageIsSwept ==
    \A t \in Collector :
        (/\ gc[t].kind = "repo_gc" /\ gc[t].pc = "sweep" /\ gc[t].all_cids = {}
         /\ ~gc[t].dry_run /\ gc[t].max = 0)
            => kept[t] \subseteq Reach(gc[t].listed, Cid)

\* A recursive pin whose walk was not disturbed pins every block under its
\* root, and keeps doing so while other roots that share those blocks are
\* pinned, pinned again and unpinned, and other walks come and go ("Recursive
\* pin - the block and all referenced blocks are pinned", pin.rs).
CompletePinsCover ==
    \A r \in complete :
        pins[r] = "Recursive" =>
            Reach({r}, Cid) \ {r} \subseteq recursive_deps[r] \cap indirect_pins

\* A root that is pinned stays stored, whatever calls of block_rm and of both
\* collectors are under way, unless it was pinned when one of them had already
\* looked at the pins and was on its way to delete it, or somebody asked for the
\* deletion itself.  (block_rm and pin_add test before an await and act after it;
\* a sweep works from its marks)
PinnedIsStored == \A c \in list : c \in blocks \cup exposed

\* Every collection returns, although the blocks its mark has yet to visit and its
\* sweep has yet to delete come and go under it.
CollectionsEnd == \A t \in Collector : gc[t].pc # "idle" ~> gc[t].pc = "idle"

-----------------------------------------------------------------------------
(* What the comments of the code say and the code does not do *)

GcDeletes(t, c) ==
    /\ gc[t].pc = "delete" /\ gc[t].cid = c /\ gc'[t].pc = "sweep"
    /\ c \in blocks /\ c \notin blocks'

\* pin_add: "Pin a block (prevent it from being garbage collected)".  No
\* collection deletes a block whose pin_add has returned Ok.
PinnedNeverCollected ==
    [][\A t \in Collector, c \in Cid : GcDeletes(t, c) => c \notin acked]_vars

\* The same promise across a stop and a start: a pin that was acknowledged and
\* not taken back is still in force.
AckedStaysPinned == \A c \in acked : is_pinned(c)

\* gc_blocks: "Collects blocks that are present in the store but are not
\* referenced by any pinned CID".  It deletes nothing under a recursive pin.
OnlyUnreferencedCollected ==
    [][\A t \in Collector, c \in Cid :
          GcDeletes(t, c) => c \notin Reach(roots[t] \cap complete, Cid)]_vars

\* stop: "Pin the snapshot's block CIDs via the Sled-backed registry so the
\* OrphanGarbageCollector never deletes them".
SnapshotBlocksKept ==
    [][\A t \in Collector, c \in Cid :
          (gc[t].kind = "gc_blocks" /\ GcDeletes(t, c)) => c \notin snapshot_pins]_vars

\* repo_gc_with_options: "blocks younger than this many seconds are spared".  A
\* collection that takes less than that spares what was put after it began.
YoungBlocksSpared ==
    [][\A t \in Collector, c \in Cid :
          (gc[t].kind = "repo_gc" /\ GcDeletes(t, c)) => c \in kept[t]]_vars

\* block_rm: "Pinned blocks are protected and cannot be removed until unpinned".
PinnedNotRemoved ==
    [][\A t \in Remover :
          (rm[t].pc = "delete" /\ rm'[t].pc = "idle" /\ rm[t].cid \in blocks)
              => ~is_pinned(rm[t].cid)]_vars

\* PinManager: "Indirect pins (blocks pinned because they're referenced by
\* recursive pins)".  Once no call is in progress, every indirect pin is listed
\* by a root that is pinned recursively.
IndirectHasOwner ==
    AllIdle => \A c \in indirect_pins :
                   \E r \in Cid : pins[r] = "Recursive" /\ c \in recursive_deps[r]

\* save: "Save pin index to disk".  Unless a save is writing it, the file of an
\* index that was saved can be read.
SavedIndexReadable == file.state = "torn" => \E t \in Saver : io[t].pc = "write"
=============================================================================
