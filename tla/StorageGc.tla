------------------------------- MODULE StorageGc -------------------------------
(***************************************************************************)
(* The collector of the storage layer and its scheduler, over the          *)
(* reference-counted pins: crates/ipfrs-storage/src/gc.rs,                 *)
(* GarbageCollector and GcScheduler.                                       *)
(*                                                                         *)
(* Collectors are threads in collect, called by the application or by      *)
(* maybe_run; they share the store and the flag that cancels.  A step is   *)
(* one read of the flag or of an entry of the pins, or one awaited call of *)
(* the store.  Whether the policy wants a run and whether the time limit   *)
(* has passed are choices.  Sizes, durations and statistics are left out.  *)
(***************************************************************************)
EXTENDS RefCountPins

CONSTANTS Collectors,
          Configs     \* the configurations to consider

\* A GcConfig, and the program around the collector: who calls collect in each
\* thread, and which of the pins its users make.
Config == [max_blocks_per_run : Nat, time_limit : BOOLEAN, incremental : BOOLEAN, batch_size : Nat, dry_run : BOOLEAN,
           callers : [Collectors -> SUBSET {"scheduler", "application"}], holds : SUBSET Holds]

ASSUME GcAssumption == Configs \subseteq Config

VARIABLES store,    \* the blocks in the store
          config,
          cancelled,\* the cancel flag
          running,  \* the scheduler's flag
          gc,       \* [Collectors -> the run in progress]
          since,    \* history: [Collectors -> blocks held without a break since its run began]
          revived   \* history: runs cut short whose cancellation somebody took back

gcVars == <<store, config, cancelled, running, gc, since, revived>>
vars == <<pinVars, faults, gcVars>>

\* unread is what list_pins has not reached, cids what is left of the sweep's
\* listing, cut says that marking stopped early and ended
\* that the sweep's loop is over.
Resting == [pc |-> "idle", by |-> "application", unread |-> {}, marked |-> {}, to_process |-> {}, cids |-> {},
            to_delete |-> {}, batch_count |-> 0, collected |-> 0, ended |-> FALSE, cut |-> FALSE]

TypeOK ==
    /\ PinsTypeOK
    /\ store \subseteq Cids /\ config \in Configs
    /\ cancelled \in BOOLEAN /\ running \in BOOLEAN
    /\ gc \in [Collectors -> [pc : {"idle", "list", "mark", "check", "sweep", "delete"}, by : {"scheduler", "application"},
                              unread : SUBSET Cids, marked : SUBSET Cids, to_process : SUBSET Cids, cids : SUBSET Cids,
                              to_delete : SUBSET Cids, batch_count : Nat, collected : Nat,
                              ended : BOOLEAN, cut : BOOLEAN]]
    /\ since \in [Collectors -> SUBSET Cids] /\ revived \subseteq Collectors
    /\ \A g \in Collectors : config.dry_run => gc[g].to_delete = {}

Init ==
    /\ PinsInit
    /\ store = Cids /\ config \in Configs
    /\ cancelled = FALSE /\ running = FALSE
    /\ gc = [g \in Collectors |-> Resting]
    /\ since = [g \in Collectors |-> {}] /\ revived = {}

-----------------------------------------------------------------------------

\* A user puts a block, stops the runs in progress, or takes that back.
put(c) == c \notin store /\ store' = store \cup {c} /\ UNCHANGED <<pinVars, faults, config, cancelled, running, gc, since, revived>>
cancel == ~cancelled /\ cancelled' = TRUE /\ UNCHANGED <<pinVars, faults, store, config, running, gc, since, revived>>

\* The flag belongs to all runs: whoever resets it does so for each of them.
ResetFlag == cancelled' = FALSE /\ revived' = revived \cup {g \in Collectors : gc[g].cut}
reset_cancel == cancelled /\ ResetFlag /\ UNCHANGED <<pinVars, faults, store, config, running, gc, since>>

\* Pinning and unpinning, and what it does to the blocks held since a run began.
Users_Next ==
    /\ PinNext /\ \A c \in Cids : holders'[c] \subseteq config.holds
    /\ since' = [g \in Collectors |-> {c \in since[g] : holders'[c] # {}}]
    /\ UNCHANGED <<store, config, cancelled, running, gc, revived>>

-----------------------------------------------------------------------------

At(g, pc) == gc[g].pc = pc
GoTo(g, run) == gc' = [gc EXCEPT ![g] = run]

\* The compare_exchange of maybe_run.
MayRun(by) == by = "scheduler" => ~running

\* collect, called by the application or, one at a time, by maybe_run.
collect(g, by) ==
    /\ At(g, "idle")
    /\ by \in config.callers[g]
    /\ MayRun(by)
    /\ running' = (running \/ by = "scheduler")
    /\ ResetFlag
    /\ GoTo(g, [Resting EXCEPT !.pc = "list", !.by = by, !.unread = Cids])
    /\ since' = [since EXCEPT ![g] = {c \in Cids : holders[c] # {}}]
    /\ UNCHANGED <<pinVars, faults, store, config>>

\* The run is over; what it collected is in its result.
Over(g, collected) ==
    /\ GoTo(g, [Resting EXCEPT !.collected = collected])
    /\ since' = [since EXCEPT ![g] = {}]
    /\ revived' = revived \ {g}

\* collect returns, in order or with an error, and maybe_run gives its flag back.
finish(g, collected) == Over(g, collected) /\ running' = (running /\ gc[g].by # "scheduler")

\* The caller drops the future at one of its awaits, or the resolver or the store
\* panics: nothing of the run is left but the flag of maybe_run.
dropped(g) ==
    /\ gc[g].pc \in {"mark", "sweep", "delete"}
    /\ Over(g, 0) /\ Fault
    /\ UNCHANGED <<pinVars, store, config, cancelled, running>>

\* Mutant: indirect pins are left to the traversal.
MarksRoots(c) == {d \in {c} : Pinned(d) /\ pins[d].pin_type \in {"Direct", "Recursive"}}

\* list_pins: what the entry of a block says when the iterator reaches it.
Marks(c) == IF Pinned(c) THEN {c} ELSE {}
Roots(c) == {d \in Marks(c) : pins[d].pin_type \in {"Direct", "Recursive"}}

list_pins(g) ==
    /\ At(g, "list")
    /\ \E c \in gc[g].unread :
         GoTo(g, [gc[g] EXCEPT !.unread = @ \ {c}, !.marked = @ \cup Marks(c), !.to_process = @ \cup Roots(c),
                               !.pc = IF gc[g].unread = {c} THEN "mark" ELSE "list"])
    /\ UNCHANGED <<pinVars, faults, store, config, cancelled, running, since, revived>>

\* One turn of the marking loop: it ends when nothing is left or the run is
\* cancelled; links that cannot be resolved are passed over.
mark_phase(g) ==
    /\ At(g, "mark")
    /\ IF cancelled \/ gc[g].to_process = {}
       THEN GoTo(g, [gc[g] EXCEPT !.pc = "check", !.cut = gc[g].to_process # {}, !.to_process = {}]) /\ NoFault
       ELSE \E c \in gc[g].to_process :
              LET new == Links[c] \ gc[g].marked IN
              \/ GoTo(g, [gc[g] EXCEPT !.marked = @ \cup new, !.to_process = (@ \ {c}) \cup new]) /\ NoFault
              \/ new # {} /\ GoTo(g, [gc[g] EXCEPT !.to_process = @ \ {c}]) /\ Fault
    /\ UNCHANGED <<pinVars, store, config, cancelled, running, since, revived>>

\* Mutant: only the time limit is looked at.
should_stop_time(stop) == stop => config.time_limit

\* should_stop: cancelled, or the time limit has passed, which may be any time.
should_stop(stop) == IF cancelled THEN stop ELSE stop => config.time_limit

\* Between the phases: the run ends, or the sweep lists the store, which may fail.
check(g) ==
    /\ At(g, "check")
    /\ \E stop \in BOOLEAN :
         /\ should_stop(stop)
         /\ \/ stop /\ finish(g, gc[g].collected) /\ NoFault
            \/ ~stop /\ finish(g, gc[g].collected) /\ Fault
            \/ /\ ~stop /\ NoFault
               /\ GoTo(g, [gc[g] EXCEPT !.pc = "sweep", !.cids = store])
               /\ UNCHANGED <<running, since, revived>>
    /\ UNCHANGED <<pinVars, store, config, cancelled>>

\* Mutant: one block too early.
LimitEarly(g) == config.max_blocks_per_run > 0 /\ gc[g].collected + 1 >= config.max_blocks_per_run

\* The limit counts what has been deleted, not what waits in to_delete.
LimitReached(g) == config.max_blocks_per_run > 0 /\ gc[g].collected >= config.max_blocks_per_run

\* The sweep takes the next block: what is not marked waits for deletion, or is
\* only counted in a dry run.  A full batch of an incremental run is deleted.
sweep_block(g) ==
    \E c \in gc[g].cids :
        LET run == [gc[g] EXCEPT !.cids = @ \ {c}]
            doomed == [run EXCEPT !.to_delete = IF config.dry_run THEN @ ELSE @ \cup {c},
                                  !.collected = IF config.dry_run THEN @ + 1 ELSE @,
                                  !.batch_count = @ + 1]
            full == config.incremental /\ doomed.batch_count >= config.batch_size
        IN  GoTo(g, IF c \in gc[g].marked THEN run
                    ELSE IF full THEN [doomed EXCEPT !.batch_count = 0, !.pc = IF config.dry_run THEN "sweep" ELSE "delete"]
                    ELSE doomed)

\* The loop is over or broken off: what waits for deletion is deleted all the same.
sweep_end(g) ==
    IF gc[g].to_delete = {} THEN finish(g, gc[g].collected)
    ELSE GoTo(g, [gc[g] EXCEPT !.pc = "delete", !.ended = TRUE]) /\ UNCHANGED <<running, since, revived>>

sweep_phase(g) ==
    /\ At(g, "sweep")
    /\ \E stop \in BOOLEAN :
         /\ should_stop(stop)
         /\ IF gc[g].cids = {} \/ stop \/ LimitReached(g)
            THEN sweep_end(g)
            ELSE sweep_block(g) /\ UNCHANGED <<running, since, revived>>
    /\ UNCHANGED <<pinVars, faults, store, config, cancelled>>

\* One block of delete_batch; a deletion that fails is recorded and passed over.
delete_batch(g) ==
    /\ At(g, "delete")
    /\ \E c \in gc[g].to_delete :
         LET run == [gc[g] EXCEPT !.to_delete = @ \ {c}]
             Next_(r) == IF r.to_delete # {} THEN GoTo(g, r) /\ UNCHANGED <<running, since, revived>>
                         ELSE IF r.ended THEN finish(g, r.collected)
                         ELSE GoTo(g, [r EXCEPT !.pc = "sweep"]) /\ UNCHANGED <<running, since, revived>>
         IN  \/ store' = store \ {c} /\ Next_([run EXCEPT !.collected = @ + 1]) /\ NoFault
             \/ UNCHANGED store /\ Next_(run) /\ Fault
    /\ UNCHANGED <<pinVars, config, cancelled>>

GcStep(g) == list_pins(g) \/ mark_phase(g) \/ check(g) \/ sweep_phase(g) \/ delete_batch(g)

Next ==
    \/ Users_Next
    \/ \E c \in Cids : put(c)
    \/ cancel \/ reset_cancel
    \/ \E g \in Collectors : (\E by \in config.callers[g] : collect(g, by)) \/ GcStep(g) \/ dropped(g)

Spec == Init /\ [][Next]_vars

\* Runs and calls go on; the policy wants a run again and again.
FairSpec ==
    /\ Spec
    /\ \A u \in Users : WF_vars(PinStep(u) /\ Users_Next)
    /\ \A g \in Collectors : WF_vars(GcStep(g)) /\ WF_vars(collect(g, "scheduler"))

-----------------------------------------------------------------------------

\* A block that somebody has held since before a run began is never deleted by
\* that run, whatever is cancelled, fails or overlaps: every block of a
\* recursive pin has an entry of its own.  (gc.rs, mark_phase and sweep_phase
\* against pinning.rs, pin_recursive)
NothingHeldIsDoomed == \A g \in Collectors : gc[g].to_delete \cap since[g] = {}

\* A run whose marking was cut short goes on to the sweep, with blocks that are
\* reachable and not marked, only if somebody took the cancellation back between
\* the loop's look at the flag and should_stop: reset_cancel, or a second collect,
\* which begins with it.  (gc.rs, collect and mark_phase)
CutShortNeverSweeps ==
    \A g \in Collectors : gc[g].cut /\ g \notin revived => gc[g].pc \notin {"sweep", "delete"}

\* The same whatever others do: what the caller of cancel is told of a run.
CutShortStops == \A g \in Collectors : gc[g].cut => gc[g].pc \notin {"sweep", "delete"}

\* GcConfig: at most max_blocks_per_run blocks in a run.
LimitHolds ==
    \A g \in Collectors : config.max_blocks_per_run > 0 => gc[g].collected <= config.max_blocks_per_run

\* c is in every set of blocks that holds d and, with a block, its links.
Reaches(d, c) == \A S \in SUBSET Cids : d \in S /\ (\A e \in S : Links[e] \subseteq S) => c \in S
Garbage(c) == \A d \in Cids : Pinned(d) => ~Reaches(d, c)

\* From some time on nobody puts a block or cancels a run.
Quiet == <>[][~cancel /\ \A c \in Cids : ~put(c)]_vars

\* The flag of maybe_run is set and no run of the scheduler will clear it.
Wedged == running /\ \A g \in Collectors : gc[g].pc # "idle" => gc[g].by # "scheduler"

\* A block that stays unreachable from every pin is collected in the end, by
\* runs that have no time limit and really delete, however few blocks a run
\* may take.  One thing keeps it: a run of the scheduler that was dropped, whose
\* flag nobody clears.  (gc.rs, GcScheduler over collect)
GarbageIsCollected ==
    config.time_limit \/ config.dry_run
        \/ \A c \in Cids : Quiet /\ <>[]Garbage(c) => <>[](c \notin store) \/ <>[]Wedged

\* The flag stands for a run in progress, whatever becomes of it.  (gc.rs, maybe_run)
FlagHasRun == ~Wedged

=============================================================================
