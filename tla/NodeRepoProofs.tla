--------------------------- MODULE NodeRepoProofs ---------------------------
(***************************************************************************)
(* Proofs about the node's pins and collections, for any graph of blocks   *)
(* and any number of tasks.  The inductive invariant is the one of a       *)
(* tracing collector: what has been marked and visited, and has been       *)
(* stored all along, has its links marked.                                 *)
(***************************************************************************)
EXTENDS NodeRepo, TLAPS

-----------------------------------------------------------------------------
(* The pin index alone: its two facts are inductive as they stand, since a  *)
(* call changes both copies of the indirect pins or neither.                *)

\* The inductive invariant of the index.
PinInv == PinTypeOK /\ IndirectAccounted

\* A new index is empty in both copies.
LEMMA NewPinInv == new => PinInv
BY DEF new, PinInv, PinTypeOK, PinType, IndirectAccounted

\* Adding dependencies of one root adds them to both copies.
LEMMA AddPinInv ==
    ASSUME PinInv, NEW root \in Cid, NEW cids \in SUBSET Cid,
           add_indirect_many(root, cids)
    PROVE  PinInv'
<1>1. PinTypeOK'
  BY DEF PinInv, PinTypeOK, add_indirect_many
<1>2. recursive_deps'[root] = recursive_deps[root] \cup cids
  BY DEF PinInv, PinTypeOK, add_indirect_many
<1>3. \A r \in Cid \ {root} : recursive_deps'[r] = recursive_deps[r]
  BY DEF PinInv, PinTypeOK, add_indirect_many
<1>4. \A d : d \in indirect_pins' <=> \E r \in Cid : d \in recursive_deps'[r]
  BY <1>2, <1>3 DEF PinInv, IndirectAccounted, add_indirect_many
<1> QED
  BY <1>1, <1>4 DEF PinInv, IndirectAccounted

\* A single dependency is a set of one.
LEMMA AddOnePinInv ==
    ASSUME PinInv, NEW root \in Cid, NEW c \in Cid, add_indirect(root, c)
    PROVE  PinInv'
<1>1. add_indirect_many(root, {c})
  BY DEF add_indirect, add_indirect_many
<1> QED
  BY <1>1, AddPinInv

\* unpin takes out of the set exactly what no root lists any longer.
LEMMA UnpinPinInv ==
    ASSUME PinInv, NEW c \in Cid, unpin(c)
    PROVE  PinInv'
<1>1. PinTypeOK'
  BY DEF PinInv, PinTypeOK, unpin
<1>2. IndirectAccounted'
  <2>1. CASE pins[c] = "Recursive"
    <3>1. /\ recursive_deps' = [recursive_deps EXCEPT ![c] = {}]
          /\ indirect_pins' = indirect_pins \ (recursive_deps[c] \ StillNeeded(c))
      BY <2>1 DEF unpin
    <3>2. recursive_deps'[c] = {}
      BY <3>1 DEF PinInv, PinTypeOK
    <3>3. \A r \in Cid \ {c} : recursive_deps'[r] = recursive_deps[r]
      BY <3>1 DEF PinInv, PinTypeOK
    <3>4. \A d : d \in indirect_pins' <=> \E r \in Cid : d \in recursive_deps'[r]
      BY <3>1, <3>2, <3>3 DEF PinInv, IndirectAccounted, StillNeeded
    <3> QED
      BY <3>4 DEF IndirectAccounted
  <2>2. CASE pins[c] = "Direct"
    BY <2>2 DEF unpin, PinInv, IndirectAccounted
  <2> QED
    BY <2>1, <2>2 DEF unpin
<1> QED
  BY <1>1, <1>2 DEF PinInv

\* The calls that replace roots touch neither copy.
LEMMA RootsPinInv ==
    ASSUME PinInv, pins' \in [Cid -> PinType \cup {"None"}],
           UNCHANGED <<indirect_pins, recursive_deps>>
    PROVE  PinInv'
BY DEF PinInv, PinTypeOK, IndirectAccounted

\* clear empties both copies.
LEMMA ClearPinInv == ASSUME clear PROVE PinInv'
BY DEF clear, PinInv, PinTypeOK, PinType, IndirectAccounted

\* Every call preserves the invariant.
LEMMA PinNextInv == PinInv /\ [PinNext]_pinVars => PinInv'
<1> SUFFICES ASSUME PinInv, [PinNext]_pinVars PROVE PinInv'
  OBVIOUS
<1>1. ASSUME NEW c \in Cid, NEW pin_type \in PinType, pin(c, pin_type) PROVE PinInv'
  <2>1. pins' \in [Cid -> PinType \cup {"None"}]
    BY <1>1 DEF pin, PinInv, PinTypeOK
  <2> QED
    BY <1>1, <2>1, RootsPinInv DEF pin
<1>2. ASSUME NEW root \in Cid, NEW c \in Cid, add_indirect(root, c) PROVE PinInv'
  BY <1>2, AddOnePinInv
<1>3. ASSUME NEW root \in Cid, NEW cids \in SUBSET Cid, add_indirect_many(root, cids)
      PROVE PinInv'
  BY <1>3, AddPinInv
<1>4. ASSUME NEW c \in Cid, unpin(c) PROVE PinInv'
  BY <1>4, UnpinPinInv
<1>5. ASSUME NEW saved \in [Cid -> PinType \cup {"None"}], load(saved) PROVE PinInv'
  BY <1>5, RootsPinInv DEF load
<1>6. CASE clear
  BY <1>6, ClearPinInv
<1>7. CASE UNCHANGED pinVars
  BY <1>7 DEF pinVars, PinInv, PinTypeOK, IndirectAccounted
<1> QED
  BY <1>1, <1>2, <1>3, <1>4, <1>5, <1>6, <1>7 DEF PinNext

\* However the calls of the pin index are mixed, its indirect pins are exactly
\* the blocks some root lists: unpin never drops a block that another root
\* shares and never leaves one that no root lists.
THEOREM PinsAccounted == PinSpec => []IndirectAccounted
<1>1. PinInv => IndirectAccounted
  BY DEF PinInv
<1> QED
  BY <1>1, NewPinInv, PinNextInv, PTL DEF PinSpec

-----------------------------------------------------------------------------
(* The node *)

\* What a collection g knows of the roots R it listed that are still pinned
\* and of the blocks K stored since it began.
MarkInv(g, R, K) ==
    /\ g.to_visit \subseteq g.reachable
    /\ g.pc # "idle" => R \subseteq g.reachable /\ g.reachable \subseteq Reach(g.listed, Cid)
    /\ (g.pc # "idle" /\ g.kind = "repo_gc") =>
           \A c \in (g.reachable \ g.to_visit) \cap K : Links[c] \subseteq g.reachable
    /\ g.pc \in {"sweep", "delete"} =>
           g.to_visit = {} /\ g.all_cids \cap g.reachable = {}
    /\ g.pc = "delete" => g.cid \notin g.reachable
    /\ (g.pc = "sweep" /\ g.kind = "repo_gc" /\ ~g.dry_run /\ g.max = 0) =>
           K \subseteq g.reachable \cup g.all_cids
    /\ (g.pc = "delete" /\ g.kind = "repo_gc" /\ ~g.dry_run /\ g.max = 0) =>
           K \subseteq g.reachable \cup g.all_cids \cup {g.cid}

\* The blocks a collection has seen all along are stored.
KeptStored == \A t \in Collector : kept[t] \subseteq blocks

\* A pin_add in progress has a root.
RootsKnown == \A t \in Pinner : padd[t].pc # "idle" => padd[t].root \in Cid

\* The inductive invariant, without RootsKnown.
RepoInv ==
    /\ TypeOK
    /\ IndirectAccounted
    /\ KeptStored
    /\ \A t \in Collector : MarkInv(gc[t], roots[t], kept[t])

-----------------------------------------------------------------------------
(* Reachability *)

\* A set that holds the roots and the links of its stored members holds
\* everything that can be reached.
LEMMA ReachLeast ==
    ASSUME NEW from, NEW through, NEW S \in SUBSET Cid,
           from \subseteq S, \A c \in S \cap through : Links[c] \subseteq S
    PROVE  Reach(from, through) \subseteq S
BY DEF Reach, Closed

\* The roots are reachable.
LEMMA ReachFrom ==
    ASSUME NEW from \in SUBSET Cid, NEW through
    PROVE  from \subseteq Reach(from, through)
BY DEF Reach

\* The links of a reachable block are reachable.
LEMMA ReachLinks ==
    ASSUME NEW from, NEW c \in Reach(from, Cid)
    PROVE  Links[c] \subseteq Reach(from, Cid)
<1>1. c \in Cid /\ Links[c] \subseteq Cid
  BY LinksAssumption DEF Reach
<1>2. SUFFICES ASSUME NEW l \in Links[c], NEW S \in SUBSET Cid,
                      from \subseteq S, Closed(S, Cid)
               PROVE  l \in S
  BY <1>1 DEF Reach
<1>3. c \in S
  BY <1>2 DEF Reach
<1> QED
  BY <1>1, <1>2, <1>3 DEF Closed

-----------------------------------------------------------------------------
(* MarkInv *)

\* A task without a collection has nothing to keep.
LEMMA MarkIdle ==
    ASSUME NEW R, NEW K
    PROVE  MarkInv(NoCollect, R, K)
BY DEF MarkInv, NoCollect

\* Unpinned roots and deleted blocks only weaken what is asked.
LEMMA MarkMonotone ==
    ASSUME NEW g, NEW R, NEW K, NEW R2 \in SUBSET R, NEW K2 \in SUBSET K, MarkInv(g, R, K)
    PROVE  MarkInv(g, R2, K2)
BY DEF MarkInv

\* The properties follow from the invariant.
LEMMA RepoInvProperties == RepoInv => SweepSparesStableDag /\ GarbageIsSwept
<1> SUFFICES ASSUME RepoInv PROVE SweepSparesStableDag /\ GarbageIsSwept
  OBVIOUS
<1>1. ASSUME NEW t \in Collector, gc[t].pc = "delete"
      PROVE  gc[t].cid \notin Reach(roots[t], IF gc[t].kind = "repo_gc" THEN kept[t] ELSE {})
  <2>1. /\ gc[t].reachable \in SUBSET Cid /\ roots[t] \subseteq gc[t].reachable
        /\ gc[t].to_visit = {} /\ gc[t].cid \notin gc[t].reachable
    BY <1>1 DEF RepoInv, MarkInv, TypeOK, Collect
  <2>2. CASE gc[t].kind = "repo_gc"
    <3>1. \A c \in gc[t].reachable \cap kept[t] : Links[c] \subseteq gc[t].reachable
      BY <1>1, <2>1, <2>2 DEF RepoInv, MarkInv
    <3> QED
      BY <2>1, <2>2, <3>1, ReachLeast
  <2>3. CASE gc[t].kind # "repo_gc"
    BY <2>1, <2>3, ReachLeast
  <2> QED
    BY <2>2, <2>3
<1>2. ASSUME NEW t \in Collector,
             gc[t].kind = "repo_gc", gc[t].pc = "sweep", gc[t].all_cids = {},
             ~gc[t].dry_run, gc[t].max = 0
      PROVE  kept[t] \subseteq Reach(gc[t].listed, Cid)
  BY <1>2 DEF RepoInv, MarkInv
<1> QED
  BY <1>1, <1>2 DEF SweepSparesStableDag, GarbageIsSwept

-----------------------------------------------------------------------------
(* The initial state *)

\* An empty node with no call in progress satisfies the invariant.
LEMMA InitRepoInv == Init => RepoInv
<1> SUFFICES ASSUME Init PROVE RepoInv
  OBVIOUS
<1>1. NoPinAdd \in PinAdd
  BY DEF NoPinAdd, PinAdd
<1>2. NoCollect \in Collect
  BY DEF NoCollect, Collect
<1>3. NoRemove \in Remove /\ NoIo \in Io
  BY DEF NoRemove, Remove, NoIo, Io, NoPins, PinMap
<1>4. PinTypeOK
  BY NewPinInv DEF Init, PinInv
<1>5. TypeOK
  BY <1>1, <1>2, <1>3, <1>4, LimitAssumption DEF Init, TypeOK, NoPins, PinMap
<1> QED
  BY <1>5, MarkIdle, NewPinInv DEF Init, RepoInv, KeptStored, PinInv

-----------------------------------------------------------------------------
(* The collector's own steps *)

\* What is left to show of a step once the stepping collection is known to
\* keep its part of the invariant.
LEMMA CollectorKeeps ==
    ASSUME RepoInv, TypeOK', KeptStored', UNCHANGED pinVars, NEW t \in Collector,
           MarkInv(gc'[t], roots'[t], kept'[t]),
           \A u \in Collector \ {t} : /\ gc'[u] = gc[u]
                                      /\ roots'[u] \subseteq roots[u]
                                      /\ kept'[u] \subseteq kept[u]
    PROVE  RepoInv'
<1>1. IndirectAccounted'
  BY DEF RepoInv, IndirectAccounted, pinVars
<1> QED
  BY <1>1, MarkMonotone DEF RepoInv

\* A step of any other task leaves the collections alone.
LEMMA OthersKeep ==
    ASSUME RepoInv, TypeOK', PinInv', KeptStored', gc' = gc,
           \A u \in Collector : roots'[u] \subseteq roots[u] /\ kept'[u] \subseteq kept[u]
    PROVE  RepoInv'
BY MarkMonotone DEF RepoInv, PinInv

\* A collection that changes nothing but itself keeps the types.
LEMMA CollectorTypes ==
    ASSUME TypeOK, gc' \in [Collector -> Collect], gcFrame, UNCHANGED <<storeVars, kept>>
    PROVE  TypeOK'
BY DEF TypeOK, PinTypeOK, gcFrame, storeVars, pinVars

\* One field of a collection is updated within its type.
LEMMA CollectUpdate ==
    ASSUME NEW G \in [Collector -> Collect], NEW t \in Collector
    PROVE  /\ \A v \in {"idle", "mark", "sweep", "delete"} :
                 [G EXCEPT ![t].pc = v] \in [Collector -> Collect]
           /\ \A v \in SUBSET Cid : [G EXCEPT ![t].all_cids = v] \in [Collector -> Collect]
           /\ \A v \in Cid \cup {NoCid} : [G EXCEPT ![t].cid = v] \in [Collector -> Collect]
           /\ \A v \in Nat : [G EXCEPT ![t].collected = v] \in [Collector -> Collect]
<1>1. ASSUME NEW v \in {"idle", "mark", "sweep", "delete"}
      PROVE  [G EXCEPT ![t].pc = v] \in [Collector -> Collect]
  <2>1. G[t] \in Collect
    OBVIOUS
  <2>2. [G[t] EXCEPT !.pc = v] \in Collect
    BY <2>1 DEF Collect
  <2> QED
    BY <2>2
<1>2. ASSUME NEW v \in SUBSET Cid PROVE [G EXCEPT ![t].all_cids = v] \in [Collector -> Collect]
  <2>1. G[t] \in Collect
    OBVIOUS
  <2>2. [G[t] EXCEPT !.all_cids = v] \in Collect
    BY <2>1 DEF Collect
  <2> QED
    BY <2>2
<1>3. ASSUME NEW v \in Cid \cup {NoCid} PROVE [G EXCEPT ![t].cid = v] \in [Collector -> Collect]
  <2>1. G[t] \in Collect
    OBVIOUS
  <2>2. [G[t] EXCEPT !.cid = v] \in Collect
    BY <2>1 DEF Collect
  <2> QED
    BY <2>2
<1>4. ASSUME NEW v \in Nat PROVE [G EXCEPT ![t].collected = v] \in [Collector -> Collect]
  <2>1. G[t] \in Collect
    OBVIOUS
  <2>2. [G[t] EXCEPT !.collected = v] \in Collect
    BY <2>1 DEF Collect
  <2> QED
    BY <2>2
<1> QED
  BY <1>1, <1>2, <1>3, <1>4

\* Marking a block and adding its links.
LEMMA MarkReachable ==
    ASSUME RepoInv, NEW t \in Collector, NEW c \in Cid, mark_reachable(t, c)
    PROVE  RepoInv'
<1> DEFINE g == gc[t]
           added == NewLinks(t, c)
<1>1. g \in Collect /\ added \in SUBSET Cid
  BY LinksAssumption DEF RepoInv, TypeOK, NewLinks
<1>2. gc' \in [Collector -> Collect]
  BY <1>1 DEF RepoInv, TypeOK, Collect, mark_reachable
<1>3. /\ gc'[t].reachable = g.reachable \cup added
      /\ gc'[t].to_visit = (g.to_visit \ {c}) \cup added
  BY DEF RepoInv, TypeOK, Collect, mark_reachable
<1>4. /\ gc'[t].pc = "mark" /\ gc'[t].kind = g.kind /\ gc'[t].listed = g.listed
      /\ g.pc = "mark" /\ c \in g.to_visit
  BY DEF RepoInv, TypeOK, Collect, mark_reachable
<1>5. \A u \in Collector \ {t} : gc'[u] = gc[u]
  BY DEF RepoInv, TypeOK, mark_reachable
<1>6. TypeOK'
  BY <1>2, CollectorTypes DEF RepoInv, mark_reachable
<1>7. roots' = roots /\ kept' = kept /\ blocks' = blocks /\ UNCHANGED pinVars
  BY DEF mark_reachable, gcFrame, storeVars
<1>8. MarkInv(gc'[t], roots'[t], kept'[t])
  <2>1. kept[t] \subseteq blocks /\ MarkInv(g, roots[t], kept[t])
    BY DEF RepoInv, KeptStored
  <2>2. c \in kept[t] => Links[c] \subseteq g.reachable \cup added
    BY <2>1 DEF NewLinks
  <2>3. added \subseteq Reach(g.listed, Cid)
    BY <1>4, <2>1, ReachLinks DEF NewLinks, MarkInv
  <2> HIDE DEF added
  <2> QED
    BY <1>3, <1>4, <1>7, <2>1, <2>2, <2>3 DEF MarkInv
<1> QED
  BY <1>5, <1>6, <1>7, <1>8, CollectorKeeps DEF RepoInv, KeptStored

\* The end of the mark: what is listed for the sweep is not marked.
LEMMA ListCids ==
    ASSUME RepoInv, NEW t \in Collector, list_cids(t)
    PROVE  RepoInv'
<1> DEFINE g == gc[t]
<1>0. blocks \ gc[t].reachable \in SUBSET Cid
  BY DEF RepoInv, TypeOK
<1>a. [gc EXCEPT ![t].pc = "sweep"] \in [Collector -> Collect]
  BY CollectUpdate DEF RepoInv, TypeOK
<1>b. [[gc EXCEPT ![t].pc = "sweep"] EXCEPT ![t].all_cids = blocks \ gc[t].reachable]
          \in [Collector -> Collect]
  BY <1>0, <1>a, CollectUpdate
<1>1. gc' \in [Collector -> Collect]
  BY <1>b DEF list_cids
<1>2. /\ gc'[t].reachable = g.reachable /\ gc'[t].to_visit = {} /\ g.to_visit = {}
      /\ gc'[t].all_cids = blocks \ g.reachable
  BY DEF RepoInv, TypeOK, Collect, list_cids
<1>3. /\ gc'[t].pc = "sweep" /\ gc'[t].kind = g.kind /\ gc'[t].listed = g.listed
      /\ g.pc = "mark"
  BY DEF RepoInv, TypeOK, Collect, list_cids
<1>4. \A u \in Collector \ {t} : gc'[u] = gc[u]
  BY DEF RepoInv, TypeOK, list_cids
<1>5. TypeOK'
  BY <1>1, CollectorTypes DEF RepoInv, list_cids
<1>6. roots' = roots /\ kept' = kept /\ blocks' = blocks /\ UNCHANGED pinVars
  BY DEF list_cids, gcFrame, storeVars
<1>7. MarkInv(gc'[t], roots'[t], kept'[t])
  BY <1>2, <1>3, <1>6 DEF RepoInv, KeptStored, MarkInv
<1> QED
  BY <1>4, <1>5, <1>6, <1>7, CollectorKeeps DEF RepoInv, KeptStored

\* The three outcomes of looking at a listed block.
LEMMA SweepGet ==
    ASSUME RepoInv, NEW t \in Collector, NEW c \in Cid, sweep_get(t, c)
    PROVE  RepoInv'
<1> DEFINE g == gc[t]
<1>0. /\ g \in Collect /\ kept[t] \subseteq blocks /\ MarkInv(g, roots[t], kept[t])
      /\ g.pc = "sweep" /\ c \in g.all_cids
  BY DEF RepoInv, TypeOK, KeptStored, sweep_get
<1>a. gc[t].all_cids \ {c} \in SUBSET Cid
  BY <1>0 DEF Collect
<1>1. roots' = roots /\ kept' = kept /\ blocks' = blocks /\ UNCHANGED pinVars
  BY DEF sweep_get, gcFrame, storeVars
<1>2. \A u \in Collector \ {t} : gc'[u] = gc[u]
  BY DEF RepoInv, TypeOK, sweep_get
<1>3. gc' \in [Collector -> Collect] /\ MarkInv(gc'[t], roots[t], kept[t])
  <2>1. CASE gc' = [gc EXCEPT ![t].pc = "delete", ![t].cid = c, ![t].all_cids = @ \ {c}]
    <3>a. [gc EXCEPT ![t].pc = "delete"] \in [Collector -> Collect]
      BY CollectUpdate DEF RepoInv, TypeOK
    <3>b. [[gc EXCEPT ![t].pc = "delete"] EXCEPT ![t].cid = c] \in [Collector -> Collect]
      BY <3>a, CollectUpdate
    <3>c. [[[gc EXCEPT ![t].pc = "delete"] EXCEPT ![t].cid = c]
              EXCEPT ![t].all_cids = gc[t].all_cids \ {c}] \in [Collector -> Collect]
      BY <1>a, <3>b, CollectUpdate
    <3>1. gc' \in [Collector -> Collect]
      BY <2>1, <3>c
    <3>2. /\ gc'[t].pc = "delete" /\ gc'[t].cid = c /\ gc'[t].all_cids = g.all_cids \ {c}
          /\ gc'[t].reachable = g.reachable /\ gc'[t].to_visit = g.to_visit
          /\ gc'[t].listed = g.listed /\ gc'[t].kind = g.kind
          /\ gc'[t].dry_run = g.dry_run /\ gc'[t].max = g.max
      BY <2>1 DEF RepoInv, TypeOK, Collect
    <3> QED
      BY <1>0, <3>1, <3>2 DEF MarkInv
  <2>2. CASE /\ gc[t].dry_run
             /\ gc' = [gc EXCEPT ![t].collected = Counted(t), ![t].all_cids = @ \ {c}]
    <3>0. Counted(t) \in Nat
      BY <1>0 DEF Counted, Collect
    <3>a. [gc EXCEPT ![t].collected = Counted(t)] \in [Collector -> Collect]
      BY <3>0, CollectUpdate DEF RepoInv, TypeOK
    <3>b. [[gc EXCEPT ![t].collected = Counted(t)]
              EXCEPT ![t].all_cids = gc[t].all_cids \ {c}] \in [Collector -> Collect]
      BY <1>a, <3>a, CollectUpdate
    <3>1. gc' \in [Collector -> Collect]
      BY <2>2, <3>b
    <3>2. /\ gc'[t].pc = g.pc /\ gc'[t].all_cids = g.all_cids \ {c}
          /\ gc'[t].reachable = g.reachable /\ gc'[t].to_visit = g.to_visit
          /\ gc'[t].listed = g.listed /\ gc'[t].kind = g.kind
          /\ gc'[t].dry_run = g.dry_run
      <4>1. gc'[t] = [g EXCEPT !.collected = Counted(t), !.all_cids = @ \ {c}]
        BY <2>2 DEF RepoInv, TypeOK
      <4>2. QED
        BY <1>0, <4>1 DEF Collect
    <3> QED
      BY <1>0, <2>2, <3>1, <3>2 DEF MarkInv
  <2>3. CASE c \notin blocks /\ gc' = [gc EXCEPT ![t].all_cids = @ \ {c}]
    <3>1. gc' \in [Collector -> Collect]
      BY <1>a, <2>3, CollectUpdate DEF RepoInv, TypeOK
    <3>2. /\ gc'[t].pc = g.pc /\ gc'[t].all_cids = g.all_cids \ {c}
          /\ gc'[t].reachable = g.reachable /\ gc'[t].to_visit = g.to_visit
          /\ gc'[t].listed = g.listed /\ gc'[t].kind = g.kind
          /\ gc'[t].dry_run = g.dry_run /\ gc'[t].max = g.max
      <4>1. gc'[t] = [g EXCEPT !.all_cids = @ \ {c}]
        BY <2>3 DEF RepoInv, TypeOK
      <4>2. QED
        BY <1>0, <4>1 DEF Collect
    <3> QED
      BY <1>0, <2>3, <3>1, <3>2 DEF MarkInv
  <2> QED
    BY <2>1, <2>2, <2>3 DEF sweep_get
<1>4. TypeOK'
  BY <1>3, CollectorTypes DEF RepoInv, sweep_get
<1> QED
  BY <1>1, <1>2, <1>3, <1>4, CollectorKeeps DEF RepoInv, KeptStored

\* BlockStore::delete in any task: types and histories follow.
LEMMA DeleteTypes ==
    ASSUME TypeOK, KeptStored, NEW c, delete(c)
    PROVE  /\ blocks' \in SUBSET Cid
           /\ snapshot_pins' \in SUBSET Cid
           /\ file' \in [state : {"absent", "torn", "whole"}, pins : PinMap]
           /\ kept' \in [Pinner \cup Collector -> SUBSET Cid]
           /\ \A u \in Collector : kept'[u] = kept[u] \ {c}
           /\ KeptStored'
BY DEF TypeOK, KeptStored, delete

\* Deleting the chosen block.
LEMMA SweepDelete ==
    ASSUME RepoInv, NEW t \in Collector, sweep_delete(t)
    PROVE  RepoInv'
<1> DEFINE g == gc[t]
<1>0. /\ g \in Collect /\ MarkInv(g, roots[t], kept[t]) /\ g.pc = "delete"
      /\ TypeOK /\ KeptStored
  BY DEF RepoInv, TypeOK, sweep_delete
<1>1. roots' = roots /\ delete(g.cid) /\ gcFrame /\ UNCHANGED pinVars
  BY DEF sweep_delete, gcFrame
<1>2. /\ KeptStored' /\ kept' \in [Pinner \cup Collector -> SUBSET Cid]
      /\ \A u \in Collector : kept'[u] = kept[u] \ {g.cid}
  BY <1>0, <1>1, DeleteTypes
<1>3. Counted(t) \in Nat
  BY <1>0 DEF Counted, Collect
<1>4. gc' \in [Collector -> Collect]
  <2>1. [gc EXCEPT ![t].pc = "sweep"] \in [Collector -> Collect]
    BY <1>0, CollectUpdate DEF TypeOK
  <2>2. [[gc EXCEPT ![t].pc = "sweep"] EXCEPT ![t].cid = NoCid] \in [Collector -> Collect]
    BY <2>1, CollectUpdate
  <2>3. [[[gc EXCEPT ![t].pc = "sweep"] EXCEPT ![t].cid = NoCid]
            EXCEPT ![t].collected = Counted(t)] \in [Collector -> Collect]
    BY <1>3, <2>2, CollectUpdate
  <2> QED
    BY <2>3 DEF sweep_delete
<1>5. /\ gc'[t].pc = "sweep" /\ gc'[t].all_cids = g.all_cids
      /\ gc'[t].reachable = g.reachable /\ gc'[t].to_visit = g.to_visit
      /\ gc'[t].listed = g.listed /\ gc'[t].kind = g.kind
      /\ gc'[t].dry_run = g.dry_run /\ gc'[t].max = g.max
  BY DEF RepoInv, TypeOK, Collect, sweep_delete
<1>6. \A u \in Collector \ {t} : gc'[u] = gc[u]
  BY DEF RepoInv, TypeOK, sweep_delete
<1>7. TypeOK'
  <2>1. /\ blocks' \in SUBSET Cid
        /\ snapshot_pins' \in SUBSET Cid
        /\ file' \in [state : {"absent", "torn", "whole"}, pins : PinMap]
    BY <1>0, <1>1, DeleteTypes
  <2> QED
    BY <1>0, <1>1, <1>2, <1>4, <2>1 DEF TypeOK, PinTypeOK, gcFrame, pinVars
<1>8. MarkInv(gc'[t], roots'[t], kept'[t])
  BY <1>0, <1>1, <1>2, <1>5 DEF MarkInv
<1> QED
  BY <1>1, <1>2, <1>6, <1>7, <1>8, CollectorKeeps

\* The end of a collection, good or bad.
LEMMA CollectEnds ==
    ASSUME RepoInv, NEW t \in Collector, gc' = [gc EXCEPT ![t] = NoCollect],
           gcFrame, UNCHANGED <<storeVars, kept>>
    PROVE  RepoInv'
<1>1. NoCollect \in Collect
  BY DEF NoCollect, Collect
<1>2. gc' \in [Collector -> Collect] /\ gc'[t] = NoCollect
  BY <1>1 DEF RepoInv, TypeOK
<1>3. TypeOK'
  BY <1>2, CollectorTypes DEF RepoInv
<1>4. roots' = roots /\ kept' = kept /\ blocks' = blocks /\ UNCHANGED pinVars
  BY DEF gcFrame, storeVars
<1>5. MarkInv(gc'[t], roots'[t], kept'[t])
  BY <1>2, MarkIdle
<1>6. \A u \in Collector \ {t} : gc'[u] = gc[u]
  BY DEF RepoInv, TypeOK
<1> QED
  BY <1>3, <1>4, <1>5, <1>6, CollectorKeeps DEF RepoInv, KeptStored

\* An error ends a repo_gc; a gc_blocks goes on with the next block.
LEMMA CollectFails ==
    ASSUME RepoInv, NEW t \in Collector, collect_fails(t)
    PROVE  RepoInv'
<1>1. CASE gc' = [gc EXCEPT ![t] = NoCollect]
  BY <1>1, CollectEnds DEF collect_fails
<1>2. CASE /\ gc[t].kind = "gc_blocks" /\ gc[t].pc = "delete"
           /\ gc' = [gc EXCEPT ![t].pc = "sweep", ![t].cid = NoCid]
  <2> DEFINE g == gc[t]
  <2>1. gc' \in [Collector -> Collect]
    <3>1. [gc EXCEPT ![t].pc = "sweep"] \in [Collector -> Collect]
      BY CollectUpdate DEF RepoInv, TypeOK
    <3>2. [[gc EXCEPT ![t].pc = "sweep"] EXCEPT ![t].cid = NoCid] \in [Collector -> Collect]
      BY <3>1, CollectUpdate
    <3> QED
      BY <1>2, <3>2
  <2>2. /\ gc'[t].pc = "sweep" /\ gc'[t].all_cids = g.all_cids
        /\ gc'[t].reachable = g.reachable /\ gc'[t].to_visit = g.to_visit
        /\ gc'[t].listed = g.listed /\ gc'[t].kind = "gc_blocks"
    BY <1>2 DEF RepoInv, TypeOK, Collect
  <2>3. \A u \in Collector \ {t} : gc'[u] = gc[u]
    BY <1>2 DEF RepoInv, TypeOK
  <2>4. TypeOK'
    BY <2>1, CollectorTypes DEF RepoInv, collect_fails
  <2>5. roots' = roots /\ kept' = kept /\ blocks' = blocks /\ UNCHANGED pinVars
    BY DEF collect_fails, gcFrame, storeVars
  <2>6. MarkInv(gc'[t], roots'[t], kept'[t])
    BY <1>2, <2>2, <2>5 DEF RepoInv, MarkInv
  <2> QED
    BY <2>3, <2>4, <2>5, <2>6, CollectorKeeps DEF RepoInv, KeptStored
<1> QED
  BY <1>1, <1>2 DEF collect_fails

\* The start of a collection: the roots are listed, the history begins.
LEMMA CollectBegins ==
    ASSUME RepoInv, NEW t \in Collector, NEW g \in Collect,
           gc' = [gc EXCEPT ![t] = g],
           g.pc = "mark", g.reachable = list, g.to_visit \subseteq list, g.listed = list,
           g.kind = "repo_gc" => g.to_visit = list,
           roots' = [roots EXCEPT ![t] = list],
           kept' = [kept EXCEPT ![t] = blocks],
           UNCHANGED <<pinVars, storeVars, padd, rm, io, restarts, acked, complete, held, exposed>>
    PROVE  RepoInv'
<1>1. list \in SUBSET Cid
  BY DEF list
<1>2. /\ gc' \in [Collector -> Collect] /\ gc'[t] = g
      /\ \A u \in Collector \ {t} : gc'[u] = gc[u]
  BY DEF RepoInv, TypeOK
<1>3. /\ roots' \in [Collector -> SUBSET Cid] /\ roots'[t] = list
      /\ \A u \in Collector \ {t} : roots'[u] = roots[u]
  BY <1>1 DEF RepoInv, TypeOK
<1>4. /\ kept' \in [Pinner \cup Collector -> SUBSET Cid] /\ kept'[t] = blocks
      /\ \A u \in Collector \ {t} : kept'[u] = kept[u]
  BY DEF RepoInv, TypeOK
<1>5. TypeOK'
  BY <1>2, <1>3, <1>4 DEF RepoInv, TypeOK, PinTypeOK, pinVars, storeVars
<1>6. KeptStored'
  BY <1>4 DEF RepoInv, KeptStored, storeVars
<1>7. MarkInv(gc'[t], roots'[t], kept'[t])
  BY <1>1, <1>2, <1>3, ReachFrom DEF MarkInv
<1> QED
  BY <1>2, <1>3, <1>4, <1>5, <1>6, <1>7, CollectorKeeps

\* repo_gc marks from the roots it lists.
LEMMA RepoGc ==
    ASSUME RepoInv, NEW t \in Collector, NEW dry_run \in BOOLEAN, NEW max \in Limit,
           repo_gc(t, dry_run, max)
    PROVE  RepoInv'
<1> DEFINE g == Begun("repo_gc", dry_run, max, list)
<1>1. list \in SUBSET Cid
  BY DEF list
<1>2. g \in Collect
  BY <1>1 DEF Begun, Collect
<1>3. /\ g.pc = "mark" /\ g.reachable = list /\ g.to_visit = list /\ g.listed = list
  BY DEF Begun
<1>4. gc' = [gc EXCEPT ![t] = g]
  BY DEF repo_gc
<1> HIDE DEF g
<1> QED
  BY <1>2, <1>3, <1>4, CollectBegins DEF repo_gc

\* gc_blocks takes the roots for the whole of what is reachable.
LEMMA GcBlocks ==
    ASSUME RepoInv, NEW t \in Collector, NEW dry_run \in BOOLEAN, gc_blocks(t, dry_run)
    PROVE  RepoInv'
<1> DEFINE g == Begun("gc_blocks", dry_run, 0, {})
<1>1. list \in SUBSET Cid
  BY DEF list
<1>2. g \in Collect
  BY <1>1 DEF Begun, Collect
<1>3. /\ g.pc = "mark" /\ g.reachable = list /\ g.to_visit = {} /\ g.listed = list
      /\ g.kind = "gc_blocks"
  BY DEF Begun
<1>4. gc' = [gc EXCEPT ![t] = g]
  BY DEF gc_blocks
<1> HIDE DEF g
<1> QED
  BY <1>2, <1>3, <1>4, CollectBegins DEF gc_blocks

-----------------------------------------------------------------------------
(* The steps of the other tasks *)

\* One field of a pin_add is updated within its type.
LEMMA PinAddUpdate ==
    ASSUME NEW P \in [Pinner -> PinAdd], NEW t \in Pinner
    PROVE  /\ \A v \in {"idle", "pin", "visit", "link"} :
                 [P EXCEPT ![t].pc = v] \in [Pinner -> PinAdd]
           /\ \A v \in SUBSET Cid : [P EXCEPT ![t].to_visit = v] \in [Pinner -> PinAdd]
           /\ \A v \in SUBSET Cid : [P EXCEPT ![t].visited = v] \in [Pinner -> PinAdd]
           /\ \A v \in SUBSET Cid : [P EXCEPT ![t].links = v] \in [Pinner -> PinAdd]
<1>0. P[t] \in PinAdd
  OBVIOUS
<1>1. ASSUME NEW v \in {"idle", "pin", "visit", "link"}
      PROVE  [P EXCEPT ![t].pc = v] \in [Pinner -> PinAdd]
  <2>1. [P[t] EXCEPT !.pc = v] \in PinAdd
    BY <1>0 DEF PinAdd
  <2> QED
    BY <2>1
<1>2. \A v \in SUBSET Cid : [P EXCEPT ![t].to_visit = v] \in [Pinner -> PinAdd]
  BY DEF PinAdd
<1>3. \A v \in SUBSET Cid : [P EXCEPT ![t].visited = v] \in [Pinner -> PinAdd]
  BY DEF PinAdd
<1>4. \A v \in SUBSET Cid : [P EXCEPT ![t].links = v] \in [Pinner -> PinAdd]
  BY DEF PinAdd
<1> QED
  BY <1>1, <1>2, <1>3, <1>4

\* A call of the pin index, or none, keeps the facts about it.
LEMMA PinStep == ASSUME RepoInv, [PinNext]_pinVars PROVE PinInv'
BY PinNextInv DEF RepoInv, TypeOK, PinInv

\* Steps that leave the collections and their histories alone.
LEMMA QuietStep ==
    ASSUME RepoInv, TypeOK', [PinNext]_pinVars, UNCHANGED <<gc, roots, kept>>,
           blocks \subseteq blocks'
    PROVE  RepoInv'
<1>1. KeptStored'
  BY DEF RepoInv, KeptStored
<1> QED
  BY <1>1, PinStep, OthersKeep

\* Steps of the block store.
LEMMA StoreSteps ==
    ASSUME RepoInv, NEW c \in Cid, put_block(c) \/ delete_block(c)
    PROVE  RepoInv'
<1>1. CASE put_block(c)
  <2>1. TypeOK'
    BY <1>1 DEF put_block, RepoInv, TypeOK, PinTypeOK, pinVars, taskVars, histVars
  <2> QED
    BY <1>1, <2>1, QuietStep DEF put_block, taskVars, histVars
<1>2. CASE delete_block(c)
  <2>1. /\ blocks' \in SUBSET Cid
        /\ snapshot_pins' \in SUBSET Cid
        /\ file' \in [state : {"absent", "torn", "whole"}, pins : PinMap]
        /\ kept' \in [Pinner \cup Collector -> SUBSET Cid]
        /\ \A u \in Collector : kept'[u] = kept[u] \ {c}
        /\ KeptStored'
    BY <1>2, DeleteTypes DEF delete_block, RepoInv
  <2>2. TypeOK'
    BY <1>2, <2>1 DEF delete_block, RepoInv, TypeOK, PinTypeOK, pinVars, taskVars
  <2>3. PinInv'
    BY <1>2, PinStep DEF delete_block
  <2>4. gc' = gc /\ roots' = roots
    BY <1>2 DEF delete_block, taskVars
  <2> QED
    BY <2>1, <2>2, <2>3, <2>4, OthersKeep
<1> QED
  BY <1>1, <1>2

\* The start of a pin_add.
LEMMA PinAddBegins ==
    ASSUME RepoInv, NEW t \in Pinner, NEW c \in Cid, NEW recursive \in BOOLEAN,
           pin_add(t, c, recursive)
    PROVE  RepoInv'
<1> DEFINE p == [pc |-> "pin", root |-> c, recursive |-> recursive,
                 to_visit |-> {}, visited |-> {}, links |-> {}]
<1>1. p \in PinAdd
  BY DEF PinAdd
<1>2. padd' = [padd EXCEPT ![t] = p]
  BY DEF pin_add
<1> HIDE DEF p
<1>3. padd' \in [Pinner -> PinAdd]
  BY <1>1, <1>2 DEF RepoInv, TypeOK
<1>4. TypeOK'
  BY <1>3 DEF pin_add, RepoInv, TypeOK, PinTypeOK, pinVars, storeVars, histVars
<1> QED
  BY <1>4, QuietStep DEF pin_add, storeVars, histVars

\* The pin of the root.
LEMMA PinAddPin ==
    ASSUME RepoInv, NEW t \in Pinner, padd[t].root \in Cid, pin_add_pin(t)
    PROVE  RepoInv'
<1> DEFINE c == padd[t].root
<1>0. padd \in [Pinner -> PinAdd] /\ NoPinAdd \in PinAdd
  BY DEF RepoInv, TypeOK, NoPinAdd, PinAdd
<1>1. padd' \in [Pinner -> PinAdd]
  <2>1. CASE padd' = [padd EXCEPT ![t].pc = "visit", ![t].to_visit = {c}]
    <3>1. [padd EXCEPT ![t].pc = "visit"] \in [Pinner -> PinAdd] /\ {c} \in SUBSET Cid
      BY <1>0, PinAddUpdate
    <3>2. [[padd EXCEPT ![t].pc = "visit"] EXCEPT ![t].to_visit = {c}] \in [Pinner -> PinAdd]
      BY <3>1, PinAddUpdate
    <3> QED
      BY <2>1, <3>2
  <2>2. CASE padd' = [padd EXCEPT ![t] = NoPinAdd]
    BY <1>0, <2>2
  <2> QED
    BY <2>1, <2>2 DEF pin_add_pin
<1>2. PinNext
  BY DEF pin_add_pin, PinNext, PinType
<1>3. PinInv'
  BY <1>2, PinStep
<1>4. /\ kept' \in [Pinner \cup Collector -> SUBSET Cid]
      /\ \A u \in Collector : kept'[u] = kept[u]
  BY TaskAssumption DEF pin_add_pin, RepoInv, TypeOK
<1>5. acked' \in SUBSET Cid /\ complete' \in SUBSET Cid /\ held' \in SUBSET Pinner /\ exposed' \in SUBSET Cid
  BY DEF pin_add_pin, RepoInv, TypeOK
<1>6. UNCHANGED <<storeVars, gc, rm, io, restarts, roots>>
  BY DEF pin_add_pin
<1>7. TypeOK'
  BY <1>1, <1>3, <1>4, <1>5, <1>6 DEF RepoInv, TypeOK, PinInv, storeVars
<1>8. KeptStored'
  BY <1>4, <1>6 DEF RepoInv, KeptStored, storeVars
<1> QED
  BY <1>3, <1>4, <1>6, <1>7, <1>8, OthersKeep

\* A visit of the walk.
LEMMA MarkVisit ==
    ASSUME RepoInv, NEW t \in Pinner, NEW c \in Cid, mark_visit(t, c)
    PROVE  RepoInv'
<1> DEFINE links == IF c \in blocks THEN Links[c] ELSE {}
           pc == IF c \in blocks /\ Links[c] # {} THEN "link" ELSE "visit"
<1>0. /\ padd[t].to_visit \ {c} \in SUBSET Cid /\ padd[t].visited \cup {c} \in SUBSET Cid
      /\ links \in SUBSET Cid /\ pc \in {"idle", "pin", "visit", "link"}
  BY LinksAssumption DEF RepoInv, TypeOK, PinAdd
<1>1. padd' \in [Pinner -> PinAdd]
  <2> DEFINE p1 == [padd EXCEPT ![t].to_visit = padd[t].to_visit \ {c}]
             p2 == [p1 EXCEPT ![t].visited = padd[t].visited \cup {c}]
             p3 == [p2 EXCEPT ![t].links = links]
             p4 == [p3 EXCEPT ![t].pc = pc]
  <2>a. padd' = p4
    BY DEF mark_visit
  <2> HIDE DEF links, pc
  <2>1. p1 \in [Pinner -> PinAdd]
    BY <1>0, PinAddUpdate DEF RepoInv, TypeOK
  <2> HIDE DEF p1
  <2>2. p2 \in [Pinner -> PinAdd]
    BY <1>0, <2>1, PinAddUpdate
  <2> HIDE DEF p2
  <2>3. p3 \in [Pinner -> PinAdd]
    BY <1>0, <2>2, PinAddUpdate
  <2> HIDE DEF p3
  <2>4. p4 \in [Pinner -> PinAdd]
    BY <1>0, <2>3, PinAddUpdate
  <2> QED
    BY <2>a, <2>4
<1>2. TypeOK'
  BY <1>1 DEF mark_visit, RepoInv, TypeOK, PinTypeOK, pinVars, storeVars, histVars
<1> QED
  BY <1>2, QuietStep DEF mark_visit, storeVars, histVars

\* One link of the walk.
LEMMA MarkLink ==
    ASSUME RepoInv, NEW t \in Pinner, NEW l \in Cid, padd[t].root \in Cid, mark_link(t, l)
    PROVE  RepoInv'
<1> DEFINE pc == IF padd[t].links = {l} THEN "visit" ELSE "link"
<1>0. /\ padd[t].links \ {l} \in SUBSET Cid
      /\ padd[t].to_visit \cup ({l} \ padd[t].visited) \in SUBSET Cid
      /\ pc \in {"idle", "pin", "visit", "link"}
  BY DEF RepoInv, TypeOK, PinAdd
<1>1. padd' \in [Pinner -> PinAdd]
  <2> DEFINE p1 == [padd EXCEPT ![t].links = padd[t].links \ {l}]
             p2 == [p1 EXCEPT ![t].to_visit = padd[t].to_visit \cup ({l} \ padd[t].visited)]
             p3 == [p2 EXCEPT ![t].pc = pc]
  <2>a. padd' = p3
    BY DEF mark_link
  <2> HIDE DEF pc
  <2>1. p1 \in [Pinner -> PinAdd]
    BY <1>0, PinAddUpdate DEF RepoInv, TypeOK
  <2> HIDE DEF p1
  <2>2. p2 \in [Pinner -> PinAdd]
    BY <1>0, <2>1, PinAddUpdate
  <2> HIDE DEF p2
  <2>3. p3 \in [Pinner -> PinAdd]
    BY <1>0, <2>2, PinAddUpdate
  <2> QED
    BY <2>a, <2>3
<1>2. PinNext
  BY DEF mark_link, PinNext
<1>3. PinInv'
  BY <1>2, PinStep
<1>4. TypeOK'
  BY <1>1, <1>3 DEF mark_link, RepoInv, TypeOK, PinInv, storeVars, histVars
<1> QED
  BY <1>2, <1>4, QuietStep DEF mark_link, storeVars, histVars

\* The end of a pin_add, good or bad.
LEMMA PinAddEnds ==
    ASSUME RepoInv, NEW t \in Pinner, padd[t].root \in Cid,
           pin_add_done(t) \/ pin_add_fails(t)
    PROVE  RepoInv'
<1>0. NoPinAdd \in PinAdd
  BY DEF NoPinAdd, PinAdd
<1>1. padd' \in [Pinner -> PinAdd]
  BY <1>0 DEF pin_add_done, pin_add_fails, RepoInv, TypeOK
<1>2. acked' \in SUBSET Cid /\ complete' \in SUBSET Cid /\ held' \in SUBSET Pinner /\ exposed' \in SUBSET Cid
  BY DEF pin_add_done, pin_add_fails, RepoInv, TypeOK
<1>3. UNCHANGED <<pinVars, storeVars, gc, rm, io, restarts, roots, kept>>
  BY DEF pin_add_done, pin_add_fails
<1>4. TypeOK'
  BY <1>1, <1>2, <1>3 DEF RepoInv, TypeOK, PinTypeOK, pinVars, storeVars
<1> QED
  BY <1>3, <1>4, QuietStep DEF storeVars

\* Taking a pin back.
LEMMA PinRm ==
    ASSUME RepoInv, NEW c \in Cid, pin_rm(c)
    PROVE  RepoInv'
<1>1. PinNext /\ UNCHANGED <<storeVars, taskVars, kept>>
  BY DEF pin_rm, PinNext
<1>2. PinInv'
  BY <1>1, PinStep
<1>3. /\ roots' \in [Collector -> SUBSET Cid]
      /\ \A u \in Collector : roots'[u] \subseteq roots[u]
  BY DEF pin_rm, RepoInv, TypeOK
<1>4. acked' \in SUBSET Cid /\ complete' \in SUBSET Cid /\ held' \in SUBSET Pinner /\ exposed' \in SUBSET Cid
  BY DEF pin_rm, RepoInv, TypeOK
<1>5. TypeOK'
  BY <1>1, <1>2, <1>3, <1>4 DEF RepoInv, TypeOK, PinInv, storeVars, taskVars
<1>6. KeptStored'
  BY <1>1 DEF RepoInv, KeptStored, storeVars
<1> QED
  BY <1>1, <1>2, <1>3, <1>5, <1>6, OthersKeep DEF taskVars

\* block_rm looks the pin up.
LEMMA BlockRm ==
    ASSUME RepoInv, NEW t \in Remover, NEW c \in Cid, block_rm(t, c)
    PROVE  RepoInv'
<1>1. [pc |-> "delete", cid |-> c] \in Remove
  BY DEF Remove
<1>2. rm' \in [Remover -> Remove]
  BY <1>1 DEF block_rm, RepoInv, TypeOK
<1>3. TypeOK'
  BY <1>2 DEF block_rm, RepoInv, TypeOK, PinTypeOK, pinVars, storeVars, histVars
<1> QED
  BY <1>3, QuietStep DEF block_rm, storeVars, histVars

\* Then it deletes the block.
LEMMA BlockRmDelete ==
    ASSUME RepoInv, NEW t \in Remover, block_rm_delete(t)
    PROVE  RepoInv'
<1>1. NoRemove \in Remove
  BY DEF NoRemove, Remove
<1>2. rm' \in [Remover -> Remove]
  BY <1>1 DEF block_rm_delete, RepoInv, TypeOK
<1>3. /\ blocks' \in SUBSET Cid
      /\ snapshot_pins' \in SUBSET Cid
      /\ file' \in [state : {"absent", "torn", "whole"}, pins : PinMap]
      /\ kept' \in [Pinner \cup Collector -> SUBSET Cid]
      /\ \A u \in Collector : kept'[u] = kept[u] \ {rm[t].cid}
      /\ KeptStored'
  BY DeleteTypes DEF block_rm_delete, RepoInv
<1>4. TypeOK'
  BY <1>2, <1>3 DEF block_rm_delete, RepoInv, TypeOK, PinTypeOK, pinVars
<1>5. PinInv'
  BY PinStep DEF block_rm_delete
<1>6. gc' = gc /\ roots' = roots
  BY DEF block_rm_delete
<1> QED
  BY <1>3, <1>4, <1>5, <1>6, OthersKeep

\* Saving the index: a copy, an empty file, a full file.
LEMMA SaveSteps ==
    ASSUME RepoInv, NEW t \in Saver, pin_save(t) \/ save_truncate(t) \/ save_write(t)
    PROVE  RepoInv'
<1>0. /\ NoIo \in Io /\ NoPins \in PinMap /\ io[t].pins \in PinMap
      /\ [pc |-> "truncate", pins |-> pins] \in Io
  BY DEF NoIo, Io, NoPins, PinMap, RepoInv, TypeOK, PinTypeOK
<1>1. [io EXCEPT ![t].pc = "write"] \in [Saver -> Io]
  BY DEF RepoInv, TypeOK, Io
<1>2. io' \in [Saver -> Io]
  BY <1>0, <1>1 DEF pin_save, save_truncate, save_write, RepoInv, TypeOK
<1>3. file' \in [state : {"absent", "torn", "whole"}, pins : PinMap]
  BY <1>0 DEF pin_save, save_truncate, save_write, RepoInv, TypeOK, storeVars
<1>4. UNCHANGED <<pinVars, blocks, snapshot_pins, padd, gc, rm, restarts, histVars>>
  BY DEF pin_save, save_truncate, save_write, storeVars
<1>5. TypeOK'
  BY <1>2, <1>3, <1>4 DEF RepoInv, TypeOK, PinTypeOK, pinVars, histVars
<1> QED
  BY <1>4, <1>5, QuietStep DEF histVars

\* Loading the index: the file is read, then the roots are replaced.
LEMMA LoadSteps ==
    ASSUME RepoInv, NEW t \in Saver, pin_load(t) \/ load_apply(t)
    PROVE  RepoInv'
<1>0. /\ NoIo \in Io /\ io[t].pins \in PinMap
      /\ [pc |-> "apply", pins |-> file.pins] \in Io
  BY DEF NoIo, Io, NoPins, PinMap, RepoInv, TypeOK
<1>1. io' \in [Saver -> Io]
  BY <1>0 DEF pin_load, load_apply, RepoInv, TypeOK
<1>2. CASE pin_load(t)
  <2>1. TypeOK'
    BY <1>1, <1>2 DEF pin_load, RepoInv, TypeOK, PinTypeOK, pinVars, storeVars, histVars
  <2> QED
    BY <1>2, <2>1, QuietStep DEF pin_load, storeVars, histVars
<1>3. CASE load_apply(t)
  <2>1. PinNext /\ UNCHANGED <<storeVars, padd, gc, rm, restarts, kept>>
    BY <1>0, <1>3 DEF load_apply, PinNext, PinMap
  <2>2. PinInv'
    BY <2>1, PinStep
  <2>3. /\ roots' \in [Collector -> SUBSET Cid]
        /\ \A u \in Collector : roots'[u] \subseteq roots[u]
    <3>1. PICK read \in SUBSET Cid : roots' = [u \in Collector |-> roots[u] \cap read]
      BY <1>3 DEF load_apply
    <3>2. roots \in [Collector -> SUBSET Cid]
      BY DEF RepoInv, TypeOK
    <3> QED
      BY <3>1, <3>2
  <2>4. acked' \in SUBSET Cid /\ complete' \in SUBSET Cid /\ held' \in SUBSET Pinner /\ exposed' \in SUBSET Cid
    BY <1>3 DEF load_apply, RepoInv, TypeOK
  <2>5. TypeOK'
    BY <1>1, <2>1, <2>2, <2>3, <2>4 DEF RepoInv, TypeOK, PinInv, storeVars
  <2>6. KeptStored'
    BY <2>1 DEF RepoInv, KeptStored, storeVars
  <2> QED
    BY <2>1, <2>2, <2>3, <2>5, <2>6, OthersKeep
<1> QED
  BY <1>2, <1>3

\* A stop and the next start.
LEMMA Restart ==
    ASSUME RepoInv, NEW snapshot \in BOOLEAN, NEW same \in BOOLEAN, restart(snapshot, same)
    PROVE  RepoInv'
<1>1. [PinNext]_pinVars
  BY DEF restart, PinNext
<1>2. PinInv'
  BY <1>1, PinStep
<1>3. restarts' \in 0 .. MaxRestarts /\ snapshot_pins' \in SUBSET Cid
  BY LimitAssumption DEF restart, RepoInv, TypeOK
<1>4. UNCHANGED <<blocks, file, padd, gc, rm, io, acked, complete, held, roots, kept>> /\ exposed' \in SUBSET Cid
  BY DEF restart, RepoInv, TypeOK
<1>5. TypeOK'
  BY <1>2, <1>3, <1>4 DEF RepoInv, TypeOK, PinInv
<1> QED
  BY <1>1, <1>4, <1>5, QuietStep

\* The process dies: no call is left, and the new index is empty.
LEMMA Crash ==
    ASSUME RepoInv, crash
    PROVE  RepoInv' /\ RootsKnown'
<1>1. PinInv'
  <2>1. [PinNext]_pinVars
    BY DEF crash, PinNext
  <2> QED
    BY <2>1, PinStep
<1>2. /\ NoPinAdd \in PinAdd /\ NoCollect \in Collect
      /\ NoRemove \in Remove /\ NoIo \in Io
  BY DEF NoPinAdd, PinAdd, NoCollect, Collect, NoRemove, Remove, NoIo, Io, NoPins, PinMap
<1>3. restarts' \in 0 .. MaxRestarts
  BY LimitAssumption DEF crash, RepoInv, TypeOK
<1>4. TypeOK'
  BY <1>1, <1>2, <1>3 DEF crash, RepoInv, TypeOK, PinInv, storeVars
<1>5. KeptStored'
  BY DEF crash, KeptStored
<1>6. \A t \in Collector : MarkInv(gc[t], roots[t], kept[t])'
  BY DEF crash, MarkInv, NoCollect
<1>7. RootsKnown'
  BY DEF crash, RootsKnown, NoPinAdd
<1> QED
  BY <1>1, <1>4, <1>5, <1>6, <1>7 DEF RepoInv, PinInv

\* Roots of walks in progress stay known.
LEMMA NextRootsKnown ==
    ASSUME RepoInv, RootsKnown, [Next]_vars
    PROVE  RootsKnown'
<1>0. padd \in [Pinner -> PinAdd]
  BY DEF RepoInv, TypeOK
<1>1. CASE padd' = padd
  BY <1>1 DEF RootsKnown
<1>2. ASSUME NEW t \in Pinner,
             \A u \in Pinner \ {t} : padd'[u] = padd[u],
             padd'[t].pc = "idle" \/ padd'[t].root \in Cid
      PROVE  RootsKnown'
  BY <1>2 DEF RootsKnown
<1>3. ASSUME NEW t \in Pinner, NEW c \in Cid, NEW recursive \in Recursive,
             pin_add(t, c, recursive)
      PROVE  RootsKnown'
  <2>1. padd'[t].root = c /\ \A u \in Pinner \ {t} : padd'[u] = padd[u]
    BY <1>0, <1>3 DEF pin_add
  <2> QED
    BY <1>2, <2>1
<1>4. ASSUME NEW t \in Pinner, PinnerStep(t) \/ pin_add_fails(t)
      PROVE  RootsKnown'
  <2>1. \A u \in Pinner \ {t} : padd'[u] = padd[u]
    BY <1>0, <1>4 DEF PinnerStep, pin_add_pin, mark_visit, mark_link, pin_add_done, pin_add_fails
  <2>2. padd[t].root \in Cid
    BY <1>4 DEF RootsKnown, PinnerStep, pin_add_pin, mark_visit, mark_link, pin_add_done,
                pin_add_fails
  <2>3. padd'[t] = NoPinAdd \/ padd'[t].root = padd[t].root
    <3>1. CASE pin_add_pin(t)
      BY <1>0, <3>1 DEF pin_add_pin, PinAdd
    <3>2. ASSUME NEW c \in Cid, mark_visit(t, c) PROVE padd'[t].root = padd[t].root
      BY <1>0, <3>2 DEF mark_visit, PinAdd
    <3>3. ASSUME NEW l \in Cid, mark_link(t, l) PROVE padd'[t].root = padd[t].root
      BY <1>0, <3>3 DEF mark_link, PinAdd
    <3>4. CASE pin_add_done(t) \/ pin_add_fails(t)
      BY <1>0, <3>4 DEF pin_add_done, pin_add_fails
    <3> QED
      BY <1>4, <3>1, <3>2, <3>3, <3>4 DEF PinnerStep
  <2> QED
    BY <1>2, <2>1, <2>2, <2>3 DEF NoPinAdd
<1>5. ASSUME ~\E t \in Pinner : \/ \E c \in Cid, r \in Recursive : pin_add(t, c, r)
                                \/ PinnerStep(t) \/ pin_add_fails(t),
             ~crash
      PROVE  padd' = padd
  BY <1>5 DEF Next, vars, put_block, delete_block, pin_rm, taskVars, repo_gc, gc_blocks,
              CollectorStep, mark_reachable, list_cids, sweep_get, sweep_delete, collect_done,
              collect_fails, gcFrame, block_rm, block_rm_delete, pin_save, pin_load, SaverStep,
              save_truncate, save_write, load_apply, restart
<1>6. CASE crash
  BY <1>6, Crash
<1> QED
  BY <1>1, <1>3, <1>4, <1>5, <1>6

\* Every step preserves the invariant.
LEMMA NextRepoInv ==
    ASSUME RepoInv, RootsKnown, [Next]_vars
    PROVE  RepoInv'
<1>1. ASSUME NEW c \in Cid, put_block(c) \/ delete_block(c) PROVE RepoInv'
  BY <1>1, StoreSteps
<1>2. ASSUME NEW c \in Cid, pin_rm(c) PROVE RepoInv'
  BY <1>2, PinRm
<1>4. ASSUME NEW t \in Pinner, NEW c \in Cid, NEW recursive \in Recursive,
             pin_add(t, c, recursive)
      PROVE  RepoInv'
  BY <1>4, PinAddBegins, KindAssumption
<1>5. ASSUME NEW t \in Pinner, PinnerStep(t) \/ pin_add_fails(t) PROVE RepoInv'
  <2>1. padd[t].root \in Cid
    BY <1>5 DEF RootsKnown, PinnerStep, pin_add_pin, mark_visit, mark_link, pin_add_done,
                pin_add_fails
  <2> QED
    BY <1>5, <2>1, PinAddPin, MarkVisit, MarkLink, PinAddEnds DEF PinnerStep
<1>6. ASSUME NEW t \in Collector, NEW dry_run \in BOOLEAN, NEW max \in Limit,
             repo_gc(t, dry_run, max)
      PROVE  RepoInv'
  BY <1>6, RepoGc
<1>7. ASSUME NEW t \in Collector, NEW dry_run \in BOOLEAN, gc_blocks(t, dry_run)
      PROVE  RepoInv'
  BY <1>7, GcBlocks
<1>8. ASSUME NEW t \in Collector, CollectorStep(t) \/ collect_fails(t) PROVE RepoInv'
  BY <1>8, MarkReachable, ListCids, SweepGet, SweepDelete, CollectEnds, CollectFails
     DEF CollectorStep, collect_done
<1>9. ASSUME NEW t \in Remover, NEW c \in Cid, block_rm(t, c) PROVE RepoInv'
  BY <1>9, BlockRm
<1>10. ASSUME NEW t \in Remover, block_rm_delete(t) PROVE RepoInv'
  BY <1>10, BlockRmDelete
<1>11. ASSUME NEW t \in Saver, pin_save(t) \/ pin_load(t) \/ SaverStep(t) PROVE RepoInv'
  BY <1>11, SaveSteps, LoadSteps DEF SaverStep
<1>12. ASSUME NEW snapshot \in BOOLEAN, NEW same \in BOOLEAN, restart(snapshot, same)
       PROVE  RepoInv'
  BY <1>12, Restart
<1>13. CASE crash
  BY <1>13, Crash
<1>14. CASE UNCHANGED vars
  <2>1. TypeOK'
    BY <1>14 DEF RepoInv, TypeOK, PinTypeOK, vars
  <2>2. UNCHANGED pinVars
    BY <1>14 DEF vars, pinVars
  <2> QED
    BY <1>14, <2>1, <2>2, QuietStep DEF vars
<1> QED
  BY <1>1, <1>2, <1>4, <1>5, <1>6, <1>7, <1>8, <1>9, <1>10, <1>11, <1>12, <1>13, <1>14
     DEF Next

-----------------------------------------------------------------------------
(* The theorems *)

\* The invariant holds in every reachable state.
THEOREM Invariance == Spec => [](RepoInv /\ RootsKnown)
<1>1. Init => RepoInv /\ RootsKnown
  <2>1. Init => RootsKnown
    BY DEF Init, RootsKnown, NoPinAdd
  <2> QED
    BY <2>1, InitRepoInv
<1>2. RepoInv /\ RootsKnown /\ [Next]_vars => (RepoInv /\ RootsKnown)'
  BY NextRepoInv, NextRootsKnown
<1> QED
  BY <1>1, <1>2, PTL DEF Spec

\* The node's state is well typed, for any graph, any tasks and any bounds.
THEOREM TypeCorrect == Spec => []TypeOK
<1>1. RepoInv => TypeOK
  BY DEF RepoInv
<1> QED
  BY <1>1, Invariance, PTL

\* Whatever pin_add, pin_rm, put and delete calls run beside it, a repo_gc
\* never picks a block that a root pinned since before the mark reaches through
\* blocks that stayed; a gc_blocks never picks such a root.
THEOREM StableDagSpared == Spec => []SweepSparesStableDag
BY Invariance, RepoInvProperties, PTL

\* A repo_gc without limit that has swept its list leaves no block that was
\* garbage from its start.
THEOREM NoFloatingGarbage == Spec => []GarbageIsSwept
BY Invariance, RepoInvProperties, PTL

\* Nothing on its way to a deletion has a pinned root that is not exposed in view.
SafeRoots == \A c \in list \ exposed : ~Threatened(c)

\* Steps that leave the pins alone and threaten no block they did not.
LEMMA NoNewThreat ==
    ASSUME TypeOK, SafeRoots, UNCHANGED pins, exposed \subseteq exposed',
           \A c \in list \ exposed' : Threatened(c)' => Threatened(c)
    PROVE  SafeRoots'
BY DEF SafeRoots, list

\* The same where one collection moves on, and all it may delete it might have
\* deleted before, or is no root.
LEMMA CollectorThreat ==
    ASSUME TypeOK, SafeRoots, NEW t \in Collector, \A u \in Collector \ {t} : gc'[u] = gc[u],
           UNCHANGED <<pins, rm, exposed>>,
           \A c \in list \ exposed :
               /\ c \in blocks'
               /\ gc'[t].pc = "mark" => c \in gc'[t].reachable
               /\ c \notin gc'[t].all_cids \cup {gc'[t].cid}
    PROVE  SafeRoots'
BY DEF SafeRoots, Threatened, list

LEMMA NextSafeRoots ==
    ASSUME RepoInv, RepoInv', RootsKnown, SafeRoots, [Next]_vars
    PROVE  SafeRoots'
<1>0. TypeOK /\ TypeOK'
  BY DEF RepoInv
<1>1. ASSUME UNCHANGED <<pins, rm, gc, exposed>>, blocks \subseteq blocks' PROVE SafeRoots'
  BY <1>0, <1>1, NoNewThreat DEF Threatened
<1>2. ASSUME NEW c \in Cid, put_block(c) \/ delete_block(c) \/ pin_rm(c) PROVE SafeRoots'
  <2>1. CASE put_block(c)
    BY <1>1, <2>1 DEF put_block, pinVars, taskVars, histVars
  <2>2. CASE delete_block(c)
    <3>1. UNCHANGED <<pins, rm, gc>> /\ blocks' = blocks \ {c} /\ exposed' = exposed \cup ({c} \cap list)
      BY <2>2 DEF delete_block, delete, pinVars, taskVars
    <3> QED
      BY <1>0, <3>1, NoNewThreat DEF Threatened
  <2>3. CASE pin_rm(c)
    BY <1>0, <2>3 DEF pin_rm, unpin, SafeRoots, Threatened, list, storeVars, taskVars, TypeOK, PinTypeOK
  <2> QED
    BY <1>2, <2>1, <2>2, <2>3
<1>3. ASSUME NEW t \in Pinner,
             (\E c \in Cid, recursive \in Recursive : pin_add(t, c, recursive)) \/ PinnerStep(t) \/ pin_add_fails(t)
      PROVE  SafeRoots'
  <2>1. CASE pin_add_pin(t)
    <3> DEFINE c == padd[t].root
    <3>1. /\ UNCHANGED <<blocks, gc, rm>> /\ exposed' = exposed \cup {d \in {c} : Threatened(d)}
          /\ \E type \in PinType : pins' = [pins EXCEPT ![c] = type]
      BY <2>1 DEF pin_add_pin, pin, PinType, storeVars
    <3> QED
      BY <1>0, <3>1 DEF SafeRoots, Threatened, list, TypeOK, PinTypeOK
  <2>2. CASE UNCHANGED <<pins, rm, gc, exposed, blocks>>
    BY <1>1, <2>2
  <2> QED
    BY <1>3, <2>1, <2>2 DEF pin_add, PinnerStep, mark_visit, mark_link, add_indirect, pin_add_done, pin_add_fails,
                            pinVars, storeVars, histVars
<1>4. ASSUME NEW t \in Collector,
             \/ \E dry_run \in BOOLEAN, max \in Limit : repo_gc(t, dry_run, max)
             \/ \E dry_run \in BOOLEAN : gc_blocks(t, dry_run)
             \/ CollectorStep(t) \/ collect_fails(t)
      PROVE  SafeRoots'
  <2>1. /\ UNCHANGED <<pins, rm, exposed>> /\ \A u \in Collector \ {t} : gc'[u] = gc[u]
        /\ gc[t] \in Collect /\ gc \in [Collector -> Collect] /\ NoCid \notin Cid /\ list \subseteq Cid
    BY <1>0, <1>4, LinksAssumption
       DEF TypeOK, list, repo_gc, gc_blocks, CollectorStep, collect_fails, mark_reachable, list_cids, sweep_get,
           sweep_delete, collect_done, gcFrame, pinVars
  <2>2. \A c \in list \ exposed : c \in Cid /\ ~Threatened(c)
    BY <2>1 DEF SafeRoots
  <2>3. CASE \/ \E dry_run \in BOOLEAN, max \in Limit : repo_gc(t, dry_run, max)
             \/ \E dry_run \in BOOLEAN : gc_blocks(t, dry_run)
    <3>1. blocks' = blocks /\ gc'[t].reachable = list /\ gc'[t].all_cids = {} /\ gc'[t].cid = NoCid
      BY <2>1, <2>3 DEF repo_gc, gc_blocks, Begun, storeVars
    <3> QED
      BY <1>0, <2>1, <2>2, <3>1, CollectorThreat DEF Threatened
  <2>4. CASE gc' = [gc EXCEPT ![t] = NoCollect] /\ blocks' = blocks
    <3>1. gc'[t].pc = "idle" /\ gc'[t].all_cids = {} /\ gc'[t].cid = NoCid
      BY <2>1, <2>4 DEF NoCollect
    <3> QED
      BY <1>0, <2>1, <2>2, <2>4, <3>1, CollectorThreat DEF Threatened
  <2>5. CASE \E c \in Cid : mark_reachable(t, c)
    <3>1. /\ blocks' = blocks /\ gc[t].pc = "mark" /\ gc[t].reachable \subseteq gc'[t].reachable
          /\ gc'[t].all_cids = gc[t].all_cids /\ gc'[t].cid = gc[t].cid
      BY <2>1, <2>5 DEF mark_reachable, Collect, storeVars
    <3> QED
      BY <1>0, <2>1, <2>2, <3>1, CollectorThreat DEF Threatened
  <2>6. CASE list_cids(t)
    <3>1. /\ blocks' = blocks /\ gc[t].pc = "mark" /\ gc'[t].pc = "sweep"
          /\ gc'[t].all_cids = blocks \ gc[t].reachable /\ gc'[t].cid = gc[t].cid
      BY <2>1, <2>6 DEF list_cids, Collect, storeVars
    <3> QED
      BY <1>0, <2>1, <2>2, <3>1, CollectorThreat DEF Threatened
  <2>7. CASE \E c \in Cid : sweep_get(t, c)
    <3>1. /\ blocks' = blocks /\ gc'[t].pc # "mark" /\ gc'[t].all_cids \subseteq gc[t].all_cids
          /\ gc'[t].cid \in gc[t].all_cids \cup {gc[t].cid}
      BY <2>1, <2>7 DEF sweep_get, Collect, storeVars
    <3> QED
      BY <1>0, <2>1, <2>2, <3>1, CollectorThreat DEF Threatened
  <2>8. CASE sweep_delete(t) \/ (gc' = [gc EXCEPT ![t].pc = "sweep", ![t].cid = NoCid] /\ blocks' = blocks)
    <3>1. /\ blocks \ {gc[t].cid} \subseteq blocks' /\ gc'[t].pc = "sweep" /\ gc'[t].all_cids = gc[t].all_cids
          /\ gc'[t].cid = NoCid
      BY <2>1, <2>8 DEF sweep_delete, delete, Collect
    <3> QED
      BY <1>0, <2>1, <2>2, <3>1, CollectorThreat DEF Threatened
  <2> QED
    BY <1>4, <2>3, <2>4, <2>5, <2>6, <2>7, <2>8 DEF CollectorStep, collect_fails, collect_done, storeVars
<1>5. ASSUME NEW t \in Remover, (\E c \in Cid : block_rm(t, c)) \/ block_rm_delete(t) PROVE SafeRoots'
  <2>1. CASE \E c \in Cid : block_rm(t, c)
    <3>1. PICK c \in Cid : block_rm(t, c)
      BY <2>1
    <3>2. /\ UNCHANGED <<pins, blocks, gc, exposed>> /\ c \notin list
          /\ rm' = [rm EXCEPT ![t] = [pc |-> "delete", cid |-> c]]
      BY <3>1 DEF block_rm, is_pinned, list, pinVars, storeVars, histVars
    <3> QED
      BY <1>0, <3>2, NoNewThreat DEF Threatened, TypeOK
  <2>2. CASE block_rm_delete(t)
    <3>1. /\ UNCHANGED <<pins, gc, exposed>> /\ rm[t].pc = "delete" /\ blocks' = blocks \ {rm[t].cid}
          /\ rm' = [rm EXCEPT ![t] = NoRemove]
      BY <2>2 DEF block_rm_delete, delete, pinVars
    <3> QED
      BY <1>0, <3>1, NoNewThreat DEF Threatened, TypeOK, NoRemove
  <2> QED
    BY <1>5, <2>1, <2>2
<1>6. ASSUME NEW t \in Saver, pin_save(t) \/ pin_load(t) \/ SaverStep(t) PROVE SafeRoots'
  <2>1. CASE load_apply(t)
    <3>1. PICK read \in SUBSET Cid :
            /\ pins' = [c \in Cid |-> IF c \in read THEN io[t].pins[c] ELSE "None"]
            /\ exposed' = {c \in read : c \in exposed \/ (c \notin list /\ Threatened(c))}
            /\ UNCHANGED <<blocks, gc, rm>>
      BY <2>1 DEF load_apply, load, storeVars
    <3>2. \A c \in Cid : Threatened(c)' <=> Threatened(c)
      BY <3>1 DEF Threatened
    <3>3. list' \subseteq read
      BY <3>1 DEF list
    <3> QED
      BY <3>1, <3>2, <3>3 DEF SafeRoots, list
  <2>2. CASE UNCHANGED <<pins, rm, gc, exposed, blocks>>
    BY <1>1, <2>2
  <2> QED
    BY <1>6, <2>1, <2>2 DEF pin_save, pin_load, SaverStep, save_truncate, save_write, pinVars, storeVars, histVars
<1>7. ASSUME NEW snapshot \in BOOLEAN, NEW same \in BOOLEAN, restart(snapshot, same) PROVE SafeRoots'
  <2>1. CASE UNCHANGED <<pins, exposed>>
    BY <1>1, <1>7, <2>1 DEF restart
  <2>2. CASE clear
    BY <2>2 DEF clear, SafeRoots, list
  <2> QED
    BY <1>7, <2>1, <2>2 DEF restart, pinVars
<1>8. CASE crash
  BY <1>8 DEF crash, clear, SafeRoots, list
<1>9. CASE UNCHANGED vars
  BY <1>1, <1>9 DEF vars
<1> QED
  BY <1>2, <1>3, <1>4, <1>5, <1>6, <1>7, <1>8, <1>9 DEF Next

\* A pinned root is lost only to a call that was past its look at the pins when
\* the root was pinned, or to whoever deletes it knowingly.
THEOREM PinnedRootsStay == Spec => []PinnedIsStored
<1>1. Init => SafeRoots
  BY DEF Init, new, SafeRoots, list
<1>2. SafeRoots => PinnedIsStored
  BY DEF SafeRoots, Threatened, PinnedIsStored
<1>3. (RepoInv /\ RootsKnown) /\ (RepoInv /\ RootsKnown)' /\ SafeRoots /\ [Next]_vars => SafeRoots'
  BY NextSafeRoots
<1> QED
  BY <1>1, <1>2, <1>3, Invariance, PTL DEF Spec

\* Walks, unpins, loads and restarts keep the two copies of the indirect pins
\* in step.
THEOREM IndirectPinsAccounted == Spec => []IndirectAccounted
<1>1. RepoInv => IndirectAccounted
  BY DEF RepoInv
<1> QED
  BY <1>1, Invariance, PTL


-----------------------------------------------------------------------------
(* Recursive pins.  A walk that nobody disturbs has listed under its root    *)
(* everything it has found; what it has visited, and has been stored all     *)
(* along, has its links found or still in hand.                              *)

Found(p) == p.visited \cup p.to_visit
Walking(p) == p.pc \in {"visit", "link"}

\* What a walk p knows of the blocks K stored since it began; D is what its
\* root lists, and undisturbed says that nobody touched that root since.
WalkInv(p, undisturbed, K, D) ==
    /\ p.pc = "pin" => p.visited = {} /\ p.links = {}
    /\ p.pc = "visit" => p.links = {}
    /\ (undisturbed /\ Walking(p)) =>
          /\ p.root \in Found(p)
          /\ Found(p) \ {p.root} \subseteq D
          /\ \A c \in p.visited \cap K : Links[c] \subseteq Found(p) \cup p.links

Covered(r) == Reach({r}, Cid) \ {r} \subseteq recursive_deps[r]

WalksInv ==
    \A t \in Pinner :
        /\ kept[t] \subseteq blocks
        /\ WalkInv(padd[t], t \in held, kept[t], recursive_deps[padd[t].root])

\* The second half is asked of a complete pin that is not in force only where
\* nothing can bring it back.
CoverInv ==
    /\ WalksInv
    /\ \A r \in complete : (pins[r] = "Recursive" \/ MaxRestarts = 0) => Covered(r)

\* A walk that finds nothing new stays sound when less is asked of it and its
\* root lists more.
LEMMA WalkMonotone ==
    ASSUME NEW p, NEW u \in BOOLEAN, NEW u2 \in BOOLEAN, NEW K, NEW K2, NEW D, NEW D2,
           WalkInv(p, u, K, D), u2 => u, K2 \subseteq K, (u2 /\ Walking(p)) => D \subseteq D2
    PROVE  WalkInv(p, u2, K2, D2)
BY DEF WalkInv

\* Steps that are not a walk's own.
LEMMA OthersWalk ==
    ASSUME TypeOK, TypeOK', WalksInv, padd' = padd,
           held' \subseteq held,
           \A t \in Pinner : kept'[t] \subseteq kept[t] /\ kept'[t] \subseteq blocks',
           \A t \in held' : Walking(padd[t]) =>
               recursive_deps[padd[t].root] \subseteq recursive_deps'[padd[t].root]
    PROVE  WalksInv'
<1> SUFFICES ASSUME NEW t \in Pinner
             PROVE  WalkInv(padd'[t], t \in held', kept'[t], recursive_deps'[padd'[t].root])
  BY DEF WalksInv
<1> DEFINE D == recursive_deps[padd[t].root]
           D2 == recursive_deps'[padd'[t].root]
           u == t \in held
           u2 == t \in held'
<1>1. WalkInv(padd[t], u, kept[t], D)
  BY DEF WalksInv
<1>2. (u2 => u) /\ u \in BOOLEAN /\ u2 \in BOOLEAN /\ kept'[t] \subseteq kept[t] /\ padd'[t] = padd[t]
  OBVIOUS
<1>3. (u2 /\ Walking(padd[t])) => D \subseteq D2
  OBVIOUS
<1> HIDE DEF D, D2, u, u2
<1>4. WalkInv(padd[t], u2, kept'[t], D2)
  BY <1>1, <1>2, <1>3, WalkMonotone
<1>5. QED
  BY <1>2, <1>4 DEF u2, D2

\* Steps that touch neither the index nor what the histories say of it.
LEMMA QuietCover ==
    ASSUME TypeOK, TypeOK', CoverInv, UNCHANGED <<pinVars, padd, held, complete>>,
           \A t \in Pinner : kept'[t] \subseteq kept[t] /\ kept'[t] \subseteq blocks'
    PROVE  CoverInv'
<1>1. recursive_deps' = recursive_deps /\ pins' = pins
  BY DEF pinVars
<1>2. WalksInv'
  BY <1>1, OthersWalk DEF CoverInv
<1>3. QED
  BY <1>1, <1>2 DEF CoverInv, Covered

\* BlockStore::delete, as the walks see it.
LEMMA DeleteKept ==
    ASSUME TypeOK, WalksInv, NEW c, delete(c)
    PROVE  \A t \in Pinner : kept'[t] \subseteq kept[t] /\ kept'[t] \subseteq blocks'
BY DEF TypeOK, WalksInv, delete

\* The store, the collections, the removals and the writes of the index.
LEMMA StoreCover ==
    ASSUME TypeOK, TypeOK', CoverInv,
           \/ \E c \in Cid : put_block(c) \/ delete_block(c)
           \/ \E t \in Remover, c \in Cid : block_rm(t, c)
           \/ \E t \in Remover : block_rm_delete(t)
           \/ \E t \in Saver : pin_save(t) \/ pin_load(t) \/ save_truncate(t) \/ save_write(t)
    PROVE  CoverInv'
<1>1. WalksInv
  BY DEF CoverInv
<1>2. UNCHANGED <<pinVars, padd, held, complete>>
  BY DEF put_block, delete_block, block_rm, block_rm_delete, pin_save, pin_load,
         save_truncate, save_write, taskVars, histVars
<1>3. \A t \in Pinner : kept'[t] \subseteq kept[t] /\ kept'[t] \subseteq blocks'
  <2>1. CASE \E c : delete(c)
    BY <1>1, <2>1, DeleteKept
  <2>2. CASE kept' = kept /\ blocks \subseteq blocks'
    BY <1>1, <2>2 DEF WalksInv
  <2>3. QED
    BY <2>1, <2>2 DEF put_block, delete_block, block_rm, block_rm_delete, pin_save,
                      pin_load, save_truncate, save_write, histVars, storeVars
<1>4. QED
  BY <1>2, <1>3, QuietCover

LEMMA CollectorCover ==
    ASSUME TypeOK, TypeOK', CoverInv, NEW t \in Collector,
           \/ \E dry_run \in BOOLEAN, max \in Limit : repo_gc(t, dry_run, max)
           \/ \E dry_run \in BOOLEAN : gc_blocks(t, dry_run)
           \/ CollectorStep(t) \/ collect_fails(t)
    PROVE  CoverInv'
<1>1. WalksInv
  BY DEF CoverInv
<1>2. UNCHANGED <<pinVars, padd, held, complete>>
  BY DEF repo_gc, gc_blocks, CollectorStep, mark_reachable, list_cids, sweep_get, sweep_delete,
         collect_done, collect_fails, gcFrame
<1>3. \A u \in Pinner : kept'[u] \subseteq kept[u] /\ kept'[u] \subseteq blocks'
  <2>1. CASE sweep_delete(t)
    BY <1>1, <2>1, DeleteKept DEF sweep_delete
  <2>2. CASE kept' = [kept EXCEPT ![t] = blocks] /\ UNCHANGED storeVars
    BY <1>1, <2>2, TaskAssumption DEF WalksInv, TypeOK, storeVars
  <2>3. CASE UNCHANGED <<storeVars, kept>>
    BY <1>1, <2>3 DEF WalksInv, storeVars
  <2>4. QED
    BY <2>1, <2>2, <2>3 DEF repo_gc, gc_blocks, CollectorStep, mark_reachable, list_cids, sweep_get,
                            collect_done, collect_fails
<1>4. QED
  BY <1>2, <1>3, QuietCover

-----------------------------------------------------------------------------
(* The walk's own steps *)

\* What is left of such a step once the walk itself is known to stay sound.
LEMMA OwnWalk ==
    ASSUME TypeOK, TypeOK', WalksInv, NEW t \in Pinner,
           \A u \in Pinner \ {t} : /\ padd'[u] = padd[u] /\ kept'[u] = kept[u]
                                   /\ u \in held' => u \in held,
           \A r \in Cid : recursive_deps[r] \subseteq recursive_deps'[r],
           RootsKnown, blocks' = blocks, kept'[t] \subseteq blocks,
           WalkInv(padd'[t], t \in held', kept'[t], recursive_deps'[padd'[t].root])
    PROVE  WalksInv'
<1> SUFFICES ASSUME NEW u \in Pinner, u # t
             PROVE  /\ kept'[u] \subseteq blocks'
                    /\ WalkInv(padd'[u], u \in held', kept'[u], recursive_deps'[padd'[u].root])
  BY DEF WalksInv
<1> DEFINE D == recursive_deps[padd[u].root]
           D2 == recursive_deps'[padd'[u].root]
           h == u \in held
           h2 == u \in held'
<1>1. WalkInv(padd[u], h, kept[u], D) /\ kept'[u] \subseteq blocks'
  BY DEF WalksInv
<1>2. (h2 => h) /\ h \in BOOLEAN /\ h2 \in BOOLEAN /\ kept'[u] = kept[u] /\ padd'[u] = padd[u]
  OBVIOUS
<1>3. (h2 /\ Walking(padd[u])) => D \subseteq D2
  <2>1. Walking(padd[u]) => padd[u].root \in Cid
    BY DEF RootsKnown, Walking
  <2>2. QED
    BY <1>2, <2>1
<1> HIDE DEF D, D2, h, h2
<1>4. WalkInv(padd[u], h2, kept[u], D2)
  BY <1>1, <1>2, <1>3, WalkMonotone
<1>5. QED
  BY <1>1, <1>2, <1>4 DEF h2, D2

LEMMA BeginCover ==
    ASSUME TypeOK, TypeOK', CoverInv, RootsKnown, NEW t \in Pinner, NEW c \in Cid, NEW recursive,
           pin_add(t, c, recursive)
    PROVE  CoverInv'
<1>1. /\ padd'[t].pc = "pin" /\ padd'[t].visited = {} /\ padd'[t].links = {}
      /\ \A u \in Pinner \ {t} : padd'[u] = padd[u]
  BY DEF pin_add, TypeOK
<1>2. /\ recursive_deps' = recursive_deps /\ pins' = pins /\ blocks' = blocks
      /\ held' = held /\ kept' = kept /\ complete' = complete
  BY DEF pin_add, pinVars, storeVars, histVars
<1>3. WalkInv(padd'[t], t \in held', kept'[t], recursive_deps'[padd'[t].root])
  BY <1>1 DEF WalkInv, Walking
<1>4. WalksInv'
  BY <1>1, <1>2, <1>3, OwnWalk DEF CoverInv, WalksInv
<1>5. QED
  BY <1>2, <1>4 DEF CoverInv, Covered

\* The root is pinned, and with it the walk begins: whatever was complete
\* under the root is so no more.
LEMMA PinCover ==
    ASSUME TypeOK, TypeOK', CoverInv, RootsKnown, NEW t \in Pinner, pin_add_pin(t)
    PROVE  CoverInv'
<1> DEFINE c == padd[t].root
<1>1. c \in Cid /\ padd[t].pc = "pin" /\ padd[t].visited = {} /\ padd[t].links = {}
  BY DEF RootsKnown, pin_add_pin, CoverInv, WalksInv, WalkInv
<1>2. /\ recursive_deps' = recursive_deps /\ blocks' = blocks /\ complete' = complete \ {c}
      /\ \A r \in Cid \ {c} : pins'[r] = pins[r]
  BY DEF pin_add_pin, pin, storeVars, TypeOK, PinTypeOK
<1>3. WalksInv'
  <2>1. CASE padd[t].recursive
    <3>1. /\ padd' = [padd EXCEPT ![t].pc = "visit", ![t].to_visit = {c}]
          /\ held' = held \cup {t} /\ kept' = [kept EXCEPT ![t] = blocks]
      BY <2>1 DEF pin_add_pin
    <3>2. /\ padd'[t].pc = "visit" /\ padd'[t].to_visit = {c} /\ padd'[t].visited = {}
          /\ padd'[t].links = {} /\ padd'[t].root = c
          /\ \A u \in Pinner \ {t} : padd'[u] = padd[u]
      BY <1>1, <3>1 DEF TypeOK, PinAdd
    <3>3. kept'[t] = blocks /\ \A u \in Pinner \ {t} : kept'[u] = kept[u]
      BY <3>1 DEF TypeOK
    <3>4. WalkInv(padd'[t], t \in held', kept'[t], recursive_deps'[padd'[t].root])
      BY <3>2 DEF WalkInv, Found, Walking
    <3>5. QED
      BY <1>2, <3>1, <3>2, <3>3, <3>4, OwnWalk DEF CoverInv
  <2>2. CASE ~padd[t].recursive
    <3>1. padd' = [padd EXCEPT ![t] = NoPinAdd] /\ held' = held \ Disturbed(c) /\ kept' = kept
      BY <2>2 DEF pin_add_pin
    <3>2. padd'[t] = NoPinAdd /\ \A u \in Pinner \ {t} : padd'[u] = padd[u]
      BY <3>1 DEF TypeOK
    <3>3. WalkInv(padd'[t], t \in held', kept'[t], recursive_deps'[padd'[t].root])
      BY <3>2 DEF WalkInv, NoPinAdd, Walking
    <3>4. kept'[t] \subseteq blocks
      BY <3>1 DEF CoverInv, WalksInv
    <3>5. QED
      BY <1>2, <3>1, <3>2, <3>3, <3>4, OwnWalk DEF CoverInv
  <2>3. QED
    BY <2>1, <2>2
<1>4. \A r \in complete' : r \in complete /\ r \in Cid /\ pins'[r] = pins[r]
  BY <1>2 DEF TypeOK
<1>5. QED
  BY <1>2, <1>3, <1>4 DEF CoverInv, Covered

\* A block is visited: its links are in hand, or it is not stored any more.
LEMMA VisitCover ==
    ASSUME TypeOK, TypeOK', CoverInv, RootsKnown, NEW t \in Pinner, NEW c \in Cid, mark_visit(t, c)
    PROVE  CoverInv'
<1> DEFINE p == padd[t]
           q == padd'[t]
<1>1. /\ p.pc = "visit" /\ c \in p.to_visit
      /\ q.root = p.root /\ q.to_visit = p.to_visit \ {c} /\ q.visited = p.visited \cup {c}
      /\ q.links = (IF c \in blocks THEN Links[c] ELSE {})
      /\ q.pc = (IF c \in blocks /\ Links[c] # {} THEN "link" ELSE "visit")
  <2>1. q = [p EXCEPT !.to_visit = @ \ {c}, !.visited = @ \cup {c},
                      !.links = IF c \in blocks THEN Links[c] ELSE {},
                      !.pc = IF c \in blocks /\ Links[c] # {} THEN "link" ELSE "visit"]
    BY DEF mark_visit, TypeOK
  <2>2. p \in PinAdd /\ p.pc = "visit" /\ c \in p.to_visit
    BY DEF mark_visit, TypeOK
  <2>3. QED
    BY <2>1, <2>2 DEF PinAdd
<1>2. \A u \in Pinner \ {t} : padd'[u] = padd[u]
  BY DEF mark_visit, TypeOK
<1>3. /\ recursive_deps' = recursive_deps /\ pins' = pins /\ blocks' = blocks
      /\ held' = held /\ kept' = kept /\ complete' = complete
  BY DEF mark_visit, pinVars, storeVars, histVars
<1>4. WalkInv(p, t \in held, kept[t], recursive_deps[p.root]) /\ kept[t] \subseteq blocks
  BY DEF CoverInv, WalksInv
<1>5. WalkInv(q, t \in held, kept[t], recursive_deps[q.root])
  <2>1. q.pc \in {"visit", "link"} /\ (q.pc = "visit" => q.links = {}) /\ Found(q) = Found(p)
    BY <1>1 DEF Found
  <2>2. ASSUME t \in held PROVE \A d \in q.visited \cap kept[t] : Links[d] \subseteq Found(q) \cup q.links
    <3>1. p.links = {} /\ \A d \in p.visited \cap kept[t] : Links[d] \subseteq Found(p) \cup p.links
      BY <1>1, <1>4, <2>2 DEF WalkInv, Walking
    <3>2. c \in kept[t] => Links[c] = q.links
      BY <1>1, <1>4
    <3>3. QED
      BY <1>1, <2>1, <3>1, <3>2
  <2>3. t \in held => p.root \in Found(p) /\ Found(p) \ {p.root} \subseteq recursive_deps[p.root]
    BY <1>1, <1>4 DEF WalkInv, Walking
  <2>4. q.root = p.root
    BY <1>1
  <2> HIDE DEF p, q
  <2>5. QED
    BY <2>1, <2>2, <2>3, <2>4 DEF WalkInv
<1>6. WalksInv'
  BY <1>2, <1>3, <1>4, <1>5, OwnWalk DEF CoverInv
<1>7. QED
  BY <1>3, <1>6 DEF CoverInv, Covered

\* A link is listed under the root, and found.
LEMMA LinkCover ==
    ASSUME TypeOK, TypeOK', CoverInv, RootsKnown, NEW t \in Pinner, NEW l \in Cid, mark_link(t, l)
    PROVE  CoverInv'
<1> DEFINE p == padd[t]
           q == padd'[t]
<1>1. /\ p.pc = "link" /\ l \in p.links
      /\ q.root = p.root /\ q.to_visit = p.to_visit \cup ({l} \ p.visited) /\ q.visited = p.visited
      /\ q.links = p.links \ {l} /\ q.pc = (IF p.links = {l} THEN "visit" ELSE "link")
  <2>1. q = [p EXCEPT !.links = @ \ {l}, !.to_visit = @ \cup ({l} \ p.visited),
                      !.pc = IF p.links = {l} THEN "visit" ELSE "link"]
    BY DEF mark_link, TypeOK
  <2>2. p \in PinAdd /\ p.pc = "link" /\ l \in p.links
    BY DEF mark_link, TypeOK
  <2>3. QED
    BY <2>1, <2>2 DEF PinAdd
<1>2. \A u \in Pinner \ {t} : padd'[u] = padd[u]
  BY DEF mark_link, TypeOK
<1>3. /\ pins' = pins /\ blocks' = blocks
      /\ held' = held /\ kept' = kept /\ complete' = complete
  BY DEF mark_link, add_indirect, storeVars, histVars
<1>4. p.root \in Cid
  BY <1>1 DEF RootsKnown
<1>5. /\ recursive_deps'[p.root] = recursive_deps[p.root] \cup {l}
      /\ \A r \in Cid : recursive_deps[r] \subseteq recursive_deps'[r]
  BY <1>4 DEF mark_link, add_indirect, TypeOK, PinTypeOK
<1>6. WalkInv(p, t \in held, kept[t], recursive_deps[p.root]) /\ kept[t] \subseteq blocks
  BY DEF CoverInv, WalksInv
<1>7. WalkInv(q, t \in held, kept[t], recursive_deps'[q.root])
  <2>1. /\ q.pc \in {"visit", "link"} /\ (q.pc = "visit" => q.links = {})
        /\ Found(q) = Found(p) \cup {l} /\ p.links = q.links \cup {l} /\ q.root = p.root
    BY <1>1 DEF Found
  <2>2. t \in held => /\ p.root \in Found(p)
                      /\ Found(p) \ {p.root} \subseteq recursive_deps[p.root]
                      /\ \A d \in p.visited \cap kept[t] : Links[d] \subseteq Found(p) \cup p.links
    BY <1>1, <1>6 DEF WalkInv, Walking
  <2>3. q.visited = p.visited
    BY <1>1
  <2> HIDE DEF p, q
  <2>4. QED
    BY <1>5, <2>1, <2>2, <2>3 DEF WalkInv
<1>8. WalksInv'
  BY <1>2, <1>3, <1>5, <1>6, <1>7, OwnWalk DEF CoverInv
<1>9. complete \subseteq Cid
  BY DEF TypeOK
<1>10. QED
  BY <1>3, <1>5, <1>8, <1>9 DEF CoverInv, Covered

\* An undisturbed walk that has visited all it found, in a graph that stayed
\* stored, has found the graph.
LEMMA DoneCover ==
    ASSUME TypeOK, TypeOK', CoverInv, RootsKnown, NEW t \in Pinner, pin_add_done(t) \/ pin_add_fails(t)
    PROVE  CoverInv'
<1> DEFINE p == padd[t]
           c == padd[t].root
<1>1. padd'[t] = NoPinAdd /\ \A u \in Pinner \ {t} : padd'[u] = padd[u]
  BY DEF pin_add_done, pin_add_fails, TypeOK
<1>2. /\ recursive_deps' = recursive_deps /\ pins' = pins /\ blocks' = blocks
      /\ held' = held \ {t} /\ kept' = kept
  BY DEF pin_add_done, pin_add_fails, pinVars, storeVars
<1>3. WalkInv(padd'[t], t \in held', kept'[t], recursive_deps'[padd'[t].root])
  BY <1>1 DEF WalkInv, NoPinAdd, Walking
<1>4. WalksInv'
  BY <1>1, <1>2, <1>3, OwnWalk DEF CoverInv, WalksInv
<1>5. ASSUME t \in held, pin_add_done(t), Reach({c}, Cid) \subseteq kept[t] PROVE Covered(c)
  <2>1. p.pc = "visit" /\ p.to_visit = {} /\ c \in Cid /\ p.visited \subseteq Cid
    BY <1>5 DEF pin_add_done, RootsKnown, TypeOK, PinAdd
  <2>2. /\ c \in p.visited /\ p.visited \ {c} \subseteq recursive_deps[c]
        /\ \A d \in p.visited \cap kept[t] : Links[d] \subseteq p.visited
    BY <1>5, <2>1 DEF CoverInv, WalksInv, WalkInv, Found, Walking
  <2> DEFINE R == Reach({c}, Cid)
             S == p.visited \cap R
  <2>3. c \in R /\ \A d \in R : Links[d] \subseteq R
    BY <2>1, ReachFrom, ReachLinks
  <2>4. R \subseteq kept[t]
    BY <1>5
  <2> HIDE DEF R, p
  <2>5. S \in SUBSET Cid /\ {c} \subseteq S /\ \A d \in S \cap Cid : Links[d] \subseteq S
    BY <2>1, <2>2, <2>3, <2>4
  <2> HIDE DEF S
  <2>6. R \subseteq S
    BY <2>5, ReachLeast DEF R
  <2>7. QED
    BY <2>2, <2>6 DEF Covered, R, S
<1>6. \A r \in complete' : r \in complete \/ (r = c /\ Covered(c))
  BY <1>5 DEF pin_add_done, pin_add_fails
<1>7. QED
  BY <1>2, <1>4, <1>6 DEF CoverInv, Covered

-----------------------------------------------------------------------------
(* Unpins, loads and restarts *)

\* Only the unpinned root loses what it lists, and its walks are disturbed.
LEMMA UnpinCover ==
    ASSUME TypeOK, TypeOK', CoverInv, RootsKnown, NEW c \in Cid, pin_rm(c)
    PROVE  CoverInv'
<1>1. /\ padd' = padd /\ blocks' = blocks /\ kept' = kept
      /\ complete' = complete \ {c} /\ held' = held \ Disturbed(c)
  BY DEF pin_rm, storeVars, taskVars
<1>2. \A r \in Cid \ {c} : recursive_deps'[r] = recursive_deps[r] /\ pins'[r] = pins[r]
  BY DEF pin_rm, unpin, TypeOK, PinTypeOK
<1>3. held \subseteq Pinner /\ complete \subseteq Cid
  BY DEF TypeOK
<1>4. \A t \in held' : Walking(padd[t]) => padd[t].root \in Cid \ {c}
  BY <1>1, <1>3 DEF Disturbed, RootsKnown, Walking
<1>5. WalksInv'
  BY <1>1, <1>2, <1>4, OthersWalk DEF CoverInv, WalksInv
<1>6. \A r \in complete' : r \in complete /\ r \in Cid \ {c}
  BY <1>1, <1>3
<1>7. QED
  BY <1>2, <1>5, <1>6 DEF CoverInv, Covered

\* A load leaves what the roots list alone; without restarts that is all a
\* complete root ever listed.
LEMMA LoadCover ==
    ASSUME TypeOK, TypeOK', CoverInv, MaxRestarts = 0, NEW t \in Saver, load_apply(t)
    PROVE  CoverInv'
<1>1. /\ padd' = padd /\ blocks' = blocks /\ kept' = kept /\ recursive_deps' = recursive_deps
      /\ complete' \subseteq complete /\ held' \subseteq held
  BY DEF load_apply, load, storeVars
<1>2. WalksInv'
  BY <1>1, OthersWalk DEF CoverInv, WalksInv
<1>3. QED
  BY <1>1, <1>2 DEF CoverInv, Covered

\* A restart that keeps the index keeps everything; one that empties it has no
\* recursive pin in force, and no walk.
LEMMA RestartCover ==
    ASSUME TypeOK, TypeOK', CoverInv,
           (\E snapshot, same \in BOOLEAN : restart(snapshot, same)) \/ crash
    PROVE  CoverInv'
<1>1. MaxRestarts # 0
  BY LimitAssumption DEF restart, crash, TypeOK
<1>2. \A t \in Pinner : padd'[t].pc = "idle" /\ kept'[t] \subseteq blocks'
  <2>1. CASE crash
    BY <2>1 DEF crash, NoPinAdd
  <2>2. CASE \E snapshot, same \in BOOLEAN : restart(snapshot, same)
    BY <2>2 DEF restart, AllIdle, histVars, CoverInv, WalksInv
  <2>3. QED
    BY <2>1, <2>2
<1>3. WalksInv'
  BY <1>2 DEF WalksInv, WalkInv, Walking
<1>4. complete' = complete /\ complete \subseteq Cid
  BY DEF restart, crash, histVars, TypeOK
<1>5. CASE clear
  BY <1>1, <1>3, <1>4, <1>5 DEF clear, CoverInv
<1>6. CASE UNCHANGED pinVars
  BY <1>3, <1>4, <1>6 DEF pinVars, CoverInv, Covered
<1>7. QED
  BY <1>5, <1>6 DEF restart, crash

LEMMA InitCover == Init => CoverInv
<1> SUFFICES ASSUME Init PROVE CoverInv
  OBVIOUS
<1>1. \A t \in Pinner : padd[t] = NoPinAdd /\ kept[t] = {}
  BY DEF Init
<1>2. QED
  BY <1>1 DEF Init, CoverInv, WalksInv, WalkInv, NoPinAdd, Walking

LEMMA NextCover ==
    ASSUME MaxRestarts = 0 \/ Saver = {}, TypeOK, TypeOK', RootsKnown, CoverInv, [Next]_vars
    PROVE  CoverInv'
<1>1. ASSUME NEW c \in Cid, pin_rm(c) PROVE CoverInv'
  BY <1>1, UnpinCover
<1>2. ASSUME NEW t \in Pinner, NEW c \in Cid, NEW recursive \in Recursive, pin_add(t, c, recursive)
      PROVE  CoverInv'
  BY <1>2, BeginCover
<1>3. ASSUME NEW t \in Pinner, PinnerStep(t) \/ pin_add_fails(t) PROVE CoverInv'
  BY <1>3, PinCover, VisitCover, LinkCover, DoneCover DEF PinnerStep
<1>4. ASSUME NEW t \in Collector,
             \/ \E dry_run \in BOOLEAN, max \in Limit : repo_gc(t, dry_run, max)
             \/ \E dry_run \in BOOLEAN : gc_blocks(t, dry_run)
             \/ CollectorStep(t) \/ collect_fails(t)
      PROVE  CoverInv'
  BY <1>4, CollectorCover
<1>5. ASSUME NEW t \in Saver, load_apply(t) PROVE CoverInv'
  BY <1>5, LoadCover
<1>6. CASE (\E snapshot, same \in BOOLEAN : restart(snapshot, same)) \/ crash
  BY <1>6, RestartCover
<1>7. CASE \/ \E c \in Cid : put_block(c) \/ delete_block(c)
           \/ \E t \in Remover, c \in Cid : block_rm(t, c)
           \/ \E t \in Remover : block_rm_delete(t)
           \/ \E t \in Saver : pin_save(t) \/ pin_load(t) \/ save_truncate(t) \/ save_write(t)
  BY <1>7, StoreCover
<1>8. CASE UNCHANGED vars
  <2>1. UNCHANGED <<pinVars, padd, held, complete, kept, blocks>>
    BY <1>8 DEF vars, pinVars
  <2>2. QED
    BY <2>1, QuietCover DEF CoverInv, WalksInv
<1>9. QED
  BY <1>1, <1>2, <1>3, <1>4, <1>5, <1>6, <1>7, <1>8 DEF Next, SaverStep

\* A recursive pin whose walk nobody disturbed covers its whole graph, however
\* walks of the same root, unpins of roots that share its blocks, failed
\* fetches, collections and removals run beside it: as long as the process
\* that made it lives, loads included, or as long as no index is loaded,
\* restarts included.  Both together break it: a load restores the roots only.
THEOREM PinsCover ==
    ASSUME MaxRestarts = 0 \/ Saver = {}
    PROVE  Spec => []CompletePinsCover
<1>1. RepoInv /\ CoverInv => CompletePinsCover
  <2> SUFFICES ASSUME RepoInv, CoverInv, NEW r \in complete, pins[r] = "Recursive"
               PROVE  Reach({r}, Cid) \ {r} \subseteq recursive_deps[r] \cap indirect_pins
    BY DEF CompletePinsCover
  <2>1. r \in Cid /\ Covered(r)
    BY DEF RepoInv, TypeOK, CoverInv
  <2>2. recursive_deps[r] \subseteq indirect_pins
    BY <2>1 DEF RepoInv, IndirectAccounted
  <2>3. QED
    BY <2>1, <2>2 DEF Covered
<1>2. RepoInv /\ RootsKnown /\ RepoInv' /\ CoverInv /\ [Next]_vars => CoverInv'
  <2>1. (RepoInv => TypeOK) /\ (RepoInv' => TypeOK')
    BY DEF RepoInv
  <2>2. QED
    BY <2>1, NextCover
<1>3. QED
  BY <1>1, <1>2, InitCover, Invariance, PTL DEF Spec

=============================================================================
