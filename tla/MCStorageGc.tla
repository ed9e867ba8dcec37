------------------------------ MODULE MCStorageGc ------------------------------
(***************************************************************************)
(* StorageGc over a root with one child.                                   *)
(***************************************************************************)
EXTENDS StorageGc, TLC

CONSTANTS root, leaf, u1, u2, g1, g2

MCLinks == (root :> {leaf}) @@ (leaf :> {})

\* The pins of a program: everybody pins the root recursively; one user does and
\* another pins a block directly; or there is one direct pin.
RootOnly == {Hold(u, "recursive", root) : u \in Users}
OneWalk == {Hold(u1, "recursive", root), Hold(u2, "direct", leaf)}
SameRoot == {Hold(u1, "recursive", root), Hold(u2, "direct", root)}
OneRoot == {Hold(u2, "direct", root)}

\* One thread of the scheduler's, one of the scheduler's and one of the
\* application's, or two threads of both.
Alone == (g1 :> {"scheduler"}) @@ (g2 :> {})
OneEach == (g1 :> {"scheduler"}) @@ (g2 :> {"application"})
Both == [g \in {g1, g2} |-> {"scheduler", "application"}]

AllPins == OneWalk \cup SameRoot

Plain == [max_blocks_per_run |-> 0, time_limit |-> FALSE, incremental |-> FALSE, batch_size |-> 1, dry_run |-> FALSE,
          callers |-> Alone, holds |-> OneWalk]

\* An incremental run with a limit of one block, beside a recursive pin or beside a
\* second collector, and a dry run with a time limit.
Limited == [Plain EXCEPT !.incremental = TRUE, !.max_blocks_per_run = 1]
MCConfigs == {Limited, [Limited EXCEPT !.callers = OneEach, !.holds = OneRoot],
              [Plain EXCEPT !.dry_run = TRUE, !.time_limit = TRUE, !.holds = SameRoot]}

\* A full run with a limit of one block too, where everything may happen.
AllConfigs == {[c EXCEPT !.callers = Both, !.holds = RootOnly] : c \in MCConfigs \cup {[Plain EXCEPT !.max_blocks_per_run = 1]}}

=============================================================================
