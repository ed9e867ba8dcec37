SPECIFICATION FairSpec
CONSTANTS
    top = top
    mid = mid
    leaf = leaf
    Cid = {mid, leaf}
    NoCid = NoCid
    Links <- Chain
    Pinner = {p1}
    Collector = {g1}
    Remover = {r1}
    Saver = {}
    CollectKind = {"repo_gc", "gc_blocks"}
    Recursive = {FALSE}
    Limit = {0, 1}
    MaxRestarts = 1
INVARIANTS
    PinnedIsStored
    SweepSparesStableDag
    GarbageIsSwept
PROPERTIES
    CollectionsEnd
CHECK_DEADLOCK FALSE
