\* The scheduler's collector beside a recursive and a direct pin, the same beside a collector of the
\* application's, and a dry run with a time limit.
CONSTANTS
    root = root
    leaf = leaf
    u1 = u1
    u2 = u2
    g1 = g1
    g2 = g2
    Cids = {root, leaf}
    Links <- MCLinks
    Users = {u1, u2}
    Pinnable <- AllPins
    MaxHolds = 1
    MaxFaults = 1
    CleanUp = FALSE
    Collectors = {g1, g2}
    Configs <- MCConfigs
SPECIFICATION FairSpec
INVARIANTS CountsMatchHolders ZombiesNeedOverlap NothingHeldIsDoomed CutShortNeverSweeps
PROPERTIES GarbageIsCollected
