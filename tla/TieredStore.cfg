\* Two threads, two blocks, tiers of one block each.
CONSTANTS
    Cid = {a, b}
    Thread = {t1, t2}
    l1_capacity = 1
    l2_capacity = 1
SPECIFICATION FairStoreSpec
INVARIANTS GhostsNeedCause
PROPERTIES CallsReturnOrInvert
CHECK_DEADLOCK FALSE
