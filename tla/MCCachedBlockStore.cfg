SPECIFICATION CacheSpec
CONSTANTS
    Cid = {a, b, c, d}
    Task = {t1, t2}
    Batch <- MCBatch
    Small = {a, b, c}
    l1_capacity = 2
INVARIANTS
    GhostsNeedOverlap
SYMMETRY Symmetry
