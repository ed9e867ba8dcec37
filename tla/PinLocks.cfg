SPECIFICATION Spec
CONSTANTS
    Cid = {a, b}
    NoCid = NoCid
    Thread = {t1, t2, t3}
INVARIANTS
    OnlyInversionBlocks
PROPERTIES
    ImplementsPinManager
CHECK_DEADLOCK FALSE
