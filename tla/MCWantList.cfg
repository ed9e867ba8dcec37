SPECIFICATION Spec
CONSTANTS
    Cid = {c1, c2, c3}
    PriorityArg = {0, 200}
    DeadlineArg = {1, 2}
    MaxWants = 2
    Timeout = 1
    UrgentWindow = 2
    HighWindow = 3
    MaxTime = 1
    MaxVersion = 3
    MaxRetries = 1
SYMMETRY Symmetry
INVARIANTS
    EveryWantIsPoppable
    LiveNodeMatchesEntry
PROPERTIES
    PopNeverInverts
    ImplementsPriorityQueue
CHECK_DEADLOCK FALSE
