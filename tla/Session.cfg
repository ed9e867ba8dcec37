\* Two threads that make every call, and mark a block once more.
SPECIFICATION FairSpec
CONSTANTS
    Cid = {a, b}
    Thread = {t1, t2}
    Calls = {"add", "received", "failed", "pause", "resume", "cancel"}
    MaxAdds = 1
    MaxMarks = 2
INVARIANTS
    OnlyLastFailureBlocks
PROPERTIES
    
    WaiterWakesOrFail
CHECK_DEADLOCK FALSE
