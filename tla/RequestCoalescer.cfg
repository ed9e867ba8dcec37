\* Three requests on two workers; three waiters are too many.
CONSTANTS
    Tasks = {t1, t2, t3}
    Cleaner = cleaner
    None = none
    Workers = 2
    max_waiters_per_request = 3
    enable_stats = TRUE
    Outcomes = {"complete", "fail", "cancel"}
SPECIFICATION FairCoalescerSpec
INVARIANTS OnlySuspendedGuardBlocks AnswersAreOwn
PROPERTIES RequestsEnd
CHECK_DEADLOCK FALSE
