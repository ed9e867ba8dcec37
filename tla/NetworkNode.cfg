\* Two peers of which one is connected at a time, one block, one owner and one user
\* of a handle, channels of one place.
CONSTANTS
    Peer = {p1, p2}
    Cid = {a}
    Junk = junk
    Alike = {{a}}
    Owner = o
    Stager = {s1}
    CmdCap = 1
    EventCap = 1
    MaxTries = 1
    MaxConn = 1
    Id = {1, 2}
SPECIFICATION FairSpec
INVARIANTS NobodyForgotten PendingIsOwed BlocksAreOwn
PROPERTIES RequestsSettle StopEnds
CHECK_DEADLOCK FALSE
