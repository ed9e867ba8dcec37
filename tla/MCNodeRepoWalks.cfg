SPECIFICATION Spec
CONSTANTS
    top = top
    mid = mid
    leaf = leaf
    Cid = {mid, leaf}
    NoCid = NoCid
    Links <- Chain
    Pinner = {p1, p2}
    Collector = {}
    Remover = {}
    Saver = {s1}
    CollectKind = {"repo_gc"}
    Recursive = {TRUE}
    Limit = {0}
    MaxRestarts = 0
INVARIANTS
    IndirectAccounted
    CompletePinsCover
CHECK_DEADLOCK FALSE
