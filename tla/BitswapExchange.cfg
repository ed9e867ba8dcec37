\* Two users that ask one peer for one block, and a thread that passes on its answers.
CONSTANTS
    Cid = {c}
    Peer = {p1}
    User = {u1, u2}
    Receiver = {r1}
    max_concurrent = 2
    max_failures = 2
    max_wants = 1
    max_peers_per_request = 2
    MaxOwed = 2
SPECIFICATION FairSpec
INVARIANTS WantsStay SlotsAreOwed LimitNearlyHolds
PROPERTIES WantsServed
