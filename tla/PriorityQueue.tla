--------------------------- MODULE PriorityQueue ---------------------------
(***************************************************************************)
(* What a want list promises its users: a bounded map from wanted CIDs to  *)
(* a rank, whose Pop takes an element of highest rank whenever there is    *)
(* one.  There is no heap, no version and no lazy deletion here; WantList  *)
(* implements this specification.                                          *)
(***************************************************************************)
EXTENDS Integers, FiniteSets

CONSTANTS
    Cid,        \* the block identifiers that may be wanted
    MaxWants    \* the capacity

VARIABLES
    queue,      \* a function from the wanted CIDs to their ranks
    out         \* the latest call, and the CIDs it handed back to the caller

Rank == [priority : Int, created : Nat]

\* Strictly before in the order of service: a higher priority, or the same
\* priority and an earlier creation.
RankBefore(a, b) ==
    \/ a.priority > b.priority
    \/ a.priority = b.priority /\ a.created < b.created

\* The queue holds exactly the CIDs of S, and those that stay keep their rank.
Becomes(S) ==
    /\ DOMAIN queue' = S
    /\ \A x \in S \cap DOMAIN queue : queue'[x] = queue[x]

Returns(op, S) == out' = [op |-> op, got |-> S]

Init ==
    /\ DOMAIN queue = {}
    /\ out = [op |-> "new", got |-> {}]

\* New CIDs are accepted only while there is room for them.
Insert(S) ==
    /\ S \cap DOMAIN queue = {}
    /\ Cardinality(DOMAIN queue \cup S) <= MaxWants
    /\ Becomes(DOMAIN queue \cup S)
    /\ \A c \in S : queue'[c] \in Rank
    /\ Returns("add", S)

\* Ranks of wanted CIDs may change; the wanted set and the age of each want
\* do not.
Rerank ==
    /\ DOMAIN queue' = DOMAIN queue
    /\ \A c \in DOMAIN queue : /\ queue'[c] \in Rank
                               /\ queue'[c].created = queue[c].created
    /\ Returns("update", {})

Withdraw(S) ==
    /\ S \subseteq DOMAIN queue
    /\ Becomes(DOMAIN queue \ S)
    /\ Returns("remove", S)

\* Pop serves a CID that nothing else wanted is before.
Pop(c) ==
    /\ c \in DOMAIN queue
    /\ \A d \in DOMAIN queue : ~RankBefore(queue[d], queue[c])
    /\ Becomes(DOMAIN queue \ {c})
    /\ Returns("pop", {c})

\* Pop finds nothing only when nothing is wanted.
PopNothing ==
    /\ DOMAIN queue = {}
    /\ Becomes({})
    /\ Returns("pop", {})

Next ==
    \/ \E S \in SUBSET Cid : Insert(S)
    \/ Rerank
    \/ \E S \in SUBSET Cid : Withdraw(S)
    \/ \E c \in Cid : Pop(c)
    \/ PopNothing

Spec == Init /\ [][Next]_<<queue, out>>
=============================================================================
