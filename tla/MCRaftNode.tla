------------------------------- MODULE MCRaftNode -------------------------------
(***************************************************************************)
(* RaftNode with every honest history of logs of MaxLen entries of which   *)
(* some number is committed in the end.  A log that ends earlier, or a     *)
(* leader that knows less, needs no history of its own: a request, or a    *)
(* vote's last index, may end anywhere in the log and carry any smaller    *)
(* commit index; the properties speak of what is committed in the end.     *)
(***************************************************************************)
EXTENDS RaftNode

CONSTANT MaxLen

\* Logs a leader of term t can have: its terms do not decrease.
LogsOf(t) == {s \in [1 .. MaxLen -> 1 .. t] : \A i \in 2 .. MaxLen : s[i - 1] <= s[i]}

\* The most of n entries that the leader of t can know to be committed: all later
\* leaders have them.
MostKnown(logs, t, n) == Max({k \in 0 .. n : \A u \in t .. MaxTerm : \A i \in 1 .. k : logs[t][i] = logs[u][i]})

AllHistories ==
    {h \in {[logs |-> l, commits |-> [t \in Terms |-> MostKnown(l, t, n)]] :
               l \in {l \in [Terms -> UNION {LogsOf(t) : t \in Terms}] : \A t \in Terms : l[t] \in LogsOf(t)},
               n \in 0 .. MaxLen} :
       Honest(h)}

=============================================================================
