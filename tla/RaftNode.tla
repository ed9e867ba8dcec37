-------------------------------- MODULE RaftNode --------------------------------
(***************************************************************************)
(* One node of a replicated log: crates/ipfrs-storage/src/raft.rs,         *)
(* RaftNode.                                                               *)
(*                                                                         *)
(* The event loop handles requests and applies entries one after the       *)
(* other; the election timer is a task of its own, which writes the state, *)
(* the term and the vote under a lock each.  A handler holds the lock of   *)
(* the term and the vote from its first line to its last, so it is one     *)
(* step.  The code never sends a request and never becomes leader: the     *)
(* other nodes are external, a cluster whose leaders are honest.  Whatever *)
(* a leader has sent may arrive at any time, more than once, in any order  *)
(* or never.  A command is told by the index and the term of its entry, so *)
(* a log is a sequence of terms.                                           *)
(***************************************************************************)
EXTENDS Naturals, Sequences, FiniteSets, SequencesExt

CONSTANTS Self, Candidates,  \* this node and the others
          None,
          MaxTerm,           \* the last term of the cluster
          Histories,         \* what the leaders of the cluster have done
          MaxRestarts

Terms == 1 .. MaxTerm

(***************************************************************************)
(* A history has the last log of the leader of each term, and how much of  *)
(* it that leader knows to be committed.  It is honest when an entry is as *)
(* the leader of its term made it, with all before it, and when every      *)
(* leader has what was committed in earlier terms.                         *)
(***************************************************************************)
Honest(h) ==
    /\ h.logs \in [Terms -> Seq(Terms)] /\ h.commits \in [Terms -> Nat]
    /\ \A t \in Terms :
         /\ h.commits[t] <= Len(h.logs[t])
         /\ \A i \in DOMAIN h.logs[t] :
              /\ h.logs[t][i] \in 1 .. t
              /\ IsPrefix(SubSeq(h.logs[t], 1, i), h.logs[h.logs[t][i]])
              /\ i > 1 => h.logs[t][i - 1] <= h.logs[t][i]
         /\ \A s \in 1 .. t : IsPrefix(SubSeq(h.logs[s], 1, h.commits[s]), h.logs[t])

ASSUME RaftAssumption ==
    /\ Self \notin Candidates /\ None \notin Candidates \cup {Self}
    /\ MaxTerm \in Nat \ {0} /\ MaxRestarts \in Nat
    /\ \A h \in Histories : Honest(h)

VARIABLES history,       \* what the leaders do
          state,         \* the NodeState
          current_term, voted_for,
          log,
          commit_index, last_applied,
          timer,         \* where the election timer is
          halted,       \* start has returned with an error
          applied,       \* history: what each start gave to the store, in order
          grants,        \* history: the votes granted, <<restarts before, term, candidate>>
          leftovers,     \* history: the starts in which the commit index went over leftovers
          restarts

nodeVars == <<state, current_term, voted_for, log, commit_index, last_applied, halted, applied>>
raftVars == <<history, nodeVars, timer, grants, leftovers, restarts>>

RaftTypeOK ==
    /\ history \in Histories
    /\ state \in {"Follower", "Candidate"}
    /\ current_term \in 0 .. MaxTerm
    /\ voted_for \in Candidates \cup {Self, None}
    /\ log \in Seq(Terms)
    /\ commit_index \in Nat /\ last_applied \in Nat
    /\ timer \in {"sleep", "state", "term", "vote"}
    /\ halted \in BOOLEAN
    /\ applied \in [0 .. MaxRestarts -> Seq(Terms)]
    /\ grants \subseteq (0 .. MaxRestarts) \X Terms \X Candidates
    /\ leftovers \subseteq 0 .. MaxRestarts
    /\ restarts \in 0 .. MaxRestarts

RaftInit ==
    /\ history \in Histories
    /\ state = "Follower" /\ current_term = 0 /\ voted_for = None
    /\ log = <<>> /\ commit_index = 0 /\ last_applied = 0
    /\ halted = FALSE /\ applied = [r \in 0 .. MaxRestarts |-> <<>>]
    /\ timer = "sleep" /\ grants = {} /\ leftovers = {} /\ restarts = 0

-----------------------------------------------------------------------------

\* The election timer: a look at the time, then three writes.
election_timeout ==
    /\ timer = "sleep" /\ timer' = "state"
    /\ UNCHANGED <<history, nodeVars, grants, leftovers, restarts>>
become_candidate ==
    /\ timer = "state" /\ timer' = "term" /\ state' = "Candidate"
    /\ UNCHANGED <<history, current_term, voted_for, log, commit_index, last_applied, halted, applied, grants, leftovers, restarts>>
increment_term ==
    /\ timer = "term" /\ timer' = "vote"
    /\ current_term < MaxTerm /\ current_term' = current_term + 1
    /\ UNCHANGED <<history, state, voted_for, log, commit_index, last_applied, halted, applied, grants, leftovers, restarts>>
vote_for_self ==
    /\ timer = "vote" /\ timer' = "sleep" /\ voted_for' = Self
    /\ UNCHANGED <<history, state, current_term, log, commit_index, last_applied, halted, applied, grants, leftovers, restarts>>

\* A request with a higher term: it is adopted and the vote is free again.
Adopt(term) ==
    /\ current_term' = IF term > current_term THEN term ELSE current_term
    /\ state' = IF term > current_term THEN "Follower" ELSE state
Vote(term) == IF term > current_term THEN None ELSE voted_for

-----------------------------------------------------------------------------

\* The log has the leader's entry before the request's entries.
PrevMatches(prev, leader) == prev > 0 => prev <= Len(log) /\ log[prev] = leader[prev]

\* The conflict_index of a refusal at prev: from the end of the log back to the
\* first entry of the conflicting term.
TailOf(term) == {i \in DOMAIN log : \A j \in i .. Len(log) : log[j] = term}

ConflictIndex(prev) ==
    IF prev > Len(log) THEN Len(log)
    ELSE IF TailOf(log[prev]) = {} THEN prev ELSE Min(TailOf(log[prev]))

\* Mutant: what the leader did not send goes too.
AppendedOnly(prev, entries) == SubSeq(log, 1, prev) \o entries

\* Mutant: what follows a conflicting entry stays.
AppendedInPlace(prev, entries) ==
    LET n == prev + Len(entries)
    IN  [i \in 1 .. Max({n, Len(log)}) |-> IF i > prev /\ i <= n THEN entries[i - prev] ELSE log[i]]

\* Entries after prev: what is there with the same term stays, the first entry
\* with another term goes with all that follow it.
Appended(prev, entries) ==
    LET Same(i) == prev + i > Len(log) \/ log[prev + i] = entries[i]
        clash == {i \in DOMAIN entries : ~Same(i)}
        all == SubSeq(log, 1, prev) \o entries
    IN  IF clash # {} \/ Len(all) >= Len(log) THEN all ELSE log

\* The commit index follows the leader's, as far as the log goes.
Commit(leader_commit, new) == IF leader_commit > commit_index THEN Min({leader_commit, Len(new)}) ELSE commit_index

\* The request ends at last and commits more: an entry after last that another
\* leader has left in the log, and that this one does not have.
Leftover(leader, last, new, commit) == \E i \in last + 1 .. commit : new[i] # leader[i]

\* Its entries may end before the commit index it carries, as those of a heartbeat
\* do and those of a batch cut at max_entries_per_append.
handle_append_entries(term, prev, last, leader_commit) ==
    LET leader == history.logs[term] IN
    /\ ~halted
    /\ prev \in 0 .. last /\ last <= Len(leader) /\ leader_commit <= history.commits[term]
    /\ term >= current_term
    /\ Adopt(term) /\ voted_for' = Vote(term)
    /\ IF PrevMatches(prev, leader)
       THEN /\ log' = Appended(prev, SubSeq(leader, prev + 1, last))
            /\ commit_index' = Commit(leader_commit, log')
            /\ leftovers' = IF leader_commit > commit_index /\ Leftover(leader, last, log', commit_index')
                            THEN leftovers \cup {restarts} ELSE leftovers
       ELSE UNCHANGED <<log, commit_index, leftovers>>
    /\ UNCHANGED <<history, last_applied, timer, halted, applied, grants, restarts>>

-----------------------------------------------------------------------------

\* The candidate's log is at least as up to date.
LogOk(last_index, last_term) ==
    LET mine == IF log = <<>> THEN 0 ELSE Last(log)
    IN  last_term > mine \/ (last_term = mine /\ last_index >= Len(log))

\* Mutant: a candidate's request is granted whoever has the vote.
handle_request_vote_any(term, candidate, last_index, last_term) ==
    LET grant == LogOk(last_index, last_term) IN
    /\ ~halted
    /\ term >= current_term
    /\ Adopt(term)
    /\ voted_for' = IF grant THEN candidate ELSE Vote(term)
    /\ grants' = IF grant THEN grants \cup {<<restarts, term, candidate>>} ELSE grants
    /\ UNCHANGED <<history, log, commit_index, last_applied, timer, halted, applied, leftovers, restarts>>

handle_request_vote(term, candidate, last_index, last_term) ==
    LET grant == Vote(term) \in {None, candidate} /\ LogOk(last_index, last_term) IN
    /\ ~halted
    /\ term >= current_term
    /\ Adopt(term)
    /\ voted_for' = IF grant THEN candidate ELSE Vote(term)
    /\ grants' = IF grant THEN grants \cup {<<restarts, term, candidate>>} ELSE grants
    /\ UNCHANGED <<history, log, commit_index, last_applied, timer, halted, applied, leftovers, restarts>>

\* The entries up to n are given to the store.
Give(n) == [applied EXCEPT ![restarts] = @ \o SubSeq(log, last_applied + 1, n)]

\* Mutant: an entry that the store refuses is passed over.
apply_skips ==
    /\ ~halted /\ last_applied < commit_index /\ commit_index <= Len(log)
    /\ last_applied' = commit_index
    /\ \/ applied' = Give(commit_index)
       \/ \E n \in last_applied + 1 .. commit_index :
            applied' = [applied EXCEPT ![restarts] =
                          @ \o SubSeq(log, last_applied + 1, n - 1) \o SubSeq(log, n + 1, commit_index)]
    /\ UNCHANGED <<history, state, current_term, voted_for, log, commit_index, timer, halted, grants, leftovers, restarts>>

\* Mutant: the last committed entry waits for the next.
apply_lags ==
    /\ ~halted /\ last_applied + 1 < commit_index /\ commit_index <= Len(log)
    /\ last_applied' = commit_index - 1
    /\ applied' = Give(commit_index - 1)
    /\ UNCHANGED <<history, state, current_term, voted_for, log, commit_index, timer, halted, grants, leftovers, restarts>>

\* The tick of the event loop applies what is committed.  An entry counts as
\* applied before the store has it: when the store fails, start returns.  Where the
\* log has become shorter than the commit index, reading past its end panics.  A
\* no-op, and a command whose CID cannot be read, counts as given to the store.
apply_committed_entries ==
    /\ ~halted /\ last_applied < commit_index
    /\ \/ /\ commit_index <= Len(log)
          /\ last_applied' = commit_index /\ applied' = Give(commit_index)
          /\ UNCHANGED halted
       \/ \E n \in last_applied + 1 .. Min({commit_index, Len(log)}) :
            /\ last_applied' = n /\ applied' = Give(n - 1)
            /\ halted' = TRUE
       \/ /\ commit_index > Len(log)
          /\ last_applied' = Max({last_applied, Len(log)}) + 1 /\ applied' = Give(Len(log))
          /\ halted' = TRUE
    /\ UNCHANGED <<history, state, current_term, voted_for, log, commit_index, timer, grants, leftovers, restarts>>

\* The process starts again: nothing of the node is kept, and what the store was
\* given is still there.
restart ==
    /\ restarts < MaxRestarts /\ restarts' = restarts + 1
    /\ state' = "Follower" /\ current_term' = 0 /\ voted_for' = None
    /\ log' = <<>> /\ commit_index' = 0 /\ last_applied' = 0
    /\ halted' = FALSE /\ timer' = "sleep"
    /\ UNCHANGED <<history, applied, grants, leftovers>>

Timer == election_timeout \/ become_candidate \/ increment_term \/ vote_for_self

\* The index and the term of the last entry of a candidate's log.
LogEnds == {<<0, 0>>} \cup UNION {{<<i, history.logs[t][i]>> : i \in DOMAIN history.logs[t]} : t \in Terms}

Rpc ==
    \/ \E term \in Terms : \E last \in 0 .. Len(history.logs[term]) : \E prev \in 0 .. last :
         \E leader_commit \in 0 .. history.commits[term] : handle_append_entries(term, prev, last, leader_commit)
    \/ \E term \in Terms, candidate \in Candidates, end \in LogEnds :
         handle_request_vote(term, candidate, end[1], end[2])

RaftNext == Timer \/ Rpc \/ apply_committed_entries \/ restart

RaftSpec == RaftInit /\ [][RaftNext]_raftVars

\* The tick of the loop comes only if no request comes before it.
FairRaftSpec == RaftSpec /\ WF_raftVars(apply_committed_entries)

-----------------------------------------------------------------------------

\* What the cluster has committed in the end.
Committed ==
    LET t == CHOOSE s \in Terms : \A r \in Terms : history.commits[r] <= history.commits[s]
    IN  SubSeq(history.logs[t], 1, history.commits[t])

\* Every entry of the log is there with all the entries that the leader of its
\* term had before it, whatever was lost, repeated or came late.  (raft.rs,
\* handle_append_entries: the test of the previous entry and the truncation)
LogMatching == \A i \in DOMAIN log : IsPrefix(SubSeq(log, 1, i), history.logs[log[i]])

\* What the node takes for committed is what the cluster has committed, and it
\* is in the log.  (raft.rs, handle_append_entries: the commit index)
CommittedIsCommitted == commit_index <= Len(log) /\ IsPrefix(SubSeq(log, 1, commit_index), Committed)

\* The same, with requests of any length: only a request that ends before the
\* commit index it carries, and finds after its end an entry that its leader does
\* not have, breaks it.  Requests that are old, repeated or short in any other way
\* do not, nor does any truncation.  (raft.rs:451-454, Min with the whole log)
CommittedUnlessLeftover == restarts \in leftovers \/ CommittedIsCommitted

\* What the store was given in every start, the earlier ones too, is what the
\* cluster has committed, in its order, with no entry missing and none twice,
\* unless in that start the commit index went over such a leftover.
\* (raft.rs, apply_committed_entries)
AppliedUnlessLeftover == \A r \in 0 .. MaxRestarts : r \in leftovers \/ IsPrefix(applied[r], Committed)

\* A store that survives the process is given an entry once.
NothingAppliedTwice == \A r, s \in 0 .. MaxRestarts : r # s => applied[r] = <<>> \/ applied[s] = <<>>

\* In a term, one candidate at most is told that it has the vote, also while the
\* timer raises the term and takes the vote in two steps, until the process
\* starts again.  (raft.rs, handle_request_vote and spawn_election_timer)
OneGrantPerTerm == \A g, h \in grants : g[1] = h[1] /\ g[2] = h[2] => g = h

\* PersistentState must survive restarts: the vote of a term is given once.
VoteSurvivesRestart == \A g, h \in grants : g[2] = h[2] => g[3] = h[3]

\* A refusal sends the leader back to an entry of the conflicting term.
\* (raft.rs, handle_append_entries: conflict_index)
ConflictIsEarlier == \A p \in DOMAIN log : ConflictIndex(p) <= p /\ log[ConflictIndex(p)] = log[p]

\* The comment says that it is the first entry of that term.
ConflictIsFirst == \A p \in DOMAIN log : ConflictIndex(p) = Min({i \in DOMAIN log : log[i] = log[p]})

\* When the requests stop, everything committed is applied in the end, unless the
\* store has failed or the log has lost it.  (raft.rs, start: the tick is a new sleep in every turn)
AppliedWhenQuiet == <>[][Timer \/ apply_committed_entries]_raftVars => <>[](last_applied >= commit_index \/ halted)

=============================================================================
