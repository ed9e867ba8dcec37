--------------------------- MODULE WantListProofs ---------------------------
(***************************************************************************)
(* Proofs about WantList, for any set of CIDs, any capacity and any bounds.*)
(* The inductive invariant adds to the properties that versions never      *)
(* exceed the counter and that no two heap nodes share one: that is what   *)
(* keeps a node left behind from coming back to life.                      *)
(***************************************************************************)
EXTENDS WantList, FiniteSetTheorems, TLAPS

\* Every version in use has been handed out by the counter.
VersionsHandedOut ==
    /\ \A n \in heap : n.version <= version_counter
    /\ \A c \in DOMAIN entries : entries[c].version <= version_counter

\* No two nodes of the heap carry the same version.
VersionsUnique == \A m, n \in heap : m.version = n.version => m = n

\* Every wanted CID has a live node.
HasLiveNode == \A c \in DOMAIN entries : \E n \in heap : n.cid = c /\ Live(n)

\* The inductive invariant.
IInv ==
    /\ TypeOK
    /\ VersionsHandedOut
    /\ VersionsUnique
    /\ HasLiveNode
    /\ LiveNodeMatchesEntry

\* The effective priority is an integer no smaller than the stored one.
LEMMA EffectivePriorityType ==
    ASSUME NEW e \in WantEntry, NEW t \in Nat
    PROVE  /\ effective_priority(e, t) \in Int
           /\ effective_priority(e, t) >= e.priority
BY DEF effective_priority, MaxOf, WantEntry, Never, Critical, Urgent, High

\* The effective priority depends on the stored priority and the deadline only,
\* and never falls as time passes.
LEMMA EffectivePriorityMonotone ==
    ASSUME NEW e \in WantEntry, NEW f \in WantEntry, NEW t \in Nat, NEW u \in Nat,
           e.priority = f.priority, e.deadline = f.deadline, t <= u
    PROVE  effective_priority(e, t) <= effective_priority(f, u)
<1>1. e.priority \in Int /\ e.deadline \in Nat \cup {Never}
  BY DEF WantEntry
<1> QED
  BY <1>1, WantListAssumption DEF effective_priority, MaxOf, Never, Critical, Urgent, High

\* One live node per wanted CID follows from unique versions.
LEMMA PoppableFromIInv == IInv => EveryWantIsPoppable
BY DEF IInv, HasLiveNode, EveryWantIsPoppable, VersionsUnique, Live

\* The initial state satisfies the inductive invariant.
LEMMA InitIInv == Init => IInv
BY DEF Init, IInv, TypeOK, VersionsHandedOut, VersionsUnique, HasLiveNode,
       LiveNodeMatchesEntry

\* The type of the observation variable.
OutType == [op : {"new", "add", "remove", "update", "pop"}, got : SUBSET Cid]

\* What an entry and its node agree on at time t.
Matches(n, e, t) ==
    /\ n.priority >= e.priority
    /\ n.priority <= effective_priority(e, t)
    /\ n.created_at = e.created_at

\* The step common to every call that inserts or re-inserts wants: the wants
\* of U get entries with fresh versions, and the nodes of Fresh are pushed,
\* all under fresh versions, one matching node among them for each of U.
LEMMA PushIInv ==
    ASSUME IInv, NEW U \in SUBSET Cid, NEW Fresh \in SUBSET HeapEntry,
           entries' \in [DOMAIN entries \cup U -> WantEntry],
           \A c \in DOMAIN entries \ U : entries'[c] = entries[c],
           \A c \in U : entries'[c].version <= version_counter',
           \A c \in U : \E n \in Fresh :
               n.cid = c /\ n.version = entries'[c].version,
           heap' = heap \cup Fresh,
           \A n \in Fresh : /\ version_counter < n.version
                            /\ n.version <= version_counter',
           \A m, n \in Fresh : m.version = n.version => m = n,
           \A n \in Fresh : n.cid \in U /\ n.version = entries'[n.cid].version
                               => Matches(n, entries'[n.cid], now'),
           version_counter' \in Nat, version_counter <= version_counter',
           now' = now, out' \in OutType
    PROVE  IInv'
<1>1. TypeOK'
  BY DEF IInv, TypeOK, OutType
<1>2. VersionsHandedOut'
  BY DEF IInv, TypeOK, VersionsHandedOut, HeapEntry, WantEntry
<1>3. VersionsUnique'
  BY DEF IInv, TypeOK, VersionsHandedOut, VersionsUnique, HeapEntry
<1>4. HasLiveNode'
  <2> SUFFICES ASSUME NEW c \in DOMAIN entries'
               PROVE  \E n \in heap' : n.cid = c /\ Live(n)'
    BY DEF HasLiveNode
  <2>1. CASE c \in U
    BY <2>1 DEF Live
  <2>2. CASE c \in DOMAIN entries \ U
    BY <2>2 DEF IInv, HasLiveNode, Live
  <2> QED
    BY <2>1, <2>2
<1>5. LiveNodeMatchesEntry'
  <2> SUFFICES ASSUME NEW m \in heap', Live(m)'
               PROVE  Matches(m, entries'[m.cid], now')
    BY DEF LiveNodeMatchesEntry, Matches
  <2>1. m.cid \in DOMAIN entries \cup U /\ entries'[m.cid].version = m.version
    BY DEF Live
  <2>2. CASE m.cid \in U
    <3>1. m.version > version_counter
      BY <2>1, <2>2
    <3>2. m \notin heap
      BY <3>1 DEF IInv, TypeOK, VersionsHandedOut, HeapEntry
    <3> QED
      BY <3>2, <2>1, <2>2
  <2>3. CASE m.cid \notin U
    <3>1. m.cid \in DOMAIN entries /\ entries[m.cid].version = m.version
      BY <2>1, <2>3
    <3>2. m.version <= version_counter
      BY <3>1 DEF IInv, VersionsHandedOut
    <3>3. m \in heap
      BY <3>2 DEF IInv, TypeOK, HeapEntry
    <3> QED
      BY <3>1, <3>3, <2>3 DEF IInv, LiveNodeMatchesEntry, Live, Matches
  <2> QED
    BY <2>2, <2>3
<1> QED
  BY <1>1, <1>2, <1>3, <1>4, <1>5 DEF IInv

\* The step common to every call that only forgets wants or discards nodes,
\* provided no wanted CID loses its live node.
LEMMA DropIInv ==
    ASSUME IInv, DOMAIN entries' \subseteq DOMAIN entries,
           entries' \in [DOMAIN entries' -> WantEntry],
           \A c \in DOMAIN entries' :
               /\ entries'[c].version = entries[c].version
               /\ entries'[c].priority = entries[c].priority
               /\ entries'[c].created_at = entries[c].created_at
               /\ entries'[c].deadline = entries[c].deadline,
           heap' \subseteq heap,
           \A n \in heap : Live(n) /\ n.cid \in DOMAIN entries' => n \in heap',
           version_counter' = version_counter, now' \in Nat, now <= now',
           out' \in OutType
    PROVE  IInv'
<1>1. TypeOK'
  BY DEF IInv, TypeOK, OutType
<1>2. VersionsHandedOut' /\ VersionsUnique'
  BY DEF IInv, VersionsHandedOut, VersionsUnique
<1>3. HasLiveNode'
  BY DEF IInv, HasLiveNode, Live
<1>4. \A c \in DOMAIN entries' : effective_priority(entries[c], now)
                                  <= effective_priority(entries'[c], now')
  BY EffectivePriorityMonotone DEF IInv, TypeOK
<1>5. \A c \in DOMAIN entries' : /\ effective_priority(entries[c], now) \in Int
                                /\ effective_priority(entries'[c], now') \in Int
  BY EffectivePriorityType DEF IInv, TypeOK
<1>6. LiveNodeMatchesEntry'
  BY <1>4, <1>5 DEF IInv, TypeOK, HeapEntry, LiveNodeMatchesEntry, Live
<1> QED
  BY <1>1, <1>2, <1>3, <1>6 DEF IInv

\* add hands out a fresh version and pushes a node for it.
LEMMA AddIInv ==
    ASSUME IInv, NEW c \in Cid, NEW p \in Int, NEW created \in Nat,
           NEW d \in Nat \cup {Never}, add(c, p, created, d)
    PROVE  IInv'
<1> DEFINE v == version_counter + 1
           e == [priority |-> p, created_at |-> created,
                 expires_at |-> created + Timeout, deadline |-> d,
                 retry_count |-> 0, version |-> v]
           n == Node(c, effective_priority(e, now), created, v)
<1>1. /\ version_counter' = v
      /\ entries' = Put(entries, c, e)
      /\ heap' = heap \cup {n}
      /\ out' = [op |-> "add", got |-> {c}]
      /\ now' = now
  BY DEF add, Returns
<1>2. e \in WantEntry /\ v \in Nat /\ now \in Nat
  BY WantListAssumption DEF IInv, TypeOK, WantEntry
<1>3. /\ n \in HeapEntry /\ n.cid = c /\ n.version = v
      /\ Matches(n, e, now)
  BY <1>2, EffectivePriorityType DEF Node, HeapEntry, Matches
<1>4. /\ entries' \in [DOMAIN entries \cup {c} -> WantEntry]
      /\ entries'[c] = e
      /\ \A x \in DOMAIN entries \ {c} : entries'[x] = entries[x]
  BY <1>1, <1>2 DEF Put, IInv, TypeOK
<1>5. out' \in OutType
  BY <1>1 DEF OutType
<1> HIDE DEF n, e
<1>6. /\ \A x \in {c} : entries'[x].version <= version_counter'
      /\ \A x \in {c} : \E m \in {n} : m.cid = x /\ m.version = entries'[x].version
  BY <1>1, <1>2, <1>3, <1>4 DEF e
<1>7. /\ \A m \in {n} : version_counter < m.version /\ m.version <= version_counter'
      /\ \A m \in {n} : m.cid \in {c} /\ m.version = entries'[m.cid].version
                            => Matches(m, entries'[m.cid], now')
      /\ {n} \in SUBSET HeapEntry /\ {c} \in SUBSET Cid
      /\ version_counter' \in Nat /\ version_counter <= version_counter' /\ now' \in Nat
  BY <1>1, <1>2, <1>3, <1>4 DEF IInv, TypeOK
<1>8. \A m, k \in {n} : m.version = k.version => m = k
  OBVIOUS
<1> QED
  BY <1>1, <1>4, <1>5, <1>6, <1>7, <1>8, PushIInv

\* Insertion of the wants of A, built now with priorities req and versions ver.
InsertStep(A, req, ver) ==
    /\ entries' = [c \in DOMAIN entries \cup A |->
          IF c \in A
          THEN [priority |-> req[c], created_at |-> now,
                expires_at |-> now + Timeout, deadline |-> Never,
                retry_count |-> 0, version |-> ver[c]]
          ELSE entries[c]]
    /\ heap' = heap \cup {Node(c, req[c], now, ver[c]) : c \in A}
    /\ version_counter' = version_counter + Cardinality(A)
    /\ out' = [op |-> "add", got |-> A]
    /\ now' = now

\* Versions handed out to a set of CIDs lie above the counter, up to its new
\* value, and differ.
LEMMA FreshVersionsFacts ==
    ASSUME IInv, NEW A \in SUBSET Cid, NEW ver \in FreshVersions(A)
    PROVE  /\ Cardinality(A) \in Nat
           /\ \A c \in A : /\ ver[c] \in Nat /\ version_counter < ver[c]
                          /\ ver[c] <= version_counter + Cardinality(A)
           /\ \A c, d \in A : c # d => ver[c] # ver[d]
           /\ ver \in [A -> (version_counter + 1)..(version_counter + Cardinality(A))]
<1>1. Cardinality(A) \in Nat
  BY WantListAssumption, FS_Subset, FS_CardinalityType
<1> QED
  BY <1>1 DEF FreshVersions, IInv, TypeOK

\* add_batch does the same for as many listed CIDs as there is room for.
LEMMA AddBatchIInv ==
    ASSUME IInv, NEW S \in SUBSET Cid, NEW req \in [S -> PriorityArg],
           add_batch(req)
    PROVE  IInv'
<1>1. PICK A \in SUBSET S : \E ver \in FreshVersions(A) : InsertStep(A, req, ver)
  BY DEF add_batch, Returns, InsertStep
<1>2. PICK ver \in FreshVersions(A) : InsertStep(A, req, ver)
  BY <1>1
<1> DEFINE N(c) == Node(c, req[c], now, ver[c])
           Fresh == {N(c) : c \in A}
<1>3. /\ \A c \in A : /\ ver[c] \in Nat /\ version_counter < ver[c]
                     /\ ver[c] <= version_counter'
      /\ \A c, d \in A : c # d => ver[c] # ver[d]
      /\ version_counter' \in Nat /\ version_counter <= version_counter'
      /\ now' \in Nat /\ now' = now /\ out' \in OutType
  BY <1>2, FreshVersionsFacts DEF InsertStep, IInv, TypeOK, OutType
<1>4. \A c \in A : req[c] \in Int /\ now \in Nat
  BY WantListAssumption DEF IInv, TypeOK
<1>5. \A c \in A : /\ entries'[c] \in WantEntry /\ entries'[c].version = ver[c]
                 /\ entries'[c].priority = req[c]
                 /\ entries'[c].created_at = now
  BY <1>2, <1>3, <1>4, WantListAssumption DEF WantEntry, Never, InsertStep
<1>6. /\ entries' \in [DOMAIN entries \cup A -> WantEntry]
      /\ \A c \in DOMAIN entries \ A : entries'[c] = entries[c]
  <2>1. \A c \in DOMAIN entries : entries[c] \in WantEntry
    BY DEF IInv, TypeOK
  <2> QED
    BY <1>2, <1>5, <2>1 DEF InsertStep
<1>7. \A c \in A : /\ N(c) \in HeapEntry /\ N(c).cid = c /\ N(c).version = ver[c]
                 /\ N(c).priority = req[c] /\ N(c).created_at = now
  BY <1>3, <1>4 DEF Node, HeapEntry
<1>8. heap' = heap \cup Fresh
  BY <1>2 DEF InsertStep
<1> HIDE DEF N
<1>9. /\ Fresh \in SUBSET HeapEntry
      /\ \A n \in Fresh : n.cid \in A /\ n.version = ver[n.cid] /\ n = N(n.cid)
      /\ \A c \in A : \E n \in Fresh : n.cid = c /\ n.version = ver[c]
  BY <1>7
<1> HIDE DEF Fresh
<1>10. \A m, n \in Fresh : m.version = n.version => m = n
  BY <1>3, <1>9
<1>11. \A n \in Fresh : Matches(n, entries'[n.cid], now')
  BY <1>3, <1>4, <1>5, <1>7, <1>9, EffectivePriorityType DEF Matches
<1>12. /\ \A c \in A : entries'[c].version <= version_counter'
       /\ \A c \in A : \E n \in Fresh : n.cid = c /\ n.version = entries'[c].version
       /\ \A n \in Fresh : version_counter < n.version /\ n.version <= version_counter'
       /\ A \in SUBSET Cid
  BY <1>3, <1>5, <1>9
<1> QED
  BY <1>3, <1>6, <1>8, <1>9, <1>10, <1>11, <1>12, PushIInv

\* Re-insertion of the wants of U with priorities pr and versions ver, and of
\* stale copies of those in T one version earlier.
RepushStep(U, T, pr, ver) ==
    /\ entries' = [c \in DOMAIN entries |->
          IF c \in U THEN Reprioritised(entries[c], pr[c], ver[c]) ELSE entries[c]]
    /\ heap' = heap \cup {Node(c, pr[c], entries[c].created_at, ver[c]) : c \in U}
                    \cup {Node(c, pr[c], entries[c].created_at, ver[c] - 1) : c \in T}
    /\ now' = now
    /\ out' = [op |-> "update", got |-> {}]

\* What re-prioritising changes and what it keeps.
LEMMA ReprioritisedFacts ==
    ASSUME NEW e \in WantEntry, NEW p \in Int, NEW v \in Nat
    PROVE  /\ Reprioritised(e, p, v) \in WantEntry
           /\ Reprioritised(e, p, v).priority = p
           /\ Reprioritised(e, p, v).version = v
           /\ Reprioritised(e, p, v).created_at = e.created_at
<1> DEFINE r == [e EXCEPT !.priority = p]
<1>1. r \in WantEntry /\ r.priority = p /\ r.created_at = e.created_at
  BY DEF WantEntry
<1>2. Reprioritised(e, p, v) = [r EXCEPT !.version = v]
  BY DEF Reprioritised
<1> HIDE DEF r
<1> QED
  BY <1>1, <1>2 DEF WantEntry

\* Re-insertion keeps the inductive invariant.
LEMMA RepushIInv ==
    ASSUME IInv, NEW U \in SUBSET DOMAIN entries, NEW T \in SUBSET U,
           NEW pr \in [U -> Int],
           version_counter' \in Nat, version_counter <= version_counter',
           NEW ver \in [U -> (version_counter + 1)..version_counter'],
           \A c \in T : ver[c] - 1 > version_counter,
           \A c, d \in U : c # d => ver[c] # ver[d],
           \A c, d \in U : c # d => (d \in T => ver[c] # ver[d] - 1),
           RepushStep(U, T, pr, ver)
    PROVE  IInv'
<1> DEFINE N(c) == Node(c, pr[c], entries[c].created_at, ver[c])
           O(c) == Node(c, pr[c], entries[c].created_at, ver[c] - 1)
           FreshN == {N(c) : c \in U}
           FreshO == {O(c) : c \in T}
           Fresh == FreshN \cup FreshO
<1>1. \A c \in DOMAIN entries : entries[c] \in WantEntry
  BY DEF IInv, TypeOK
<1>2. \A c \in U : /\ ver[c] \in Nat /\ version_counter < ver[c]
                   /\ ver[c] <= version_counter'
  BY DEF IInv, TypeOK
<1>3. \A c \in U : /\ entries'[c] \in WantEntry
                   /\ entries'[c].priority = pr[c]
                   /\ entries'[c].version = ver[c]
                   /\ entries'[c].created_at = entries[c].created_at
  BY <1>1, <1>2, ReprioritisedFacts DEF RepushStep
<1>4. /\ entries' \in [DOMAIN entries \cup U -> WantEntry]
      /\ \A c \in DOMAIN entries \ U : entries'[c] = entries[c]
  BY <1>1, <1>3 DEF RepushStep
<1>5. \A c \in U : /\ N(c) \in HeapEntry /\ N(c).cid = c /\ N(c).version = ver[c]
                   /\ N(c).priority = pr[c] /\ N(c).created_at = entries[c].created_at
  BY <1>1, <1>2 DEF Node, HeapEntry, WantEntry, IInv, TypeOK
<1>6. \A c \in T : O(c) \in HeapEntry /\ O(c).cid = c /\ O(c).version = ver[c] - 1
  BY <1>1, <1>2 DEF Node, HeapEntry, WantEntry, IInv, TypeOK
<1>7. heap' = heap \cup Fresh /\ now' = now /\ out' \in OutType
  BY DEF RepushStep, OutType
<1> HIDE DEF N, O
<1>8. /\ \A n \in FreshN : n.cid \in U /\ n = N(n.cid) /\ n.version = ver[n.cid]
      /\ \A n \in FreshO : n.cid \in T /\ n = O(n.cid) /\ n.version = ver[n.cid] - 1
      /\ FreshN \in SUBSET HeapEntry /\ FreshO \in SUBSET HeapEntry
      /\ \A c \in U : \E n \in FreshN : n.cid = c /\ n.version = ver[c]
  BY <1>5, <1>6
<1> HIDE DEF FreshN, FreshO
<1>9. \A m, n \in Fresh : m.version = n.version => m = n
  <2> SUFFICES ASSUME NEW m \in Fresh, NEW n \in Fresh, m.version = n.version
               PROVE  m = n
    OBVIOUS
  <2>1. CASE m \in FreshN /\ n \in FreshN
    BY <2>1, <1>8
  <2>2. CASE m \in FreshN /\ n \in FreshO
    BY <2>2, <1>2, <1>8
  <2>3. CASE m \in FreshO /\ n \in FreshN
    BY <2>3, <1>2, <1>8
  <2>4. CASE m \in FreshO /\ n \in FreshO
    BY <2>4, <1>2, <1>8
  <2> QED
    BY <2>1, <2>2, <2>3, <2>4
<1>12. U \in SUBSET Cid /\ now' \in Nat
  BY <1>7 DEF IInv, TypeOK
<1>10. \A n \in Fresh : n.cid \in U /\ n.version = entries'[n.cid].version
                          => Matches(n, entries'[n.cid], now')
  BY <1>2, <1>3, <1>5, <1>8, <1>12, EffectivePriorityType DEF Matches
<1>11. /\ \A c \in U : entries'[c].version <= version_counter'
       /\ \A c \in U : \E n \in Fresh : n.cid = c /\ n.version = entries'[c].version
       /\ \A n \in Fresh : version_counter < n.version /\ n.version <= version_counter'
       /\ Fresh \in SUBSET HeapEntry
  BY <1>2, <1>3, <1>8 DEF IInv, TypeOK
<1> HIDE DEF Fresh
<1> QED
  BY <1>4, <1>7, <1>9, <1>10, <1>11, <1>12, PushIInv

\* update_priority re-inserts one want.
LEMMA UpdatePriorityIInv ==
    ASSUME IInv, NEW c \in Cid, NEW p \in Int, update_priority(c, p)
    PROVE  IInv'
<1> DEFINE pr == [x \in {c} |-> p]
           ver == [x \in {c} |-> version_counter + 1]
<1>1. c \in DOMAIN entries /\ version_counter' = version_counter + 1
  BY DEF update_priority
<1>2. RepushStep({c}, {}, pr, ver)
  <2>1. entries' = [x \in DOMAIN entries |->
           IF x \in {c} THEN Reprioritised(entries[x], pr[x], ver[x]) ELSE entries[x]]
    BY DEF update_priority, IInv, TypeOK
  <2>2. heap' = heap \cup {Node(x, pr[x], entries[x].created_at, ver[x]) : x \in {c}}
                     \cup {Node(x, pr[x], entries[x].created_at, ver[x] - 1) : x \in {}}
    BY DEF update_priority
  <2> QED
    BY <2>1, <2>2 DEF update_priority, RepushStep, Returns
<1>3. /\ version_counter' \in Nat /\ version_counter <= version_counter'
      /\ ver \in [{c} -> (version_counter + 1)..version_counter']
      /\ pr \in [{c} -> Int]
      /\ {c} \in SUBSET DOMAIN entries
  BY <1>1 DEF IInv, TypeOK
<1> HIDE DEF pr, ver
<1> QED
  BY <1>2, <1>3, RepushIInv

\* update_priorities_batch re-inserts the listed wants.
LEMMA UpdateBatchIInv ==
    ASSUME IInv, NEW S \in SUBSET Cid, NEW req \in [S -> PriorityArg],
           update_priorities_batch(req)
    PROVE  IInv'
<1> DEFINE U == S \cap DOMAIN entries
           pr == [x \in U |-> req[x]]
<1>1. PICK ver \in FreshVersions(U) :
        /\ entries' = [c \in DOMAIN entries |->
              IF c \in U THEN Reprioritised(entries[c], req[c], ver[c]) ELSE entries[c]]
        /\ heap' = heap \cup {Node(c, req[c], entries[c].created_at, ver[c]) : c \in U}
  BY DEF update_priorities_batch
<1>2. /\ version_counter' = version_counter + Cardinality(U)
      /\ now' = now /\ out' = [op |-> "update", got |-> {}]
  BY DEF update_priorities_batch, Returns
<1>3. RepushStep(U, {}, pr, ver)
  <2>1. entries' = [c \in DOMAIN entries |->
           IF c \in U THEN Reprioritised(entries[c], pr[c], ver[c]) ELSE entries[c]]
    BY <1>1
  <2>2. heap' = heap \cup {Node(x, pr[x], entries[x].created_at, ver[x]) : x \in U}
                     \cup {Node(x, pr[x], entries[x].created_at, ver[x] - 1) : x \in {}}
    BY <1>1
  <2> QED
    BY <1>2, <2>1, <2>2 DEF RepushStep
<1>4. /\ U \in SUBSET Cid /\ U \in SUBSET DOMAIN entries
      /\ pr \in [U -> Int]
  BY WantListAssumption
<1> HIDE DEF U, pr
<1>5. /\ version_counter' \in Nat /\ version_counter <= version_counter'
      /\ ver \in [U -> (version_counter + 1)..version_counter']
      /\ \A c, d \in U : c # d => ver[c] # ver[d]
  BY <1>2, <1>4, FreshVersionsFacts DEF IInv, TypeOK
<1> QED
  BY <1>3, <1>4, <1>5, RepushIInv

\* boost_deadline_priorities re-inserts the wants that have become more urgent.
LEMMA BoostIInv ==
    ASSUME IInv, boost_deadline_priorities
    PROVE  IInv'
<1> DEFINE U == ToBoost
           T == BoostedTwice
           n == Cardinality(U) + Cardinality(T)
           pr == [c \in U |-> effective_priority(entries[c], now)]
<1>1. /\ U \in SUBSET DOMAIN entries /\ T \in SUBSET U /\ U \in SUBSET Cid
      /\ T \in SUBSET Cid
  BY DEF ToBoost, BoostedTwice, IInv, TypeOK
<1>2. n \in Nat
  BY <1>1, WantListAssumption, FS_Subset, FS_CardinalityType
<1>3. pr \in [U -> Int]
  BY <1>1, EffectivePriorityType DEF IInv, TypeOK
<1>4. PICK ver \in [U -> (version_counter + 1)..(version_counter + n)] :
        /\ \A c \in T : ver[c] - 1 > version_counter
        /\ \A c, d \in U : c # d =>
              /\ ver[c] # ver[d]
              /\ d \in T => ver[c] # ver[d] - 1
        /\ entries' = [c \in DOMAIN entries |->
              IF c \in U
              THEN Reprioritised(entries[c], effective_priority(entries[c], now), ver[c])
              ELSE entries[c]]
        /\ heap' = heap
              \cup {Node(c, effective_priority(entries[c], now),
                         entries[c].created_at, ver[c]) : c \in U}
              \cup {Node(c, effective_priority(entries[c], now),
                         entries[c].created_at, ver[c] - 1) : c \in T}
  BY DEF boost_deadline_priorities
<1>5. /\ version_counter' = version_counter + n
      /\ now' = now /\ out' = [op |-> "update", got |-> {}]
  BY DEF boost_deadline_priorities, Returns
<1> HIDE DEF U, T, n
<1>6. RepushStep(U, T, pr, ver)
  <2>1. entries' = [c \in DOMAIN entries |->
           IF c \in U THEN Reprioritised(entries[c], pr[c], ver[c]) ELSE entries[c]]
    BY <1>4
  <2>2. {Node(c, effective_priority(entries[c], now),
              entries[c].created_at, ver[c]) : c \in U}
        = {Node(x, pr[x], entries[x].created_at, ver[x]) : x \in U}
    OBVIOUS
  <2>3. {Node(c, effective_priority(entries[c], now),
              entries[c].created_at, ver[c] - 1) : c \in T}
        = {Node(x, pr[x], entries[x].created_at, ver[x] - 1) : x \in T}
    BY <1>1
  <2> HIDE DEF pr
  <2> QED
    BY <1>4, <1>5, <2>1, <2>2, <2>3 DEF RepushStep
<1>7. /\ version_counter' \in Nat /\ version_counter <= version_counter'
      /\ ver \in [U -> (version_counter + 1)..version_counter']
  BY <1>2, <1>5 DEF IInv, TypeOK
<1> HIDE DEF pr
<1> QED
  BY <1>1, <1>3, <1>4, <1>6, <1>7, RepushIInv

\* Forgetting a set of wants and no node keeps the invariant.
LEMMA WithoutIInv ==
    ASSUME IInv, NEW S, entries' = Without(entries, S), UNCHANGED <<heap, version_counter>>,
           now' = now, out' \in OutType
    PROVE  IInv'
<1>1. /\ DOMAIN entries' \subseteq DOMAIN entries
      /\ entries' \in [DOMAIN entries' -> WantEntry]
      /\ \A c \in DOMAIN entries' : entries'[c] = entries[c]
      /\ now' \in Nat /\ now <= now'
  BY DEF Without, IInv, TypeOK
<1> QED
  BY <1>1, DropIInv

\* pop forgets the want it serves; the nodes it discards before that are stale.
LEMMA PopSomeIInv ==
    ASSUME IInv, NEW n \in heap, popSome(n)
    PROVE  IInv'
<1>1. PICK ties \in SUBSET {m \in heap : ~Live(m) /\ ~Before(m, n) /\ ~Before(n, m)} :
         heap' = heap \ ({n} \cup {m \in heap : Before(m, n)} \cup ties)
  BY DEF popSome
<1>2. /\ Live(n)
      /\ \A m \in heap : Live(m) => ~Before(m, n)
      /\ entries' = Without(entries, {n.cid})
      /\ version_counter' = version_counter /\ now' = now
      /\ out' = [op |-> "pop", got |-> {n.cid}]
  BY DEF popSome, Returns
<1>3. /\ DOMAIN entries' = DOMAIN entries \ {n.cid}
      /\ entries' \in [DOMAIN entries' -> WantEntry]
      /\ \A c \in DOMAIN entries' : entries'[c] = entries[c]
  BY <1>2 DEF Without, IInv, TypeOK
<1>4. \A m \in heap : Live(m) /\ m.cid \in DOMAIN entries' => m \in heap'
  BY <1>1, <1>2, <1>3
<1>5. heap' \subseteq heap /\ now' \in Nat /\ now <= now' /\ out' \in OutType
  BY <1>1, <1>2 DEF OutType, IInv, TypeOK, Live
<1> QED
  BY <1>2, <1>3, <1>4, <1>5, DropIInv

\* Every step keeps the inductive invariant.
LEMMA NextIInv == IInv /\ [Next]_vars => IInv'
<1> SUFFICES ASSUME IInv, [Next]_vars PROVE IInv'
  OBVIOUS
<1> USE WantListAssumption
<1>0. now \in Nat /\ out \in OutType /\ DOMAIN entries \subseteq Cid
  BY DEF IInv, TypeOK, OutType
<1>1. ASSUME NEW c \in Cid, NEW p \in PriorityArg, add_simple(c, p) PROVE IInv'
  BY <1>0, <1>1, AddIInv DEF add_simple
<1>2. ASSUME NEW c \in Cid, NEW p \in PriorityArg, NEW created \in 0..now,
             NEW d \in DeadlineArg, add(c, p, created, d)
      PROVE  IInv'
  BY <1>0, <1>2, AddIInv
<1>3. ASSUME NEW S \in SUBSET Cid, NEW req \in [S -> PriorityArg], add_batch(req)
      PROVE  IInv'
  BY <1>3, AddBatchIInv
<1>4. ASSUME NEW c \in Cid, remove(c) PROVE IInv'
  <2>1. out' \in OutType
    BY <1>4 DEF remove, Returns, OutType
  <2> QED
    BY <1>0, <1>4, <2>1, WithoutIInv DEF remove
<1>5. ASSUME NEW S \in SUBSET Cid, remove_batch(S) PROVE IInv'
  <2>1. out' \in OutType
    BY <1>5 DEF remove_batch, Returns, OutType
  <2> QED
    BY <1>0, <1>5, <2>1, WithoutIInv DEF remove_batch
<1>6. ASSUME NEW c \in Cid, NEW p \in PriorityArg, update_priority(c, p) PROVE IInv'
  BY <1>6, UpdatePriorityIInv
<1>7. ASSUME NEW S \in SUBSET Cid, NEW req \in [S -> PriorityArg],
             update_priorities_batch(req)
      PROVE  IInv'
  BY <1>7, UpdateBatchIInv
<1>8. CASE boost_deadline_priorities
  BY <1>8, BoostIInv
<1>9. ASSUME NEW n \in heap, popSome(n) PROVE IInv'
  BY <1>9, PopSomeIInv
<1>10. CASE popNone
  <2>1. out' \in OutType
    BY <1>10 DEF popNone, Returns, OutType
  <2>2. entries' \in [DOMAIN entries' -> WantEntry]
    BY <1>10 DEF popNone, IInv, TypeOK
  <2> QED
    BY <1>0, <1>10, <2>1, <2>2, DropIInv DEF popNone
<1>11. CASE cleanup_expired
  <2>1. out' \in OutType
    BY <1>0, <1>11 DEF cleanup_expired, Returns, OutType
  <2> QED
    BY <1>0, <1>11, <2>1, WithoutIInv DEF cleanup_expired
<1>12. ASSUME NEW c \in Cid, mark_attempted(c) PROVE IInv'
  <2>1. out' \in OutType
    BY <1>12 DEF mark_attempted, Returns, OutType
  <2>2. /\ entries' \in [DOMAIN entries' -> WantEntry]
        /\ DOMAIN entries' = DOMAIN entries
        /\ \A x \in DOMAIN entries' :
               /\ entries'[x].version = entries[x].version
               /\ entries'[x].priority = entries[x].priority
               /\ entries'[x].created_at = entries[x].created_at
               /\ entries'[x].deadline = entries[x].deadline
    BY <1>12 DEF mark_attempted, IInv, TypeOK, WantEntry
  <2> QED
    BY <1>0, <1>12, <2>1, <2>2, DropIInv DEF mark_attempted
<1>13. CASE clear
  <2>1. out' \in OutType
    BY <1>0, <1>13 DEF clear, Returns, OutType
  <2>2. /\ DOMAIN entries' = {}
        /\ entries' \in [DOMAIN entries' -> WantEntry]
        /\ heap' = {} /\ version_counter' = version_counter /\ now' = now
    BY <1>13 DEF clear, Without
  <2> QED
    BY <1>0, <2>1, <2>2, DropIInv
<1>14. CASE Tick
  <2>1. entries' = entries /\ heap' = heap /\ version_counter' = version_counter
        /\ out' = out /\ now' = now + 1
    BY <1>14 DEF Tick
  <2>2. entries' \in [DOMAIN entries' -> WantEntry]
    BY <2>1 DEF IInv, TypeOK
  <2> QED
    BY <1>0, <2>1, <2>2, DropIInv
<1>15. CASE UNCHANGED vars
  BY <1>15 DEF vars, IInv, TypeOK, VersionsHandedOut, VersionsUnique, HasLiveNode,
               LiveNodeMatchesEntry, Live
<1> QED
  BY <1>1, <1>2, <1>3, <1>4, <1>5, <1>6, <1>7, <1>8, <1>9, <1>10, <1>11,
     <1>12, <1>13, <1>14, <1>15 DEF Next

-----------------------------------------------------------------------------
\* The inductive invariant holds throughout.
THEOREM InvariantHolds == Spec => []IInv
BY InitIInv, NextIInv, PTL DEF Spec

\* The want list's state is well typed for every set of CIDs and every bound.
THEOREM TypeCorrect == Spec => []TypeOK
<1>1. IInv => TypeOK
  BY DEF IInv
<1> QED
  BY <1>1, InvariantHolds, PTL

\* Lazy deletion never loses a want: at every moment each wanted CID has
\* exactly one node that pop accepts for it.
THEOREM NoWantIsLost == Spec => []EveryWantIsPoppable
BY InvariantHolds, PoppableFromIInv, PTL

\* A live node never ranks its want below the priority stored for it, nor above
\* what its deadline justifies.
THEOREM NodesMatchEntries == Spec => []LiveNodeMatchesEntry
<1>1. IInv => LiveNodeMatchesEntry
  BY DEF IInv
<1> QED
  BY <1>1, InvariantHolds, PTL

\* pop never serves a want that a remaining one out-ranks by its stored priority.
THEOREM ServiceOrder == Spec => PopNeverInverts
<1>1. ASSUME IInv, NEW n \in heap, popSome(n), NEW c \in DOMAIN entries'
      PROVE  effective_priority(entries[n.cid], now) >= entries[c].priority
  <2>1. /\ Live(n) /\ c \in DOMAIN entries
        /\ \A m \in heap : Live(m) => ~Before(m, n)
    BY <1>1 DEF popSome, Without
  <2>2. PICK m \in heap : m.cid = c /\ Live(m)
    BY <1>1, <2>1 DEF IInv, HasLiveNode
  <2>3. /\ n.priority <= effective_priority(entries[n.cid], now)
        /\ m.priority >= entries[c].priority
    BY <1>1, <2>1, <2>2 DEF IInv, LiveNodeMatchesEntry
  <2>4. ~Before(m, n) /\ m.priority \in Int /\ n.priority \in Int
    BY <1>1, <2>1, <2>2 DEF IInv, TypeOK, HeapEntry
  <2>5. m.priority <= n.priority
    BY <2>4 DEF Before
  <2>6. /\ effective_priority(entries[n.cid], now) \in Int
        /\ entries[c].priority \in Int
    <3>1. /\ entries[n.cid] \in WantEntry /\ entries[c] \in WantEntry /\ now \in Nat
      BY <1>1, <2>1 DEF IInv, TypeOK, Live
    <3> QED
      BY <3>1, EffectivePriorityType DEF WantEntry
  <2> QED
    BY <2>3, <2>4, <2>5, <2>6
<1>2. IInv /\ [Next]_vars =>
        [\A n \in heap : popSome(n) =>
            \A c \in DOMAIN entries' :
              effective_priority(entries[n.cid], now) >= entries[c].priority]_vars
  BY <1>1
<1> QED
  BY <1>2, InvariantHolds, PTL DEF Spec, PopNeverInverts

\* No call grows the list past its capacity.
LEMMA NextCapacity ==
    IInv /\ CapacityRespected /\ [Next]_vars => CapacityRespected'
<1> SUFFICES ASSUME IInv, CapacityRespected, [Next]_vars PROVE CapacityRespected'
  OBVIOUS
<1>0. /\ IsFiniteSet(DOMAIN entries) /\ Cardinality(DOMAIN entries) \in Nat
      /\ MaxWants \in Nat
  BY WantListAssumption, FS_Subset, FS_CardinalityType DEF IInv, TypeOK
<1>1. ASSUME DOMAIN entries' \subseteq DOMAIN entries PROVE CapacityRespected'
  <2>1. /\ Cardinality(DOMAIN entries') <= Cardinality(DOMAIN entries)
        /\ Cardinality(DOMAIN entries') \in Nat
    BY <1>0, <1>1, FS_Subset, FS_CardinalityType
  <2> QED
    BY <1>0, <2>1 DEF CapacityRespected
<1>2. ASSUME NEW c \in Cid, NEW p, NEW created, NEW d, add(c, p, created, d)
      PROVE  CapacityRespected'
  <2>1. /\ c \notin DOMAIN entries /\ DOMAIN entries' = DOMAIN entries \cup {c}
        /\ Cardinality(DOMAIN entries) < MaxWants
    BY <1>2 DEF add, Put
  <2>2. Cardinality(DOMAIN entries') = Cardinality(DOMAIN entries) + 1
    BY <1>0, <2>1, FS_AddElement
  <2> QED
    BY <1>0, <2>1, <2>2 DEF CapacityRespected
<1>3. ASSUME NEW S \in SUBSET Cid, NEW req \in [S -> PriorityArg], add_batch(req)
      PROVE  CapacityRespected'
  <2>1. PICK A \in SUBSET (S \ DOMAIN entries) :
           /\ Cardinality(A) <= MaxWants - Cardinality(DOMAIN entries)
           /\ DOMAIN entries' = DOMAIN entries \cup A
    BY <1>3 DEF add_batch
  <2>2. IsFiniteSet(A) /\ Cardinality(A) \in Nat
    BY WantListAssumption, FS_Subset, FS_CardinalityType
  <2>3. Cardinality({}) = 0
    BY FS_EmptySet
  <2>4. Cardinality(DOMAIN entries \cup A)
          = Cardinality(DOMAIN entries) + Cardinality(A) - Cardinality(DOMAIN entries \cap A)
    BY <1>0, <2>2, FS_Union
  <2>5. DOMAIN entries \cap A = {}
    OBVIOUS
  <2>6. Cardinality(DOMAIN entries \cap A) = 0
    BY <2>3, <2>5
  <2>7. Cardinality(DOMAIN entries') = Cardinality(DOMAIN entries \cup A)
    BY <2>1
  <2> QED
    BY <1>0, <2>1, <2>2, <2>4, <2>6, <2>7 DEF CapacityRespected
<1>4. CASE \/ \E c \in Cid, p \in PriorityArg : add_simple(c, p)
           \/ \E c \in Cid, p \in PriorityArg, created \in 0..now, d \in DeadlineArg :
                 add(c, p, created, d)
  BY <1>2, <1>4 DEF add_simple
<1>5. CASE \E S \in SUBSET Cid : \E req \in [S -> PriorityArg] : add_batch(req)
  BY <1>3, <1>5
<1>6. CASE \/ \E c \in Cid : remove(c)
           \/ \E S \in SUBSET Cid : remove_batch(S)
           \/ \E n \in heap : popSome(n)
           \/ cleanup_expired
           \/ clear
  <2>1. DOMAIN entries' \subseteq DOMAIN entries
    BY <1>6 DEF remove, remove_batch, popSome, cleanup_expired, clear, Without
  <2> QED
    BY <2>1, <1>1
<1>7. CASE \/ \E c \in Cid, p \in PriorityArg : update_priority(c, p)
           \/ \E S \in SUBSET Cid : \E req \in [S -> PriorityArg] :
                 update_priorities_batch(req)
           \/ boost_deadline_priorities
           \/ popNone
           \/ \E c \in Cid : mark_attempted(c)
           \/ Tick
           \/ UNCHANGED vars
  <2>1. DOMAIN entries' = DOMAIN entries
    BY <1>7 DEF update_priority, update_priorities_batch, boost_deadline_priorities,
                popNone, mark_attempted, Tick, vars
  <2> QED
    BY <2>1, <1>1
<1> QED
  BY <1>4, <1>5, <1>6, <1>7 DEF Next

\* max_wants bounds the want list for every configuration.
THEOREM CapacityHolds == Spec => []CapacityRespected
<1>1. Init => CapacityRespected
  <2>1. Cardinality({}) = 0
    BY FS_EmptySet
  <2> QED
    BY <2>1, WantListAssumption DEF Init, CapacityRespected
<1> QED
  BY <1>1, NextCapacity, InvariantHolds, PTL DEF Spec


-----------------------------------------------------------------------------
(* The want list implements a priority queue *)

\* The node that ranks a want is the only one that is live for it.
LEMMA LiveNodeFacts ==
    ASSUME IInv, NEW c \in DOMAIN entries
    PROVE  /\ LiveNode(c) \in heap /\ LiveNode(c).cid = c /\ Live(LiveNode(c))
           /\ \A n \in heap : n.version = entries[c].version => n = LiveNode(c)
<1>1. \E n \in heap : n.cid = c /\ Live(n)
  BY DEF IInv, HasLiveNode
<1>2. LiveNode(c) \in heap /\ LiveNode(c).cid = c /\ Live(LiveNode(c))
  BY <1>1 DEF LiveNode
<1>3. QED
  BY <1>2 DEF IInv, VersionsUnique, Live

\* The ranks of the wants, with the age the entry records.
LEMMA QueueFacts ==
    ASSUME IInv
    PROVE  /\ DOMAIN Queue = DOMAIN entries
           /\ \A c \in DOMAIN entries :
                 /\ Queue[c] \in Abstract!Rank
                 /\ Queue[c].created = entries[c].created_at
                 /\ Queue[c] = [priority |-> LiveNode(c).priority, created |-> LiveNode(c).created_at]
<1>1. DOMAIN Queue = DOMAIN entries
  BY DEF Queue
<1>2. ASSUME NEW c \in DOMAIN entries
      PROVE  /\ Queue[c] \in Abstract!Rank
             /\ Queue[c].created = entries[c].created_at
             /\ Queue[c] = [priority |-> LiveNode(c).priority, created |-> LiveNode(c).created_at]
  <2>1. Queue[c] = [priority |-> LiveNode(c).priority, created |-> LiveNode(c).created_at]
    BY <1>2 DEF Queue
  <2> DEFINE n == LiveNode(c)
  <2>2. n \in heap /\ n.cid = c /\ Live(n)
    BY <1>2, LiveNodeFacts
  <2> HIDE DEF n
  <2>3. n.priority \in Int /\ n.created_at \in Nat /\ n.created_at = entries[c].created_at
    BY <2>2 DEF IInv, TypeOK, HeapEntry, LiveNodeMatchesEntry
  <2>4. QED
    BY <2>1, <2>3 DEF Abstract!Rank, n
<1>3. QED
  BY <1>1, <1>2

\* The same of the next state.
LEMMA LiveNodeFactsNext ==
    IInv' => \A c \in DOMAIN entries' :
                 /\ LiveNode(c)' \in heap' /\ LiveNode(c)'.cid = c /\ Live(LiveNode(c))'
                 /\ \A n \in heap' : n.version = entries'[c].version => n = LiveNode(c)'
<1>1. IInv => \A c \in DOMAIN entries :
                 /\ LiveNode(c) \in heap /\ LiveNode(c).cid = c /\ Live(LiveNode(c))
                 /\ \A n \in heap : n.version = entries[c].version => n = LiveNode(c)
  BY LiveNodeFacts
<1>2. (IInv => \A c \in DOMAIN entries :
                 /\ LiveNode(c) \in heap /\ LiveNode(c).cid = c /\ Live(LiveNode(c))
                 /\ \A n \in heap : n.version = entries[c].version => n = LiveNode(c))'
  BY <1>1, PTL
<1>3. QED
  BY <1>2

LEMMA QueueFactsNext ==
    IInv' => /\ DOMAIN Queue' = DOMAIN entries'
             /\ \A c \in DOMAIN entries' :
                   /\ Queue'[c] \in Abstract!Rank
                   /\ Queue'[c].created = entries'[c].created_at
                   /\ Queue'[c] = [priority |-> LiveNode(c)'.priority, created |-> LiveNode(c)'.created_at]
<1>1. IInv => /\ DOMAIN Queue = DOMAIN entries
              /\ \A c \in DOMAIN entries :
                    /\ Queue[c] \in Abstract!Rank
                    /\ Queue[c].created = entries[c].created_at
                    /\ Queue[c] = [priority |-> LiveNode(c).priority, created |-> LiveNode(c).created_at]
  BY QueueFacts
<1>2. (IInv => /\ DOMAIN Queue = DOMAIN entries
               /\ \A c \in DOMAIN entries :
                    /\ Queue[c] \in Abstract!Rank
                    /\ Queue[c].created = entries[c].created_at
                    /\ Queue[c] = [priority |-> LiveNode(c).priority, created |-> LiveNode(c).created_at])'
  BY <1>1, PTL
<1>3. QED
  BY <1>2 DEF Abstract!Rank

\* A want that keeps its version keeps its rank, while nodes are only pushed
\* or only discarded.
LEMMA RankStays ==
    ASSUME IInv, IInv', heap \subseteq heap' \/ heap' \subseteq heap,
           NEW c \in DOMAIN entries, c \in DOMAIN entries', entries'[c].version = entries[c].version
    PROVE  Queue'[c] = Queue[c]
<1> DEFINE n == LiveNode(c)
           m == LiveNode(c)'
<1>1. n \in heap /\ n.version = entries[c].version /\ \A k \in heap : k.version = entries[c].version => k = n
  BY LiveNodeFacts DEF Live
<1>2. m \in heap' /\ m.version = entries'[c].version /\ \A k \in heap' : k.version = entries'[c].version => k = m
  BY LiveNodeFactsNext DEF Live
<1> HIDE DEF n, m
<1>3. m = n
  BY <1>1, <1>2
<1>4. QED
  BY <1>3, QueueFacts, QueueFactsNext DEF n, m

-----------------------------------------------------------------------------
(* Each call is one of the queue's *)

\* Calls that add wants.
LEMMA InsertRefined ==
    ASSUME IInv, IInv', CapacityRespected', NEW S \in SUBSET Cid, S \cap DOMAIN entries = {},
           DOMAIN entries' = DOMAIN entries \cup S, heap \subseteq heap',
           \A c \in DOMAIN entries : entries'[c] = entries[c],
           Returns("add", S)
    PROVE  Abstract!Next
<1>1. DOMAIN Queue = DOMAIN entries /\ DOMAIN Queue' = DOMAIN entries'
  BY QueueFacts, QueueFactsNext
<1>2. \A c \in DOMAIN entries : Queue'[c] = Queue[c]
  BY RankStays
<1>3. \A c \in DOMAIN entries' : Queue'[c] \in Abstract!Rank
  BY QueueFactsNext
<1>4. Cardinality(DOMAIN entries') <= MaxWants
  BY DEF CapacityRespected
<1>a. DOMAIN Queue \cup S = DOMAIN entries'
  BY <1>1
<1>b. Abstract!Cardinality(DOMAIN Queue \cup S) <= MaxWants
  <2>1. \A T : Abstract!Cardinality(T) = Cardinality(T)
    BY Zenon DEF Abstract!Cardinality, Cardinality
  <2>2. QED
    BY <1>4, <1>a, <2>1
<1>c. Abstract!Becomes(DOMAIN Queue \cup S)
  BY <1>1, <1>2, <1>a DEF Abstract!Becomes
<1>d. (\A c \in S : Queue'[c] \in Abstract!Rank) /\ S \cap DOMAIN Queue = {}
  BY <1>1, <1>3
<1>5. Abstract!Insert(S)
  BY <1>b, <1>c, <1>d DEF Abstract!Insert, Abstract!Returns, Returns
<1>6. QED
  BY <1>5 DEF Abstract!Next

\* Calls that take wants back.
LEMMA WithdrawRefined ==
    ASSUME IInv, IInv', NEW S \in SUBSET DOMAIN entries,
           entries' = Without(entries, S), heap' \subseteq heap, Returns("remove", S)
    PROVE  Abstract!Next
<1>1. DOMAIN Queue = DOMAIN entries /\ DOMAIN Queue' = DOMAIN entries' /\ DOMAIN entries \subseteq Cid
  BY QueueFacts, QueueFactsNext DEF IInv, TypeOK
<1>2. DOMAIN entries' = DOMAIN entries \ S /\ \A c \in DOMAIN entries' : entries'[c] = entries[c]
  BY DEF Without
<1>3. \A c \in DOMAIN entries' : Queue'[c] = Queue[c]
  BY <1>2, RankStays
<1>4. Abstract!Withdraw(S)
  BY <1>1, <1>2, <1>3 DEF Abstract!Withdraw, Abstract!Becomes, Abstract!Returns, Returns
<1>5. QED
  BY <1>1, <1>4 DEF Abstract!Next

\* Calls that change wants: their ranks move, their ages do not.
LEMMA RerankRefined ==
    ASSUME IInv, IInv', DOMAIN entries' = DOMAIN entries, Returns("update", {}),
           \A c \in DOMAIN entries : entries'[c].created_at = entries[c].created_at
    PROVE  Abstract!Next
<1>1. DOMAIN Queue = DOMAIN entries /\ DOMAIN Queue' = DOMAIN entries'
  BY QueueFacts, QueueFactsNext
<1>2. \A c \in DOMAIN entries : Queue'[c] \in Abstract!Rank /\ Queue'[c].created = Queue[c].created
  BY QueueFacts, QueueFactsNext
<1>3. Abstract!Rerank
  BY <1>1, <1>2 DEF Abstract!Rerank, Abstract!Returns, Returns
<1>4. QED
  BY <1>3 DEF Abstract!Next

\* pop serves the want of the highest rank ...
LEMMA PopRefined ==
    ASSUME IInv, IInv', NEW n \in heap, popSome(n)
    PROVE  Abstract!Next
<1> DEFINE c == n.cid
<1>1. /\ Live(n) /\ \A m \in heap : Live(m) => ~Before(m, n)
      /\ heap' \subseteq heap /\ entries' = Without(entries, {c}) /\ Returns("pop", {c})
  BY DEF popSome
<1>2. c \in DOMAIN entries /\ c \in Cid /\ n = LiveNode(c)
  BY <1>1, LiveNodeFacts DEF Live, IInv, TypeOK
<1>3. DOMAIN Queue = DOMAIN entries /\ DOMAIN Queue' = DOMAIN entries'
  BY QueueFacts, QueueFactsNext
<1>4. DOMAIN entries' = DOMAIN entries \ {c} /\ \A d \in DOMAIN entries' : entries'[d] = entries[d]
  BY <1>1 DEF Without
<1>5. \A d \in DOMAIN entries' : Queue'[d] = Queue[d]
  BY <1>1, <1>4, RankStays
<1>6. ASSUME NEW d \in DOMAIN entries PROVE ~Abstract!RankBefore(Queue[d], Queue[c])
  <2>1. Queue[d] = [priority |-> LiveNode(d).priority, created |-> LiveNode(d).created_at]
    BY QueueFacts
  <2>2. Queue[c] = [priority |-> n.priority, created |-> n.created_at]
    BY <1>2, QueueFacts
  <2>3. LiveNode(d) \in heap /\ Live(LiveNode(d))
    BY LiveNodeFacts
  <2>4. ~Before(LiveNode(d), n)
    BY <1>1, <2>3
  <2>5. QED
    BY <2>1, <2>2, <2>4 DEF Before, Abstract!RankBefore
<1>7. Abstract!Pop(c)
  BY <1>1, <1>2, <1>3, <1>4, <1>5, <1>6 DEF Abstract!Pop, Abstract!Becomes, Abstract!Returns, Returns
<1>8. QED
  BY <1>2, <1>7 DEF Abstract!Next

\* ... and finds none only when nothing is wanted.
LEMMA PopNoneRefined ==
    ASSUME IInv, IInv', popNone
    PROVE  Abstract!Next
<1>1. DOMAIN entries = {} /\ entries' = entries /\ Returns("pop", {})
  BY DEF popNone, IInv, HasLiveNode
<1>2. DOMAIN Queue = {} /\ DOMAIN Queue' = {}
  BY <1>1, QueueFacts, QueueFactsNext
<1>3. Abstract!PopNothing
  BY <1>1, <1>2 DEF Abstract!PopNothing, Abstract!Becomes, Abstract!Returns, Returns
<1>4. QED
  BY <1>3 DEF Abstract!Next

\* Steps that touch neither entries nor heap do not move the queue.
LEMMA QueueStays ==
    ASSUME IInv, IInv', UNCHANGED <<entries, heap>>
    PROVE  Queue' = Queue
<1>1. DOMAIN Queue = DOMAIN entries /\ DOMAIN Queue' = DOMAIN entries
  BY QueueFacts, QueueFactsNext
<1>2. \A c \in DOMAIN entries : Queue'[c] = Queue[c]
  BY RankStays
<1>3. Queue = [c \in DOMAIN Queue |-> Queue[c]] /\ Queue' = [c \in DOMAIN Queue' |-> Queue'[c]]
  BY DEF Queue
<1>4. QED
  BY <1>1, <1>2, <1>3


\* Every step of the want list is a step of the queue, or none.
LEMMA NextRefined ==
    ASSUME IInv, IInv', CapacityRespected', [Next]_vars
    PROVE  [Abstract!Next]_<<Queue, out>>
<1>1. ASSUME NEW c \in Cid, NEW p, NEW created, NEW d, add(c, p, created, d) PROVE Abstract!Next
  <2> DEFINE S == {c}
  <2>1. /\ S \in SUBSET Cid /\ S \cap DOMAIN entries = {} /\ DOMAIN entries' = DOMAIN entries \cup S
        /\ heap \subseteq heap' /\ (\A x \in DOMAIN entries : entries'[x] = entries[x])
        /\ Returns("add", S)
    BY <1>1 DEF add, Put
  <2> HIDE DEF S
  <2>2. QED
    BY <2>1, InsertRefined
<1>2. ASSUME NEW S \in SUBSET Cid, NEW req \in [S -> PriorityArg], add_batch(req) PROVE Abstract!Next
  <2>1. PICK A \in SUBSET (DOMAIN req \ DOMAIN entries) :
          /\ DOMAIN entries' = DOMAIN entries \cup A /\ heap \subseteq heap'
          /\ \A x \in DOMAIN entries : x \notin A => entries'[x] = entries[x]
          /\ Returns("add", A)
    BY <1>2 DEF add_batch
  <2>2. A \in SUBSET Cid /\ A \cap DOMAIN entries = {}
    BY <2>1
  <2>3. \A x \in DOMAIN entries : entries'[x] = entries[x]
    BY <2>1, <2>2
  <2>4. QED
    BY <2>1, <2>2, <2>3, InsertRefined
<1>3. ASSUME NEW S, entries' = Without(entries, S), heap' \subseteq heap,
             Returns("remove", S \cap DOMAIN entries)
      PROVE  Abstract!Next
  <2> DEFINE W == S \cap DOMAIN entries
  <2>1. W \in SUBSET DOMAIN entries /\ DOMAIN entries \ S = DOMAIN entries \ W
    OBVIOUS
  <2>2. entries' = Without(entries, W) /\ Returns("remove", W)
    BY <1>3, <2>1 DEF Without
  <2> HIDE DEF W
  <2>3. QED
    BY <1>3, <2>1, <2>2, WithdrawRefined
<1>4. ASSUME NEW c \in Cid, remove(c) PROVE Abstract!Next
  <2> DEFINE S == {c}
  <2>1. S \cap DOMAIN entries = S /\ entries' = Without(entries, S) /\ heap' \subseteq heap /\ Returns("remove", S)
    BY <1>4 DEF remove
  <2> HIDE DEF S
  <2>2. QED
    BY <1>3, <2>1
<1>5. ASSUME NEW S \in SUBSET Cid, remove_batch(S) PROVE Abstract!Next
  BY <1>3, <1>5 DEF remove_batch
<1>6. CASE cleanup_expired
  <2> DEFINE S == {c \in DOMAIN entries : is_expired(entries[c], now)}
  <2>1. entries' = Without(entries, S) /\ heap' \subseteq heap /\ Returns("remove", S)
    BY <1>6 DEF cleanup_expired
  <2>2. S \cap DOMAIN entries = S
    OBVIOUS
  <2> HIDE DEF S
  <2>3. QED
    BY <1>3, <2>1, <2>2
<1>7. CASE clear
  <2> DEFINE S == DOMAIN entries
  <2>1. entries' = Without(entries, S) /\ heap' \subseteq heap /\ Returns("remove", S) /\ S \cap DOMAIN entries = S
    BY <1>7 DEF clear
  <2> HIDE DEF S
  <2>2. QED
    BY <1>3, <2>1
<1>8. \A c \in DOMAIN entries : entries[c] \in WantEntry
  BY DEF IInv, TypeOK
<1>9. ASSUME NEW c \in Cid, NEW p, update_priority(c, p) PROVE Abstract!Next
  <2> DEFINE v == version_counter + 1
  <2>1. c \in DOMAIN entries /\ entries' = [entries EXCEPT ![c] = Reprioritised(entries[c], p, v)] /\ Returns("update", {})
    BY <1>9 DEF update_priority
  <2>2. Reprioritised(entries[c], p, v).created_at = entries[c].created_at
    BY <1>8, <2>1 DEF Reprioritised, WantEntry
  <2> HIDE DEF v
  <2>3. DOMAIN entries' = DOMAIN entries /\ \A x \in DOMAIN entries : entries'[x].created_at = entries[x].created_at
    BY <2>1, <2>2
  <2>4. QED
    BY <2>1, <2>3, RerankRefined
<1>10. ASSUME NEW c \in DOMAIN entries, NEW p, NEW v
       PROVE  Reprioritised(entries[c], p, v).created_at = entries[c].created_at
  BY <1>8, <1>10 DEF Reprioritised, WantEntry
<1>11. ASSUME NEW S \in SUBSET Cid, NEW req \in [S -> PriorityArg], update_priorities_batch(req)
       PROVE  Abstract!Next
  <2> DEFINE U == DOMAIN req \cap DOMAIN entries
  <2>1. PICK ver :
          entries' = [c \in DOMAIN entries |->
                        IF c \in U THEN Reprioritised(entries[c], req[c], ver[c]) ELSE entries[c]]
    BY <1>11 DEF update_priorities_batch
  <2>2. Returns("update", {})
    BY <1>11 DEF update_priorities_batch
  <2>3. DOMAIN entries' = DOMAIN entries /\ \A x \in DOMAIN entries : entries'[x].created_at = entries[x].created_at
    BY <1>10, <2>1
  <2>4. QED
    BY <2>2, <2>3, RerankRefined
<1>12. CASE boost_deadline_priorities
  <2>1. PICK ver :
          entries' = [c \in DOMAIN entries |->
                        IF c \in ToBoost
                        THEN Reprioritised(entries[c], effective_priority(entries[c], now), ver[c])
                        ELSE entries[c]]
    BY <1>12 DEF boost_deadline_priorities
  <2>2. Returns("update", {})
    BY <1>12 DEF boost_deadline_priorities
  <2>3. DOMAIN entries' = DOMAIN entries /\ \A x \in DOMAIN entries : entries'[x].created_at = entries[x].created_at
    BY <1>10, <2>1
  <2>4. QED
    BY <2>2, <2>3, RerankRefined
<1>13. ASSUME NEW c \in Cid, mark_attempted(c) PROVE Abstract!Next
  <2>1. /\ c \in DOMAIN entries /\ Returns("update", {})
        /\ entries' = [entries EXCEPT ![c] = [entries[c] EXCEPT !.retry_count = entries[c].retry_count + 1]]
    BY <1>13 DEF mark_attempted
  <2>2. [entries[c] EXCEPT !.retry_count = entries[c].retry_count + 1].created_at = entries[c].created_at
    BY <1>8, <2>1 DEF WantEntry
  <2>3. DOMAIN entries' = DOMAIN entries /\ \A x \in DOMAIN entries : entries'[x].created_at = entries[x].created_at
    BY <2>1, <2>2
  <2>4. QED
    BY <2>1, <2>3, RerankRefined
<1>14. CASE Tick \/ UNCHANGED vars
  <2>1. UNCHANGED <<entries, heap>> /\ out' = out
    BY <1>14 DEF Tick, vars
  <2>2. Queue' = Queue
    BY <2>1, QueueStays
  <2>3. QED
    BY <2>1, <2>2
<1>15. CASE (\E n \in heap : popSome(n)) \/ popNone
  BY <1>15, PopRefined, PopNoneRefined
<1>16. QED
  BY <1>1, <1>2, <1>4, <1>5, <1>6, <1>7, <1>9, <1>11, <1>12, <1>13, <1>14, <1>15 DEF Next, add_simple

\* The lazily deleted heap is a priority queue with a limit: each call does what
\* the queue's does, pop serves a want of the highest rank, and it finds none
\* only when nothing is wanted.
THEOREM HeapIsPriorityQueue == Spec => ImplementsPriorityQueue
<1>1. Init => Abstract!Init
  <2> SUFFICES ASSUME Init PROVE Abstract!Init
    OBVIOUS
  <2>1. DOMAIN Queue = {}
    BY DEF Init, Queue
  <2>2. QED
    BY <2>1 DEF Init, Abstract!Init
<1>2. IInv /\ IInv' /\ CapacityRespected' /\ [Next]_vars => [Abstract!Next]_<<Queue, out>>
  BY NextRefined
<1>3. ImplementsPriorityQueue <=> Abstract!Init /\ [][Abstract!Next]_<<Queue, out>>
  BY DEF ImplementsPriorityQueue, Abstract!Spec
<1>4. QED
  BY <1>1, <1>2, <1>3, InvariantHolds, CapacityHolds, PTL DEF Spec

=============================================================================
