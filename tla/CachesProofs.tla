------------------------------ MODULE CachesProofs ------------------------------
(***************************************************************************)
(* Proofs about the caches in front of a store: the two tiers of           *)
(* TieredStore and the single cache of CachedBlockStore, for any blocks,   *)
(* callers and capacities.  A block that is cached and that the store does *)
(* not have has one of the causes the two modules name, and no other.      *)
(***************************************************************************)
EXTENDS TieredStore, CachedBlockStore, NaturalsInduction, WellFoundedInduction,
        TLAPS

-----------------------------------------------------------------------------
(* LRU lists: sequences without repetition, and what the operations of Lru *)
(* do to their keys                                                        *)

Keys(s) == Range(s)
Tiers == {s \in Seq(Cid) : IsInjective(s)}

LEMMA KeysFacts ==
    ASSUME NEW s \in Seq(Cid)
    PROVE  /\ Keys(s) \subseteq Cid
           /\ \A c : c \in Keys(s) <=> \E i \in 1 .. Len(s) : s[i] = c
           /\ \A c : Has(s, c) <=> c \in Keys(s)
BY DEF Keys, Range, Has

\* A sequence without one of its entries.
LEMMA RemoveAtFacts ==
    ASSUME NEW s \in Seq(Cid), NEW i \in 1 .. Len(s)
    PROVE  /\ RemoveAt(s, i) \in Seq(Cid) /\ Len(RemoveAt(s, i)) = Len(s) - 1
           /\ \A j \in 1 .. Len(s) - 1 : RemoveAt(s, i)[j] = s[IF j < i THEN j ELSE j + 1]
<1> DEFINE a == SubSeq(s, 1, i - 1)
           b == SubSeq(s, i + 1, Len(s))
<1>1. a \in Seq(Cid) /\ Len(a) = i - 1 /\ \A j \in 1 .. i - 1 : a[j] = s[j]
  OBVIOUS
<1>2. b \in Seq(Cid) /\ Len(b) = Len(s) - i /\ \A j \in 1 .. Len(s) - i : b[j] = s[i + j]
  OBVIOUS
<1>3. RemoveAt(s, i) = a \o b
  BY DEF RemoveAt
<1> HIDE DEF a, b
<1>4. Len(s) \in Nat /\ i \in Nat
  OBVIOUS
<1>4a. a \o b \in Seq(Cid) /\ Len(a \o b) = Len(a) + Len(b)
  <2>1. a \in Seq(Cid) /\ b \in Seq(Cid)
    BY <1>1, <1>2
  <2>2. QED
    BY <2>1
<1>4b. Len(a \o b) = Len(s) - 1
  BY <1>1, <1>2, <1>4, <1>4a
<1>5. ASSUME NEW j \in 1 .. Len(s) - 1 PROVE (a \o b)[j] = s[IF j < i THEN j ELSE j + 1]
  <2>1. CASE j < i
    BY <1>1, <1>2, <2>1
  <2>2. CASE j >= i
    <3>1. (a \o b)[j] = b[j - (i - 1)] /\ j - (i - 1) \in 1 .. Len(s) - i
      BY <1>1, <1>2, <2>2
    <3>2. b[j - (i - 1)] = s[j + 1]
      BY <1>2, <3>1
    <3>3. QED
      BY <2>2, <3>1, <3>2
  <2>3. j < i \/ j >= i
    BY <1>4
  <2>4. QED
    BY <2>1, <2>2, <2>3
<1>6. QED
  BY <1>3, <1>4a, <1>4b, <1>5

\* pop takes the key, and nothing else.
LEMMA PopFacts ==
    ASSUME NEW s \in Tiers, NEW c
    PROVE  pop(s, c) \in Tiers /\ Keys(pop(s, c)) = Keys(s) \ {c}
<1>1. s \in Seq(Cid) /\ \A i, j \in 1 .. Len(s) : s[i] = s[j] => i = j
  BY DEF Tiers, IsInjective
<1>2. CASE ~Has(s, c)
  <2>1. pop(s, c) = s
    BY <1>2 DEF pop
  <2>2. c \notin Keys(s)
    BY <1>1, <1>2, KeysFacts
  <2>3. QED
    BY <2>1, <2>2
<1>3. CASE Has(s, c)
  <2> DEFINE at == CHOOSE i \in DOMAIN s : s[i] = c
             r == RemoveAt(s, at)
  <2>1. at \in 1 .. Len(s) /\ s[at] = c
    BY <1>1, <1>3 DEF Has
  <2>2. pop(s, c) = r
    BY <1>3 DEF pop
  <2> HIDE DEF at
  <2>3. /\ r \in Seq(Cid) /\ Len(r) = Len(s) - 1
        /\ \A j \in 1 .. Len(s) - 1 : r[j] = s[IF j < at THEN j ELSE j + 1]
    BY <1>1, <2>1, RemoveAtFacts
  <2> HIDE DEF r
  <2>4. Len(s) \in Nat
    BY <1>1
  <2>5. ASSUME NEW i \in 1 .. Len(r), NEW j \in 1 .. Len(r), r[i] = r[j] PROVE i = j
    <3>1. (IF i < at THEN i ELSE i + 1) \in 1 .. Len(s) /\ (IF j < at THEN j ELSE j + 1) \in 1 .. Len(s)
      BY <2>1, <2>3, <2>4
    <3>2. (IF i < at THEN i ELSE i + 1) = (IF j < at THEN j ELSE j + 1)
      BY <1>1, <2>3, <2>5, <3>1
    <3>3. QED
      BY <2>1, <2>3, <2>4, <3>2
  <2>6. r \in Tiers
    BY <2>3, <2>5 DEF Tiers, IsInjective
  <2>7. ASSUME NEW d \in Keys(r) PROVE d \in Keys(s) \ {c}
    <3>1. PICK j \in 1 .. Len(r) : r[j] = d
      BY <2>3, KeysFacts
    <3> DEFINE k == IF j < at THEN j ELSE j + 1
    <3>2. k \in 1 .. Len(s) /\ k # at
      BY <2>1, <2>3, <2>4
    <3>3. d = s[k]
      BY <2>3, <3>1
    <3> HIDE DEF k
    <3>4. d # c
      BY <1>1, <2>1, <3>2, <3>3
    <3>5. QED
      BY <1>1, <3>2, <3>3, <3>4, KeysFacts
  <2>8. ASSUME NEW d \in Keys(s) \ {c} PROVE d \in Keys(r)
    <3>1. PICK k \in 1 .. Len(s) : s[k] = d
      BY <1>1, KeysFacts
    <3>2. k # at
      BY <2>1, <2>8, <3>1
    <3> DEFINE j == IF k < at THEN k ELSE k - 1
    <3>3. j \in 1 .. Len(s) - 1 /\ (IF j < at THEN j ELSE j + 1) = k
      BY <2>1, <2>4, <3>2
    <3> HIDE DEF j
    <3>4. r[j] = d /\ j \in 1 .. Len(r)
      BY <2>3, <3>1, <3>3
    <3>5. QED
      BY <2>3, <3>4, KeysFacts
  <2>9. QED
    BY <2>2, <2>6, <2>7, <2>8
<1>4. QED
  BY <1>2, <1>3

\* An entry at the front of a sequence that does not have it.
LEMMA FrontFacts ==
    ASSUME NEW s \in Tiers, NEW c \in Cid, c \notin Keys(s)
    PROVE  <<c>> \o s \in Tiers /\ Keys(<<c>> \o s) = Keys(s) \cup {c}
<1> DEFINE r == <<c>> \o s
<1>1. s \in Seq(Cid) /\ Len(s) \in Nat /\ \A i, j \in 1 .. Len(s) : s[i] = s[j] => i = j
  BY DEF Tiers, IsInjective
<1>2. /\ r \in Seq(Cid) /\ Len(r) = Len(s) + 1 /\ r[1] = c
  BY <1>1
<1>3. \A i \in 1 .. Len(s) : r[i + 1] = s[i]
  BY <1>1
<1> HIDE DEF r
<1>4. \A j \in 2 .. Len(r) : j - 1 \in 1 .. Len(s) /\ r[j] = s[j - 1]
  <2> SUFFICES ASSUME NEW j \in 2 .. Len(r) PROVE j - 1 \in 1 .. Len(s) /\ r[j] = s[j - 1]
    OBVIOUS
  <2>1. j - 1 \in 1 .. Len(s) /\ (j - 1) + 1 = j
    BY <1>1, <1>2
  <2>2. r[(j - 1) + 1] = s[j - 1]
    BY <1>3, <2>1
  <2>3. QED
    BY <2>1, <2>2
<1>5. \A i \in 1 .. Len(s) : s[i] # c
  BY <1>1, KeysFacts
<1>6. ASSUME NEW i \in 1 .. Len(r), NEW j \in 1 .. Len(r), r[i] = r[j] PROVE i = j
  <2>1. (i = 1 \/ i \in 2 .. Len(r)) /\ (j = 1 \/ j \in 2 .. Len(r))
    BY <1>1, <1>2
  <2>2. CASE i = 1 /\ j = 1
    BY <2>2
  <2>3. CASE i = 1 /\ j \in 2 .. Len(r)
    BY <1>2, <1>4, <1>5, <1>6, <2>3
  <2>4. CASE j = 1 /\ i \in 2 .. Len(r)
    BY <1>2, <1>4, <1>5, <1>6, <2>4
  <2>5. CASE i \in 2 .. Len(r) /\ j \in 2 .. Len(r)
    <3>1. i - 1 = j - 1
      BY <1>1, <1>4, <1>6, <2>5
    <3>2. QED
      BY <2>5, <3>1
  <2>6. QED
    BY <2>1, <2>2, <2>3, <2>4, <2>5
<1>7. r \in Tiers
  BY <1>2, <1>6 DEF Tiers, IsInjective
<1>8. ASSUME NEW d \in Keys(r) PROVE d \in Keys(s) \cup {c}
  <2>1. PICK j \in 1 .. Len(r) : r[j] = d
    BY <1>2, KeysFacts
  <2>2. j = 1 \/ j \in 2 .. Len(r)
    BY <1>1, <1>2
  <2>3. QED
    BY <1>1, <1>2, <1>4, <2>1, <2>2, KeysFacts
<1>9. ASSUME NEW d \in Keys(s) \cup {c} PROVE d \in Keys(r)
  <2>1. CASE d = c
    <3>1. 1 \in 1 .. Len(r)
      BY <1>1, <1>2
    <3>2. QED
      BY <1>2, <2>1, <3>1, KeysFacts
  <2>2. CASE d \in Keys(s)
    <3>1. PICK i \in 1 .. Len(s) : s[i] = d
      BY <1>1, <2>2, KeysFacts
    <3>2. i + 1 \in 1 .. Len(r) /\ r[i + 1] = d
      BY <1>1, <1>2, <1>3, <3>1
    <3>3. QED
      BY <1>2, <3>2, KeysFacts
  <2>3. QED
    BY <2>1, <2>2
<1>10. QED
  BY <1>7, <1>8, <1>9 DEF r

\* What is left of a list cut off at its capacity.
LEMMA PrefixFacts ==
    ASSUME NEW s \in Tiers, NEW n \in Nat, n < Len(s)
    PROVE  SubSeq(s, 1, n) \in Tiers /\ Keys(SubSeq(s, 1, n)) \subseteq Keys(s)
<1> DEFINE r == SubSeq(s, 1, n)
<1>1. s \in Seq(Cid) /\ Len(s) \in Nat /\ \A i, j \in 1 .. Len(s) : s[i] = s[j] => i = j
  BY DEF Tiers, IsInjective
<1>2. r \in Seq(Cid) /\ Len(r) = n /\ \A i \in 1 .. n : r[i] = s[i]
  BY <1>1
<1> HIDE DEF r
<1>3. \A i \in 1 .. n : i \in 1 .. Len(s)
  BY <1>1
<1>4. r \in Tiers
  BY <1>1, <1>2, <1>3 DEF Tiers, IsInjective
<1>5. Keys(r) \subseteq Keys(s)
  BY <1>1, <1>2, <1>3, KeysFacts
<1>6. QED
  BY <1>4, <1>5 DEF r

\* A lookup keeps the keys.
LEMMA TouchFacts ==
    ASSUME NEW s \in Tiers, NEW c \in Cid
    PROVE  touch(s, c) \in Tiers /\ Keys(touch(s, c)) = Keys(s)
<1>1. CASE ~Has(s, c)
  BY <1>1 DEF touch
<1>2. CASE Has(s, c)
  <2>1. pop(s, c) \in Tiers /\ Keys(pop(s, c)) = Keys(s) \ {c}
    BY PopFacts
  <2>2. c \in Keys(s)
    BY <1>2, KeysFacts DEF Tiers
  <2>3. touch(s, c) = <<c>> \o pop(s, c)
    BY <1>2 DEF touch
  <2> DEFINE r == pop(s, c)
  <2> HIDE DEF r
  <2>4. <<c>> \o r \in Tiers /\ Keys(<<c>> \o r) = Keys(r) \cup {c}
    BY <2>1, FrontFacts DEF r
  <2>5. QED
    BY <2>1, <2>2, <2>3, <2>4 DEF r
<1>3. QED
  BY <1>1, <1>2

\* An insertion adds its key, at most.
LEMMA PushFacts ==
    ASSUME NEW s \in Tiers, NEW c \in Cid, NEW capacity \in Nat \ {0}
    PROVE  push(s, c, capacity) \in Tiers /\ Keys(push(s, c, capacity)) \subseteq Keys(s) \cup {c}
<1> DEFINE r == pop(s, c)
           all == <<c>> \o r
<1>1. r \in Tiers /\ Keys(r) = Keys(s) \ {c}
  BY PopFacts
<1> HIDE DEF r
<1>2. all \in Tiers /\ Keys(all) = Keys(s) \cup {c}
  BY <1>1, FrontFacts
<1>3. push(s, c, capacity) = IF Len(all) > capacity THEN SubSeq(all, 1, capacity) ELSE all
  BY DEF push, r
<1> HIDE DEF all
<1>4. CASE Len(all) > capacity
  <2>1. capacity < Len(all)
    BY <1>2, <1>4 DEF Tiers
  <2>2. QED
    BY <1>2, <1>3, <1>4, <2>1, PrefixFacts
<1>5. CASE ~(Len(all) > capacity)
  BY <1>2, <1>3, <1>5
<1>6. QED
  BY <1>4, <1>5

\* What it displaces, if anything, was an entry.
LEMMA DisplacedFacts ==
    ASSUME NEW s \in Tiers, NEW c \in Cid, NEW capacity \in Nat \ {0}
    PROVE  \/ displaced(s, c, capacity) = {}
           \/ \E d \in Keys(s) : d \in Cid /\ displaced(s, c, capacity) = {d}
<1>1. s \in Seq(Cid) /\ Keys(s) \subseteq Cid
  BY KeysFacts DEF Tiers
<1>2. CASE Has(s, c)
  BY <1>1, <1>2, KeysFacts DEF displaced
<1>3. CASE ~Has(s, c) /\ Len(s) = capacity
  <2>1. capacity \in 1 .. Len(s)
    BY <1>3
  <2>2. s[capacity] \in Keys(s)
    BY <1>1, <2>1, KeysFacts
  <2>3. displaced(s, c, capacity) = {s[capacity]}
    BY <1>3 DEF displaced
  <2>4. QED
    BY <1>1, <2>2, <2>3
<1>4. CASE ~Has(s, c) /\ Len(s) # capacity
  BY <1>4 DEF displaced
<1>5. QED
  BY <1>2, <1>3, <1>4

-----------------------------------------------------------------------------
(* The store behind the two tiers: the invariant says which blocks may be  *)
(* cached, or be on their way into a tier, and how far a delete has come   *)

OpNames == {"idle", "put", "get", "has", "fill", "delete", "close"}
CallPoints == {"idle", "get_l2", "promote", "cascade", "remove_l2", "clear_l2"}
Blocks == {{}} \cup {{c} : c \in Cid}
Users == {"put", "get", "has", "fill"}
TCall == [pc : CallPoints, cid : Blocks]
TOp == [name : OpNames, cid : Blocks, hit : BOOLEAN]

TieredTypes ==
    /\ l1 \in Tiers /\ l2 \in Tiers
    /\ call \in [Thread -> TCall]
    /\ op \in [Thread -> TOp]
    /\ store \subseteq Cid /\ overlapped \subseteq Cid /\ refused \subseteq Cid

\* What a call of the store may be doing in the tiers.
TieredShape(t) ==
    /\ call[t].pc \in {"get_l2", "promote"} => op[t].name \in {"get", "has"} /\ call[t].cid = op[t].cid
    /\ op[t].name = "delete" => /\ op[t].cid # {}
                                /\ call[t].pc \in {"idle", "remove_l2"}
                                /\ call[t].pc = "remove_l2" => call[t].cid = op[t].cid

TieredNoted ==
    \A t, u \in Thread : op[t].name = "delete" /\ op[u].name \in Users /\ op[t].cid = op[u].cid => op[t].cid \subseteq overlapped

\* The blocks that may be cached.
BeingPut == UNION {op[t].cid : t \in {u \in Thread : op[u].name = "put"}}
MayBeCached == store \cup overlapped \cup refused \cup BeingPut

TieredCaused ==
    /\ Keys(l1) \cup Keys(l2) \subseteq MayBeCached
    /\ \A t \in Thread : /\ call[t].pc \in {"promote", "cascade"} => call[t].cid \subseteq MayBeCached
                         /\ op[t].name = "fill" => op[t].cid \subseteq MayBeCached

\* A block that is deleted and that nobody else handles has left the hot tier,
\* is not on its way to the warm one and, in the end, has left that one too.
TieredLeaving(t) ==
    \A c \in Cid : op[t].name = "delete" /\ op[t].cid = {c} /\ c \notin overlapped =>
        /\ c \notin Keys(l1)
        /\ \A u \in Thread : call[u].pc = "cascade" => c \notin call[u].cid
        /\ call[t].pc = "idle" => c \notin Keys(l2)

TieredInv == TieredTypes /\ (\A t \in Thread : TieredShape(t)) /\ TieredNoted /\ TieredCaused /\ \A t \in Thread : TieredLeaving(t)

LEMMA TieredNoteFacts ==
    ASSUME TieredTypes, op' \in [Thread -> TOp],
           \A t \in Thread : TieredShape(t)', Note
    PROVE  overlapped \subseteq overlapped' /\ overlapped' \subseteq Cid /\ TieredNoted'
<1>1. overlapped \subseteq overlapped' /\ overlapped' \subseteq Cid
  BY DEF Note, TieredTypes
<1>2. ASSUME NEW t \in Thread, NEW u \in Thread, op'[t].name = "delete", op'[u].name \in Users, op'[t].cid = op'[u].cid
      PROVE  op'[t].cid \subseteq overlapped'
  <2>1. PICK c \in Cid : op'[t].cid = {c}
    BY <1>2 DEF TieredShape, Blocks, TOp
  <2>2. QED
    BY <1>2, <2>1 DEF Note, Users
<1>3. QED
  BY <1>1, <1>2 DEF TieredNoted

\* What a thread may add to the hot tier, and to the warm one.
Adding(t) == IF op[t].name \in Users THEN op[t].cid ELSE {}
Cascading(t) == IF call[t].pc = "cascade" THEN call[t].cid ELSE {}

\* What all steps have in common.
LEMMA TieredCore ==
    ASSUME TieredInv, NEW t \in Thread, Note,
           l1' \in Tiers, l2' \in Tiers, store' \subseteq Cid, refused' \subseteq Cid,
           NEW k \in TCall, call' = [call EXCEPT ![t] = k], NEW o \in TOp, op' = [op EXCEPT ![t] = o],
           TieredShape(t)',
           Keys(l1') \subseteq Keys(l1) \cup Adding(t)', Keys(l2') \subseteq Keys(l2) \cup Cascading(t),
           k.pc = "cascade" => k = call[t] \/ k.cid \subseteq Keys(l1),
           TieredCaused', TieredLeaving(t)'
    PROVE  TieredInv'
<1>1. /\ call' \in [Thread -> TCall] /\ call'[t] = k
      /\ op' \in [Thread -> TOp] /\ op'[t] = o
      /\ \A u \in Thread \ {t} : call'[u] = call[u] /\ op'[u] = op[u]
  BY DEF TieredInv, TieredTypes
<1>2. \A u \in Thread : TieredShape(u)'
  BY <1>1 DEF TieredInv, TieredShape
<1>3. overlapped \subseteq overlapped' /\ overlapped' \subseteq Cid /\ TieredNoted'
  BY <1>1, <1>2, TieredNoteFacts DEF TieredInv
<1>4. TieredTypes'
  BY <1>1, <1>3 DEF TieredTypes, TieredInv
<1>5. ASSUME NEW u \in Thread PROVE TieredLeaving(u)'
  <2>1. CASE u = t
    BY <2>1
  <2>2. CASE u # t
    <3> SUFFICES ASSUME NEW c \in Cid, op'[u].name = "delete", op'[u].cid = {c}, c \notin overlapped'
                 PROVE  /\ c \notin Keys(l1')
                        /\ \A v \in Thread : call'[v].pc = "cascade" => c \notin call'[v].cid
                        /\ call'[u].pc = "idle" => c \notin Keys(l2')
      BY DEF TieredLeaving, Keys, Range
    <3>1. /\ c \notin Keys(l1)
          /\ \A v \in Thread : call[v].pc = "cascade" => c \notin call[v].cid
          /\ call[u].pc = "idle" => c \notin Keys(l2)
      BY <1>1, <1>3, <2>2 DEF TieredInv, TieredLeaving
    <3>2. c \notin Adding(t)'
      <4>1. op'[t].cid = {} \/ \E d \in Cid : op'[t].cid = {d}
        BY <1>1 DEF Blocks, TOp
      <4>2. QED
        BY <1>3, <4>1 DEF TieredNoted, Adding
    <3>3. c \notin Cascading(t)
      BY <3>1 DEF Cascading
    <3>4. QED
      BY <1>1, <2>2, <3>1, <3>2, <3>3
  <2>3. QED
    BY <2>1, <2>2
<1>6. QED
  BY <1>2, <1>3, <1>4, <1>5 DEF TieredInv

\* Steps that do not make a block unknown.
LEMMA TieredStep ==
    ASSUME TieredInv, NEW t \in Thread, Note,
           l1' \in Tiers, l2' \in Tiers, store' \subseteq Cid, refused' \subseteq Cid,
           NEW k \in TCall, call' = [call EXCEPT ![t] = k], NEW o \in TOp, op' = [op EXCEPT ![t] = o],
           TieredShape(t)',
           MayBeCached \subseteq MayBeCached',
           Keys(l1') \subseteq Keys(l1) \cup Adding(t)', Keys(l2') \subseteq Keys(l2) \cup Cascading(t),
           Keys(l1') \subseteq MayBeCached', k.pc \in {"promote", "cascade"} => k.cid \subseteq MayBeCached',
           o.name = "fill" => o.cid \subseteq MayBeCached',
           k.pc = "cascade" => k = call[t] \/ k.cid \subseteq Keys(l1),
           TieredLeaving(t)'
    PROVE  TieredInv'
<1>1. /\ call'[t] = k /\ op'[t] = o
      /\ \A u \in Thread \ {t} : call'[u] = call[u] /\ op'[u] = op[u]
  BY DEF TieredInv, TieredTypes
<1>2. Cascading(t) \subseteq MayBeCached
  BY DEF Cascading, TieredInv, TieredCaused
<1>3. Keys(l1') \cup Keys(l2') \subseteq MayBeCached'
  BY <1>2 DEF TieredInv, TieredCaused
<1>4. ASSUME NEW u \in Thread
      PROVE  /\ call'[u].pc \in {"promote", "cascade"} => call'[u].cid \subseteq MayBeCached'
             /\ op'[u].name = "fill" => op'[u].cid \subseteq MayBeCached'
  BY <1>1 DEF TieredInv, TieredCaused
<1>5. TieredCaused'
  BY <1>3, <1>4 DEF TieredCaused, Keys, Range
<1>6. QED
  BY <1>5, TieredCore

\* A put in progress is one still, or its block is stored or was refused.
LEMMA MayBeCachedGrows ==
    ASSUME TieredInv, NEW t \in Thread, Note,
           NEW o \in TOp, op' = [op EXCEPT ![t] = o],
           store \subseteq store', refused \subseteq refused',
           op[t].name = "put" => op[t].cid \subseteq store' \cup refused' \/ (o.name = "put" /\ o.cid = op[t].cid)
    PROVE  /\ MayBeCached \subseteq MayBeCached' /\ store' \cup refused' \cup overlapped' \subseteq MayBeCached'
           /\ o.name = "put" => o.cid \subseteq MayBeCached'
<1>1. op'[t] = o /\ \A u \in Thread \ {t} : op'[u] = op[u]
  BY DEF TieredInv, TieredTypes
<1>2. overlapped \subseteq overlapped'
  BY DEF Note
<1>3. \A u \in Thread : op'[u].name = "put" => op'[u].cid \subseteq BeingPut'
  BY DEF BeingPut
<1>4. store' \cup refused' \cup overlapped' \cup BeingPut' = MayBeCached'
  BY DEF MayBeCached
<1>5. ASSUME NEW c \in BeingPut PROVE c \in MayBeCached'
  <2>1. PICK u \in Thread : op[u].name = "put" /\ c \in op[u].cid
    BY <1>5 DEF BeingPut
  <2>2. CASE u = t
    BY <1>1, <1>3, <1>4, <2>1, <2>2
  <2>3. CASE u # t
    BY <1>1, <1>3, <1>4, <2>1, <2>3
  <2>4. QED
    BY <2>2, <2>3
<1>6. QED
  BY <1>1, <1>2, <1>3, <1>4, <1>5 DEF MayBeCached

\* put in the tiers: what it displaces was in the hot tier.
LEMMA TiersPut ==
    ASSUME TieredInv, NEW t \in Thread, NEW c \in Cid, put(t, c)
    PROVE  /\ l1' \in Tiers /\ Keys(l1') \subseteq Keys(l1) \cup {c} /\ l2' = l2
           /\ \E k \in TCall : /\ call' = [call EXCEPT ![t] = k]
                               /\ \/ k = call[t] /\ k.pc = "idle"
                                  \/ k.pc = "cascade" /\ k.cid \subseteq Keys(l1)
<1>1. l1 \in Tiers /\ call \in [Thread -> TCall] /\ l1_capacity \in Nat \ {0}
  BY LruAssumption, TierAssumption DEF TieredInv, TieredTypes, LruAssumption, TierAssumption
<1>2. l1' = push(l1, c, l1_capacity) /\ l2' = l2 /\ call[t].pc = "idle"
  BY DEF put, Idle
<1>3. l1' \in Tiers /\ Keys(l1') \subseteq Keys(l1) \cup {c}
  BY <1>1, <1>2, PushFacts
<1> DEFINE victim == displaced(l1, c, l1_capacity)
<1>4. CASE victim = {}
  <2>1. call' = [call EXCEPT ![t] = call[t]]
    BY <1>1, <1>4 DEF put
  <2>2. QED
    BY <1>1, <1>2, <1>3, <2>1
<1>5. CASE victim # {}
  <2>1. PICK d \in Keys(l1) : d \in Cid /\ victim = {d}
    BY <1>1, <1>5, DisplacedFacts
  <2> DEFINE k == [pc |-> "cascade", cid |-> victim]
  <2>2. call' = [call EXCEPT ![t] = k]
    BY <1>5 DEF put, GoTo
  <2>3. k \in TCall /\ k.pc = "cascade" /\ k.cid \subseteq Keys(l1)
    BY <2>1 DEF TCall, CallPoints, Blocks
  <2> HIDE DEF k
  <2>4. QED
    BY <1>2, <1>3, <2>2, <2>3
<1>6. QED
  BY <1>4, <1>5

\* A put of the store, or the part of a get that fills the tiers.
LEMMA TieredFill ==
    ASSUME TieredInv, NEW t \in Thread, NEW c \in Cid, put(t, c),
           NEW o \in TOp, o.name \in {"put", "fill"}, o.cid = {c}, op' = [op EXCEPT ![t] = o], Note,
           o.name = "fill" => c \in MayBeCached, op[t].name # "put", UNCHANGED <<store, refused>>
    PROVE  TieredInv'
<1>1. PICK k \in TCall : /\ call' = [call EXCEPT ![t] = k]
                         /\ \/ k = call[t] /\ k.pc = "idle"
                            \/ k.pc = "cascade" /\ k.cid \subseteq Keys(l1)
  BY TiersPut
<1>2. l1' \in Tiers /\ Keys(l1') \subseteq Keys(l1) \cup {c} /\ l2' = l2
  BY TiersPut
<1>3. MayBeCached \subseteq MayBeCached' /\ (o.name = "put" => o.cid \subseteq MayBeCached')
  BY MayBeCachedGrows
<1>4. call'[t] = k /\ op'[t] = o
  BY <1>1 DEF TieredInv, TieredTypes
<1>5. TieredShape(t)' /\ TieredLeaving(t)' /\ Adding(t)' = {c}
  BY <1>1, <1>4 DEF TieredShape, TieredLeaving, Adding, Users
<1>6. Keys(l1') \subseteq MayBeCached' /\ o.cid \subseteq MayBeCached' /\ (k.pc \in {"promote", "cascade"} => k.cid \subseteq MayBeCached')
  BY <1>1, <1>2, <1>3 DEF TieredInv, TieredCaused
<1>7. /\ l2' \in Tiers /\ store' \subseteq Cid /\ refused' \subseteq Cid
      /\ Keys(l1') \subseteq Keys(l1) \cup Adding(t)' /\ Keys(l2') \subseteq Keys(l2) \cup Cascading(t)
  BY <1>2, <1>5 DEF TieredInv, TieredTypes
<1>8. QED
  BY <1>1, <1>2, <1>3, <1>5, <1>6, <1>7, TieredStep

\* A step that adds nothing to the tiers and begins nothing that would.
LEMMA TieredQuiet ==
    ASSUME TieredInv, NEW t \in Thread, Note,
           l1' \in Tiers, l2' \in Tiers, Keys(l1') \subseteq Keys(l1), Keys(l2') \subseteq Keys(l2) \cup Cascading(t),
           NEW k \in TCall, call' = [call EXCEPT ![t] = k], NEW o \in TOp, op' = [op EXCEPT ![t] = o],
           store \subseteq store', refused \subseteq refused', store' \cup refused' \subseteq Cid,
           op[t].name = "put" => op[t].cid \subseteq store' \cup refused' \/ (o.name = "put" /\ o.cid = op[t].cid),
           k.pc # "cascade", k.pc = "promote" => k.cid \subseteq MayBeCached,
           o.name = "fill" => o.cid \subseteq MayBeCached,
           TieredShape(t)', TieredLeaving(t)'
    PROVE  TieredInv'
<1>1. MayBeCached \subseteq MayBeCached'
  BY MayBeCachedGrows
<1>2. Keys(l1') \subseteq MayBeCached' /\ (k.pc \in {"promote", "cascade"} => k.cid \subseteq MayBeCached') /\ (o.name = "fill" => o.cid \subseteq MayBeCached')
  BY <1>1 DEF TieredInv, TieredCaused
<1>3. store' \subseteq Cid /\ refused' \subseteq Cid /\ Keys(l1') \subseteq Keys(l1) \cup Adding(t)'
  OBVIOUS
<1>4. QED
  BY <1>1, <1>2, <1>3, TieredStep

LEMMA StorePut ==
    ASSUME TieredInv, NEW t \in Thread, NEW c \in Cid, store_put(t, c)
    PROVE  TieredInv'
<1> DEFINE o == [name |-> "put", cid |-> {c}, hit |-> FALSE]
<1>1. o \in TOp /\ o.name \in {"put", "fill"} /\ o.cid = {c} /\ o.name # "fill"
  BY DEF TOp, OpNames, Blocks
<1>2. put(t, c) /\ op' = [op EXCEPT ![t] = o] /\ Note /\ op[t].name # "put" /\ UNCHANGED <<store, refused>>
  BY DEF store_put, Become, NoOp
<1> HIDE DEF o
<1>3. QED
  BY <1>1, <1>2, TieredFill

LEMMA FillTiers ==
    ASSUME TieredInv, NEW t \in Thread, NEW c \in Cid, fill(t, c)
    PROVE  TieredInv'
<1> DEFINE o == [name |-> "fill", cid |-> {c}, hit |-> TRUE]
<1>1. o \in TOp /\ o.name \in {"put", "fill"} /\ o.cid = {c}
  BY DEF TOp, OpNames, Blocks
<1>2. put(t, c) /\ op' = [op EXCEPT ![t] = o] /\ Note /\ op[t].name = "fill" /\ op[t].cid = {c} /\ UNCHANGED <<store, refused>>
  BY DEF fill, Become, AtStore
<1>3. c \in MayBeCached
  BY <1>2 DEF TieredInv, TieredCaused
<1> HIDE DEF o
<1>4. QED
  BY <1>1, <1>2, <1>3, TieredFill

LEMMA LookupTiers ==
    ASSUME TieredInv, NEW t \in Thread, NEW c \in Cid, NEW name \in {"get", "has"}, lookup(t, c, name)
    PROVE  TieredInv'
<1>1. op[t] = NoOp /\ call[t].pc = "idle" /\ l1' = touch(l1, c) /\ l2' = l2 /\ UNCHANGED <<store, refused>> /\ Note
  BY DEF lookup, get, Idle, Finish, Become
<1>2. l1 \in Tiers /\ l2 \in Tiers /\ call \in [Thread -> TCall] /\ op \in [Thread -> TOp] /\ store \subseteq Cid /\ refused \subseteq Cid
  BY DEF TieredInv, TieredTypes
<1>3. l1' \in Tiers /\ Keys(l1') = Keys(l1)
  BY <1>1, <1>2, TouchFacts
<1>4. op[t].name = "idle"
  BY <1>1 DEF NoOp
<1>5. CASE Has(l1, c)
  <2>1. call' = [call EXCEPT ![t] = call[t]] /\ op' = [op EXCEPT ![t] = NoOp]
    BY <1>2, <1>5 DEF lookup, get, Finish
  <2>2. NoOp \in TOp /\ NoOp.name = "idle" /\ call[t] \in TCall
    BY <1>2 DEF NoOp, TOp, OpNames, Blocks
  <2>3. TieredShape(t)' /\ TieredLeaving(t)'
    BY <1>1, <1>2, <2>1, <2>2 DEF TieredShape, TieredLeaving
  <2>4. QED
    BY <1>1, <1>2, <1>3, <1>4, <2>1, <2>2, <2>3, TieredQuiet
<1>6. CASE ~Has(l1, c)
  <2> DEFINE k == [pc |-> "get_l2", cid |-> {c}]
             o == [name |-> name, cid |-> {c}, hit |-> FALSE]
  <2>1. call' = [call EXCEPT ![t] = k] /\ op' = [op EXCEPT ![t] = o]
    BY <1>6 DEF lookup, get, Become, GoTo
  <2>2. k \in TCall /\ o \in TOp /\ k.pc = "get_l2" /\ o.name \in {"get", "has"} /\ k.cid = o.cid
    BY DEF TCall, TOp, CallPoints, OpNames, Blocks
  <2> HIDE DEF k, o
  <2>3. TieredShape(t)' /\ TieredLeaving(t)'
    BY <1>2, <2>1, <2>2 DEF TieredShape, TieredLeaving
  <2>4. QED
    BY <1>1, <1>2, <1>3, <1>4, <2>1, <2>2, <2>3, TieredQuiet
<1>7. QED
  BY <1>5, <1>6

LEMMA NoEntries == <<>> \in Tiers /\ Keys(<<>>) = {}
BY DEF Tiers, Keys, Range, IsInjective

LEMMA StoreDelete ==
    ASSUME TieredInv, NEW t \in Thread, NEW c \in Cid, store_delete(t, c)
    PROVE  TieredInv'
<1> DEFINE k == [pc |-> "remove_l2", cid |-> {c}]
           o == [name |-> "delete", cid |-> {c}, hit |-> FALSE]
<1>1. /\ op[t] = NoOp /\ \A u \in Thread : call[u].pc # "cascade"
      /\ l1' = pop(l1, c) /\ l2' = l2 /\ UNCHANGED <<store, refused>> /\ Note
      /\ call' = [call EXCEPT ![t] = k] /\ op' = [op EXCEPT ![t] = o]
  BY DEF store_delete, remove, Become, GoTo, L1Free
<1>2. k \in TCall /\ o \in TOp /\ k.pc = "remove_l2" /\ o.name = "delete" /\ k.cid = {c} /\ o.cid = {c}
  BY DEF TCall, TOp, CallPoints, OpNames, Blocks
<1> HIDE DEF k, o
<1>3. l1 \in Tiers /\ l2 \in Tiers /\ call \in [Thread -> TCall] /\ op \in [Thread -> TOp] /\ store \subseteq Cid /\ refused \subseteq Cid
  BY DEF TieredInv, TieredTypes
<1>4. l1' \in Tiers /\ Keys(l1') = Keys(l1) \ {c}
  BY <1>1, <1>3, PopFacts
<1>5. call'[t] = k /\ op'[t] = o /\ (\A u \in Thread : call'[u].pc # "cascade") /\ op[t].name = "idle"
  BY <1>1, <1>2, <1>3 DEF NoOp
<1>6. TieredShape(t)'
  BY <1>2, <1>5 DEF TieredShape
<1>7. TieredLeaving(t)'
  BY <1>2, <1>4, <1>5 DEF TieredLeaving, Keys, Range
<1>8. QED
  BY <1>1, <1>2, <1>3, <1>4, <1>5, <1>6, <1>7, TieredQuiet

LEMMA StoreClose ==
    ASSUME TieredInv, NEW t \in Thread, close(t)
    PROVE  TieredInv'
<1> DEFINE k == [pc |-> "clear_l2", cid |-> {}]
           o == [name |-> "close", cid |-> {}, hit |-> FALSE]
<1>1. /\ op[t] = NoOp
      /\ l1' = <<>> /\ l2' = l2 /\ UNCHANGED <<store, refused>> /\ Note
      /\ call' = [call EXCEPT ![t] = k] /\ op' = [op EXCEPT ![t] = o]
  BY DEF close, clear, Become, GoTo
<1>2. k \in TCall /\ o \in TOp /\ k.pc = "clear_l2" /\ o.name = "close"
  BY DEF TCall, TOp, CallPoints, OpNames, Blocks
<1> HIDE DEF k, o
<1>3. l2 \in Tiers /\ call \in [Thread -> TCall] /\ op \in [Thread -> TOp] /\ store \subseteq Cid /\ refused \subseteq Cid
  BY DEF TieredInv, TieredTypes
<1>4. l1' \in Tiers /\ Keys(l1') = {}
  BY <1>1, NoEntries
<1>5. TieredShape(t)' /\ TieredLeaving(t)' /\ op[t].name = "idle"
  BY <1>1, <1>2, <1>3 DEF TieredShape, TieredLeaving, NoOp
<1>6. QED
  BY <1>1, <1>2, <1>3, <1>4, <1>5, TieredQuiet

\* A step of a call in the tiers leaves its name and its block.
LEMMA TierStepOp ==
    ASSUME TieredInv, NEW t \in Thread, cache_step(t)
    PROVE  /\ Note /\ UNCHANGED <<store, refused>>
           /\ \E o \in TOp : op' = [op EXCEPT ![t] = o] /\ o.name = op[t].name /\ o.cid = op[t].cid
<1>1. op \in [Thread -> TOp]
  BY DEF TieredInv, TieredTypes
<1>2. Note /\ UNCHANGED <<store, refused>>
  BY DEF cache_step, Become
<1>3. CASE op' = op
  <2>1. op' = [op EXCEPT ![t] = op[t]] /\ op[t] \in TOp
    BY <1>1, <1>3
  <2>2. QED
    BY <1>2, <2>1
<1>4. CASE op' = [op EXCEPT ![t] = [name |-> op[t].name, cid |-> op[t].cid, hit |-> TRUE]]
  <2> DEFINE o == [name |-> op[t].name, cid |-> op[t].cid, hit |-> TRUE]
  <2>1. o \in TOp /\ o.name = op[t].name /\ o.cid = op[t].cid
    BY <1>1 DEF TOp
  <2> HIDE DEF o
  <2>2. op' = [op EXCEPT ![t] = o]
    BY <1>4 DEF o
  <2>3. QED
    BY <1>2, <2>1, <2>2
<1>5. QED
  BY <1>3, <1>4 DEF cache_step, Become

LEMMA TierStep ==
    ASSUME TieredInv, NEW t \in Thread, cache_step(t)
    PROVE  TieredInv'
<1>1. /\ l1 \in Tiers /\ l2 \in Tiers /\ call \in [Thread -> TCall] /\ op \in [Thread -> TOp]
      /\ store \subseteq Cid /\ refused \subseteq Cid /\ l1_capacity \in Nat \ {0} /\ l2_capacity \in Nat \ {0}
  BY LruAssumption, TierAssumption DEF TieredInv, TieredTypes, LruAssumption, TierAssumption
<1>2. Note /\ UNCHANGED <<store, refused>>
  BY TierStepOp
<1>3. PICK o \in TOp : op' = [op EXCEPT ![t] = o] /\ o.name = op[t].name /\ o.cid = op[t].cid
  BY TierStepOp
<1>4. op'[t] = o /\ TieredShape(t) /\ TieredLeaving(t)
  BY <1>1, <1>3 DEF TieredInv
<1>5. MayBeCached \subseteq MayBeCached'
  BY <1>2, <1>3, MayBeCachedGrows
<1>6. NoCall \in TCall /\ NoCall.pc = "idle" /\ NoCall.cid = {}
  BY DEF NoCall, TCall, CallPoints, Blocks
<1>7. overlapped \subseteq overlapped'
  BY <1>2 DEF Note
<1>8. ASSUME NEW c \in Cid, get_l2(t, c) PROVE TieredInv'
  <2>1. call[t] = [pc |-> "get_l2", cid |-> {c}] /\ l2' = touch(l2, c) /\ l1' = l1
    BY <1>8 DEF get_l2
  <2>2. l2' \in Tiers /\ Keys(l2') = Keys(l2) /\ Keys(l1') = Keys(l1)
    BY <1>1, <2>1, TouchFacts
  <2>3. call[t].pc = "get_l2" /\ call[t].cid = {c} /\ op[t].name \in {"get", "has"} /\ op[t].cid = {c}
    BY <1>4, <2>1 DEF TieredShape
  <2> DEFINE k == IF Has(l2, c) THEN [pc |-> "promote", cid |-> {c}] ELSE NoCall
  <2>4. call' = [call EXCEPT ![t] = k]
    BY <1>8 DEF get_l2, GoTo, Return
  <2>5. k \in TCall /\ k.pc \in {"promote", "idle"} /\ (k.pc = "promote" => k.cid = {c} /\ c \in Keys(l2))
    <3>1. [pc |-> "promote", cid |-> {c}] \in TCall
      BY DEF TCall, CallPoints, Blocks
    <3>2. Has(l2, c) => c \in Keys(l2)
      BY <1>1, KeysFacts DEF Tiers
    <3>3. QED
      BY <1>6, <3>1, <3>2
  <2> HIDE DEF k
  <2>6. k.pc = "promote" => k.cid \subseteq MayBeCached
    BY <2>5 DEF TieredInv, TieredCaused
  <2>7. call'[t] = k
    BY <1>1, <2>4
  <2>8. TieredShape(t)' /\ TieredLeaving(t)'
    BY <1>3, <1>4, <2>3, <2>5, <2>7 DEF TieredShape, TieredLeaving
  <2>9. o.name # "fill" /\ op[t].name # "put" /\ k.pc # "cascade" /\ l1' \in Tiers
    BY <1>1, <1>3, <2>1, <2>3, <2>5
  <2>10. QED
    BY <1>1, <1>2, <1>3, <2>2, <2>4, <2>5, <2>6, <2>8, <2>9, TieredQuiet
<1>9. ASSUME NEW c \in Cid, promote(t, c) PROVE TieredInv'
  <2>1. /\ call[t].pc = "promote" /\ call[t].cid = {c} /\ l1' = push(l1, c, l1_capacity) /\ l2' = l2
        /\ call' = [call EXCEPT ![t] = NoCall]
    BY <1>9 DEF promote, Return
  <2>2. op[t].name \in {"get", "has"} /\ op[t].cid = {c}
    BY <1>4, <2>1 DEF TieredShape
  <2>3. l1' \in Tiers /\ Keys(l1') \subseteq Keys(l1) \cup {c}
    BY <1>1, <2>1, PushFacts
  <2>4. c \in MayBeCached
    BY <2>1 DEF TieredInv, TieredCaused
  <2>5. Adding(t)' = {c} /\ o.name # "fill"
    BY <1>3, <1>4, <2>2 DEF Adding, Users
  <2>6. call'[t] = NoCall
    BY <1>1, <2>1
  <2>7. TieredShape(t)' /\ TieredLeaving(t)'
    BY <1>3, <1>4, <1>6, <2>2, <2>6 DEF TieredShape, TieredLeaving
  <2>8. Keys(l1') \subseteq MayBeCached' /\ Keys(l1') \subseteq Keys(l1) \cup Adding(t)'
    BY <1>5, <2>3, <2>4, <2>5 DEF TieredInv, TieredCaused
  <2>9. l2' \in Tiers /\ Keys(l2') \subseteq Keys(l2) \cup Cascading(t) /\ store' \subseteq Cid /\ refused' \subseteq Cid
    BY <1>1, <1>2, <2>1
  <2> DEFINE k == NoCall
  <2>10. k \in TCall /\ k.pc = "idle" /\ call' = [call EXCEPT ![t] = k]
    BY <1>6, <2>1
  <2> HIDE DEF k
  <2>11. QED
    BY <1>2, <1>3, <1>5, <2>3, <2>5, <2>7, <2>8, <2>9, <2>10, TieredStep
<1>10. ASSUME NEW c \in Cid, cascade(t, c) PROVE TieredInv'
  <2>1. /\ call[t].pc = "cascade" /\ call[t].cid = {c} /\ l2' = push(l2, c, l2_capacity) /\ l1' = l1
        /\ call' = [call EXCEPT ![t] = NoCall]
    BY <1>10 DEF cascade, Return
  <2>2. l2' \in Tiers /\ Keys(l2') \subseteq Keys(l2) \cup Cascading(t) /\ Keys(l1') = Keys(l1) /\ l1' \in Tiers
    BY <1>1, <2>1, PushFacts DEF Cascading
  <2>3. op[t].name # "delete"
    BY <1>4, <2>1 DEF TieredShape
  <2>4. call'[t] = NoCall
    BY <1>1, <2>1
  <2>5. TieredShape(t)' /\ TieredLeaving(t)'
    BY <1>3, <1>4, <1>6, <2>3, <2>4 DEF TieredShape, TieredLeaving
  <2>6. o.name = "fill" => o.cid \subseteq MayBeCached
    BY <1>3 DEF TieredInv, TieredCaused
  <2> DEFINE k == NoCall
  <2>7. k \in TCall /\ k.pc = "idle" /\ call' = [call EXCEPT ![t] = k]
    BY <1>6, <2>1
  <2> HIDE DEF k
  <2>8. QED
    BY <1>1, <1>2, <1>3, <2>2, <2>5, <2>6, <2>7, TieredQuiet
<1>11. ASSUME NEW c \in Cid, remove_l2(t, c) PROVE TieredInv'
  <2>1. /\ call[t].pc = "remove_l2" /\ call[t].cid = {c} /\ l2' = pop(l2, c) /\ l1' = l1
        /\ call' = [call EXCEPT ![t] = NoCall]
    BY <1>11 DEF remove_l2, Return
  <2>2. l2' \in Tiers /\ Keys(l2') = Keys(l2) \ {c} /\ Keys(l1') = Keys(l1) /\ l1' \in Tiers
    BY <1>1, <2>1, PopFacts
  <2>3. call'[t] = NoCall /\ \A u \in Thread \ {t} : call'[u] = call[u]
    BY <1>1, <2>1
  <2>4. TieredShape(t)'
    BY <1>3, <1>4, <1>6, <2>1, <2>3 DEF TieredShape
  <2>5. TieredLeaving(t)'
    <3> SUFFICES ASSUME NEW d \in Cid, op'[t].name = "delete", op'[t].cid = {d}, d \notin overlapped'
                 PROVE  /\ d \notin Keys(l1')
                        /\ \A v \in Thread : call'[v].pc = "cascade" => d \notin call'[v].cid
                        /\ d \notin Keys(l2')
      BY DEF TieredLeaving, Keys, Range
    <3>1. d = c /\ op[t].name = "delete" /\ op[t].cid = {d} /\ d \notin overlapped
      BY <1>3, <1>4, <1>7, <2>1 DEF TieredShape
    <3>2. d \notin Keys(l1) /\ \A v \in Thread : call[v].pc = "cascade" => d \notin call[v].cid
      BY <1>4, <3>1 DEF TieredLeaving
    <3>3. QED
      BY <1>6, <2>2, <2>3, <3>1, <3>2
  <2>6. o.name = "fill" => o.cid \subseteq MayBeCached
    BY <1>3 DEF TieredInv, TieredCaused
  <2> DEFINE k == NoCall
  <2>7. k \in TCall /\ k.pc = "idle" /\ call' = [call EXCEPT ![t] = k]
    BY <1>6, <2>1
  <2> HIDE DEF k
  <2>8. QED
    BY <1>1, <1>2, <1>3, <2>2, <2>4, <2>5, <2>6, <2>7, TieredQuiet
<1>12. ASSUME clear_l2(t) PROVE TieredInv'
  <2>1. /\ call[t].pc = "clear_l2" /\ l2' = <<>> /\ l1' = l1 /\ call' = [call EXCEPT ![t] = NoCall]
    BY <1>12 DEF clear_l2, Return
  <2>2. l2' \in Tiers /\ Keys(l2') = {} /\ Keys(l1') = Keys(l1) /\ l1' \in Tiers
    BY <1>1, <2>1, NoEntries
  <2>3. call'[t] = NoCall /\ op[t].name # "delete"
    BY <1>1, <1>4, <2>1 DEF TieredShape
  <2>4. TieredShape(t)' /\ TieredLeaving(t)'
    BY <1>3, <1>4, <1>6, <2>3 DEF TieredShape, TieredLeaving
  <2>5. o.name = "fill" => o.cid \subseteq MayBeCached
    BY <1>3 DEF TieredInv, TieredCaused
  <2> DEFINE k == NoCall
  <2>6. k \in TCall /\ k.pc = "idle" /\ call' = [call EXCEPT ![t] = k]
    BY <1>6, <2>1
  <2> HIDE DEF k
  <2>7. QED
    BY <1>1, <1>2, <1>3, <2>2, <2>4, <2>5, <2>6, TieredQuiet
<1>13. QED
  BY <1>8, <1>9, <1>10, <1>11, <1>12 DEF cache_step, Continue

\* The last step of a call other than a delete, and the step from get to fill.
LEMMA StoreStep ==
    ASSUME TieredInv, NEW t \in Thread, call[t].pc = "idle", UNCHANGED <<l1, l2, call>>, Note,
           NEW o \in TOp, op' = [op EXCEPT ![t] = o], o.name \in {"idle", "fill"},
           o.name = "fill" => o.cid \subseteq MayBeCached,
           store \subseteq store', refused \subseteq refused', store' \cup refused' \subseteq Cid,
           op[t].name = "put" => op[t].cid \subseteq store' \cup refused'
    PROVE  TieredInv'
<1>1. l1 \in Tiers /\ l2 \in Tiers /\ call \in [Thread -> TCall] /\ op \in [Thread -> TOp]
  BY DEF TieredInv, TieredTypes
<1>2. call' = [call EXCEPT ![t] = call[t]] /\ call[t] \in TCall /\ op'[t] = o /\ call'[t].pc = "idle"
  BY <1>1
<1>3. TieredShape(t)' /\ TieredLeaving(t)'
  BY <1>2 DEF TieredShape, TieredLeaving
<1>4. l1' \in Tiers /\ l2' \in Tiers /\ Keys(l1') \subseteq Keys(l1) /\ Keys(l2') \subseteq Keys(l2) \cup Cascading(t)
  BY <1>1
<1> DEFINE k == call[t]
<1>5. k \in TCall /\ k.pc = "idle" /\ call' = [call EXCEPT ![t] = k]
  BY <1>2
<1> HIDE DEF k
<1>6. QED
  BY <1>3, <1>4, <1>5, TieredQuiet

LEMMA NoOpFacts == NoOp \in TOp /\ NoOp.name = "idle"
BY DEF NoOp, TOp, OpNames, Blocks

LEMMA StoreEnd ==
    ASSUME TieredInv, NEW t \in Thread, call[t].pc = "idle", UNCHANGED vars, Finish(t),
           store \subseteq store', refused \subseteq refused', store' \cup refused' \subseteq Cid,
           op[t].name = "put" => op[t].cid \subseteq store' \cup refused'
    PROVE  TieredInv'
<1> DEFINE o == NoOp
<1>1. o \in TOp /\ o.name = "idle" /\ op' = [op EXCEPT ![t] = o] /\ Note /\ UNCHANGED <<l1, l2, call>>
  BY NoOpFacts DEF Finish, vars
<1> HIDE DEF o
<1>2. QED
  BY <1>1, StoreStep

LEMMA PutL3 ==
    ASSUME TieredInv, NEW t \in Thread, put_l3(t)
    PROVE  TieredInv'
<1>1. /\ call[t].pc = "idle" /\ op[t].name = "put" /\ UNCHANGED vars /\ Finish(t)
      /\ \/ store' = store \cup op[t].cid /\ UNCHANGED refused
         \/ refused' = refused \cup op[t].cid /\ UNCHANGED store
  BY DEF put_l3, AtStore, Idle
<1>2. op[t].cid \subseteq Cid /\ store \subseteq Cid /\ refused \subseteq Cid
  BY DEF TieredInv, TieredTypes, TOp, Blocks
<1>3. store \subseteq store' /\ refused \subseteq refused' /\ store' \cup refused' \subseteq Cid /\ op[t].cid \subseteq store' \cup refused'
  BY <1>1, <1>2
<1>4. QED
  BY <1>1, <1>3, StoreEnd

LEMMA GetL3 ==
    ASSUME TieredInv, NEW t \in Thread, NEW c \in Cid, get_l3(t, c)
    PROVE  TieredInv'
<1>1. call[t].pc = "idle" /\ op[t].name = "get" /\ UNCHANGED vars /\ UNCHANGED <<store, refused>>
  BY DEF get_l3, AtStore, Idle
<1>2. store \subseteq Cid /\ refused \subseteq Cid
  BY DEF TieredInv, TieredTypes
<1>3. CASE Finish(t)
  BY <1>1, <1>2, <1>3, StoreEnd
<1>4. CASE c \in store /\ Become(t, "fill", {c}, FALSE)
  <2> DEFINE o == [name |-> "fill", cid |-> {c}, hit |-> FALSE]
  <2>1. o \in TOp /\ o.name = "fill" /\ o.cid = {c} /\ op' = [op EXCEPT ![t] = o] /\ Note /\ UNCHANGED <<l1, l2, call>>
    BY <1>1, <1>4 DEF Become, vars, TOp, OpNames, Blocks
  <2> HIDE DEF o
  <2>2. o.cid \subseteq MayBeCached
    BY <1>4, <2>1 DEF MayBeCached
  <2>3. QED
    BY <1>1, <1>2, <2>1, <2>2, StoreStep
<1>5. QED
  BY <1>3, <1>4 DEF get_l3

\* The last step of a delete: what it makes unknown is nowhere, or was handled
\* by another call.
LEMMA DeleteL3 ==
    ASSUME TieredInv, NEW t \in Thread, delete_l3(t)
    PROVE  TieredInv'
<1>1. /\ call[t].pc = "idle" /\ op[t].name = "delete" /\ UNCHANGED <<l1, l2, call>> /\ refused' = refused
      /\ op' = [op EXCEPT ![t] = NoOp] /\ Note /\ store' \in {store, store \ op[t].cid}
  BY DEF delete_l3, AtStore, Idle, Finish, vars
<1>2. /\ l1 \in Tiers /\ l2 \in Tiers /\ call \in [Thread -> TCall] /\ op \in [Thread -> TOp]
      /\ store \subseteq Cid /\ refused \subseteq Cid
  BY DEF TieredInv, TieredTypes
<1>3. PICK c \in Cid : op[t].cid = {c}
  BY <1>1, <1>2 DEF TieredInv, TieredShape, TOp, Blocks
<1>4. op'[t].name = "idle" /\ (\A u \in Thread \ {t} : op'[u] = op[u]) /\ overlapped \subseteq overlapped'
  BY <1>1, <1>2, NoOpFacts DEF Note
<1>5. MayBeCached \ {c} \subseteq MayBeCached' /\ overlapped \subseteq MayBeCached'
  <2>1. BeingPut \subseteq BeingPut'
    BY <1>1, <1>4 DEF BeingPut
  <2>2. QED
    BY <1>1, <1>3, <1>4, <2>1 DEF MayBeCached
<1>6. ASSUME NEW d \in MayBeCached, d \notin MayBeCached' PROVE d = c /\ c \notin overlapped
  BY <1>5, <1>6
<1>7. ASSUME c \notin overlapped
      PROVE  /\ c \notin Keys(l1) /\ c \notin Keys(l2)
             /\ \A u \in Thread : call[u].pc = "cascade" => c \notin call[u].cid
             /\ \A u \in Thread : op[u].name \in Users => c \notin op[u].cid
  <2>1. /\ c \notin Keys(l1) /\ c \notin Keys(l2)
        /\ \A u \in Thread : call[u].pc = "cascade" => c \notin call[u].cid
    BY <1>1, <1>3, <1>7 DEF TieredInv, TieredLeaving
  <2>2. ASSUME NEW u \in Thread, op[u].name \in Users PROVE c \notin op[u].cid
    <3>1. c \in op[u].cid => op[u].cid = {c}
      BY <1>2 DEF TOp, Blocks
    <3>2. QED
      BY <1>1, <1>3, <1>7, <2>2, <3>1 DEF TieredInv, TieredNoted
  <2>3. QED
    BY <2>1, <2>2
<1>8. Keys(l1) \cup Keys(l2) \subseteq MayBeCached'
  BY <1>6, <1>7 DEF TieredInv, TieredCaused
<1>9. ASSUME NEW u \in Thread
      PROVE  /\ call[u].pc \in {"promote", "cascade"} => call[u].cid \subseteq MayBeCached'
             /\ op'[u].name = "fill" => op'[u].cid \subseteq MayBeCached'
  <2>1. /\ call[u].pc \in {"promote", "cascade"} => call[u].cid \subseteq MayBeCached
        /\ op[u].name = "fill" => op[u].cid \subseteq MayBeCached
        /\ call[u].pc = "promote" => op[u].name \in Users /\ call[u].cid = op[u].cid
    BY DEF TieredInv, TieredCaused, TieredShape, Users
  <2>2. op'[u].name = "fill" => op'[u] = op[u]
    BY <1>4
  <2>3. QED
    BY <1>6, <1>7, <2>1, <2>2 DEF Users
<1>10. TieredCaused'
  BY <1>1, <1>8, <1>9 DEF TieredCaused, Keys, Range
<1>11. TieredShape(t)' /\ TieredLeaving(t)'
  BY <1>1, <1>4 DEF TieredShape, TieredLeaving
<1> DEFINE k == call[t]
           o == NoOp
<1>12. k \in TCall /\ k.pc = "idle" /\ call' = [call EXCEPT ![t] = k] /\ o \in TOp /\ op' = [op EXCEPT ![t] = o]
  BY <1>1, <1>2, NoOpFacts
<1> HIDE DEF k, o
<1>13. l1' \in Tiers /\ l2' \in Tiers /\ store' \subseteq Cid /\ refused' \subseteq Cid /\ Keys(l1') = Keys(l1) /\ Keys(l2') = Keys(l2)
  BY <1>1, <1>2
<1>14. QED
  BY <1>1, <1>10, <1>11, <1>12, <1>13, TieredCore

LEMMA TieredNext ==
    ASSUME TieredInv, [StoreNext]_(allVars)
    PROVE  TieredInv'
<1>1. store \subseteq Cid /\ refused \subseteq Cid
  BY DEF TieredInv, TieredTypes
<1>2. ASSUME NEW t \in Thread, filled(t) \/ has_l3(t) \/ close_l3(t) PROVE TieredInv'
  <2>1. call[t].pc = "idle" /\ op[t].name # "put" /\ UNCHANGED vars /\ Finish(t) /\ UNCHANGED <<store, refused>>
    BY <1>2 DEF filled, has_l3, close_l3, AtStore, Idle
  <2>2. QED
    BY <1>1, <2>1, StoreEnd
<1>3. ASSUME NEW t \in Thread, GoOn(t) PROVE TieredInv'
  BY <1>2, <1>3, TierStep, PutL3, DeleteL3, GetL3, FillTiers DEF GoOn
<1>4. CASE UNCHANGED allVars
  <2>1. UNCHANGED <<l1, l2, call, store, op, overlapped, refused>>
    BY <1>4 DEF allVars, vars
  <2>2. TieredTypes'
    BY <2>1 DEF TieredInv, TieredTypes
  <2>3. (\A t \in Thread : TieredShape(t)') /\ TieredNoted' /\ MayBeCached' = MayBeCached
    BY <2>1 DEF TieredInv, TieredShape, TieredNoted, MayBeCached, BeingPut
  <2>4. TieredCaused' /\ \A t \in Thread : TieredLeaving(t)'
    BY <2>1, <2>3 DEF TieredInv, TieredCaused, TieredLeaving, Keys, Range
  <2>5. QED
    BY <2>2, <2>3, <2>4 DEF TieredInv
<1>5. QED
  BY <1>3, <1>4, StorePut, StoreDelete, LookupTiers, StoreClose DEF StoreNext

LEMMA TieredInit == StoreInit => TieredInv
<1> SUFFICES ASSUME StoreInit PROVE TieredInv
  OBVIOUS
<1>1. /\ l1 = <<>> /\ l2 = <<>> /\ call = [t \in Thread |-> NoCall]
      /\ store = {} /\ overlapped = {} /\ refused = {} /\ op = [t \in Thread |-> NoOp]
  BY DEF StoreInit, Init
<1>2. NoCall \in TCall /\ NoCall.pc = "idle"
  BY DEF NoCall, TCall, CallPoints, Blocks
<1>3. TieredTypes
  BY <1>1, <1>2, NoOpFacts, NoEntries DEF TieredTypes
<1>4. \A t \in Thread : call[t].pc = "idle" /\ op[t].name = "idle"
  BY <1>1, <1>2, NoOpFacts
<1>5. (\A t \in Thread : TieredShape(t) /\ TieredLeaving(t)) /\ TieredNoted
  BY <1>4 DEF TieredShape, TieredLeaving, TieredNoted
<1>6. TieredCaused
  BY <1>1, <1>4, NoEntries DEF TieredCaused
<1>7. QED
  BY <1>3, <1>5, <1>6 DEF TieredInv

\* A block that TieredCachedBlockStore has cached and its store does not have is
\* being put, was refused by the store after put had cached it, or was handled by
\* a delete and another call at the same time; promotions, cascades and failing
\* deletes make none, in tiers of any capacity.
THEOREM TieredGhosts == StoreSpec => []GhostsNeedCause
<1>1. StoreInit => TieredInv
  BY TieredInit
<1>2. TieredInv /\ [StoreNext]_(allVars) => TieredInv'
  BY TieredNext
<1>3. TieredInv => GhostsNeedCause
  BY DEF TieredInv, TieredCaused, MayBeCached, BeingPut, Keys, GhostsNeedCause
<1>4. QED
  BY <1>1, <1>2, <1>3, PTL DEF StoreSpec

-----------------------------------------------------------------------------
(* The loops of a batch.  A turn of the loop is a turn of a recursive      *)
(* function; that there is such a function, and what it keeps, is shown    *)
(* from the least turn at which it would fail.                             *)

\* What holds at the start of a loop and is kept by each turn holds at its end.
LEMMA LoopInduction ==
    ASSUME NEW n \in Nat, NEW P, 0 \in P, \A i \in 1 .. n : i - 1 \in P => i \in P
    PROVE  \A i \in 0 .. n : i \in P
<1> DEFINE Bad == {i \in 0 .. n : i \notin P}
<1> SUFFICES ASSUME Bad # {} PROVE FALSE
  OBVIOUS
<1>1. Bad \subseteq Nat
  OBVIOUS
<1>2. PICK m \in Bad : \A k \in Bad : ~(<<k, m>> \in OpToRel(<, Nat))
  BY <1>1, NatLessThanWellFounded, WFMin
<1>3. m # 0 /\ m \in 1 .. n /\ m - 1 \in 0 .. n
  OBVIOUS
<1>4. m - 1 \in Bad
  BY <1>3
<1>5. <<m - 1, m>> \in OpToRel(<, Nat)
  BY <1>3 DEF OpToRel
<1>6. QED
  BY <1>2, <1>4, <1>5

\* What a loop of n turns makes of s, turn by turn.
RunOf(f, S, s, n, turn) == f \in [0 .. n -> S] /\ f[0] = s /\ \A i \in 1 .. n : f[i] = turn[<<f[i - 1], i>>]

LEMMA LoopRuns ==
    ASSUME NEW S, NEW s \in S, NEW n \in Nat, NEW turn \in [S \X (1 .. n) -> S]
    PROVE  \E f : RunOf(f, S, s, n, turn)
<1> DEFINE Run(m, f) == f[0] = s /\ \A i \in 1 .. m : f[i] = turn[<<f[i - 1], i>>]
           P == {m \in 0 .. n : \E f \in [0 .. m -> S] : Run(m, f)}
<1>1. 0 \in P
  <2> DEFINE g == [i \in 0 .. 0 |-> s]
  <2>1. g \in [0 .. 0 -> S] /\ Run(0, g)
    OBVIOUS
  <2> HIDE DEF g
  <2>2. QED
    BY <2>1
<1>2. ASSUME NEW m \in 1 .. n, m - 1 \in P PROVE m \in P
  <2>1. PICK f \in [0 .. m - 1 -> S] : Run(m - 1, f)
    BY <1>2
  <2>2. m \in Nat /\ m - 1 \in 0 .. m - 1 /\ f[m - 1] \in S
    OBVIOUS
  <2> DEFINE g == [i \in 0 .. m |-> IF i = m THEN turn[<<f[m - 1], m>>] ELSE f[i]]
  <2>3. g \in [0 .. m -> S]
    <3>1. turn[<<f[m - 1], m>>] \in S
      BY <2>2
    <3>2. \A i \in 0 .. m : i # m => i \in 0 .. m - 1
      BY <2>2
    <3>3. QED
      BY <3>1, <3>2
  <2>4. g[0] = s
    BY <2>1, <2>2
  <2>5. ASSUME NEW i \in 1 .. m PROVE g[i] = turn[<<g[i - 1], i>>]
    <3>1. i - 1 \in 0 .. m /\ i - 1 # m /\ g[i - 1] = f[i - 1]
      BY <2>2
    <3>2. CASE i = m
      BY <3>1, <3>2
    <3>3. CASE i # m
      <4>1. i \in 1 .. m - 1 /\ g[i] = f[i]
        BY <2>2, <3>3
      <4>2. QED
        BY <2>1, <3>1, <4>1
    <3>4. QED
      BY <3>2, <3>3
  <2> HIDE DEF g
  <2>6. Run(m, g)
    BY <2>4, <2>5
  <2>7. QED
    BY <2>3, <2>6
<1>3. n \in P
  <2> HIDE DEF P
  <2>1. \A i \in 0 .. n : i \in P
    BY <1>1, <1>2, LoopInduction
  <2>2. QED
    BY <2>1
<1>4. QED
  BY <1>3 DEF RunOf

\* A loop of lookups keeps the keys.
LEMMA TouchAllFacts ==
    ASSUME cache \in Tiers, NEW cids \in Seq(Cid)
    PROVE  TouchAll(cids) \in Tiers /\ Keys(TouchAll(cids)) = Keys(cache)
<1> DEFINE n == Len(cids)
           Turn(s, i) == touch(s, cids[i])
           Fun(g) == [i \in 0 .. n |-> IF i = 0 THEN cache ELSE Turn(g[i - 1], i)]
           after == CHOOSE g : g = Fun(g)
           turn == [x \in Tiers \X (1 .. n) |-> Turn(x[1], x[2])]
<1>1. TouchAll(cids) = after[n]
  BY DEF TouchAll
<1>2. n \in Nat /\ \A i \in 1 .. n : cids[i] \in Cid
  OBVIOUS
<1>3. ASSUME NEW s \in Tiers, NEW i \in 1 .. n PROVE Turn(s, i) \in Tiers /\ Keys(Turn(s, i)) = Keys(s)
  BY <1>2, TouchFacts
<1> HIDE DEF n, Turn
<1>4. \E g : g = Fun(g)
  <2>1. turn \in [Tiers \X (1 .. n) -> Tiers]
    BY <1>3
  <2>2. \A s \in Tiers, i \in 1 .. n : turn[<<s, i>>] = Turn(s, i)
    OBVIOUS
  <2> HIDE DEF turn
  <2>3. PICK f : RunOf(f, Tiers, cache, n, turn)
    BY <1>2, <2>1, LoopRuns
  <2>4. ASSUME NEW i \in 1 .. n PROVE f[i] = Turn(f[i - 1], i)
    <3>1. i - 1 \in 0 .. n /\ f[i - 1] \in Tiers
      BY <1>2, <2>3 DEF RunOf
    <3>2. QED
      BY <2>2, <2>3, <3>1 DEF RunOf
  <2>5. f = Fun(f)
    <3>1. \A i \in 0 .. n : i # 0 => i \in 1 .. n
      BY <1>2
    <3>2. QED
      BY <2>3, <2>4, <3>1 DEF RunOf
  <2>6. QED
    BY <2>5
<1>5. after = Fun(after)
  BY <1>4
<1> HIDE DEF after
<1>6. after[0] = cache /\ \A i \in 1 .. n : after[i] = Turn(after[i - 1], i)
  BY <1>2, <1>5
<1> DEFINE P == {i \in 0 .. n : after[i] \in Tiers /\ Keys(after[i]) = Keys(cache)}
<1>7. 0 \in P
  BY <1>2, <1>6
<1>8. ASSUME NEW i \in 1 .. n, i - 1 \in P PROVE i \in P
  BY <1>2, <1>3, <1>6, <1>8
<1>9. \A i \in P : after[i] \in Tiers /\ Keys(after[i]) = Keys(cache)
  OBVIOUS
<1> HIDE DEF P
<1>10. \A i \in 0 .. n : i \in P
  BY <1>2, <1>7, <1>8, LoopInduction
<1>11. n \in P
  BY <1>2, <1>10
<1>12. QED
  BY <1>1, <1>9, <1>11

\* A loop of removals leaves none of the list.
LEMMA PopAllFacts ==
    ASSUME cache \in Tiers, NEW cids \in Seq(Cid)
    PROVE  PopAll(cids) \in Tiers /\ Keys(PopAll(cids)) = Keys(cache) \ Keys(cids)
<1> DEFINE n == Len(cids)
           Turn(s, i) == pop(s, cids[i])
           Fun(g) == [i \in 0 .. n |-> IF i = 0 THEN cache ELSE Turn(g[i - 1], i)]
           after == CHOOSE g : g = Fun(g)
           turn == [x \in Tiers \X (1 .. n) |-> Turn(x[1], x[2])]
<1>1. PopAll(cids) = after[n]
  BY DEF PopAll
<1>2. n \in Nat /\ \A i \in 1 .. n : cids[i] \in Cid
  OBVIOUS
<1>3. ASSUME NEW s \in Tiers, NEW i \in 1 .. n PROVE Turn(s, i) \in Tiers /\ Keys(Turn(s, i)) = Keys(s) \ {cids[i]}
  BY PopFacts
<1> HIDE DEF n, Turn
<1>4. \E g : g = Fun(g)
  <2>1. turn \in [Tiers \X (1 .. n) -> Tiers]
    BY <1>3
  <2>2. \A s \in Tiers, i \in 1 .. n : turn[<<s, i>>] = Turn(s, i)
    OBVIOUS
  <2> HIDE DEF turn
  <2>3. PICK f : RunOf(f, Tiers, cache, n, turn)
    BY <1>2, <2>1, LoopRuns
  <2>4. ASSUME NEW i \in 1 .. n PROVE f[i] = Turn(f[i - 1], i)
    <3>1. i - 1 \in 0 .. n /\ f[i - 1] \in Tiers
      BY <1>2, <2>3 DEF RunOf
    <3>2. QED
      BY <2>2, <2>3, <3>1 DEF RunOf
  <2>5. f = Fun(f)
    <3>1. \A i \in 0 .. n : i # 0 => i \in 1 .. n
      BY <1>2
    <3>2. QED
      BY <2>3, <2>4, <3>1 DEF RunOf
  <2>6. QED
    BY <2>5
<1>5. after = Fun(after)
  BY <1>4
<1> HIDE DEF after
<1>6. after[0] = cache /\ \A i \in 1 .. n : after[i] = Turn(after[i - 1], i)
  BY <1>2, <1>5
<1> DEFINE P == {i \in 0 .. n : after[i] \in Tiers /\ Keys(after[i]) = Keys(cache) \ {cids[j] : j \in 1 .. i}}
<1>7. 0 \in P
  BY <1>2, <1>6
<1>8. ASSUME NEW i \in 1 .. n, i - 1 \in P PROVE i \in P
  <2>1. after[i - 1] \in Tiers /\ Keys(after[i - 1]) = Keys(cache) \ {cids[j] : j \in 1 .. i - 1}
    BY <1>8
  <2>2. after[i] \in Tiers /\ Keys(after[i]) = Keys(after[i - 1]) \ {cids[i]}
    BY <1>3, <1>6, <2>1
  <2>3. {cids[j] : j \in 1 .. i} = {cids[j] : j \in 1 .. i - 1} \cup {cids[i]}
    <3>1. i \in 1 .. i /\ \A j \in 1 .. i : j = i \/ j \in 1 .. i - 1
      BY <1>2
    <3>2. \A j \in 1 .. i - 1 : j \in 1 .. i
      BY <1>2
    <3>3. QED
      BY <3>1, <3>2
  <2>4. i \in 0 .. n
    BY <1>2
  <2>5. QED
    BY <2>1, <2>2, <2>3, <2>4
<1>9. \A i \in P : after[i] \in Tiers /\ Keys(after[i]) = Keys(cache) \ {cids[j] : j \in 1 .. i}
  OBVIOUS
<1> HIDE DEF P
<1>10. \A i \in 0 .. n : i \in P
  BY <1>2, <1>7, <1>8, LoopInduction
<1>11. n \in P
  BY <1>2, <1>10
<1>12. QED
  <2>1. Keys(cids) = {cids[j] : j \in 1 .. n}
    BY KeysFacts DEF n
  <2>2. QED
    BY <1>1, <1>9, <1>11, <2>1

\* A loop of insertions adds what it inserts, at most.
LEMMA PushAllFacts ==
    ASSUME cache \in Tiers, NEW cids \in Seq(Cid), NEW among \in SUBSET Cid
    PROVE  PushAll(cids, among) \in Tiers /\ Keys(PushAll(cids, among)) \subseteq Keys(cache) \cup among
<1> DEFINE n == Len(cids)
           Turn(s, i) == IF cids[i] \in among THEN push(s, cids[i], l1_capacity) ELSE s
           Fun(g) == [i \in 0 .. n |-> IF i = 0 THEN cache ELSE Turn(g[i - 1], i)]
           after == CHOOSE g : g = Fun(g)
           turn == [x \in Tiers \X (1 .. n) |-> Turn(x[1], x[2])]
<1>1. PushAll(cids, among) = after[n]
  BY DEF PushAll
<1>2. n \in Nat /\ \A i \in 1 .. n : cids[i] \in Cid
  OBVIOUS
<1>3. ASSUME NEW s \in Tiers, NEW i \in 1 .. n PROVE Turn(s, i) \in Tiers /\ Keys(Turn(s, i)) \subseteq Keys(s) \cup among
  <2>1. l1_capacity \in Nat \ {0}
    BY LruAssumption DEF LruAssumption
  <2>2. QED
    BY <1>2, <2>1, PushFacts
<1> HIDE DEF n, Turn
<1>4. \E g : g = Fun(g)
  <2>1. turn \in [Tiers \X (1 .. n) -> Tiers]
    BY <1>3
  <2>2. \A s \in Tiers, i \in 1 .. n : turn[<<s, i>>] = Turn(s, i)
    OBVIOUS
  <2> HIDE DEF turn
  <2>3. PICK f : RunOf(f, Tiers, cache, n, turn)
    BY <1>2, <2>1, LoopRuns
  <2>4. ASSUME NEW i \in 1 .. n PROVE f[i] = Turn(f[i - 1], i)
    <3>1. i - 1 \in 0 .. n /\ f[i - 1] \in Tiers
      BY <1>2, <2>3 DEF RunOf
    <3>2. QED
      BY <2>2, <2>3, <3>1 DEF RunOf
  <2>5. f = Fun(f)
    <3>1. \A i \in 0 .. n : i # 0 => i \in 1 .. n
      BY <1>2
    <3>2. QED
      BY <2>3, <2>4, <3>1 DEF RunOf
  <2>6. QED
    BY <2>5
<1>5. after = Fun(after)
  BY <1>4
<1> HIDE DEF after
<1>6. after[0] = cache /\ \A i \in 1 .. n : after[i] = Turn(after[i - 1], i)
  BY <1>2, <1>5
<1> DEFINE P == {i \in 0 .. n : after[i] \in Tiers /\ Keys(after[i]) \subseteq Keys(cache) \cup among}
<1>7. 0 \in P
  BY <1>2, <1>6
<1>8. ASSUME NEW i \in 1 .. n, i - 1 \in P PROVE i \in P
  <2>1. after[i - 1] \in Tiers /\ Keys(after[i - 1]) \subseteq Keys(cache) \cup among
    BY <1>8
  <2>2. after[i] \in Tiers /\ Keys(after[i]) \subseteq Keys(after[i - 1]) \cup among
    BY <1>3, <1>6, <2>1
  <2>3. i \in 0 .. n
    BY <1>2
  <2>4. QED
    BY <2>1, <2>2, <2>3
<1>9. \A i \in P : after[i] \in Tiers /\ Keys(after[i]) \subseteq Keys(cache) \cup among
  OBVIOUS
<1> HIDE DEF P
<1>10. \A i \in 0 .. n : i \in P
  BY <1>2, <1>7, <1>8, LoopInduction
<1>11. n \in P
  BY <1>2, <1>10
<1>12. QED
  BY <1>1, <1>9, <1>11

-----------------------------------------------------------------------------
(* The store behind one cache: a delete in progress has emptied the cache  *)
(* of its blocks, and who may put one back has been noted                  *)

CacheCall == [pc : {"idle", "get_l2", "fill", "delete_l2"}, cids : Seq(Cid), among : SUBSET Cid]

CacheTypes ==
    /\ cache \in Tiers
    /\ inner \subseteq Cid /\ contested \subseteq Cid
    /\ calls \in [Task -> CacheCall]

CacheNoted ==
    \A t, u \in Task : calls[t].pc = "delete_l2" /\ calls[u].pc \in {"get_l2", "fill"} =>
        calls[t].among \cap calls[u].among \subseteq contested

CacheCaused ==
    /\ Keys(cache) \subseteq inner \cup contested
    /\ \A t \in Task : calls[t].pc = "fill" => calls[t].among \subseteq inner \cup contested

\* A block that is deleted and that nobody else handles is out of the cache.
CacheLeaving == \A t \in Task : calls[t].pc = "delete_l2" => calls[t].among \cap Keys(cache) \subseteq contested

CacheInv == CacheTypes /\ CacheNoted /\ CacheCaused /\ CacheLeaving

LEMMA CacheNoteFacts ==
    ASSUME CacheTypes, calls' \in [Task -> CacheCall], NoteContest
    PROVE  contested \subseteq contested' /\ contested' \subseteq Cid /\ CacheNoted'
<1>1. contested \subseteq contested' /\ contested' \subseteq Cid
  BY DEF NoteContest, CacheTypes
<1>2. ASSUME NEW t \in Task, NEW u \in Task, calls'[t].pc = "delete_l2", calls'[u].pc \in {"get_l2", "fill"},
             NEW c, c \in calls'[t].among, c \in calls'[u].among
      PROVE  c \in contested'
  <2>1. c \in Cid
    BY <1>2 DEF CacheCall
  <2>2. QED
    BY <1>2, <2>1 DEF NoteContest, Handles, Deletes
<1>3. QED
  BY <1>1, <1>2 DEF CacheNoted

\* What a call may add to the cache, and what it may take from the store.
Filling(t) == IF calls[t].pc = "fill" THEN calls[t].among ELSE {}
Deleting(t) == IF calls[t].pc = "delete_l2" THEN calls[t].among ELSE {}

\* What the steps of the calls have in common.
LEMMA CallStep ==
    ASSUME CacheInv, NEW t \in Task, NEW k \in CacheCall, calls' = [calls EXCEPT ![t] = k], NoteContest,
           cache' \in Tiers, inner' \subseteq Cid,
           Keys(cache') \subseteq Keys(cache) \cup Filling(t), inner \ inner' \subseteq Deleting(t),
           k.pc = "fill" => k.among \subseteq inner',
           k.pc = "delete_l2" => k.among \cap Keys(cache') = {}
    PROVE  CacheInv'
<1>1. calls' \in [Task -> CacheCall] /\ calls'[t] = k /\ \A u \in Task \ {t} : calls'[u] = calls[u]
  BY DEF CacheInv, CacheTypes
<1>2. contested \subseteq contested' /\ contested' \subseteq Cid /\ CacheNoted'
  BY <1>1, CacheNoteFacts DEF CacheInv
<1>3. CacheTypes'
  BY <1>1, <1>2 DEF CacheTypes
<1>4. ASSUME NEW c, c \in Keys(cache') PROVE c \in inner' \cup contested'
  <2>1. c \in inner \cup contested
    BY <1>4 DEF CacheInv, CacheCaused, Filling
  <2>2. CASE c \in inner \ inner'
    <3>1. calls[t].pc = "delete_l2" /\ c \in calls[t].among
      BY <2>2 DEF Deleting
    <3>2. c \in Keys(cache)
      BY <1>4, <3>1 DEF Filling
    <3>3. QED
      BY <1>2, <3>1, <3>2 DEF CacheInv, CacheLeaving
  <2>3. QED
    BY <1>2, <2>1, <2>2
<1>5. ASSUME NEW u \in Task, calls'[u].pc = "fill", NEW c, c \in calls'[u].among PROVE c \in inner' \cup contested'
  <2>1. CASE u = t
    BY <1>1, <1>5, <2>1
  <2>2. CASE u # t
    <3>1. calls[u].pc = "fill" /\ c \in calls[u].among /\ c \in inner \cup contested
      BY <1>1, <1>5, <2>2 DEF CacheInv, CacheCaused
    <3>2. CASE c \in inner \ inner'
      BY <1>2, <3>1, <3>2 DEF CacheInv, CacheNoted, Deleting
    <3>3. QED
      BY <1>2, <3>1, <3>2
  <2>3. QED
    BY <2>1, <2>2
<1>6. ASSUME NEW u \in Task, calls'[u].pc = "delete_l2", NEW c, c \in calls'[u].among, c \in Keys(cache') PROVE c \in contested'
  <2>1. CASE u = t
    BY <1>1, <1>6, <2>1
  <2>2. CASE u # t
    <3>1. calls[u].pc = "delete_l2" /\ c \in calls[u].among
      BY <1>1, <1>6, <2>2
    <3>2. CASE c \in Keys(cache)
      BY <1>2, <3>1, <3>2 DEF CacheInv, CacheLeaving
    <3>3. CASE calls[t].pc = "fill" /\ c \in calls[t].among
      BY <1>2, <3>1, <3>3 DEF CacheInv, CacheNoted
    <3>4. QED
      BY <1>6, <3>2, <3>3 DEF Filling
  <2>3. QED
    BY <2>1, <2>2
<1>7. CacheCaused'
  BY <1>4, <1>5 DEF CacheCaused, Keys, Range
<1>8. CacheLeaving'
  BY <1>6 DEF CacheLeaving, Keys, Range
<1>9. QED
  BY <1>2, <1>3, <1>7, <1>8 DEF CacheInv

\* How a step leaves the call: it returns, or goes on with a part of its list.
LEMMA CacheReturnFacts ==
    ASSUME NEW t, Done(t)
    PROVE  \E k \in CacheCall : calls' = [calls EXCEPT ![t] = k] /\ k.pc = "idle"
<1>1. <<>> \in Seq(Cid)
  OBVIOUS
<1>2. AtRest \in CacheCall /\ AtRest.pc = "idle"
  BY <1>1 DEF AtRest, CacheCall
<1>3. QED
  BY <1>2 DEF Done

LEMMA GoOnFacts ==
    ASSUME NEW t, NEW at \in {"get_l2", "fill", "delete_l2"}, NEW cids \in Seq(Cid), NEW S, GoOnWith(t, at, cids, S)
    PROVE  \E k \in CacheCall : /\ calls' = [calls EXCEPT ![t] = k]
                                /\ k.pc \in {"idle", at}
                                /\ k.pc # "idle" => k.among = Keys(cids) \cap S
<1> DEFINE among == Range(cids) \cap S
<1>1. Range(cids) = Keys(cids) /\ Keys(cids) \subseteq Cid
  BY KeysFacts DEF Keys
<1>2. CASE among = {}
  <2>1. Done(t)
    BY <1>2 DEF GoOnWith
  <2>2. QED
    BY <2>1, CacheReturnFacts
<1>3. CASE among # {}
  <2> DEFINE k == [pc |-> at, cids |-> cids, among |-> among]
  <2>1. calls' = [calls EXCEPT ![t] = k]
    BY <1>3 DEF GoOnWith
  <2>2. among = Keys(cids) \cap S /\ among \subseteq Cid
    BY <1>1
  <2> HIDE DEF among
  <2>3. k \in CacheCall
    BY <2>2 DEF CacheCall
  <2>4. QED
    BY <2>1, <2>2, <2>3
<1>4. QED
  BY <1>2, <1>3

LEMMA CacheGet ==
    ASSUME CacheInv, NEW t \in Task, NEW cids \in Batch, get_many(t, cids)
    PROVE  CacheInv'
<1>1. cids \in Seq(Cid)
  BY CacheAssumption DEF CacheAssumption
<1>2. cache' \in Tiers /\ Keys(cache') = Keys(cache)
  BY <1>1, TouchAllFacts DEF get_many, CacheInv, CacheTypes
<1>3. PICK k \in CacheCall : calls' = [calls EXCEPT ![t] = k] /\ k.pc \in {"idle", "get_l2"}
  BY <1>1, GoOnFacts DEF get_many
<1>4. NoteContest /\ inner' = inner /\ inner \subseteq Cid
  BY DEF get_many, CacheInv, CacheTypes
<1>5. QED
  BY <1>2, <1>3, <1>4, CallStep

LEMMA CacheGetL2 ==
    ASSUME CacheInv, NEW t \in Task, get_many_l2(t)
    PROVE  CacheInv'
<1>1. calls[t].cids \in Seq(Cid) /\ inner \subseteq Cid /\ cache \in Tiers
  BY DEF CacheInv, CacheTypes, CacheCall
<1>2. PICK k \in CacheCall : /\ calls' = [calls EXCEPT ![t] = k]
                             /\ k.pc \in {"idle", "fill"}
                             /\ k.pc # "idle" => k.among = Keys(calls[t].cids) \cap (calls[t].among \cap inner \cap Small)
  BY <1>1, GoOnFacts DEF get_many_l2
<1>3. NoteContest /\ inner' = inner /\ cache' = cache
  BY DEF get_many_l2
<1>4. k.pc = "fill" => k.among \subseteq inner'
  BY <1>2, <1>3
<1>5. QED
  BY <1>1, <1>2, <1>3, <1>4, CallStep

\* A call that fails has changed nothing.
LEMMA CacheFails ==
    ASSUME CacheInv, NEW t \in Task, Done(t), NoteContest, UNCHANGED <<inner, cache>>
    PROVE  CacheInv'
<1>1. PICK k \in CacheCall : calls' = [calls EXCEPT ![t] = k] /\ k.pc = "idle"
  BY CacheReturnFacts
<1>2. inner' = inner /\ cache' = cache /\ inner \subseteq Cid /\ cache \in Tiers
  BY DEF CacheInv, CacheTypes
<1>3. QED
  BY <1>1, <1>2, CallStep

LEMMA CachePut ==
    ASSUME CacheInv, NEW t \in Task, NEW cids \in Batch, put_many(t, cids)
    PROVE  CacheInv'
<1>1. cids \in Seq(Cid) /\ inner \subseteq Cid /\ cache \in Tiers
  BY CacheAssumption DEF CacheAssumption, CacheInv, CacheTypes
<1>2. PICK k \in CacheCall : /\ calls' = [calls EXCEPT ![t] = k]
                             /\ k.pc \in {"idle", "fill"}
                             /\ k.pc # "idle" => k.among = Keys(cids) \cap Small
  BY <1>1, GoOnFacts DEF put_many
<1>3. NoteContest /\ inner' = inner \cup Keys(cids) /\ cache' = cache /\ Keys(cids) \subseteq Cid
  BY <1>1, KeysFacts DEF put_many, Keys
<1>4. k.pc = "fill" => k.among \subseteq inner'
  BY <1>2, <1>3
<1>5. QED
  BY <1>1, <1>2, <1>3, <1>4, CallStep

LEMMA CacheFill ==
    ASSUME CacheInv, NEW t \in Task, l1_insert(t)
    PROVE  CacheInv'
<1>1. calls[t].cids \in Seq(Cid) /\ calls[t].among \in SUBSET Cid /\ inner \subseteq Cid /\ cache \in Tiers
  BY DEF CacheInv, CacheTypes, CacheCall
<1>2. cache' \in Tiers /\ Keys(cache') \subseteq Keys(cache) \cup calls[t].among
  BY <1>1, PushAllFacts DEF l1_insert
<1>3. PICK k \in CacheCall : calls' = [calls EXCEPT ![t] = k] /\ k.pc = "idle"
  BY CacheReturnFacts DEF l1_insert
<1>4. NoteContest /\ inner' = inner /\ Filling(t) = calls[t].among
  BY DEF l1_insert, Filling
<1>5. Keys(cache') \subseteq Keys(cache) \cup Filling(t) /\ inner' \subseteq Cid /\ inner \ inner' \subseteq Deleting(t)
  BY <1>1, <1>2, <1>4
<1>6. QED
  BY <1>2, <1>3, <1>4, <1>5, CallStep

LEMMA CacheDelete ==
    ASSUME CacheInv, NEW t \in Task, NEW cids \in Batch, delete_many(t, cids)
    PROVE  CacheInv'
<1>1. cids \in Seq(Cid) /\ inner \subseteq Cid
  BY CacheAssumption DEF CacheAssumption, CacheInv, CacheTypes
<1>2. cache' \in Tiers /\ Keys(cache') = Keys(cache) \ Keys(cids)
  BY <1>1, PopAllFacts DEF delete_many, CacheInv, CacheTypes
<1>3. PICK k \in CacheCall : /\ calls' = [calls EXCEPT ![t] = k]
                             /\ k.pc \in {"idle", "delete_l2"}
                             /\ k.pc # "idle" => k.among = Keys(cids) \cap Cid
  BY <1>1, GoOnFacts DEF delete_many
<1>4. NoteContest /\ inner' = inner
  BY DEF delete_many
<1>5. k.pc = "delete_l2" => k.among \cap Keys(cache') = {}
  BY <1>2, <1>3
<1>6. QED
  BY <1>1, <1>2, <1>3, <1>4, <1>5, CallStep

LEMMA CacheDeleteL2 ==
    ASSUME CacheInv, NEW t \in Task, delete_many_l2(t)
    PROVE  CacheInv'
<1>1. inner \subseteq Cid /\ cache \in Tiers
  BY DEF CacheInv, CacheTypes
<1>2. PICK k \in CacheCall : calls' = [calls EXCEPT ![t] = k] /\ k.pc = "idle"
  BY CacheReturnFacts DEF delete_many_l2
<1>3. NoteContest /\ inner' = inner \ calls[t].among /\ Deleting(t) = calls[t].among /\ cache' = cache
  BY DEF delete_many_l2, Deleting
<1>4. Keys(cache') \subseteq Keys(cache) \cup Filling(t) /\ inner' \subseteq Cid /\ inner \ inner' \subseteq Deleting(t)
  BY <1>1, <1>3
<1>5. QED
  BY <1>1, <1>2, <1>3, <1>4, CallStep

\* Steps outside the calls: a direct write to the store, maintenance of the cache.
LEMMA CacheAlone ==
    ASSUME CacheInv, UNCHANGED <<calls, contested>>,
           cache' \in Tiers, Keys(cache') \subseteq Keys(cache), inner \subseteq inner', inner' \subseteq Cid
    PROVE  CacheInv'
<1>1. calls' = calls /\ contested' = contested
  OBVIOUS
<1>2. CacheTypes'
  BY <1>1 DEF CacheInv, CacheTypes
<1>3. CacheNoted'
  BY <1>1 DEF CacheInv, CacheNoted
<1>4. CacheCaused'
  <2>1. Keys(cache') \subseteq inner' \cup contested'
    BY <1>1 DEF CacheInv, CacheCaused
  <2>2. \A t \in Task : calls'[t].pc = "fill" => calls'[t].among \subseteq inner' \cup contested'
    BY <1>1 DEF CacheInv, CacheCaused
  <2>3. QED
    BY <2>1, <2>2 DEF CacheCaused, Keys, Range
<1>5. CacheLeaving'
  <2>1. \A t \in Task : calls'[t].pc = "delete_l2" => calls'[t].among \cap Keys(cache') \subseteq contested'
    BY <1>1 DEF CacheInv, CacheLeaving
  <2>2. QED
    BY <2>1 DEF CacheLeaving, Keys, Range
<1>6. QED
  BY <1>2, <1>3, <1>4, <1>5 DEF CacheInv

LEMMA NextCacheInv ==
    ASSUME CacheInv, [CacheNext]_cacheVars
    PROVE  CacheInv'
<1>0. inner \subseteq Cid /\ cache \in Tiers
  BY DEF CacheInv, CacheTypes
<1>1. ASSUME NEW t \in Task, NEW cids \in Batch, get_many(t, cids) PROVE CacheInv'
  BY <1>1, CacheGet
<1>2. ASSUME NEW t \in Task, NEW cids \in Batch, put_many(t, cids) PROVE CacheInv'
  BY <1>2, CachePut
<1>3. ASSUME NEW t \in Task, NEW cids \in Batch, delete_many(t, cids) PROVE CacheInv'
  BY <1>3, CacheDelete
<1>4. ASSUME NEW t \in Task, get_many_l2(t) PROVE CacheInv'
  BY <1>4, CacheGetL2
<1>5. ASSUME NEW t \in Task, get_many_fails(t) PROVE CacheInv'
  BY <1>5, CacheFails DEF get_many_fails
<1>6. ASSUME NEW t \in Task, l1_insert(t) PROVE CacheInv'
  BY <1>6, CacheFill
<1>7. ASSUME NEW t \in Task, delete_many_l2(t) PROVE CacheInv'
  BY <1>7, CacheDeleteL2
<1>8. ASSUME NEW t \in Task, delete_many_fails(t) PROVE CacheInv'
  BY <1>8, CacheFails DEF delete_many_fails
<1>9. ASSUME NEW c \in Cid, put_inner(c) PROVE CacheInv'
  BY <1>0, <1>9, CacheAlone DEF put_inner
<1>10. ASSUME NEW c \in Cid, invalidate(c) PROVE CacheInv'
  <2>1. cache' \in Tiers /\ Keys(cache') \subseteq Keys(cache)
    BY <1>0, <1>10, PopFacts DEF invalidate
  <2>2. QED
    BY <1>0, <1>10, <2>1, CacheAlone DEF invalidate
<1>11. ASSUME clear_cache PROVE CacheInv'
  <2>1. cache' \in Tiers /\ Keys(cache') \subseteq Keys(cache)
    BY <1>11, NoEntries DEF clear_cache
  <2>2. QED
    BY <1>0, <1>11, <2>1, CacheAlone DEF clear_cache
<1>12. ASSUME UNCHANGED cacheVars PROVE CacheInv'
  BY <1>0, <1>12, CacheAlone DEF cacheVars
<1>13. QED
  BY <1>1, <1>2, <1>3, <1>4, <1>5, <1>6, <1>7, <1>8, <1>9, <1>10, <1>11, <1>12 DEF CacheNext

\* A block that CachedBlockStore serves from its cache and its store does not have
\* was handled by a delete and by a get or put of another task at the same time:
\* get, put, delete and their batches of any length, failures, evictions and the
\* direct writes of Node::add_bytes make no other.
THEOREM CacheGhosts == CacheSpec => []GhostsNeedOverlap
<1>1. ASSUME CacheInit PROVE CacheInv
  <2>1. AtRest \in CacheCall /\ AtRest.pc = "idle"
    BY DEF AtRest, CacheCall
  <2>2. calls = [t \in Task |-> AtRest] /\ cache = <<>> /\ inner = {} /\ contested = {}
    BY <1>1 DEF CacheInit
  <2>3. calls \in [Task -> CacheCall] /\ \A t \in Task : calls[t].pc = "idle"
    BY <2>1, <2>2
  <2>4. QED
    BY <2>2, <2>3, NoEntries DEF CacheInv, CacheTypes, CacheNoted, CacheCaused, CacheLeaving
<1>2. ASSUME CacheInv, [CacheNext]_cacheVars PROVE CacheInv'
  BY <1>2, NextCacheInv
<1>3. ASSUME CacheInv PROVE GhostsNeedOverlap
  BY <1>3 DEF CacheInv, CacheCaused, GhostsNeedOverlap, Keys
<1>4. QED
  BY <1>1, <1>2, <1>3, PTL DEF CacheSpec
=============================================================================
