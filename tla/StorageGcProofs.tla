---------------------------- MODULE StorageGcProofs ----------------------------
(***************************************************************************)
(* The reference-counted pins and the collector over them, for any number  *)
(* of users, blocks, collectors and any graph of links.                    *)
(*                                                                         *)
(* The theorems about the counts assume ~CleanUp: nobody calls             *)
(* unpin_recursive after a pin_recursive that failed.  Such a call takes   *)
(* counts that are not its own.                                            *)
(***************************************************************************)
EXTENDS StorageGc, FiniteSetTheorems, TLAPS

\* The call u is in is about the pin of kind with root r.
On(u, r) == call[u].op # "idle" /\ call[u].root = {r}

\* A user is in no call, or in a walk from one root: of pin_recursive, which
\* counts nothing down, or of unpin, which is at a block it has not passed.
CallShape(u) ==
    /\ call[u].op = "idle" => call[u] = Idle
    /\ call[u].op # "idle" => \E r \in Cids : call[u].root = {r}
    /\ call[u].op = "pin" => call[u].kind = "recursive" /\ call[u].count = {} /\ call[u].links \subseteq call[u].seen
    /\ call[u].op = "unpin" => /\ call[u].links = {}
                               /\ call[u].to_process \cap call[u].seen = {}
                               /\ call[u].count \subseteq call[u].to_process
                               /\ \A c, d \in call[u].count : c = d

\* pin_recursive has its count on what it has seen, but for the links at hand,
\* and has seen the links of what it has passed.
PinWalk(u) ==
    \A r \in Cids : On(u, r) /\ call[u].op = "pin" =>
        /\ \A c \in Cids : Hold(u, "recursive", r) \in holders[c] <=> c \in call[u].seen \ call[u].links
        /\ \A c \in call[u].seen \ call[u].to_process : Links[c] \subseteq call[u].seen

\* unpin has a count on every block it has still to visit, and on every link of
\* a block it has a count on, but for those it has passed; it begins at the root.
UnpinWalk(u) ==
    \A r \in Cids : On(u, r) /\ call[u].op = "unpin" =>
        /\ \A c \in call[u].to_process : Hold(u, call[u].kind, r) \in holders[c]
        /\ call[u].kind = "recursive" =>
             /\ Hold(u, "recursive", r) \in holders[r] => r \in call[u].to_process
             /\ \A c \in Cids : Hold(u, "recursive", r) \in holders[c] =>
                  \A d \in Links[c] : Hold(u, "recursive", r) \in holders[d] \/ d \in call[u].seen

\* A pin_recursive that returned well has its count on all its root reaches.
Closed(u) ==
    \A r \in Cids :
        /\ Hold(u, "recursive", r) \in holders[r]
        /\ r \notin failed[u]
        /\ ~(On(u, r) /\ call[u].kind = "recursive")
        => \A c \in Cids : Hold(u, "recursive", r) \in holders[c] =>
             \A d \in Links[c] : Hold(u, "recursive", r) \in holders[d]

WalkInv(u) == CallShape(u) /\ PinWalk(u) /\ UnpinWalk(u) /\ Closed(u)

HoldersFinite == \A c \in Cids : IsFiniteSet(holders[c])

\* Two unpins about to decrement one entry have met; one alone finds another count.
Decrements ==
    \A u \in Users : \A c \in call[u].count : c \notin raced =>
        pins[c].ref_count >= 2 /\ \A v \in Users \ {u} : c \notin call[v].count

CountInv ==
    /\ pins \in [Cids -> [pin_type : PinType \cup {"None"}, ref_count : Nat]]
    /\ holders \in [Cids -> SUBSET Holds]
    /\ HoldersFinite
    /\ CountsMatchHolders
    /\ Decrements
    /\ ZombiesNeedOverlap

PinInv ==
    /\ PinsTypeOK
    /\ \A u \in Users : WalkInv(u)
    /\ CountInv

-----------------------------------------------------------------------------

LEMMA IdleCall == Idle \in Call
BY DEF Idle, Call

LEMMA SettleCall ==
    ASSUME NEW k \in Call
    PROVE  /\ Settle(k) \in Call
           /\ Settle(k) = k \/ (Settle(k) = Idle /\ k.to_process = {} /\ k.links = {} /\ k.count = {})
BY IdleCall DEF Settle

LEMMA LinksType == \A c \in Cids : Links[c] \subseteq Cids
BY PinsAssumption

LEMMA InitPinInv == PinsInit => PinInv
<1> SUFFICES ASSUME PinsInit PROVE PinInv
  OBVIOUS
<1>1. PinsTypeOK
  BY IdleCall, PinsAssumption DEF PinsInit, PinsTypeOK, NoPin
<1>2. /\ \A u \in Users : WalkInv(u)
      /\ Decrements /\ ZombiesNeedOverlap
  BY DEF PinsInit, WalkInv, CallShape, PinWalk, UnpinWalk, Closed, Decrements, ZombiesNeedOverlap, Idle, On, Pinned, NoPin
<1>3. HoldersFinite /\ CountsMatchHolders
  BY FS_EmptySet DEF PinsInit, HoldersFinite, CountsMatchHolders, NoPin
<1>4. QED
  BY <1>1, <1>2, <1>3 DEF PinInv, CountInv, PinsTypeOK

\* What the other users do is no concern of a walk.
LEMMA OthersStay ==
    ASSUME PinInv, NEW u \in Users, NEW k \in Call, call' = [call EXCEPT ![u] = k],
           \A v \in Users \ {u} : failed'[v] = failed[v],
           \A v \in Users \ {u}, kind \in {"direct", "recursive"}, r \in Cids, d \in Cids :
               Hold(v, kind, r) \in holders'[d] <=> Hold(v, kind, r) \in holders[d]
    PROVE  /\ call' \in [Users -> Call] /\ call'[u] = k
           /\ \A v \in Users \ {u} : call'[v] = call[v] /\ WalkInv(v)'
<1>1. call' \in [Users -> Call] /\ call'[u] = k /\ \A v \in Users \ {u} : call'[v] = call[v]
  BY DEF PinInv, PinsTypeOK
<1> SUFFICES ASSUME NEW v \in Users \ {u} PROVE WalkInv(v)'
  BY <1>1
<1>2. call'[v] = call[v] /\ call[v] \in Call /\ failed'[v] = failed[v]
      /\ \A r \in Cids : On(v, r)' <=> On(v, r)
  BY <1>1 DEF PinInv, PinsTypeOK, On
<1>3. /\ call[v].to_process \subseteq Cids /\ call[v].kind \in {"direct", "recursive"}
      /\ call[v].op \in {"idle", "pin", "unpin"}
  BY <1>2 DEF Call
<1>4. WalkInv(v)
  BY DEF PinInv
<1>5. CallShape(v)' /\ PinWalk(v)'
  BY <1>2, <1>4 DEF WalkInv, CallShape, PinWalk
<1>6. UnpinWalk(v)'
  BY <1>2, <1>3, <1>4, LinksType DEF WalkInv, UnpinWalk
<1>7. Closed(v)'
  BY <1>2, <1>4, LinksType DEF WalkInv, Closed
<1>8. QED
  BY <1>5, <1>6, <1>7 DEF WalkInv

\* A count is put on a block together with its hold.
LEMMA AddCounts ==
    ASSUME PinInv, NEW c \in Cids, NEW type \in PinType, NEW h \in Holds, h \notin holders[c],
           Add(c, type, h), raced' = raced, \A u \in Users : call'[u].count = call[u].count
    PROVE  CountInv'
<1> USE DEF PinInv, PinsTypeOK, CountInv
<1>1. holders' \in [Cids -> SUBSET Holds] /\ holders'[c] = holders[c] \cup {h}
      /\ \A d \in Cids \ {c} : holders'[d] = holders[d]
  BY DEF Add
<1>2. HoldersFinite' /\ Cardinality(holders'[c]) = Cardinality(holders[c]) + 1
  <2>1. IsFiniteSet(holders[c])
    BY DEF HoldersFinite
  <2>2. IsFiniteSet(holders[c] \cup {h}) /\ Cardinality(holders[c] \cup {h}) = Cardinality(holders[c]) + 1
    BY <2>1, FS_AddElement
  <2>3. QED
    BY <1>1, <2>2 DEF HoldersFinite
<1>3. pins[c] \in [pin_type : PinType \cup {"None"}, ref_count : Nat]
  OBVIOUS
<1>4. /\ WithType(pins[c], type) \in [pin_type : PinType \cup {"None"}, ref_count : Nat]
      /\ WithType(pins[c], type).ref_count = pins[c].ref_count + 1
  BY <1>3 DEF WithType, NoPin, PinType
<1>5. /\ pins' \in [Cids -> [pin_type : PinType \cup {"None"}, ref_count : Nat]]
      /\ pins'[c].ref_count = pins[c].ref_count + 1
      /\ \A d \in Cids \ {c} : pins'[d] = pins[d]
  BY <1>4 DEF Add
<1>6. CountsMatchHolders'
  BY <1>1, <1>2, <1>5 DEF CountsMatchHolders
<1>7. \A d \in Cids : pins'[d].ref_count \in Nat /\ pins[d].ref_count \in Nat /\ pins'[d].ref_count >= pins[d].ref_count
  BY <1>5
<1>8. \A u \in Users : call[u].count \subseteq Cids
  BY DEF Call
<1>9. Decrements'
  <2> SUFFICES ASSUME NEW u \in Users, NEW d \in call[u].count, d \notin raced
               PROVE  pins'[d].ref_count >= 2 /\ \A v \in Users \ {u} : d \notin call[v].count
    BY DEF Decrements
  <2>1. d \in Cids /\ pins[d].ref_count >= 2 /\ \A v \in Users \ {u} : d \notin call[v].count
    BY <1>8 DEF Decrements
  <2> HIDE DEF PinInv, PinsTypeOK, CountInv
  <2>2. QED
    BY <1>7, <2>1
<1>10. ZombiesNeedOverlap'
  BY <1>5, <1>7 DEF ZombiesNeedOverlap, Pinned
<1>11. QED
  BY <1>1, <1>2, <1>5, <1>6, <1>9, <1>10

\* The count that goes with a hold is taken off a block.
LEMMA ReleaseCounts ==
    ASSUME PinInv, NEW u \in Users, NEW c \in Cids, NEW h \in Holds, h \in holders[c],
           holders' = [holders EXCEPT ![c] = @ \ {h}],
           \A v \in Users : call'[v].count = call[v].count \ (IF v = u THEN {c} ELSE {}),
           \/ /\ LastCount(pins[c]) /\ pins' = [pins EXCEPT ![c] = NoPin] /\ raced' = raced \ {c}
              /\ \A v \in Users : c \notin call[v].count
           \/ /\ pins' = [pins EXCEPT ![c] = IF @ = NoPin THEN NoPin ELSE [pins[c] EXCEPT !.ref_count = @ - 1]]
              /\ c \in call[u].count /\ raced' = raced
    PROVE  CountInv'
<1> USE DEF PinInv, PinsTypeOK, CountInv
<1>1. holders' \in [Cids -> SUBSET Holds] /\ holders'[c] = holders[c] \ {h}
      /\ \A d \in Cids \ {c} : holders'[d] = holders[d]
  OBVIOUS
<1>2. /\ HoldersFinite' /\ Cardinality(holders'[c]) = Cardinality(holders[c]) - 1
      /\ Cardinality(holders'[c]) \in Nat
  <2>1. IsFiniteSet(holders[c])
    BY DEF HoldersFinite
  <2>2. IsFiniteSet(holders[c] \ {h}) /\ Cardinality(holders[c] \ {h}) = Cardinality(holders[c]) - 1
    BY <2>1, FS_RemoveElement
  <2>3. Cardinality(holders[c] \ {h}) \in Nat
    BY <2>2, FS_CardinalityType
  <2>4. QED
    BY <1>1, <2>2, <2>3 DEF HoldersFinite
<1>3. pins[c].ref_count \in Nat /\ pins[c].ref_count >= 1 /\ pins[c].ref_count - 1 = Cardinality(holders'[c])
  BY <1>2 DEF CountsMatchHolders
<1>4. pins[c] # NoPin
  BY <1>3 DEF NoPin
<1>5. /\ pins' \in [Cids -> [pin_type : PinType \cup {"None"}, ref_count : Nat]]
      /\ pins'[c].ref_count = pins[c].ref_count - 1
      /\ \A d \in Cids \ {c} : pins'[d] = pins[d]
  <2>1. NoPin \in [pin_type : PinType \cup {"None"}, ref_count : Nat] /\ NoPin.ref_count = 0
    BY DEF NoPin
  <2>2. CASE LastCount(pins[c]) /\ pins' = [pins EXCEPT ![c] = NoPin]
    BY <1>3, <2>1, <2>2 DEF LastCount
  <2>3. CASE pins' = [pins EXCEPT ![c] = IF @ = NoPin THEN NoPin ELSE [pins[c] EXCEPT !.ref_count = @ - 1]]
    <3>1. pins[c] \in [pin_type : PinType \cup {"None"}, ref_count : Nat]
      OBVIOUS
    <3>2. [pins[c] EXCEPT !.ref_count = pins[c].ref_count - 1] \in [pin_type : PinType \cup {"None"}, ref_count : Nat]
      BY <1>3, <3>1
    <3>3. /\ pins'[c] = [pins[c] EXCEPT !.ref_count = pins[c].ref_count - 1]
          /\ pins' = [pins EXCEPT ![c] = pins'[c]]
      BY <1>4, <2>3
    <3>4. QED
      BY <3>1, <3>2, <3>3
  <2>4. QED
    BY <2>2, <2>3
<1>6. CountsMatchHolders'
  BY <1>1, <1>2, <1>3, <1>5 DEF CountsMatchHolders
<1>7. \A v \in Users : call[v].count \subseteq Cids /\ call'[v].count \subseteq call[v].count
  BY DEF Call
<1>8. Decrements'
  <2> SUFFICES ASSUME NEW v \in Users, NEW d \in call'[v].count, d \notin raced'
               PROVE  pins'[d].ref_count >= 2 /\ \A w \in Users \ {v} : d \notin call'[w].count
    BY DEF Decrements
  <2>1. CASE d # c
    BY <2>1, <1>5, <1>7 DEF Decrements
  <2>2. CASE d = c
    BY <2>2, <1>7 DEF Decrements
  <2>3. QED
    BY <2>1, <2>2
<1>9. ZombiesNeedOverlap'
  <2> SUFFICES ASSUME NEW d \in Cids, pins'[d] # NoPin, pins'[d].ref_count = 0
               PROVE  d \in raced'
    BY DEF ZombiesNeedOverlap, Pinned
  <2>1. CASE d # c
    BY <2>1, <1>5 DEF ZombiesNeedOverlap, Pinned
  <2>2. CASE d = c
    BY <2>2, <1>3, <1>5 DEF Decrements
  <2>3. QED
    BY <2>1, <2>2
<1>10. QED
  BY <1>1, <1>2, <1>5, <1>6, <1>8, <1>9

-----------------------------------------------------------------------------

\* What a user may pin it has pinned nowhere.
LEMMA MayPinIsNew ==
    ASSUME PinInv, NEW u \in Users, NEW kind \in {"direct", "recursive"}, NEW c \in Cids, MayPin(u, Hold(u, kind, c))
    PROVE  /\ call[u] = Idle /\ Hold(u, kind, c) \in Holds
           /\ \A d \in Cids : Hold(u, kind, c) \notin holders[d]
<1>1. Hold(u, kind, c) \notin {h \in UNION {holders[d] : d \in Cids} : h.user = u}
  BY DEF MayPin, HoldsOf
<1>2. Hold(u, kind, c).user = u /\ Hold(u, kind, c) \in Holds
  BY DEF Hold, Holds
<1>3. QED
  BY <1>1, <1>2 DEF MayPin

LEMMA PinStepInv ==
    ASSUME PinInv, NEW u \in Users, NEW c \in Cids, pin(u, c)
    PROVE  PinInv'
<1> DEFINE h == Hold(u, "direct", c)
<1>1. call[u] = Idle /\ h \in Holds /\ \A d \in Cids : h \notin holders[d]
  BY MayPinIsNew DEF pin
<1>2. Add(c, "Direct", h) /\ UNCHANGED <<call, failed, raced, faults>>
  BY DEF pin
<1>3. CountInv'
  BY <1>1, <1>2, AddCounts DEF PinType
<1>4. PinsTypeOK'
  BY <1>2, <1>3 DEF PinInv, PinsTypeOK, CountInv
<1>5. \A d \in Cids : holders'[d] = IF d = c THEN holders[d] \cup {h} ELSE holders[d]
  BY <1>2 DEF Add, PinInv, PinsTypeOK
<1>6. call' = [call EXCEPT ![u] = Idle]
  BY <1>1, <1>2 DEF PinInv, PinsTypeOK
<1>7. \A v \in Users \ {u} : WalkInv(v)'
  <2>1. \A v \in Users \ {u}, kind \in {"direct", "recursive"}, r \in Cids : Hold(v, kind, r) # h
    BY DEF Hold
  <2>2. \A v \in Users \ {u}, kind \in {"direct", "recursive"}, r \in Cids, d \in Cids :
            Hold(v, kind, r) \in holders'[d] <=> Hold(v, kind, r) \in holders[d]
    BY <1>5, <2>1
  <2>3. QED
    BY <1>2, <1>6, <2>2, IdleCall, OthersStay
<1>8. WalkInv(u)'
  <2>1. \A r \in Cids : Hold(u, "recursive", r) # h
    BY DEF Hold
  <2>2. \A r \in Cids, d \in Cids : Hold(u, "recursive", r) \in holders'[d] <=> Hold(u, "recursive", r) \in holders[d]
    BY <1>5, <2>1
  <2>3. call'[u] = call[u] /\ call[u].op = "idle"
    BY <1>1, <1>2 DEF Idle
  <2>4. Closed(u)'
    BY <1>2, <2>2, <2>3, LinksType DEF PinInv, WalkInv, Closed, On
  <2>5. QED
    BY <1>1, <2>3, <2>4 DEF WalkInv, CallShape, PinWalk, UnpinWalk, On
<1>9. QED
  BY <1>3, <1>4, <1>7, <1>8 DEF PinInv

LEMMA PinRecursiveInv ==
    ASSUME PinInv, NEW u \in Users, NEW c \in Cids, pin_recursive(u, c)
    PROVE  PinInv'
<1> DEFINE h == Hold(u, "recursive", c)
           k == [Idle EXCEPT !.op = "pin", !.kind = "recursive", !.root = {c}, !.to_process = {c}, !.seen = {c}]
<1>1. call[u] = Idle /\ h \in Holds /\ \A d \in Cids : h \notin holders[d]
  BY MayPinIsNew DEF pin_recursive
<1>2. Add(c, "Recursive", h) /\ call' = [call EXCEPT ![u] = k] /\ UNCHANGED <<failed, raced, faults>>
  BY DEF pin_recursive
<1>3. /\ k \in Call /\ k.op = "pin" /\ k.kind = "recursive" /\ k.root = {c} /\ k.to_process = {c}
      /\ k.seen = {c} /\ k.links = {} /\ k.count = {}
  BY DEF Idle, Call
<1> HIDE DEF k
<1>4. \A d \in Cids : holders'[d] = IF d = c THEN holders[d] \cup {h} ELSE holders[d]
  BY <1>2 DEF Add, PinInv, PinsTypeOK
<1>5. /\ call' \in [Users -> Call] /\ call'[u] = k
      /\ \A v \in Users \ {u} : call'[v] = call[v] /\ WalkInv(v)'
  <2>1. \A v \in Users \ {u}, kind \in {"direct", "recursive"}, r \in Cids : Hold(v, kind, r) # h
    BY DEF Hold
  <2>2. \A v \in Users \ {u}, kind \in {"direct", "recursive"}, r \in Cids, d \in Cids :
            Hold(v, kind, r) \in holders'[d] <=> Hold(v, kind, r) \in holders[d]
    BY <1>4, <2>1
  <2>3. QED
    BY <1>2, <1>3, <2>2, OthersStay
<1>6. CountInv'
  <2>1. call[u].count = {}
    BY <1>1 DEF Idle
  <2>2. \A v \in Users : call'[v].count = call[v].count
    BY <1>3, <1>5, <2>1
  <2>3. QED
    BY <1>1, <1>2, <2>2, AddCounts DEF PinType
<1>7. PinsTypeOK'
  BY <1>2, <1>5, <1>6 DEF PinInv, PinsTypeOK, CountInv
<1>8. WalkInv(u)'
  <2>1. CallShape(u)' /\ UnpinWalk(u)'
    BY <1>3, <1>5 DEF CallShape, UnpinWalk
  <2>2. \A r \in Cids : On(u, r)' => r = c
    BY <1>3, <1>5 DEF On
  <2>3. PinWalk(u)'
    BY <1>1, <1>3, <1>4, <1>5, <2>2 DEF PinWalk
  <2>4. Closed(u)'
    <3>1. SUFFICES ASSUME NEW r \in Cids \ {c}, Hold(u, "recursive", r) \in holders'[r], r \notin failed[u]
                   PROVE  \A d \in Cids : Hold(u, "recursive", r) \in holders'[d] =>
                             \A e \in Links[d] : Hold(u, "recursive", r) \in holders'[e]
      BY <1>2, <1>3, <1>5 DEF Closed, On
    <3>2. Hold(u, "recursive", r) # h
      BY DEF Hold
    <3>3. \A d \in Cids : Hold(u, "recursive", r) \in holders'[d] <=> Hold(u, "recursive", r) \in holders[d]
      BY <1>4, <3>2
    <3>4. ~On(u, r)
      BY <1>1 DEF On, Idle
    <3>5. QED
      BY <3>1, <3>3, <3>4, LinksType DEF PinInv, WalkInv, Closed
  <2>5. QED
    BY <2>1, <2>3, <2>4 DEF WalkInv
<1>9. QED
  BY <1>5, <1>6, <1>7, <1>8 DEF PinInv

\* The steps that pin nothing and unpin nothing.
LEMMA SameCounts ==
    ASSUME PinInv, UNCHANGED <<pins, holders, raced>>, \A v \in Users : call'[v].count = call[v].count
    PROVE  CountInv'
BY DEF PinInv, CountInv, HoldersFinite, CountsMatchHolders, Decrements, ZombiesNeedOverlap, Pinned

LEMMA PinLinksInv ==
    ASSUME PinInv, NEW u \in Users, pin_links(u)
    PROVE  PinInv'
<1>1. PICK c \in call[u].to_process :
        LET new == Links[c] \ call[u].seen IN
        \/ /\ call' = [call EXCEPT ![u] = Settle([call[u] EXCEPT !.links = new, !.seen = @ \cup new,
                                                                 !.to_process = (@ \ {c}) \cup new])]
           /\ NoFault /\ UNCHANGED failed
        \/ /\ call' = [call EXCEPT ![u] = Idle]
           /\ failed' = [failed EXCEPT ![u] = @ \cup call[u].root]
           /\ Fault
  BY DEF pin_links
<1>2. call[u].op = "pin" /\ call[u].links = {} /\ UNCHANGED <<pins, holders, raced>>
  BY DEF pin_links
<1> DEFINE new == Links[c] \ call[u].seen
           k == [call[u] EXCEPT !.links = new, !.seen = @ \cup new, !.to_process = (@ \ {c}) \cup new]
<1>3. /\ call[u] \in Call /\ call[u].kind = "recursive" /\ call[u].count = {} /\ WalkInv(u)
      /\ call[u].to_process \subseteq Cids /\ call[u].seen \subseteq Cids
  BY <1>2 DEF PinInv, PinsTypeOK, WalkInv, CallShape, Call
<1>4. PICK r \in Cids : call[u].root = {r}
  BY <1>2, <1>3 DEF WalkInv, CallShape
<1>5. On(u, r)
  BY <1>2, <1>4 DEF On
<1>6. /\ \A d \in Cids : Hold(u, "recursive", r) \in holders[d] <=> d \in call[u].seen
      /\ \A d \in call[u].seen \ call[u].to_process : Links[d] \subseteq call[u].seen
  BY <1>2, <1>3, <1>5 DEF WalkInv, PinWalk
<1>7. /\ k \in Call /\ k.op = "pin" /\ k.kind = "recursive" /\ k.root = {r} /\ k.count = {} /\ k.links = new
      /\ k.seen = call[u].seen \cup new /\ k.to_process = (call[u].to_process \ {c}) \cup new
  <2>1. new \subseteq Cids /\ (call[u].to_process \ {c}) \cup new \subseteq Cids /\ call[u].seen \cup new \subseteq Cids
    BY <1>3, LinksType
  <2>2. QED
    BY <1>2, <1>3, <1>4, <2>1 DEF Call
<1>8. Settle(k) \in Call /\ (Settle(k) = k \/ (Settle(k) = Idle /\ k.to_process = {} /\ k.links = {}))
  BY <1>7, SettleCall
<1>9. \/ call' = [call EXCEPT ![u] = Settle(k)] /\ UNCHANGED <<failed, faults>>
      \/ call' = [call EXCEPT ![u] = Idle] /\ failed' = [failed EXCEPT ![u] = @ \cup {r}] /\ Fault
  BY <1>1, <1>4 DEF NoFault
<1> HIDE DEF new, k
<1>10. PICK q \in {k, Idle} :
         /\ call' = [call EXCEPT ![u] = q]
         /\ \/ q = k /\ failed' = failed
            \/ q = Idle /\ k.to_process = {} /\ k.links = {} /\ failed' = failed
            \/ q = Idle /\ failed' = [failed EXCEPT ![u] = @ \cup {r}]
  BY <1>8, <1>9
<1>11. q \in Call /\ q.count = {}
  BY <1>7, IdleCall DEF Idle
<1>12. /\ call' \in [Users -> Call] /\ call'[u] = q
       /\ \A v \in Users \ {u} : call'[v] = call[v] /\ WalkInv(v)'
  BY <1>2, <1>10, <1>11, OthersStay DEF PinInv, PinsTypeOK
<1>13. CountInv'
  BY <1>2, <1>3, <1>11, <1>12, SameCounts
<1>14. PinsTypeOK'
  <2>1. faults' \in 0 .. MaxFaults
    BY <1>9, PinsAssumption DEF PinInv, PinsTypeOK, Fault
  <2>2. failed' \in [Users -> SUBSET Cids]
    BY <1>10 DEF PinInv, PinsTypeOK
  <2>3. QED
    BY <1>2, <1>12, <2>1, <2>2 DEF PinInv, PinsTypeOK
<1>15. CallShape(u)' /\ UnpinWalk(u)'
  BY <1>7, <1>10, <1>12 DEF CallShape, UnpinWalk, Idle
<1>16. PinWalk(u)'
  <2>1. SUFFICES ASSUME NEW s \in Cids, On(u, s)', call'[u].op = "pin"
                 PROVE  /\ \A d \in Cids : Hold(u, "recursive", s) \in holders[d] <=> d \in k.seen \ k.links
                        /\ \A d \in k.seen \ k.to_process : Links[d] \subseteq k.seen
    BY <1>2, <1>10, <1>12 DEF PinWalk, On, Idle
  <2>2. s = r
    BY <2>1, <1>7, <1>10, <1>12 DEF On, Idle
  <2>3. k.seen \ k.links = call[u].seen
    BY <1>7 DEF new
  <2>4. \A d \in k.seen \ k.to_process : Links[d] \subseteq k.seen
    BY <1>6, <1>7 DEF new
  <2>5. QED
    BY <1>6, <2>2, <2>3, <2>4
<1>17. Closed(u)'
  <2>1. SUFFICES ASSUME NEW s \in Cids, Hold(u, "recursive", s) \in holders[s], s \notin failed'[u],
                        ~(On(u, s)' /\ call'[u].kind = "recursive")
                 PROVE  \A d \in Cids : Hold(u, "recursive", s) \in holders[d] =>
                           \A e \in Links[d] : Hold(u, "recursive", s) \in holders[e]
    BY <1>2 DEF Closed
  <2>2. CASE s # r
    <3>1. s \notin failed[u]
      BY <1>10, <2>1 DEF PinInv, PinsTypeOK
    <3>2. ~On(u, s)
      BY <1>4, <2>2 DEF On
    <3>3. QED
      BY <2>1, <1>3, <3>1, <3>2 DEF WalkInv, Closed
  <2>3. CASE s = r
    <3>1. q # k
      BY <1>7, <1>12, <2>1, <2>3 DEF On
    <3>2. k.to_process = {} /\ k.links = {}
      BY <3>1, <1>10, <2>1, <2>3 DEF PinInv, PinsTypeOK
    <3>3. \A d \in call[u].seen : Links[d] \subseteq call[u].seen
      BY <3>2, <1>6, <1>7 DEF new
    <3>4. QED
      BY <3>3, <2>3, <1>6, LinksType
  <2>4. QED
    BY <2>2, <2>3
<1>18. QED
  BY <1>12, <1>13, <1>14, <1>15, <1>16, <1>17 DEF PinInv, WalkInv

LEMMA PinIndirectInv ==
    ASSUME PinInv, NEW u \in Users, pin_indirect(u)
    PROVE  PinInv'
<1>1. PICK link \in call[u].links, r \in call[u].root :
         /\ Add(link, "Indirect", Hold(u, "recursive", r))
         /\ call' = [call EXCEPT ![u] = Settle([call[u] EXCEPT !.links = @ \ {link}])]
  BY DEF pin_indirect
<1>2. call[u].op = "pin" /\ UNCHANGED <<failed, raced, faults>>
  BY DEF pin_indirect
<1> DEFINE h == Hold(u, "recursive", r)
           k == [call[u] EXCEPT !.links = @ \ {link}]
<1>3. /\ call[u] \in Call /\ call[u].kind = "recursive" /\ call[u].count = {} /\ WalkInv(u)
      /\ call[u].to_process \subseteq Cids /\ call[u].seen \subseteq Cids /\ link \in Cids /\ link \in call[u].seen
  BY <1>2 DEF PinInv, PinsTypeOK, WalkInv, CallShape, Call
<1>4. r \in Cids /\ call[u].root = {r}
  BY <1>2, <1>3 DEF WalkInv, CallShape
<1>5. On(u, r)
  BY <1>2, <1>4 DEF On
<1>6. /\ \A d \in Cids : h \in holders[d] <=> d \in call[u].seen \ call[u].links
      /\ \A d \in call[u].seen \ call[u].to_process : Links[d] \subseteq call[u].seen
  BY <1>2, <1>3, <1>4, <1>5 DEF WalkInv, PinWalk
<1>7. /\ k \in Call /\ k.op = "pin" /\ k.kind = "recursive" /\ k.root = {r} /\ k.count = {}
      /\ k.links = call[u].links \ {link} /\ k.seen = call[u].seen /\ k.to_process = call[u].to_process
  BY <1>2, <1>3, <1>4 DEF Call
<1>8. h \in Holds /\ h \notin holders[link] /\ link \in call[u].seen
  BY <1>3, <1>4, <1>6 DEF Hold, Holds
<1>9. Settle(k) \in Call /\ (Settle(k) = k \/ (Settle(k) = Idle /\ k.to_process = {} /\ k.links = {}))
  BY <1>7, SettleCall
<1>10. call' = [call EXCEPT ![u] = Settle(k)]
  BY <1>1
<1> HIDE DEF k
<1>11. Settle(k).count = {}
  BY <1>7, <1>9 DEF Idle
<1>12. \A d \in Cids : holders'[d] = IF d = link THEN holders[d] \cup {h} ELSE holders[d]
  BY <1>1, <1>3 DEF Add, PinInv, PinsTypeOK
<1>13. /\ call' \in [Users -> Call] /\ call'[u] = Settle(k)
       /\ \A v \in Users \ {u} : call'[v] = call[v] /\ WalkInv(v)'
  <2>1. \A v \in Users \ {u}, kind \in {"direct", "recursive"}, s \in Cids : Hold(v, kind, s) # h
    BY DEF Hold
  <2>2. \A v \in Users \ {u}, kind \in {"direct", "recursive"}, s \in Cids, d \in Cids :
            Hold(v, kind, s) \in holders'[d] <=> Hold(v, kind, s) \in holders[d]
    BY <1>12, <2>1
  <2>3. QED
    BY <1>2, <1>9, <1>10, <2>2, OthersStay
<1>14. CountInv'
  <2>1. \A v \in Users : call'[v].count = call[v].count
    BY <1>3, <1>11, <1>13
  <2>2. QED
    BY <1>1, <1>2, <1>3, <1>8, <2>1, AddCounts DEF PinType
<1>15. PinsTypeOK'
  BY <1>2, <1>13, <1>14 DEF PinInv, PinsTypeOK, CountInv
<1>16. CallShape(u)' /\ UnpinWalk(u)'
  <2>1. k.links \subseteq k.seen
    BY <1>2, <1>3, <1>7 DEF WalkInv, CallShape
  <2>2. CASE Settle(k) = k
    BY <2>1, <2>2, <1>4, <1>7, <1>13 DEF CallShape, UnpinWalk
  <2>3. CASE Settle(k) = Idle
    BY <2>3, <1>13 DEF CallShape, UnpinWalk, Idle
  <2>4. QED
    BY <1>9, <2>2, <2>3
<1>17. \A d \in Cids : h \in holders'[d] <=> d \in k.seen \ k.links
  BY <1>3, <1>6, <1>7, <1>8, <1>12
<1>18. PinWalk(u)'
  <2>1. SUFFICES ASSUME NEW s \in Cids, On(u, s)', call'[u].op = "pin"
                 PROVE  /\ \A d \in Cids : Hold(u, "recursive", s) \in holders'[d] <=> d \in k.seen \ k.links
                        /\ \A d \in k.seen \ k.to_process : Links[d] \subseteq k.seen
    BY <1>9, <1>13 DEF PinWalk, On, Idle
  <2>2. s = r
    BY <2>1, <1>7, <1>9, <1>13 DEF On, Idle
  <2>3. QED
    BY <1>6, <1>7, <1>17, <2>2
<1>19. Closed(u)'
  <2>1. SUFFICES ASSUME NEW s \in Cids, Hold(u, "recursive", s) \in holders'[s], s \notin failed[u],
                        ~(On(u, s)' /\ call'[u].kind = "recursive")
                 PROVE  \A d \in Cids : Hold(u, "recursive", s) \in holders'[d] =>
                           \A e \in Links[d] : Hold(u, "recursive", s) \in holders'[e]
    BY <1>2 DEF Closed
  <2>2. CASE s # r
    <3>1. Hold(u, "recursive", s) # h
      BY <2>2 DEF Hold
    <3>2. \A d \in Cids : Hold(u, "recursive", s) \in holders'[d] <=> Hold(u, "recursive", s) \in holders[d]
      BY <1>12, <3>1
    <3>3. ~On(u, s)
      BY <1>4, <2>2 DEF On
    <3>4. QED
      BY <2>1, <1>3, <3>2, <3>3, LinksType DEF WalkInv, Closed
  <2>3. CASE s = r
    <3>1. Settle(k) # k
      BY <1>7, <1>13, <2>1, <2>3 DEF On
    <3>2. k.to_process = {} /\ k.links = {}
      BY <3>1, <1>9
    <3>3. \A d \in call[u].seen : Links[d] \subseteq call[u].seen
      BY <3>2, <1>6, <1>7
    <3>4. QED
      BY <3>2, <3>3, <2>3, <1>7, <1>17, LinksType
  <2>4. QED
    BY <2>2, <2>3
<1>20. QED
  BY <1>13, <1>14, <1>15, <1>16, <1>18, <1>19 DEF PinInv, WalkInv

\* unpin begins only with what a call has pinned and returned well.
LEMMA UnpinInv ==
    ASSUME ~CleanUp, PinInv, NEW u \in Users, NEW kind \in {"direct", "recursive"}, NEW c \in Cids, unpin(u, kind, c)
    PROVE  PinInv'
<1> DEFINE k == [Idle EXCEPT !.op = "unpin", !.kind = kind, !.root = {c}, !.to_process = {c}]
<1>1. /\ call[u] = Idle /\ Hold(u, kind, c) \in holders[c] /\ (kind = "recursive" => c \notin failed[u])
      /\ call' = [call EXCEPT ![u] = k] /\ UNCHANGED <<pins, holders, raced, faults>>
  BY DEF unpin
<1>2. failed' = failed
  BY <1>1 DEF unpin, PinInv, PinsTypeOK
<1>3. /\ k \in Call /\ k.op = "unpin" /\ k.kind = kind /\ k.root = {c} /\ k.to_process = {c}
      /\ k.seen = {} /\ k.links = {} /\ k.count = {}
  BY DEF Idle, Call
<1> HIDE DEF k
<1>4. /\ call' \in [Users -> Call] /\ call'[u] = k
      /\ \A v \in Users \ {u} : call'[v] = call[v] /\ WalkInv(v)'
  BY <1>1, <1>2, <1>3, OthersStay
<1>5. call[u].count = {} /\ \A r \in Cids : ~On(u, r)
  BY <1>1 DEF Idle, On
<1>6. CountInv'
  BY <1>1, <1>3, <1>4, <1>5, SameCounts
<1>7. PinsTypeOK'
  BY <1>1, <1>2, <1>4 DEF PinInv, PinsTypeOK
<1>8. WalkInv(u)
  BY DEF PinInv
<1>9. CallShape(u)' /\ PinWalk(u)'
  BY <1>3, <1>4 DEF CallShape, PinWalk
<1>10. UnpinWalk(u)'
  <2>1. SUFFICES ASSUME NEW r \in Cids, On(u, r)'
                 PROVE  /\ \A d \in k.to_process : Hold(u, kind, r) \in holders[d]
                        /\ kind = "recursive" =>
                             /\ Hold(u, "recursive", r) \in holders[r] => r \in k.to_process
                             /\ \A d \in Cids : Hold(u, "recursive", r) \in holders[d] =>
                                  \A e \in Links[d] : Hold(u, "recursive", r) \in holders[e] \/ e \in k.seen
    BY <1>1, <1>3, <1>4 DEF UnpinWalk
  <2>2. r = c
    BY <2>1, <1>3, <1>4 DEF On
  <2>3. QED
    BY <2>2, <1>1, <1>3, <1>5, <1>8 DEF WalkInv, Closed
<1>11. Closed(u)'
  BY <1>1, <1>2, <1>5, <1>8 DEF WalkInv, Closed
<1>12. QED
  BY <1>4, <1>6, <1>7, <1>9, <1>10, <1>11 DEF PinInv, WalkInv

\* What is left of the walk of unpin once the block c is unpinned: links taken
\* up are new to the walk.
LEMMA ReleasedInv ==
    ASSUME PinInv, NEW u \in Users, NEW c \in call[u].to_process, call[u].op = "unpin",
           call[u].count \subseteq {c}, Released(u, c, call[u]), failed' = failed,
           \/ /\ LastCount(pins[c]) /\ pins' = [pins EXCEPT ![c] = NoPin] /\ raced' = raced \ {c}
              /\ \A v \in Users : c \notin call[v].count
           \/ /\ pins' = [pins EXCEPT ![c] = IF @ = NoPin THEN NoPin ELSE [pins[c] EXCEPT !.ref_count = @ - 1]]
              /\ c \in call[u].count /\ raced' = raced
    PROVE  PinInv'
<1>1. /\ call[u] \in Call /\ WalkInv(u) /\ c \in Cids /\ call[u].links = {} /\ call[u].kind \in {"direct", "recursive"}
      /\ call[u].to_process \subseteq Cids /\ call[u].seen \subseteq Cids /\ call[u].to_process \cap call[u].seen = {}
  BY DEF PinInv, PinsTypeOK, WalkInv, CallShape, Call
<1>2. PICK r \in Cids : call[u].root = {r}
  BY <1>1 DEF WalkInv, CallShape
<1>3. On(u, r)
  BY <1>2 DEF On
<1> DEFINE h == Hold(u, call[u].kind, r)
<1>4. /\ h \in Holds /\ h \in holders[c]
      /\ \A d \in call[u].to_process : h \in holders[d]
      /\ call[u].kind = "recursive" =>
           /\ h \in holders[r] => r \in call[u].to_process
           /\ \A d \in Cids : h \in holders[d] => \A e \in Links[d] : h \in holders[e] \/ e \in call[u].seen
  BY <1>1, <1>2, <1>3 DEF WalkInv, UnpinWalk, Hold, Holds
<1>5. holders' = [holders EXCEPT ![c] = @ \ {h}]
  <2>1. holders[c] \subseteq Holds
    BY <1>1 DEF PinInv, PinsTypeOK
  <2>2. \A g \in Holds : ~(g.user = u /\ g.kind = call[u].kind /\ {g.root} = {r}) <=> g # h
    BY DEF Holds, Hold
  <2>3. {g \in holders[c] : ~(g.user = u /\ g.kind = call[u].kind /\ {g.root} = call[u].root)} = holders[c] \ {h}
    BY <1>2, <2>1, <2>2
  <2>4. holders' = [holders EXCEPT ![c] = {g \in holders[c] : ~(g.user = u /\ g.kind = call[u].kind /\ {g.root} = call[u].root)}]
    BY DEF Released
  <2>5. QED
    BY <2>3, <2>4
<1>6. \A d \in Cids : holders'[d] = IF d = c THEN holders[d] \ {h} ELSE holders[d]
  BY <1>1, <1>5 DEF PinInv, PinsTypeOK
<1>7. PICK new \in SUBSET Cids, k \in Call :
        /\ new \subseteq Links[c] \ (call[u].seen \cup {c})
        /\ call[u].kind = "recursive" \/ new = {}
        /\ k.op = "unpin" /\ k.kind = call[u].kind /\ k.root = {r} /\ k.links = {} /\ k.count = {}
        /\ k.to_process = (call[u].to_process \ {c}) \cup new /\ k.seen = call[u].seen \cup {c}
        /\ call' = [call EXCEPT ![u] = Settle(k)]
        /\ NoFault \/ Fault
  <2> DEFINE rest == [call[u] EXCEPT !.to_process = @ \ {c}, !.seen = @ \cup {c}, !.count = {}]
             more == [rest EXCEPT !.to_process = @ \cup (Links[c] \ rest.seen)]
  <2>1. /\ rest \in Call /\ rest.op = "unpin" /\ rest.kind = call[u].kind /\ rest.root = {r} /\ rest.links = {}
        /\ rest.count = {} /\ rest.to_process = call[u].to_process \ {c} /\ rest.seen = call[u].seen \cup {c}
    BY <1>1, <1>2 DEF Call
  <2>2. /\ more \in Call /\ more.op = "unpin" /\ more.kind = call[u].kind /\ more.root = {r} /\ more.links = {}
        /\ more.count = {} /\ more.to_process = (call[u].to_process \ {c}) \cup (Links[c] \ (call[u].seen \cup {c}))
        /\ more.seen = call[u].seen \cup {c}
    <3> HIDE DEF rest
    <3>1. rest.to_process \cup (Links[c] \ rest.seen) \subseteq Cids
      BY <1>1, <2>1, LinksType
    <3>2. QED
      BY <2>1, <3>1 DEF Call
  <2>3. \/ call' = [call EXCEPT ![u] = Settle(IF call[u].kind = "recursive" THEN more ELSE rest)] /\ NoFault
        \/ call' = [call EXCEPT ![u] = Settle(rest)] /\ Fault
    BY DEF Released
  <2> HIDE DEF rest, more
  <2>4. CASE call[u].kind = "recursive" /\ call' = [call EXCEPT ![u] = Settle(more)] /\ (NoFault \/ Fault)
    <3>1. Links[c] \ (call[u].seen \cup {c}) \in SUBSET Cids
      BY <1>1, LinksType
    <3>2. QED
      BY <2>2, <2>4, <3>1
  <2>5. CASE call' = [call EXCEPT ![u] = Settle(rest)] /\ (NoFault \/ Fault)
    <3>1. rest.to_process = (call[u].to_process \ {c}) \cup {}
      BY <2>1
    <3>2. QED
      BY <2>1, <2>5, <3>1
  <2>6. QED
    BY <2>3, <2>4, <2>5
<1>8. Settle(k) \in Call /\ (Settle(k) = k \/ (Settle(k) = Idle /\ k.to_process = {}))
  BY SettleCall
<1>9. /\ call' \in [Users -> Call] /\ call'[u] = Settle(k)
      /\ \A v \in Users \ {u} : call'[v] = call[v] /\ WalkInv(v)'
  <2>1. \A v \in Users \ {u}, kind \in {"direct", "recursive"}, s \in Cids : Hold(v, kind, s) # h
    BY DEF Hold
  <2>2. \A v \in Users \ {u}, kind \in {"direct", "recursive"}, s \in Cids, d \in Cids :
            Hold(v, kind, s) \in holders'[d] <=> Hold(v, kind, s) \in holders[d]
    BY <1>6, <2>1
  <2>3. QED
    BY <1>7, <1>8, <2>2, OthersStay
<1>10. CountInv'
  <2>1. Settle(k).count = {}
    BY <1>7, <1>8 DEF Idle
  <2>2. \A v \in Users : call'[v].count = call[v].count \ (IF v = u THEN {c} ELSE {})
    BY <1>9, <2>1
  <2>3. QED
    BY <1>1, <1>4, <1>5, <2>2, ReleaseCounts
<1>11. PinsTypeOK'
  <2>1. faults' \in 0 .. MaxFaults
    BY <1>7, PinsAssumption DEF PinInv, PinsTypeOK, Fault, NoFault
  <2>2. raced' \subseteq Cids
    BY DEF PinInv, PinsTypeOK
  <2>3. QED
    BY <1>9, <1>10, <2>1, <2>2 DEF PinInv, PinsTypeOK, CountInv
<1>12. CallShape(u)' /\ PinWalk(u)'
  <2>1. CASE Settle(k) = k
    BY <2>1, <1>1, <1>7, <1>9 DEF CallShape, PinWalk
  <2>2. CASE Settle(k) = Idle
    BY <2>2, <1>9 DEF CallShape, PinWalk, Idle
  <2>3. QED
    BY <1>8, <2>1, <2>2
<1>13. UnpinWalk(u)'
  <2>1. SUFFICES ASSUME NEW s \in Cids, On(u, s)', Settle(k) = k
                 PROVE  /\ \A d \in k.to_process : Hold(u, k.kind, s) \in holders'[d]
                        /\ k.kind = "recursive" =>
                             /\ Hold(u, "recursive", s) \in holders'[s] => s \in k.to_process
                             /\ \A d \in Cids : Hold(u, "recursive", s) \in holders'[d] =>
                                  \A e \in Links[d] : Hold(u, "recursive", s) \in holders'[e] \/ e \in k.seen
    <3>1. call'[u] = Settle(k)
      BY <1>9
    <3>2. CASE Settle(k) = Idle
      BY <3>1, <3>2 DEF UnpinWalk, On, Idle
    <3>3. CASE Settle(k) = k
      BY <3>1, <3>3 DEF UnpinWalk
    <3>4. QED
      BY <1>8, <3>2, <3>3
  <2>2. s = r /\ k.to_process \subseteq Cids
    BY <2>1, <1>7, <1>9 DEF On, Call
  <2>3. \A d \in k.to_process : h \in holders'[d]
    <3>1. \A d \in new : h \in holders[d]
      BY <1>1, <1>4, <1>7
    <3>2. \A d \in k.to_process : h \in holders[d] /\ d # c
      BY <1>4, <1>7, <3>1
    <3>3. QED
      BY <1>6, <2>2, <3>2
  <2>4. ASSUME k.kind = "recursive"
        PROVE  /\ h \in holders'[s] => s \in k.to_process
               /\ \A d \in Cids : h \in holders'[d] => \A e \in Links[d] : h \in holders'[e] \/ e \in k.seen
    <3>1. call[u].kind = "recursive"
      BY <1>7, <2>4
    <3>2. h \notin holders'[c] /\ \A d \in Cids : d # c => (h \in holders'[d] <=> h \in holders[d])
      BY <1>1, <1>6
    <3>3. /\ h \in holders[r] => r \in call[u].to_process
          /\ \A d \in Cids : h \in holders[d] => \A e \in Links[d] : h \in holders[e] \/ e \in call[u].seen
      BY <1>4, <3>1
    <3> HIDE DEF h
    <3>4. h \in holders'[s] => s \in k.to_process
      BY <1>7, <2>2, <3>2, <3>3
    <3>5. \A d \in Cids : h \in holders'[d] => \A e \in Links[d] : h \in holders'[e] \/ e \in k.seen
      BY <1>7, <3>2, <3>3, LinksType
    <3>6. QED
      BY <3>4, <3>5
  <2>5. QED
    BY <1>7, <2>2, <2>3, <2>4
<1>14. Closed(u)'
  <2>1. SUFFICES ASSUME NEW s \in Cids, Hold(u, "recursive", s) \in holders'[s], s \notin failed[u],
                        ~(On(u, s)' /\ call'[u].kind = "recursive")
                 PROVE  \A d \in Cids : Hold(u, "recursive", s) \in holders'[d] =>
                           \A e \in Links[d] : Hold(u, "recursive", s) \in holders'[e]
    BY DEF Closed
  <2>2. CASE Hold(u, "recursive", s) = h
    <3>1. s = r /\ call[u].kind = "recursive"
      BY <2>2 DEF Hold
    <3>2. r \in call[u].to_process /\ r # c
      BY <2>1, <2>2, <3>1, <1>4, <1>6
    <3>3. Settle(k) = k
      BY <3>2, <1>7, <1>8
    <3>4. QED
      BY <3>1, <3>3, <2>1, <1>7, <1>9 DEF On
  <2>3. CASE Hold(u, "recursive", s) # h
    <3>1. \A d \in Cids : Hold(u, "recursive", s) \in holders'[d] <=> Hold(u, "recursive", s) \in holders[d]
      BY <1>6, <2>3
    <3>2. ~(On(u, s) /\ call[u].kind = "recursive")
      BY <1>2, <2>3 DEF On
    <3>3. QED
      BY <2>1, <1>1, <3>1, <3>2, LinksType DEF WalkInv, Closed
  <2>4. QED
    BY <2>2, <2>3
<1>15. QED
  BY <1>9, <1>10, <1>11, <1>12, <1>13, <1>14 DEF PinInv, WalkInv

\* Whoever is about to decrement a count and whoever unpins the block have a
\* hold each, so that the count is not the last.
LEMMA TwoHolds ==
    ASSUME PinInv, NEW u \in Users, NEW c \in call[u].to_process, call[u].op = "unpin",
           NEW v \in Users \ {u}, c \in call[v].count
    PROVE  pins[c].ref_count >= 2
<1>1. /\ call[v] \in Call /\ call[v].op = "unpin" /\ c \in call[v].to_process /\ c \in Cids
  BY DEF PinInv, PinsTypeOK, WalkInv, CallShape, Call, Idle
<1>2. PICK r \in Cids, s \in Cids : call[u].root = {r} /\ call[v].root = {s}
  BY <1>1 DEF PinInv, WalkInv, CallShape
<1> DEFINE g == Hold(u, call[u].kind, r)
           h == Hold(v, call[v].kind, s)
<1>3. g \in holders[c] /\ h \in holders[c] /\ g # h
  BY <1>1, <1>2 DEF PinInv, WalkInv, UnpinWalk, On, Hold
<1> HIDE DEF g, h
<1>4. IsFiniteSet(holders[c]) /\ pins[c].ref_count = Cardinality(holders[c])
  BY <1>1 DEF PinInv, CountInv, HoldersFinite, CountsMatchHolders
<1>5. /\ IsFiniteSet(holders[c] \ {g})
      /\ Cardinality(holders[c] \ {g}) = Cardinality(holders[c]) - 1
  BY <1>3, <1>4, FS_RemoveElement
<1>6. Cardinality(holders[c] \ {g}) # 0 /\ Cardinality(holders[c] \ {g}) \in Nat /\ Cardinality(holders[c]) \in Nat
  <2>1. holders[c] \ {g} # {}
    BY <1>3
  <2>2. Cardinality(holders[c] \ {g}) # 0
    BY <1>5, <2>1, FS_EmptySet
  <2>3. Cardinality(holders[c] \ {g}) \in Nat /\ Cardinality(holders[c]) \in Nat
    BY <1>4, <1>5, FS_CardinalityType
  <2>4. QED
    BY <2>2, <2>3
<1>7. QED
  BY <1>4, <1>5, <1>6

LEMMA UnpinRemoveInv ==
    ASSUME PinInv, NEW u \in Users, unpin_remove(u)
    PROVE  PinInv'
<1>1. PICK c \in call[u].to_process :
         IF LastCount(pins[c])
         THEN /\ pins' = [pins EXCEPT ![c] = NoPin]
              /\ raced' = raced \ {c}
              /\ Released(u, c, call[u])
         ELSE /\ call' = [call EXCEPT ![u].count = {c}]
              /\ raced' = raced \cup {d \in {c} : \E v \in Users \ {u} : d \in call[v].count}
              /\ UNCHANGED <<pins, holders, faults>>
  BY DEF unpin_remove
<1>2. call[u].op = "unpin" /\ call[u].count = {} /\ failed' = failed
  BY DEF unpin_remove
<1>3. call[u] \in Call /\ WalkInv(u) /\ c \in Cids /\ pins[c].ref_count \in Nat
  BY DEF PinInv, PinsTypeOK, Call
<1>4. CASE LastCount(pins[c])
  <2>1. \A v \in Users : c \notin call[v].count
    BY <1>2, <1>3, <1>4, TwoHolds DEF LastCount
  <2>2. QED
    BY <1>1, <1>2, <1>4, <2>1, ReleasedInv
<1>5. CASE ~LastCount(pins[c])
  <2> DEFINE k == [call[u] EXCEPT !.count = {c}]
  <2>1. call' = [call EXCEPT ![u] = k] /\ UNCHANGED <<pins, holders, faults>>
    BY <1>1, <1>5
  <2>2. /\ k \in Call /\ k.op = "unpin" /\ k.kind = call[u].kind /\ k.root = call[u].root /\ k.links = call[u].links
        /\ k.to_process = call[u].to_process /\ k.seen = call[u].seen /\ k.count = {c}
    BY <1>2, <1>3 DEF Call
  <2> HIDE DEF k
  <2>3. /\ call' \in [Users -> Call] /\ call'[u] = k
        /\ \A v \in Users \ {u} : call'[v] = call[v] /\ WalkInv(v)'
    BY <1>2, <2>1, <2>2, OthersStay
  <2>4. \A r \in Cids : On(u, r)' <=> On(u, r)
    BY <1>2, <2>2, <2>3 DEF On
  <2>5. CallShape(u)' /\ PinWalk(u)' /\ Closed(u)'
    BY <1>2, <1>3, <2>1, <2>2, <2>3, <2>4 DEF WalkInv, CallShape, PinWalk, Closed
  <2>6. UnpinWalk(u)'
    BY <1>2, <1>3, <2>1, <2>2, <2>3, <2>4 DEF WalkInv, UnpinWalk
  <2>7. raced \subseteq raced' /\ raced' \subseteq Cids /\ (c \notin raced' => \A v \in Users \ {u} : c \notin call[v].count)
    BY <1>1, <1>3, <1>5 DEF PinInv, PinsTypeOK
  <2>8. PinsTypeOK'
    BY <1>2, <2>1, <2>3, <2>7 DEF PinInv, PinsTypeOK
  <2>9. Decrements'
    <3> SUFFICES ASSUME NEW v \in Users, NEW d \in call'[v].count, d \notin raced'
                 PROVE  pins[d].ref_count >= 2 /\ \A w \in Users \ {v} : d \notin call'[w].count
      BY <2>1 DEF Decrements
    <3>1. CASE d = c
      <4>1. v = u
        BY <3>1, <2>3, <2>7
      <4>2. pins[c].ref_count >= 2
        BY <1>3, <1>5 DEF LastCount
      <4>3. QED
        BY <3>1, <4>1, <4>2, <2>3, <2>7
    <3>2. CASE d # c
      <4>1. v # u /\ d \in call[v].count /\ d \notin raced
        BY <3>2, <2>2, <2>3, <2>7
      <4>2. pins[d].ref_count >= 2 /\ \A w \in Users \ {v} : d \notin call[w].count
        BY <4>1 DEF PinInv, CountInv, Decrements
      <4>3. QED
        BY <3>2, <4>2, <2>2, <2>3
    <3>3. QED
      BY <3>1, <3>2
  <2>10. CountInv'
    BY <2>1, <2>7, <2>9 DEF PinInv, CountInv, HoldersFinite, CountsMatchHolders, ZombiesNeedOverlap, Pinned
  <2>11. QED
    BY <2>3, <2>5, <2>6, <2>8, <2>10 DEF PinInv, WalkInv
<1>6. QED
  BY <1>4, <1>5

LEMMA UnpinDecrementInv ==
    ASSUME PinInv, NEW u \in Users, unpin_decrement(u)
    PROVE  PinInv'
<1>1. PICK c \in call[u].count :
         /\ pins' = [pins EXCEPT ![c] = IF @ = NoPin THEN NoPin ELSE [pins[c] EXCEPT !.ref_count = @ - 1]]
         /\ Released(u, c, call[u])
  BY DEF unpin_decrement
<1>2. UNCHANGED <<failed, raced>>
  BY DEF unpin_decrement
<1>3. call[u] \in Call /\ CallShape(u)
  BY DEF PinInv, PinsTypeOK, WalkInv
<1>4. call[u].op = "unpin" /\ c \in call[u].to_process /\ call[u].count \subseteq {c}
  BY <1>3 DEF CallShape, Call, Idle
<1>5. QED
  BY <1>1, <1>2, <1>4, ReleasedInv

\* PinInv is inductive where nobody cleans up after a failed pin_recursive.
LEMMA NextPinInv ==
    ASSUME ~CleanUp, PinInv, PinNext
    PROVE  PinInv'
<1>1. PICK u \in Users :
        \/ \E c \in Cids : pin(u, c) \/ pin_recursive(u, c) \/ \E kind \in {"direct", "recursive"} : unpin(u, kind, c)
        \/ PinStep(u)
  BY DEF PinNext
<1>2. CASE \E c \in Cids : pin(u, c) \/ pin_recursive(u, c) \/ \E kind \in {"direct", "recursive"} : unpin(u, kind, c)
  BY <1>2, PinStepInv, PinRecursiveInv, UnpinInv
<1>3. CASE PinStep(u)
  BY <1>3, PinLinksInv, PinIndirectInv, UnpinRemoveInv, UnpinDecrementInv DEF PinStep
<1>4. QED
  BY <1>1, <1>2, <1>3

-----------------------------------------------------------------------------

Run == [pc : {"idle", "list", "mark", "check", "sweep", "delete"}, by : {"scheduler", "application"},
        unread : SUBSET Cids, marked : SUBSET Cids, to_process : SUBSET Cids, cids : SUBSET Cids,
        to_delete : SUBSET Cids, batch_count : Nat, collected : Nat,
        ended : BOOLEAN, cut : BOOLEAN]

\* A run has marked, or has still to read, every block held since it began, and
\* dooms nothing it has marked; it has read all pins before it dooms anything.
RunInv(g) ==
    /\ gc[g] \in Run /\ since[g] \subseteq Cids
    /\ gc[g].unread # {} => gc[g].pc = "list"
    /\ gc[g].to_delete # {} => gc[g].pc \in {"sweep", "delete"}
    /\ since[g] \subseteq gc[g].marked \cup gc[g].unread
    /\ gc[g].to_delete \cap gc[g].marked = {}
    /\ \A c \in since[g] : holders[c] # {}
    /\ config.dry_run => gc[g].to_delete = {}

GcInv ==
    /\ store \subseteq Cids /\ config \in Configs /\ cancelled \in BOOLEAN /\ running \in BOOLEAN
    /\ gc = [g \in Collectors |-> gc[g]] /\ since = [g \in Collectors |-> since[g]]
    /\ \A g \in Collectors : RunInv(g)

LEMMA ConfigType == config \in Configs => config \in Config
BY GcAssumption

LEMMA CallerType ==
    ASSUME config \in Configs, NEW g \in Collectors, NEW by \in config.callers[g]
    PROVE  by \in {"scheduler", "application"}
BY GcAssumption DEF Config

LEMMA InvImpliesType == PinInv /\ GcInv /\ revived \subseteq Collectors => TypeOK
<1> SUFFICES ASSUME PinInv, GcInv, revived \subseteq Collectors PROVE TypeOK
  OBVIOUS
<1>1. gc \in [Collectors -> Run] /\ since \in [Collectors -> SUBSET Cids]
  BY DEF GcInv, RunInv
<1>2. QED
  BY <1>1 DEF PinInv, GcInv, TypeOK, Run, RunInv

LEMMA InvImpliesDoom == GcInv => NothingHeldIsDoomed
BY DEF GcInv, RunInv, NothingHeldIsDoomed

LEMMA RestingRun ==
    ASSUME NEW n \in Nat
    PROVE  LET run == [Resting EXCEPT !.collected = n] IN
           /\ run \in Run /\ run.pc = "idle" /\ run.unread = {} /\ run.to_delete = {} /\ run.marked = {} /\ ~run.cut
           /\ run.by = "application"
BY DEF Resting, Run

LEMMA InitGcInv == Init => GcInv
<1> SUFFICES ASSUME Init PROVE GcInv
  OBVIOUS
<1>1. Resting \in Run /\ Resting.unread = {} /\ Resting.to_delete = {}
  BY DEF Resting, Run
<1>2. gc = [g \in Collectors |-> Resting] /\ since = [g \in Collectors |-> {}] /\ config \in Configs
      /\ store = Cids /\ cancelled = FALSE /\ running = FALSE
  BY DEF Init
<1>3. QED
  BY <1>1, <1>2 DEF GcInv, RunInv

\* A step of one collector, or of none, which leaves the pins alone.
LEMMA RunStep ==
    ASSUME PinInv, GcInv, NEW g \in Collectors, NEW run, NEW held,
           gc' = [gc EXCEPT ![g] = run], since' = [since EXCEPT ![g] = held],
           UNCHANGED <<pinVars, config>>, faults' \in 0 .. MaxFaults,
           store' \subseteq Cids, cancelled' \in BOOLEAN, running' \in BOOLEAN,
           RunInv(g)'
    PROVE  PinInv' /\ GcInv'
<1>1. PinInv'
  <2>1. PinsTypeOK'
    BY DEF PinInv, PinsTypeOK, pinVars
  <2>2. CountInv'
    BY SameCounts DEF pinVars
  <2>3. \A u \in Users : WalkInv(u)'
    BY DEF PinInv, pinVars, WalkInv, CallShape, PinWalk, UnpinWalk, Closed, On
  <2>4. QED
    BY <2>1, <2>2, <2>3 DEF PinInv
<1>2. \A h \in Collectors \ {g} : RunInv(h)'
  <2> TAKE h \in Collectors \ {g}
  <2>1. gc'[h] = gc[h] /\ since'[h] = since[h] /\ holders' = holders /\ config' = config
    BY DEF GcInv, pinVars
  <2>2. RunInv(h)
    BY DEF GcInv
  <2>3. QED
    BY <2>1, <2>2 DEF RunInv
<1>3. QED
  BY <1>1, <1>2 DEF GcInv

\* The steps that leave the runs alone.
LEMMA EnvironmentStep ==
    ASSUME PinInv, GcInv, cancel \/ reset_cancel \/ \E c \in Cids : put(c)
    PROVE  PinInv' /\ GcInv'
<1>1. UNCHANGED <<pinVars, faults, config, running, gc, since>> /\ store' \subseteq Cids /\ cancelled' \in BOOLEAN
  BY DEF cancel, reset_cancel, ResetFlag, put, GcInv
<1>2. PinInv'
  <2>1. PinsTypeOK' /\ CountInv'
    BY <1>1, SameCounts DEF PinInv, PinsTypeOK, pinVars
  <2>2. \A u \in Users : WalkInv(u)'
    BY <1>1 DEF PinInv, pinVars, WalkInv, CallShape, PinWalk, UnpinWalk, Closed, On
  <2>3. QED
    BY <2>1, <2>2 DEF PinInv
<1>3. GcInv'
  BY <1>1 DEF GcInv, RunInv, pinVars
<1>4. QED
  BY <1>2, <1>3

LEMMA UsersStep ==
    ASSUME ~CleanUp, PinInv, GcInv, Users_Next
    PROVE  PinInv' /\ GcInv'
<1>1. PinInv'
  BY NextPinInv DEF Users_Next
<1>2. UNCHANGED <<store, config, cancelled, running, gc>>
      /\ since' = [g \in Collectors |-> {c \in since[g] : holders'[c] # {}}]
  BY DEF Users_Next
<1>3. QED
  BY <1>1, <1>2 DEF GcInv, RunInv

LEMMA SinceSame ==
    ASSUME GcInv, NEW g \in Collectors, since' = since
    PROVE  since' = [since EXCEPT ![g] = since[g]]
BY DEF GcInv

LEMMA CollectStep ==
    ASSUME PinInv, GcInv, NEW g \in Collectors, NEW by \in config.callers[g], collect(g, by)
    PROVE  PinInv' /\ GcInv'
<1> DEFINE run == [Resting EXCEPT !.pc = "list", !.by = by, !.unread = Cids]
           held == {c \in Cids : holders[c] # {}}
<1>1. /\ gc' = [gc EXCEPT ![g] = run] /\ since' = [since EXCEPT ![g] = held]
      /\ running' \in BOOLEAN /\ cancelled' \in BOOLEAN /\ UNCHANGED <<pinVars, faults, store, config>>
  BY DEF collect, ResetFlag, GoTo
<1>2. run \in Run /\ run.pc = "list" /\ run.unread = Cids /\ run.marked = {} /\ run.to_delete = {}
  BY CallerType DEF GcInv, Resting, Run
<1> HIDE DEF run
<1>3. gc'[g] = run /\ since'[g] = held
  BY <1>1 DEF GcInv
<1>4. RunInv(g)'
  BY <1>1, <1>2, <1>3 DEF RunInv, pinVars
<1>5. faults' \in 0 .. MaxFaults /\ store' \subseteq Cids
  BY <1>1 DEF PinInv, PinsTypeOK, GcInv
<1>6. QED
  BY <1>1, <1>4, <1>5, RunStep

\* A run that returns leaves nothing behind but its result.
LEMMA OverStep ==
    ASSUME PinInv, GcInv, NEW g \in Collectors, NEW n \in Nat, Over(g, n), running' \in BOOLEAN,
           UNCHANGED <<pinVars, config, cancelled>>, faults' \in 0 .. MaxFaults, store' \subseteq Cids
    PROVE  PinInv' /\ GcInv'
<1> DEFINE run == [Resting EXCEPT !.collected = n]
<1>1. gc' = [gc EXCEPT ![g] = run] /\ since' = [since EXCEPT ![g] = {}] /\ running' \in BOOLEAN
  BY DEF Over, GoTo
<1>2. run \in Run /\ run.unread = {} /\ run.to_delete = {}
  BY RestingRun
<1> HIDE DEF run
<1>3. gc'[g] = run /\ since'[g] = {}
  BY <1>1 DEF GcInv
<1>4. RunInv(g)'
  BY <1>2, <1>3 DEF RunInv
<1>5. cancelled' \in BOOLEAN
  BY DEF GcInv
<1>6. QED
  BY <1>1, <1>4, <1>5, RunStep

LEMMA FinishStep ==
    ASSUME PinInv, GcInv, NEW g \in Collectors, NEW n \in Nat, finish(g, n),
           UNCHANGED <<pinVars, config, cancelled>>, faults' \in 0 .. MaxFaults, store' \subseteq Cids
    PROVE  PinInv' /\ GcInv'
BY OverStep DEF finish

LEMMA FaultType ==
    ASSUME PinInv, Fault \/ NoFault
    PROVE  faults' \in 0 .. MaxFaults
BY PinsAssumption DEF PinInv, PinsTypeOK, Fault, NoFault

LEMMA DroppedStep ==
    ASSUME PinInv, GcInv, NEW g \in Collectors, dropped(g)
    PROVE  PinInv' /\ GcInv'
<1>1. Over(g, 0) /\ UNCHANGED <<pinVars, store, config, cancelled, running>> /\ faults' \in 0 .. MaxFaults
  BY FaultType DEF dropped
<1>2. QED
  BY <1>1, OverStep DEF GcInv

LEMMA ListStep ==
    ASSUME PinInv, GcInv, NEW g \in Collectors, list_pins(g)
    PROVE  PinInv' /\ GcInv'
<1>1. PICK c \in gc[g].unread :
        GoTo(g, [gc[g] EXCEPT !.unread = @ \ {c}, !.marked = @ \cup Marks(c), !.to_process = @ \cup Roots(c),
                              !.pc = IF gc[g].unread = {c} THEN "mark" ELSE "list"])
  BY DEF list_pins
<1>2. gc[g].pc = "list" /\ UNCHANGED <<pinVars, faults, store, config, cancelled, running, since, revived>>
  BY DEF list_pins, At
<1>3. gc[g] \in Run /\ RunInv(g) /\ c \in Cids
  BY DEF GcInv, RunInv, Run
<1>4. Marks(c) \subseteq Cids /\ Roots(c) \subseteq Cids /\ (c \in since[g] => c \in Marks(c))
  <2>1. c \in since[g] => Pinned(c)
    <3> SUFFICES ASSUME c \in since[g] PROVE Pinned(c)
      OBVIOUS
    <3>1. holders[c] # {} /\ IsFiniteSet(holders[c]) /\ pins[c].ref_count = Cardinality(holders[c])
      BY <1>3 DEF RunInv, PinInv, CountInv, HoldersFinite, CountsMatchHolders
    <3>2. pins[c].ref_count # 0
      BY <3>1, FS_EmptySet
    <3>3. QED
      BY <3>2 DEF Pinned, NoPin
  <2>2. QED
    BY <1>3, <2>1 DEF Marks, Roots
<1> DEFINE run == [gc[g] EXCEPT !.unread = @ \ {c}, !.marked = @ \cup Marks(c), !.to_process = @ \cup Roots(c),
                                !.pc = IF gc[g].unread = {c} THEN "mark" ELSE "list"]
<1>5. /\ run \in Run /\ run.unread = gc[g].unread \ {c} /\ run.marked = gc[g].marked \cup Marks(c)
      /\ run.to_delete = gc[g].to_delete /\ run.pc = IF gc[g].unread = {c} THEN "mark" ELSE "list"
  BY <1>3, <1>4 DEF Run
<1>6. gc' = [gc EXCEPT ![g] = run]
  BY <1>1 DEF GoTo
<1> HIDE DEF run
<1>7. gc'[g] = run /\ since'[g] = since[g] /\ since' = [since EXCEPT ![g] = since[g]]
  BY <1>2, <1>6, SinceSame DEF GcInv
<1>8. gc[g].to_delete = {}
  BY <1>2, <1>3 DEF RunInv
<1>9. RunInv(g)'
  BY <1>2, <1>3, <1>4, <1>5, <1>7, <1>8 DEF RunInv, pinVars
<1>10. faults' \in 0 .. MaxFaults /\ store' \subseteq Cids /\ cancelled' \in BOOLEAN /\ running' \in BOOLEAN
  BY <1>2 DEF PinInv, PinsTypeOK, GcInv
<1>11. QED
  BY <1>2, <1>6, <1>7, <1>9, <1>10, RunStep

LEMMA MarkStep ==
    ASSUME PinInv, GcInv, NEW g \in Collectors, mark_phase(g)
    PROVE  PinInv' /\ GcInv'
<1>1. gc[g].pc = "mark" /\ UNCHANGED <<pinVars, store, config, cancelled, running, since, revived>> /\ (Fault \/ NoFault)
  BY DEF mark_phase, At
<1>2. gc[g] \in Run /\ RunInv(g)
  BY DEF GcInv, RunInv
<1>3. gc[g].unread = {} /\ gc[g].to_delete = {} /\ since[g] \subseteq gc[g].marked
  BY <1>1, <1>2 DEF RunInv
<1>4. PICK run \in Run :
        /\ gc' = [gc EXCEPT ![g] = run]
        /\ run.unread = {} /\ run.to_delete = {} /\ gc[g].marked \subseteq run.marked
  <2>1. CASE cancelled \/ gc[g].to_process = {}
    <3> DEFINE run == [gc[g] EXCEPT !.pc = "check", !.cut = gc[g].to_process # {}, !.to_process = {}]
    <3>1. gc' = [gc EXCEPT ![g] = run]
      BY <1>1, <2>1 DEF mark_phase, GoTo
    <3>2. run \in Run /\ run.unread = gc[g].unread /\ run.to_delete = gc[g].to_delete /\ run.marked = gc[g].marked
      BY <1>2 DEF Run
    <3>3. QED
      BY <1>3, <3>1, <3>2
  <2>2. CASE ~(cancelled \/ gc[g].to_process = {})
    <3>1. PICK c \in gc[g].to_process :
            LET new == Links[c] \ gc[g].marked IN
            \/ GoTo(g, [gc[g] EXCEPT !.marked = @ \cup new, !.to_process = (@ \ {c}) \cup new]) /\ NoFault
            \/ new # {} /\ GoTo(g, [gc[g] EXCEPT !.to_process = @ \ {c}]) /\ Fault
      BY <1>1, <2>2 DEF mark_phase
    <3> DEFINE new == Links[c] \ gc[g].marked
               deeper == [gc[g] EXCEPT !.marked = @ \cup new, !.to_process = (@ \ {c}) \cup new]
               past == [gc[g] EXCEPT !.to_process = @ \ {c}]
    <3>2. new \subseteq Cids
      BY <1>2, LinksType DEF Run
    <3>3. /\ deeper \in Run /\ deeper.unread = gc[g].unread /\ deeper.to_delete = gc[g].to_delete
          /\ deeper.marked = gc[g].marked \cup new
      BY <1>2, <3>2 DEF Run
    <3>4. past \in Run /\ past.unread = gc[g].unread /\ past.to_delete = gc[g].to_delete /\ past.marked = gc[g].marked
      BY <1>2 DEF Run
    <3>5. gc' = [gc EXCEPT ![g] = deeper] \/ gc' = [gc EXCEPT ![g] = past]
      BY <3>1 DEF GoTo
    <3>6. QED
      BY <1>3, <3>3, <3>4, <3>5
  <2>3. QED
    BY <2>1, <2>2
<1>5. gc'[g] = run /\ since'[g] = since[g] /\ since' = [since EXCEPT ![g] = since[g]]
  BY <1>1, <1>4, SinceSame DEF GcInv
<1>6. RunInv(g)'
  BY <1>1, <1>2, <1>3, <1>4, <1>5 DEF RunInv, pinVars
<1>7. faults' \in 0 .. MaxFaults /\ store' \subseteq Cids /\ cancelled' \in BOOLEAN /\ running' \in BOOLEAN
  BY <1>1, FaultType DEF GcInv
<1>8. QED
  BY <1>1, <1>4, <1>5, <1>6, <1>7, RunStep

\* A step of a run that leaves what is held and what the run has marked alone.
LEMMA SameMarksStep ==
    ASSUME PinInv, GcInv, NEW g \in Collectors, NEW run \in Run, gc' = [gc EXCEPT ![g] = run],
           UNCHANGED <<pinVars, config, cancelled, running, since, revived>>, Fault \/ NoFault, store' \subseteq Cids,
           gc[g].pc # "list", run.marked = gc[g].marked, run.unread = gc[g].unread,
           run.to_delete # {} => run.pc \in {"sweep", "delete"},
           run.to_delete \cap run.marked = {},
           config.dry_run => run.to_delete = {}
    PROVE  PinInv' /\ GcInv'
<1>1. RunInv(g) /\ gc[g].unread = {}
  BY DEF GcInv, RunInv
<1>2. gc'[g] = run /\ since'[g] = since[g] /\ since' = [since EXCEPT ![g] = since[g]]
  BY SinceSame DEF GcInv
<1>3. RunInv(g)'
  BY <1>1, <1>2 DEF RunInv, pinVars
<1>4. faults' \in 0 .. MaxFaults /\ cancelled' \in BOOLEAN /\ running' \in BOOLEAN
  BY FaultType DEF GcInv
<1>5. QED
  BY <1>2, <1>3, <1>4, RunStep

LEMMA CheckStep ==
    ASSUME PinInv, GcInv, NEW g \in Collectors, check(g)
    PROVE  PinInv' /\ GcInv'
<1>1. gc[g].pc = "check" /\ UNCHANGED <<pinVars, store, config, cancelled>>
  BY DEF check, At
<1>2. gc[g] \in Run /\ RunInv(g) /\ store' \subseteq Cids
  BY <1>1 DEF GcInv, RunInv
<1>3. CASE finish(g, gc[g].collected) /\ (Fault \/ NoFault)
  <2>1. gc[g].collected \in Nat
    BY <1>2 DEF Run
  <2>2. QED
    BY <1>1, <1>2, <1>3, <2>1, FaultType, FinishStep
<1>4. CASE NoFault /\ GoTo(g, [gc[g] EXCEPT !.pc = "sweep", !.cids = store]) /\ UNCHANGED <<running, since, revived>>
  <2> DEFINE run == [gc[g] EXCEPT !.pc = "sweep", !.cids = store]
  <2>1. /\ run \in Run /\ run.pc = "sweep" /\ run.marked = gc[g].marked /\ run.unread = gc[g].unread
        /\ run.to_delete = gc[g].to_delete
    BY <1>1, <1>2 DEF Run
  <2>2. gc' = [gc EXCEPT ![g] = run]
    BY <1>4 DEF GoTo
  <2> HIDE DEF run
  <2>3. gc[g].to_delete = {}
    BY <1>1, <1>2 DEF RunInv
  <2>4. QED
    BY <1>1, <1>2, <1>4, <2>1, <2>2, <2>3, SameMarksStep
<1>5. QED
  BY <1>3, <1>4 DEF check

\* The sweep dooms only what is not marked.
LEMMA SweepBlockStep ==
    ASSUME PinInv, GcInv, NEW g \in Collectors, gc[g].pc = "sweep", sweep_block(g),
           UNCHANGED <<running, since, revived>>, UNCHANGED <<pinVars, faults, store, config, cancelled>>
    PROVE  PinInv' /\ GcInv'
<1>1. gc[g] \in Run /\ RunInv(g) /\ store' \subseteq Cids /\ config.batch_size \in Nat /\ config.dry_run \in BOOLEAN
  BY ConfigType DEF GcInv, RunInv, Config
<1>2. PICK c \in gc[g].cids :
        LET run == [gc[g] EXCEPT !.cids = @ \ {c}]
            doomed == [run EXCEPT !.to_delete = IF config.dry_run THEN @ ELSE @ \cup {c},
                                  !.collected = IF config.dry_run THEN @ + 1 ELSE @,
                                  !.batch_count = @ + 1]
            full == config.incremental /\ doomed.batch_count >= config.batch_size
        IN  GoTo(g, IF c \in gc[g].marked THEN run
                    ELSE IF full THEN [doomed EXCEPT !.batch_count = 0, !.pc = IF config.dry_run THEN "sweep" ELSE "delete"]
                    ELSE doomed)
  BY DEF sweep_block
<1> DEFINE run == [gc[g] EXCEPT !.cids = @ \ {c}]
           doomed == [run EXCEPT !.to_delete = IF config.dry_run THEN @ ELSE @ \cup {c},
                                 !.collected = IF config.dry_run THEN @ + 1 ELSE @,
                                 !.batch_count = @ + 1]
           batch == [doomed EXCEPT !.batch_count = 0, !.pc = IF config.dry_run THEN "sweep" ELSE "delete"]
<1>3. /\ run \in Run /\ run.pc = "sweep" /\ run.marked = gc[g].marked /\ run.unread = gc[g].unread
      /\ run.to_delete = gc[g].to_delete
  BY <1>1 DEF Run
<1>4. /\ doomed \in Run /\ doomed.pc = "sweep" /\ doomed.marked = gc[g].marked /\ doomed.unread = gc[g].unread
      /\ doomed.to_delete = IF config.dry_run THEN gc[g].to_delete ELSE gc[g].to_delete \cup {c}
  <2>1. c \in Cids
    BY <1>1 DEF Run
  <2> HIDE DEF run
  <2>2. run.to_delete \cup {c} \subseteq Cids /\ run.collected + 1 \in Nat /\ run.batch_count + 1 \in Nat
    BY <1>3, <2>1 DEF Run
  <2>3. QED
    BY <1>3, <2>2 DEF Run
<1>5. /\ batch \in Run /\ batch.pc \in {"sweep", "delete"} /\ batch.marked = gc[g].marked /\ batch.unread = gc[g].unread
      /\ batch.to_delete = doomed.to_delete
  <2> HIDE DEF doomed
  <2>1. QED
    BY <1>4 DEF Run
<1>6. \/ gc' = [gc EXCEPT ![g] = run]
      \/ c \notin gc[g].marked /\ (gc' = [gc EXCEPT ![g] = doomed] \/ gc' = [gc EXCEPT ![g] = batch])
  BY <1>2 DEF GoTo
<1> HIDE DEF run, doomed, batch
<1>7. gc[g].to_delete \cap gc[g].marked = {} /\ (config.dry_run => gc[g].to_delete = {})
  BY <1>1 DEF RunInv
<1>8. CASE gc' = [gc EXCEPT ![g] = run]
  BY <1>1, <1>3, <1>7, <1>8, SameMarksStep DEF NoFault
<1>9. CASE c \notin gc[g].marked /\ gc' = [gc EXCEPT ![g] = doomed]
  BY <1>1, <1>4, <1>7, <1>9, SameMarksStep DEF NoFault
<1>10. CASE c \notin gc[g].marked /\ gc' = [gc EXCEPT ![g] = batch]
  BY <1>1, <1>4, <1>5, <1>7, <1>10, SameMarksStep DEF NoFault
<1>11. QED
  BY <1>6, <1>8, <1>9, <1>10

LEMMA SweepStep ==
    ASSUME PinInv, GcInv, NEW g \in Collectors, sweep_phase(g)
    PROVE  PinInv' /\ GcInv'
<1>1. gc[g].pc = "sweep" /\ UNCHANGED <<pinVars, faults, store, config, cancelled>>
      /\ (sweep_end(g) \/ (sweep_block(g) /\ UNCHANGED <<running, since, revived>>))
  BY DEF sweep_phase, At
<1>2. gc[g] \in Run /\ RunInv(g) /\ store' \subseteq Cids /\ gc[g].collected \in Nat
  BY <1>1 DEF GcInv, RunInv, Run
<1>3. CASE sweep_block(g) /\ UNCHANGED <<running, since, revived>>
  BY <1>1, <1>3, SweepBlockStep
<1>4. CASE sweep_end(g)
  <2>1. CASE finish(g, gc[g].collected)
    BY <1>1, <1>2, <2>1, FaultType, FinishStep DEF NoFault
  <2>2. CASE GoTo(g, [gc[g] EXCEPT !.pc = "delete", !.ended = TRUE]) /\ UNCHANGED <<running, since, revived>>
    <3> DEFINE run == [gc[g] EXCEPT !.pc = "delete", !.ended = TRUE]
    <3>1. /\ run \in Run /\ run.pc = "delete" /\ run.marked = gc[g].marked /\ run.unread = gc[g].unread
          /\ run.to_delete = gc[g].to_delete
      BY <1>2 DEF Run
    <3>2. gc' = [gc EXCEPT ![g] = run]
      BY <2>2 DEF GoTo
    <3> HIDE DEF run
    <3>3. QED
      BY <1>1, <1>2, <2>2, <3>1, <3>2, SameMarksStep DEF NoFault, RunInv
  <2>3. QED
    BY <1>4, <2>1, <2>2 DEF sweep_end
<1>5. QED
  BY <1>1, <1>3, <1>4

LEMMA DeleteStep ==
    ASSUME PinInv, GcInv, NEW g \in Collectors, delete_batch(g)
    PROVE  PinInv' /\ GcInv'
<1>1. PICK c \in gc[g].to_delete :
         LET run == [gc[g] EXCEPT !.to_delete = @ \ {c}]
             Next_(r) == IF r.to_delete # {} THEN GoTo(g, r) /\ UNCHANGED <<running, since, revived>>
                         ELSE IF r.ended THEN finish(g, r.collected)
                         ELSE GoTo(g, [r EXCEPT !.pc = "sweep"]) /\ UNCHANGED <<running, since, revived>>
         IN  \/ store' = store \ {c} /\ Next_([run EXCEPT !.collected = @ + 1]) /\ NoFault
             \/ UNCHANGED store /\ Next_(run) /\ Fault
  BY DEF delete_batch
<1>2. gc[g].pc = "delete" /\ UNCHANGED <<pinVars, config, cancelled>>
  BY DEF delete_batch, At
<1>3. gc[g] \in Run /\ RunInv(g)
  BY DEF GcInv, RunInv
<1> DEFINE kept == [gc[g] EXCEPT !.to_delete = @ \ {c}]
           gone == [kept EXCEPT !.collected = @ + 1]
<1>4. /\ kept \in Run /\ kept.pc = "delete" /\ kept.marked = gc[g].marked /\ kept.unread = gc[g].unread
      /\ kept.to_delete = gc[g].to_delete \ {c}
  BY <1>2, <1>3 DEF Run
<1>5. /\ gone \in Run /\ gone.pc = "delete" /\ gone.marked = gc[g].marked /\ gone.unread = gc[g].unread
      /\ gone.to_delete = gc[g].to_delete \ {c}
  <2> HIDE DEF kept
  <2>1. kept.collected + 1 \in Nat
    BY <1>4 DEF Run
  <2>2. QED
    BY <1>4, <2>1 DEF Run
<1> HIDE DEF kept, gone
<1>6. PICK run \in {kept, gone} :
        /\ IF run.to_delete # {} THEN GoTo(g, run) /\ UNCHANGED <<running, since, revived>>
           ELSE IF run.ended THEN finish(g, run.collected)
           ELSE GoTo(g, [run EXCEPT !.pc = "sweep"]) /\ UNCHANGED <<running, since, revived>>
        /\ store' \in SUBSET store /\ (Fault \/ NoFault)
  BY <1>1 DEF kept, gone
<1>7. /\ run \in Run /\ run.pc = "delete" /\ run.marked = gc[g].marked /\ run.unread = gc[g].unread
      /\ run.to_delete = gc[g].to_delete \ {c} /\ run.collected \in Nat /\ store' \subseteq Cids
  BY <1>4, <1>5, <1>6 DEF Run, GcInv
<1>8. run.to_delete \cap run.marked = {} /\ (config.dry_run => run.to_delete = {})
  BY <1>3, <1>7 DEF RunInv
<1>9. CASE GoTo(g, run) /\ UNCHANGED <<running, since, revived>>
  BY <1>2, <1>6, <1>7, <1>8, <1>9, SameMarksStep DEF GoTo
<1>10. CASE finish(g, run.collected)
  BY <1>2, <1>6, <1>7, <1>10, FaultType, FinishStep
<1>11. CASE GoTo(g, [run EXCEPT !.pc = "sweep"]) /\ UNCHANGED <<running, since, revived>>
  <2> DEFINE on == [run EXCEPT !.pc = "sweep"]
  <2>1. on \in Run /\ on.pc = "sweep" /\ on.marked = run.marked /\ on.unread = run.unread /\ on.to_delete = run.to_delete
    BY <1>7 DEF Run
  <2>2. gc' = [gc EXCEPT ![g] = on]
    BY <1>11 DEF GoTo
  <2> HIDE DEF on
  <2>3. QED
    BY <1>2, <1>6, <1>7, <1>8, <1>11, <2>1, <2>2, SameMarksStep
<1>12. QED
  BY <1>6, <1>9, <1>10, <1>11

LEMMA NextInv ==
    ASSUME ~CleanUp, PinInv /\ GcInv, [Next]_vars
    PROVE  (PinInv /\ GcInv)'
<1>1. CASE UNCHANGED vars
  <2>1. PinInv'
    <3>1. PinsTypeOK' /\ CountInv'
      BY <1>1, SameCounts DEF PinInv, PinsTypeOK, pinVars, vars
    <3>2. \A u \in Users : WalkInv(u)'
      BY <1>1 DEF PinInv, pinVars, vars, WalkInv, CallShape, PinWalk, UnpinWalk, Closed, On
    <3>3. QED
      BY <3>1, <3>2 DEF PinInv
  <2>2. GcInv'
    BY <1>1 DEF GcInv, RunInv, pinVars, gcVars, vars
  <2>3. QED
    BY <2>1, <2>2
<1>2. CASE Next
  <2>1. CASE Users_Next
    BY <2>1, UsersStep
  <2>2. CASE cancel \/ reset_cancel \/ \E c \in Cids : put(c)
    BY <2>2, EnvironmentStep
  <2>3. ASSUME NEW g \in Collectors, (\E by \in config.callers[g] : collect(g, by)) \/ GcStep(g) \/ dropped(g)
        PROVE  (PinInv /\ GcInv)'
    BY <2>3, CollectStep, ListStep, MarkStep, CheckStep, SweepStep, DeleteStep, DroppedStep DEF GcStep
  <2>4. QED
    BY <1>2, <2>1, <2>2, <2>3 DEF Next
<1>3. QED
  BY <1>1, <1>2

LEMMA SpecInv ==
    ASSUME ~CleanUp
    PROVE  Spec => [](PinInv /\ GcInv)
<1>1. Init => PinInv /\ GcInv
  BY InitPinInv, InitGcInv DEF Init
<1>2. (PinInv /\ GcInv) /\ [Next]_vars => (PinInv /\ GcInv)'
  BY NextInv
<1>3. QED
  BY <1>1, <1>2, PTL DEF Spec

\* In any execution, a count is the number of calls that hold the block: no
\* unpin, however many overlap, takes a count that is not its own.
THEOREM CountsMatch ==
    ASSUME ~CleanUp
    PROVE  Spec => []CountsMatchHolders
<1>1. PinInv => CountsMatchHolders
  BY DEF PinInv, CountInv
<1>2. QED
  BY <1>1, SpecInv, PTL

\* An entry that nobody holds stays behind only where two unpins overlapped.
THEOREM ZombiesOverlap ==
    ASSUME ~CleanUp
    PROVE  Spec => []ZombiesNeedOverlap
<1>1. PinInv => ZombiesNeedOverlap
  BY DEF PinInv, CountInv
<1>2. QED
  BY <1>1, SpecInv, PTL

\* No run dooms a block that somebody has held since before it began, whatever
\* is cancelled, fails or overlaps, for any number of runs at once.
THEOREM HeldIsKept ==
    ASSUME ~CleanUp
    PROVE  Spec => []NothingHeldIsDoomed
BY SpecInv, InvImpliesDoom, PTL

-----------------------------------------------------------------------------

\* A marking cut short whose cancellation nobody took back has it still before it.
CutPending == \A g \in Collectors : gc[g].cut /\ g \notin revived => gc[g].pc = "check" /\ cancelled

CutInv ==
    /\ store \subseteq Cids /\ config \in Configs
    /\ gc \in [Collectors -> Run] /\ revived \subseteq Collectors
    /\ CutPending

LEMMA InitCutInv == Init => CutInv
<1> SUFFICES ASSUME Init PROVE CutInv
  OBVIOUS
<1>1. Resting \in Run /\ Resting.pc = "idle" /\ ~Resting.cut
  BY DEF Resting, Run
<1>2. gc = [g \in Collectors |-> Resting] /\ store = Cids /\ config \in Configs /\ revived = {}
  BY DEF Init
<1>3. QED
  BY <1>1, <1>2 DEF CutInv, CutPending

\* A run goes on.
LEMMA GoOnStep ==
    ASSUME CutInv, NEW g \in Collectors, NEW run \in Run, gc' = [gc EXCEPT ![g] = run],
           run.cut /\ g \notin revived => run.pc = "check" /\ cancelled,
           UNCHANGED <<config, cancelled, revived>>, store' \subseteq Cids
    PROVE  CutInv'
<1>1. gc' \in [Collectors -> Run] /\ gc'[g] = run /\ \A h \in Collectors \ {g} : gc'[h] = gc[h]
  BY DEF CutInv
<1>2. CutPending'
  BY <1>1 DEF CutInv, CutPending
<1>3. QED
  BY <1>1, <1>2 DEF CutInv

\* A run is over.
LEMMA ReturnStep ==
    ASSUME CutInv, NEW g \in Collectors, NEW n \in Nat, Over(g, n),
           UNCHANGED <<config, cancelled>>, store' \subseteq Cids
    PROVE  CutInv'
<1> DEFINE run == [Resting EXCEPT !.collected = n]
<1>1. run \in Run /\ run.pc = "idle" /\ ~run.cut
  BY RestingRun
<1>2. gc' = [gc EXCEPT ![g] = run] /\ revived' = revived \ {g}
  BY DEF Over, GoTo
<1> HIDE DEF run
<1>3. gc' \in [Collectors -> Run] /\ gc'[g] = run /\ \A h \in Collectors \ {g} : gc'[h] = gc[h]
  BY <1>1, <1>2 DEF CutInv
<1>4. CutPending'
  BY <1>1, <1>2, <1>3 DEF CutInv, CutPending
<1>5. QED
  BY <1>2, <1>3, <1>4 DEF CutInv

\* Whoever resets the flag, no run that was cut short is left out of revived.
LEMMA CutReset ==
    ASSUME CutInv, reset_cancel
    PROVE  CutInv'
BY DEF CutInv, CutPending, reset_cancel, ResetFlag

LEMMA CutCollect ==
    ASSUME CutInv, NEW g \in Collectors, NEW by \in config.callers[g], collect(g, by)
    PROVE  CutInv'
<1> DEFINE run == [Resting EXCEPT !.pc = "list", !.by = by, !.unread = Cids]
<1>1. gc' = [gc EXCEPT ![g] = run] /\ UNCHANGED <<store, config>>
      /\ revived' = revived \cup {h \in Collectors : gc[h].cut}
  BY DEF collect, ResetFlag, GoTo
<1>2. run \in Run /\ ~run.cut
  BY CallerType DEF CutInv, Resting, Run
<1> HIDE DEF run
<1>3. gc' \in [Collectors -> Run] /\ gc'[g] = run /\ \A h \in Collectors \ {g} : gc'[h] = gc[h]
  BY <1>1, <1>2 DEF CutInv
<1>4. CutPending'
  BY <1>1, <1>2, <1>3 DEF CutPending
<1>5. QED
  BY <1>1, <1>3, <1>4 DEF CutInv

LEMMA CutMark ==
    ASSUME CutInv, NEW g \in Collectors, list_pins(g) \/ mark_phase(g)
    PROVE  CutInv'
<1>1. gc[g] \in Run /\ store \subseteq Cids
  BY DEF CutInv
<1>2. CASE list_pins(g)
  <2>1. PICK c \in gc[g].unread :
          GoTo(g, [gc[g] EXCEPT !.unread = @ \ {c}, !.marked = @ \cup Marks(c), !.to_process = @ \cup Roots(c),
                                !.pc = IF gc[g].unread = {c} THEN "mark" ELSE "list"])
    BY <1>2 DEF list_pins
  <2>2. gc[g].pc = "list" /\ UNCHANGED <<store, config, cancelled, revived>>
    BY <1>2 DEF list_pins, At
  <2> DEFINE run == [gc[g] EXCEPT !.unread = @ \ {c}, !.marked = @ \cup Marks(c), !.to_process = @ \cup Roots(c),
                                  !.pc = IF gc[g].unread = {c} THEN "mark" ELSE "list"]
  <2>3. Marks(c) \subseteq Cids /\ Roots(c) \subseteq Cids
    BY <1>1 DEF Marks, Roots, Run
  <2>4. run \in Run /\ run.cut = gc[g].cut
    BY <1>1, <2>3 DEF Run
  <2>5. gc' = [gc EXCEPT ![g] = run] /\ (gc[g].cut => g \in revived)
    BY <2>1, <2>2 DEF GoTo, CutInv, CutPending
  <2> HIDE DEF run
  <2>6. QED
    BY <1>1, <2>2, <2>4, <2>5, GoOnStep
<1>3. CASE mark_phase(g)
  <2>1. gc[g].pc = "mark" /\ UNCHANGED <<store, config, cancelled, revived>>
    BY <1>3 DEF mark_phase, At
  <2>2. gc[g].cut => g \in revived
    BY <2>1 DEF CutInv, CutPending
  <2>3. CASE cancelled \/ gc[g].to_process = {}
    <3> DEFINE run == [gc[g] EXCEPT !.pc = "check", !.cut = gc[g].to_process # {}, !.to_process = {}]
    <3>1. run \in Run /\ run.pc = "check" /\ run.cut = (gc[g].to_process # {})
      BY <1>1 DEF Run
    <3>2. gc' = [gc EXCEPT ![g] = run]
      BY <1>3, <2>3 DEF mark_phase, GoTo
    <3> HIDE DEF run
    <3>3. QED
      BY <1>1, <2>1, <2>3, <3>1, <3>2, GoOnStep
  <2>4. CASE ~(cancelled \/ gc[g].to_process = {})
    <3>1. PICK c \in gc[g].to_process :
            LET new == Links[c] \ gc[g].marked IN
            \/ GoTo(g, [gc[g] EXCEPT !.marked = @ \cup new, !.to_process = (@ \ {c}) \cup new]) /\ NoFault
            \/ new # {} /\ GoTo(g, [gc[g] EXCEPT !.to_process = @ \ {c}]) /\ Fault
      BY <1>3, <2>4 DEF mark_phase
    <3> DEFINE new == Links[c] \ gc[g].marked
               deeper == [gc[g] EXCEPT !.marked = @ \cup new, !.to_process = (@ \ {c}) \cup new]
               past == [gc[g] EXCEPT !.to_process = @ \ {c}]
    <3>2. new \subseteq Cids
      BY <1>1, LinksType DEF Run
    <3>3. deeper \in Run /\ deeper.cut = gc[g].cut
      BY <1>1, <3>2 DEF Run
    <3>4. past \in Run /\ past.cut = gc[g].cut
      BY <1>1 DEF Run
    <3>5. gc' = [gc EXCEPT ![g] = deeper] \/ gc' = [gc EXCEPT ![g] = past]
      BY <3>1 DEF GoTo
    <3> HIDE DEF deeper, past
    <3>6. QED
      BY <1>1, <2>1, <2>2, <3>3, <3>4, <3>5, GoOnStep
  <2>5. QED
    BY <2>3, <2>4
<1>4. QED
  BY <1>2, <1>3

\* A cancelled run stops at the check.
LEMMA CutCheck ==
    ASSUME CutInv, NEW g \in Collectors, check(g)
    PROVE  CutInv'
<1>1. gc[g].pc = "check" /\ UNCHANGED <<store, config, cancelled>>
  BY DEF check, At
<1>2. gc[g] \in Run /\ gc[g].collected \in Nat /\ store \subseteq Cids
  BY DEF CutInv, Run
<1>3. \/ finish(g, gc[g].collected)
      \/ ~cancelled /\ GoTo(g, [gc[g] EXCEPT !.pc = "sweep", !.cids = store]) /\ UNCHANGED revived
  BY DEF check, should_stop
<1>4. CASE finish(g, gc[g].collected)
  BY <1>1, <1>2, <1>4, ReturnStep DEF finish
<1>5. CASE ~cancelled /\ GoTo(g, [gc[g] EXCEPT !.pc = "sweep", !.cids = store]) /\ UNCHANGED revived
  <2> DEFINE run == [gc[g] EXCEPT !.pc = "sweep", !.cids = store]
  <2>1. run \in Run /\ run.cut = gc[g].cut
    BY <1>2 DEF Run
  <2>2. gc' = [gc EXCEPT ![g] = run] /\ (gc[g].cut => g \in revived)
    BY <1>5 DEF GoTo, CutInv, CutPending
  <2> HIDE DEF run
  <2>3. QED
    BY <1>1, <1>2, <1>5, <2>1, <2>2, GoOnStep
<1>6. QED
  BY <1>3, <1>4, <1>5

LEMMA CutSweep ==
    ASSUME CutInv, NEW g \in Collectors, sweep_phase(g)
    PROVE  CutInv'
<1>1. gc[g].pc = "sweep" /\ UNCHANGED <<store, config, cancelled>>
      /\ (sweep_end(g) \/ (sweep_block(g) /\ UNCHANGED revived))
  BY DEF sweep_phase, At
<1>2. gc[g] \in Run /\ gc[g].collected \in Nat /\ store \subseteq Cids
      /\ (gc[g].cut => g \in revived) /\ config.dry_run \in BOOLEAN
  BY <1>1, ConfigType DEF CutInv, CutPending, Run, Config
<1>3. CASE sweep_block(g) /\ UNCHANGED revived
  <2>1. PICK c \in gc[g].cids :
          LET run == [gc[g] EXCEPT !.cids = @ \ {c}]
              doomed == [run EXCEPT !.to_delete = IF config.dry_run THEN @ ELSE @ \cup {c},
                                    !.collected = IF config.dry_run THEN @ + 1 ELSE @,
                                    !.batch_count = @ + 1]
              full == config.incremental /\ doomed.batch_count >= config.batch_size
          IN  GoTo(g, IF c \in gc[g].marked THEN run
                      ELSE IF full THEN [doomed EXCEPT !.batch_count = 0, !.pc = IF config.dry_run THEN "sweep" ELSE "delete"]
                      ELSE doomed)
    BY <1>3 DEF sweep_block
  <2> DEFINE run == [gc[g] EXCEPT !.cids = @ \ {c}]
             doomed == [run EXCEPT !.to_delete = IF config.dry_run THEN @ ELSE @ \cup {c},
                                   !.collected = IF config.dry_run THEN @ + 1 ELSE @,
                                   !.batch_count = @ + 1]
             batch == [doomed EXCEPT !.batch_count = 0, !.pc = IF config.dry_run THEN "sweep" ELSE "delete"]
  <2>2. run \in Run /\ run.cut = gc[g].cut
    BY <1>2 DEF Run
  <2>3. doomed \in Run /\ doomed.cut = gc[g].cut
    <3>1. c \in Cids
      BY <1>2 DEF Run
    <3> HIDE DEF run
    <3>2. run.to_delete \cup {c} \subseteq Cids /\ run.collected + 1 \in Nat /\ run.batch_count + 1 \in Nat
      BY <2>2, <3>1 DEF Run
    <3>3. QED
      BY <2>2, <3>2 DEF Run
  <2>4. batch \in Run /\ batch.cut = gc[g].cut
    <3> HIDE DEF doomed
    <3>1. QED
      BY <2>3 DEF Run
  <2>5. gc' = [gc EXCEPT ![g] = run] \/ gc' = [gc EXCEPT ![g] = doomed] \/ gc' = [gc EXCEPT ![g] = batch]
    BY <2>1 DEF GoTo
  <2> HIDE DEF run, doomed, batch
  <2>6. QED
    BY <1>1, <1>2, <1>3, <2>2, <2>3, <2>4, <2>5, GoOnStep
<1>4. CASE sweep_end(g)
  <2>1. CASE finish(g, gc[g].collected)
    BY <1>1, <1>2, <2>1, ReturnStep DEF finish
  <2>2. CASE GoTo(g, [gc[g] EXCEPT !.pc = "delete", !.ended = TRUE]) /\ UNCHANGED revived
    <3> DEFINE run == [gc[g] EXCEPT !.pc = "delete", !.ended = TRUE]
    <3>1. run \in Run /\ run.cut = gc[g].cut
      BY <1>2 DEF Run
    <3>2. gc' = [gc EXCEPT ![g] = run]
      BY <2>2 DEF GoTo
    <3> HIDE DEF run
    <3>3. QED
      BY <1>1, <1>2, <2>2, <3>1, <3>2, GoOnStep
  <2>3. QED
    BY <1>4, <2>1, <2>2 DEF sweep_end
<1>5. QED
  BY <1>1, <1>3, <1>4

LEMMA CutDelete ==
    ASSUME CutInv, NEW g \in Collectors, delete_batch(g)
    PROVE  CutInv'
<1>1. PICK c \in gc[g].to_delete :
         LET run == [gc[g] EXCEPT !.to_delete = @ \ {c}]
             Next_(r) == IF r.to_delete # {} THEN GoTo(g, r) /\ UNCHANGED <<running, since, revived>>
                         ELSE IF r.ended THEN finish(g, r.collected)
                         ELSE GoTo(g, [r EXCEPT !.pc = "sweep"]) /\ UNCHANGED <<running, since, revived>>
         IN  \/ store' = store \ {c} /\ Next_([run EXCEPT !.collected = @ + 1]) /\ NoFault
             \/ UNCHANGED store /\ Next_(run) /\ Fault
  BY DEF delete_batch
<1>2. gc[g].pc = "delete" /\ UNCHANGED <<config, cancelled>>
  BY DEF delete_batch, At
<1>3. gc[g] \in Run /\ (gc[g].cut => g \in revived)
  BY <1>2 DEF CutInv, CutPending
<1> DEFINE kept == [gc[g] EXCEPT !.to_delete = @ \ {c}]
           gone == [kept EXCEPT !.collected = @ + 1]
<1>4. kept \in Run /\ kept.cut = gc[g].cut
  BY <1>3 DEF Run
<1>5. gone \in Run /\ gone.cut = gc[g].cut
  <2> HIDE DEF kept
  <2>1. kept.collected + 1 \in Nat
    BY <1>4 DEF Run
  <2>2. QED
    BY <1>4, <2>1 DEF Run
<1> HIDE DEF kept, gone
<1>6. PICK run \in {kept, gone} :
        /\ IF run.to_delete # {} THEN GoTo(g, run) /\ UNCHANGED <<running, since, revived>>
           ELSE IF run.ended THEN finish(g, run.collected)
           ELSE GoTo(g, [run EXCEPT !.pc = "sweep"]) /\ UNCHANGED <<running, since, revived>>
        /\ store' \in SUBSET store
  BY <1>1 DEF kept, gone
<1>7. run \in Run /\ run.cut = gc[g].cut /\ run.collected \in Nat /\ store' \subseteq Cids
  BY <1>4, <1>5, <1>6 DEF Run, CutInv
<1>8. CASE GoTo(g, run) /\ UNCHANGED revived
  BY <1>2, <1>3, <1>7, <1>8, GoOnStep DEF GoTo
<1>9. CASE finish(g, run.collected)
  BY <1>2, <1>7, <1>9, ReturnStep DEF finish
<1>10. CASE GoTo(g, [run EXCEPT !.pc = "sweep"]) /\ UNCHANGED revived
  <2> DEFINE on == [run EXCEPT !.pc = "sweep"]
  <2>1. on \in Run /\ on.cut = run.cut
    BY <1>7 DEF Run
  <2>2. gc' = [gc EXCEPT ![g] = on]
    BY <1>10 DEF GoTo
  <2> HIDE DEF on
  <2>3. QED
    BY <1>2, <1>3, <1>7, <1>10, <2>1, <2>2, GoOnStep
<1>11. QED
  BY <1>6, <1>8, <1>9, <1>10

LEMMA CutDropped ==
    ASSUME CutInv, NEW g \in Collectors, dropped(g)
    PROVE  CutInv'
BY ReturnStep DEF dropped, CutInv

LEMMA SpecCutInv == Spec => []CutInv
<1>1. CutInv /\ [Next]_vars => CutInv'
  <2> SUFFICES ASSUME CutInv, [Next]_vars PROVE CutInv'
    OBVIOUS
  <2>1. CASE UNCHANGED <<config, gc, revived>> /\ store' \subseteq Cids /\ (cancelled' \/ UNCHANGED cancelled)
    BY <2>1 DEF CutInv, CutPending
  <2>2. CASE UNCHANGED vars
    BY <2>1, <2>2 DEF vars, gcVars, CutInv
  <2>3. CASE Users_Next \/ cancel \/ \E c \in Cids : put(c)
    BY <2>1, <2>3 DEF Users_Next, cancel, put, CutInv
  <2>4. ASSUME NEW g \in Collectors, (\E by \in config.callers[g] : collect(g, by)) \/ GcStep(g) \/ dropped(g)
        PROVE  CutInv'
    BY <2>4, CutCollect, CutMark, CutCheck, CutSweep, CutDelete, CutDropped DEF GcStep
  <2>5. QED
    BY <2>2, <2>3, <2>4, CutReset DEF Next
<1>2. QED
  BY <1>1, InitCutInv, PTL DEF Spec

\* A run whose marking was cut short goes on to the sweep only if somebody took
\* the cancellation back, for any number of collectors, whoever calls collect or
\* reset_cancel, and users that clean up included.
THEOREM CutNeverSweeps == Spec => []CutShortNeverSweeps
<1>1. CutInv => CutShortNeverSweeps
  BY DEF CutInv, CutPending, CutShortNeverSweeps
<1>2. QED
  BY <1>1, SpecCutInv, PTL

\* TypeOK holds of the specification, without any count that falls below zero,
\* where no user unpins what a failed pin_recursive left.
THEOREM TypeCorrect ==
    ASSUME ~CleanUp
    PROVE  Spec => []TypeOK
<1>1. CutInv => revived \subseteq Collectors
  BY DEF CutInv
<1>2. QED
  BY <1>1, SpecInv, SpecCutInv, InvImpliesType, PTL

=============================================================================
