------------------------------ MODULE NodesProofs ------------------------------
(***************************************************************************)
(* Proofs about the two nodes that live on messages of others.             *)
(*                                                                         *)
(* The oneshot replies of the network node, for any number of peers,       *)
(* blocks, callers and requests and channels of any size: no caller waits  *)
(* without a sender, no caller gets another's answer, no request is left   *)
(* in a pending map.  The invariant follows one caller: where its sender   *)
(* is (in the channel, in a pending map, nowhere), what the entry beside   *)
(* the sender asks for, and in which waiter lists the caller stands.       *)
(*                                                                         *)
(* The Raft node against every honest cluster, with any number of terms,   *)
(* candidates and restarts and logs of any length, and requests that end   *)
(* anywhere.  The invariant about the commit index holds in a start as     *)
(* long as the commit index has gone over no leftover of another leader    *)
(* in it; the types, the log and the votes need no such condition.         *)
(***************************************************************************)
EXTENDS NetworkNode, RaftNode, FiniteSetTheorems, SequenceTheorems, TLAPS

-----------------------------------------------------------------------------
(* The network node *)

Op == [name : {"idle", "find", "next", "fetch", "stage"}, of : {"none", "get", "geo"},
       cids : SUBSET Cid, todo : Seq(Peer), reply : Reply]

Entry == [cids : SUBSET Cid, to : SUBSET Caller]

\* The state the callers' invariant is about.
Shape ==
    /\ cmds \in Seq(Command)
    /\ \A n \in 1 .. Len(cmds) : cmds[n].name \in {"GetProviders", "Other"} => cmds[n].to = {}
    /\ DOMAIN pending = sent
    /\ \A i \in DOMAIN pending : pending[i] \in Entry
    /\ waiters \in [Cid -> SUBSET Caller]
    /\ op \in [Caller -> Op]

\* The caller waits for the reply of a request.
Awaits(k) == op[k].name \in {"fetch", "stage"} /\ op[k].reply = NoReply

\* The caller waits for the providers of the block.
Seeks(k, c) == op[k].name = "find" /\ op[k].reply = NoReply /\ c \in op[k].cids

\* What a call may be, and what its reply may say.
Sound(k) ==
    /\ k # Owner => op[k].name \in {"idle", "stage"}
    /\ op[k].name \in {"find", "next", "fetch"} => \E c \in Cid : op[k].cids = {c}
    /\ op[k].name \in {"idle", "next"} => op[k].reply = NoReply
    /\ op[k].reply.kind = "block" => op[k].name = "fetch" /\ op[k].reply.cids = op[k].cids

\* The entry beside a sender asks for what the caller has asked for.
Owns(k, e) ==
    \/ op[k].name = "fetch" /\ e.cids = op[k].cids
    \/ op[k].name = "stage" /\ e.cids = {}

InCmd(k, n) == n \in 1 .. Len(cmds) /\ k \in cmds[n].to
InMap(k, i) == i \in DOMAIN pending /\ k \in pending[i].to

\* One sender at most, and one exactly while the caller waits.
OneSender(k) ==
    /\ \A m, n : InCmd(k, m) /\ InCmd(k, n) => m = n
    /\ \A i, j : InMap(k, i) /\ InMap(k, j) => i = j
    /\ \A n, i : ~(InCmd(k, n) /\ InMap(k, i))
    /\ Awaits(k) <=> (\E n : InCmd(k, n)) \/ (\E i : InMap(k, i))

CallerInv(k) ==
    /\ Sound(k)
    /\ OneSender(k)
    /\ \A n : InCmd(k, n) => Owns(k, cmds[n])
    /\ \A i : InMap(k, i) => Owns(k, pending[i])
    /\ \A c \in Cid : k \in waiters[c] <=> Seeks(k, c)

NetInv == Shape /\ \A k \in Caller : CallerInv(k)

-----------------------------------------------------------------------------

(* Records and channels. *)

LEMMA ReplyFacts ==
    /\ NoReply \in Reply /\ Failed \in Reply /\ NoOp \in Op
    /\ NoReply.kind = "none" /\ Failed.kind = "failed"
    /\ NoOp.name = "idle" /\ NoOp.reply = NoReply
<1>1. NoReply \in Reply /\ NoReply.kind = "none"
  BY DEF NoReply, Reply
<1>2. Failed \in Reply /\ Failed.kind = "failed"
  BY DEF Failed, NoReply, Reply
<1>3. NoOp \in Op /\ NoOp.name = "idle" /\ NoOp.reply = NoReply
  BY <1>1 DEF NoOp, Op
<1>4. QED
  BY <1>1, <1>2, <1>3

LEMMA ChannelAppend ==
    ASSUME cmds \in Seq(Command), NEW name \in {"GetProviders", "FetchBlock", "RunStage", "Other"},
           NEW cids \in SUBSET Cid, NEW to \in SUBSET Caller, try_send(name, cids, to)
    PROVE  /\ cmds' \in Seq(Command) /\ Len(cmds') = Len(cmds) + 1 /\ Len(cmds) \in Nat
           /\ \A n \in 1 .. Len(cmds) : cmds'[n] = cmds[n]
           /\ cmds'[Len(cmds) + 1] = [name |-> name, cids |-> cids, to |-> to]
<1> DEFINE c == [name |-> name, cids |-> cids, to |-> to]
<1>1. c \in Command
  BY DEF Command
<1>2. cmds' = Append(cmds, c)
  BY DEF try_send
<1> HIDE DEF c
<1>3. cmds' \in Seq(Command) /\ Len(cmds') = Len(cmds) + 1 /\ Len(cmds) \in Nat
      /\ (\A n \in 1 .. Len(cmds) : cmds'[n] = cmds[n]) /\ cmds'[Len(cmds) + 1] = c
  BY <1>1, <1>2
<1>4. QED
  BY <1>3 DEF c

\* A caller's senders are where they were.
SameSenders(k) ==
    /\ \A n : InCmd(k, n)' <=> InCmd(k, n)
    /\ \A i : InMap(k, i)' <=> InMap(k, i)
    /\ \A n : InCmd(k, n) => cmds'[n].cids = cmds[n].cids
    /\ \A i : InMap(k, i) => pending'[i].cids = pending[i].cids
SameWaits(k) == \A c \in Cid : k \in waiters'[c] <=> k \in waiters[c]

\* A step of others.
LEMMA CallerStays ==
    ASSUME NEW k \in Caller, CallerInv(k), op'[k] = op[k], SameSenders(k), SameWaits(k)
    PROVE  CallerInv(k)'
<1>1. Sound(k)' /\ (Awaits(k)' <=> Awaits(k)) /\ \A c \in Cid : Seeks(k, c)' <=> Seeks(k, c)
  BY DEF CallerInv, Sound, Awaits, Seeks
<1>2. OneSender(k)'
  BY <1>1 DEF CallerInv, OneSender, SameSenders
<1>3. (\A n : InCmd(k, n) => Owns(k, cmds[n]))'
  BY DEF CallerInv, SameSenders, Owns
<1>4. (\A i : InMap(k, i) => Owns(k, pending[i]))'
  BY DEF CallerInv, SameSenders, Owns
<1>5. (\A c \in Cid : k \in waiters[c] <=> Seeks(k, c))'
  BY <1>1 DEF CallerInv, SameWaits
<1>6. QED
  BY <1>1, <1>2, <1>3, <1>4, <1>5 DEF CallerInv

\* A caller that has no sender and waits for none.
LEMMA CallerQuiet ==
    ASSUME NEW k \in Caller, Sound(k)', ~Awaits(k)', \A n : ~InCmd(k, n)', \A i : ~InMap(k, i)',
           \A c \in Cid : k \in waiters'[c] <=> Seeks(k, c)'
    PROVE  CallerInv(k)'
BY DEF CallerInv, OneSender

\* A caller that does not wait for a request has no sender anywhere.
LEMMA NoSender ==
    ASSUME NEW k \in Caller, CallerInv(k), ~Awaits(k)
    PROVE  (\A n : ~InCmd(k, n)) /\ (\A i : ~InMap(k, i))
BY DEF CallerInv, OneSender

-----------------------------------------------------------------------------

(* The calls. *)

LEMMA BecomeFacts ==
    ASSUME op \in [Caller -> Op], NEW k \in Caller, NEW o \in Op, Become(k, o)
    PROVE  op' \in [Caller -> Op] /\ op'[k] = o /\ \A j \in Caller : j # k => op'[j] = op[j]
BY DEF Become

LEMMA NothingMoves ==
    ASSUME NetInv, UNCHANGED <<cmds, sent, pending, waiters, op>>
    PROVE  NetInv'
<1>1. Shape'
  BY DEF NetInv, Shape
<1>2. ASSUME NEW k \in Caller PROVE CallerInv(k)'
  <2>1. SameSenders(k) /\ SameWaits(k)
    BY DEF SameSenders, SameWaits, InCmd, InMap
  <2>2. QED
    BY <2>1, CallerStays DEF NetInv
<1>3. QED
  BY <1>1, <1>2 DEF NetInv

\* What a command adds to the channel.
LEMMA Sends ==
    ASSUME Shape, NEW name \in {"GetProviders", "FetchBlock", "RunStage", "Other"},
           NEW cids \in SUBSET Cid, NEW to \in SUBSET Caller, try_send(name, cids, to),
           name \in {"GetProviders", "Other"} => to = {}, pending' = pending
    PROVE  /\ cmds' \in Seq(Command)
           /\ \A n \in 1 .. Len(cmds') : cmds'[n].name \in {"GetProviders", "Other"} => cmds'[n].to = {}
           /\ \A k \in Caller : k \notin to => SameSenders(k)
           /\ \A k \in to : \A n : InCmd(k, n)' <=> InCmd(k, n) \/ n = Len(cmds) + 1
           /\ cmds'[Len(cmds) + 1].cids = cids
<1>1. /\ cmds' \in Seq(Command) /\ Len(cmds') = Len(cmds) + 1 /\ Len(cmds) \in Nat
      /\ \A n \in 1 .. Len(cmds) : cmds'[n] = cmds[n]
      /\ cmds'[Len(cmds) + 1] = [name |-> name, cids |-> cids, to |-> to]
  BY ChannelAppend DEF Shape
<1> DEFINE l == Len(cmds) + 1
<1>2. cmds'[l].name = name /\ cmds'[l].cids = cids /\ cmds'[l].to = to
  BY <1>1
<1>3. \A n : n \in 1 .. Len(cmds') <=> n \in 1 .. Len(cmds) \/ n = l
  BY <1>1
<1>4. \A n \in 1 .. Len(cmds') : cmds'[n].name \in {"GetProviders", "Other"} => cmds'[n].to = {}
  BY <1>1, <1>2, <1>3 DEF Shape
<1>5. ASSUME NEW k, NEW n PROVE InCmd(k, n)' <=> InCmd(k, n) \/ (n = l /\ k \in to)
  BY <1>1, <1>2, <1>3 DEF InCmd
<1>6. \A k, i : InMap(k, i)' <=> InMap(k, i)
  BY DEF InMap
<1>7. \A k \in Caller : k \notin to => SameSenders(k)
  BY <1>1, <1>5, <1>6 DEF SameSenders, InCmd
<1>8. QED
  BY <1>1, <1>2, <1>4, <1>5, <1>7

\* dial, provide, publish and the like.
LEMMA OtherSent ==
    ASSUME NetInv, try_send("Other", {}, {}), UNCHANGED <<sent, pending, waiters, op>>
    PROVE  NetInv'
<1>1. /\ cmds' \in Seq(Command)
      /\ \A n \in 1 .. Len(cmds') : cmds'[n].name \in {"GetProviders", "Other"} => cmds'[n].to = {}
      /\ \A k \in Caller : SameSenders(k)
  <2>1. {} \in SUBSET Cid /\ {} \in SUBSET Caller /\ "Other" \in {"GetProviders", "FetchBlock", "RunStage", "Other"}
        /\ Shape /\ pending' = pending
    BY DEF NetInv
  <2> DEFINE to == {}
             cids == {}
  <2>2. to \in SUBSET Caller /\ cids \in SUBSET Cid /\ try_send("Other", cids, to) /\ to = {}
    OBVIOUS
  <2> HIDE DEF to, cids
  <2>3. /\ cmds' \in Seq(Command)
        /\ \A n \in 1 .. Len(cmds') : cmds'[n].name \in {"GetProviders", "Other"} => cmds'[n].to = {}
        /\ \A k \in Caller : k \notin to => SameSenders(k)
    BY <2>1, <2>2, Sends
  <2>4. QED
    BY <2>2, <2>3
<1>2. Shape'
  BY <1>1 DEF NetInv, Shape
<1>3. ASSUME NEW k \in Caller PROVE CallerInv(k)'
  BY <1>1, CallerStays DEF NetInv, SameWaits
<1>4. QED
  BY <1>2, <1>3 DEF NetInv

\* A call moves on that waits neither before nor after.
LEMMA CallMoves ==
    ASSUME NetInv, NEW k \in Caller, NEW o \in Op, Become(k, o), UNCHANGED <<cmds, sent, pending, waiters>>,
           ~Awaits(k), ~Awaits(k)', \A c \in Cid : ~Seeks(k, c) /\ ~Seeks(k, c)', Sound(k)'
    PROVE  NetInv'
<1>1. op' \in [Caller -> Op] /\ \A j \in Caller : j # k => op'[j] = op[j]
  BY BecomeFacts DEF NetInv, Shape
<1>2. Shape'
  BY <1>1 DEF NetInv, Shape
<1>3. \A j \in Caller : SameSenders(j) /\ SameWaits(j)
  BY DEF SameSenders, SameWaits, InCmd, InMap
<1>4. CallerInv(k)'
  <2>1. (\A n : ~InCmd(k, n)') /\ \A i : ~InMap(k, i)'
    BY <1>3, NoSender DEF NetInv, SameSenders
  <2>2. \A c \in Cid : k \in waiters'[c] <=> Seeks(k, c)'
    BY DEF NetInv, CallerInv
  <2>3. QED
    BY <2>1, <2>2, CallerQuiet
<1>5. \A j \in Caller : j # k => CallerInv(j)'
  BY <1>1, <1>3, CallerStays DEF NetInv
<1>6. QED
  BY <1>2, <1>4, <1>5 DEF NetInv

\* A call sends a command with a sender of its reply.
LEMMA CallSends ==
    ASSUME NetInv, NEW k \in Caller, NEW o \in Op, Become(k, o), UNCHANGED <<sent, pending, waiters>>,
           NEW name \in {"FetchBlock", "RunStage"}, NEW cids \in SUBSET Cid, try_send(name, cids, {k}),
           ~Awaits(k), \A c \in Cid : ~Seeks(k, c), Sound(k)', o.reply = NoReply,
           (o.name = "fetch" /\ cids = o.cids) \/ (o.name = "stage" /\ cids = {})
    PROVE  NetInv'
<1>1. op' \in [Caller -> Op] /\ op'[k] = o /\ \A j \in Caller : j # k => op'[j] = op[j]
  BY BecomeFacts DEF NetInv, Shape
<1>2. /\ cmds' \in Seq(Command)
      /\ \A n \in 1 .. Len(cmds') : cmds'[n].name \in {"GetProviders", "Other"} => cmds'[n].to = {}
      /\ \A j \in Caller : j # k => SameSenders(j)
      /\ \A n : InCmd(k, n)' <=> InCmd(k, n) \/ n = Len(cmds) + 1
      /\ cmds'[Len(cmds) + 1].cids = cids
  <2>1. {k} \in SUBSET Caller /\ name \in {"GetProviders", "FetchBlock", "RunStage", "Other"}
        /\ name \notin {"GetProviders", "Other"} /\ pending' = pending /\ Shape
    BY DEF NetInv
  <2> DEFINE to == {k}
  <2>2. to \in SUBSET Caller /\ try_send(name, cids, to)
    BY <2>1
  <2>3. k \in to /\ \A j \in Caller : j # k => j \notin to
    OBVIOUS
  <2> HIDE DEF to
  <2>4. /\ cmds' \in Seq(Command)
        /\ \A n \in 1 .. Len(cmds') : cmds'[n].name \in {"GetProviders", "Other"} => cmds'[n].to = {}
        /\ \A j \in Caller : j \notin to => SameSenders(j)
        /\ \A j \in to : \A n : InCmd(j, n)' <=> InCmd(j, n) \/ n = Len(cmds) + 1
        /\ cmds'[Len(cmds) + 1].cids = cids
    BY <2>1, <2>2, Sends
  <2>5. QED
    BY <2>3, <2>4
<1>3. Shape'
  BY <1>1, <1>2 DEF NetInv, Shape
<1>4. CallerInv(k)'
  <2>1. (\A n : ~InCmd(k, n)) /\ \A i : ~InMap(k, i)
    BY NoSender DEF NetInv
  <2>2. (\A n : InCmd(k, n)' <=> n = Len(cmds) + 1) /\ \A i : ~InMap(k, i)'
    BY <1>2, <2>1 DEF InMap
  <2>3. Awaits(k)'
    BY <1>1 DEF Awaits
  <2>4. OneSender(k)'
    BY <2>2, <2>3 DEF OneSender
  <2>5. (\A n : InCmd(k, n) => Owns(k, cmds[n]))'
    BY <1>1, <1>2, <2>2 DEF Owns
  <2>6. (\A c \in Cid : k \in waiters[c] <=> Seeks(k, c))'
    BY <1>1 DEF NetInv, CallerInv, Seeks
  <2>7. QED
    BY <2>2, <2>4, <2>5, <2>6 DEF CallerInv
<1>5. \A j \in Caller : j # k => CallerInv(j)'
  BY <1>1, <1>2, CallerStays DEF NetInv, SameWaits
<1>6. QED
  BY <1>3, <1>4, <1>5 DEF NetInv

\* Without the caller's senders the others' are where they were.
LEMMA DropFacts ==
    ASSUME Shape, NEW k \in Caller, Unsend(k), Unpend(k)
    PROVE  /\ cmds' \in Seq(Command)
           /\ \A n \in 1 .. Len(cmds') : cmds'[n].name \in {"GetProviders", "Other"} => cmds'[n].to = {}
           /\ DOMAIN pending' = DOMAIN pending /\ \A i \in DOMAIN pending' : pending'[i] \in Entry
           /\ (\A n : ~InCmd(k, n)') /\ (\A i : ~InMap(k, i)')
           /\ \A j \in Caller : j # k => SameSenders(j)
<1>1. /\ cmds \in Seq(Command) /\ DOMAIN cmds = 1 .. Len(cmds) /\ Len(cmds) \in Nat
      /\ \A n \in 1 .. Len(cmds) : cmds[n] \in Command
  BY DEF Shape
<1>2. cmds' = [n \in 1 .. Len(cmds) |-> [cmds[n] EXCEPT !.to = @ \ {k}]]
  BY <1>1 DEF Unsend
<1>3. \A n \in 1 .. Len(cmds) : /\ cmds'[n] \in Command /\ cmds'[n].name = cmds[n].name
                               /\ cmds'[n].cids = cmds[n].cids /\ cmds'[n].to = cmds[n].to \ {k}
  BY <1>1, <1>2 DEF Command
<1>4. cmds' \in Seq(Command) /\ Len(cmds') = Len(cmds)
  <2>1. cmds' \in [1 .. Len(cmds) -> Command]
    BY <1>2, <1>3
  <2>2. QED
    BY <1>1, <2>1, SeqDef, LenProperties
<1>5. \A i \in DOMAIN pending : pending[i] \in Entry
  BY DEF Shape
<1>6. pending' = [i \in DOMAIN pending |-> [pending[i] EXCEPT !.to = @ \ {k}]]
  BY DEF Unpend
<1>7. /\ DOMAIN pending' = DOMAIN pending
      /\ \A i \in DOMAIN pending : /\ pending'[i] \in Entry /\ pending'[i].cids = pending[i].cids
                                   /\ pending'[i].to = pending[i].to \ {k}
  BY <1>5, <1>6 DEF Entry
<1>8. \A n \in 1 .. Len(cmds') : cmds'[n].name \in {"GetProviders", "Other"} => cmds'[n].to = {}
  BY <1>3, <1>4 DEF Shape
<1>9. (\A n : ~InCmd(k, n)') /\ (\A i : ~InMap(k, i)')
  BY <1>3, <1>4, <1>7 DEF InCmd, InMap
<1>10. \A j \in Caller : j # k => SameSenders(j)
  BY <1>3, <1>4, <1>7 DEF SameSenders, InCmd, InMap
<1>11. QED
  BY <1>4, <1>7, <1>8, <1>9, <1>10

\* A caller gives up: its receiver is gone, with the senders.
LEMMA CallDrops ==
    ASSUME NetInv, NEW k \in Caller, NEW o \in Op, Become(k, o), Unsend(k), Unpend(k), sent' = sent,
           waiters' \in [Cid -> SUBSET Caller], \A j \in Caller : j # k => SameWaits(j),
           ~Awaits(k)', Sound(k)', \A c \in Cid : k \in waiters'[c] <=> Seeks(k, c)'
    PROVE  NetInv'
<1>1. op' \in [Caller -> Op] /\ \A j \in Caller : j # k => op'[j] = op[j]
  BY BecomeFacts DEF NetInv, Shape
<1>2. /\ cmds' \in Seq(Command)
      /\ \A n \in 1 .. Len(cmds') : cmds'[n].name \in {"GetProviders", "Other"} => cmds'[n].to = {}
      /\ DOMAIN pending' = DOMAIN pending /\ \A i \in DOMAIN pending' : pending'[i] \in Entry
      /\ (\A n : ~InCmd(k, n)') /\ (\A i : ~InMap(k, i)')
      /\ \A j \in Caller : j # k => SameSenders(j)
  BY DropFacts DEF NetInv
<1>3. Shape'
  BY <1>1, <1>2 DEF NetInv, Shape
<1>4. CallerInv(k)'
  BY <1>2, CallerQuiet
<1>5. \A j \in Caller : j # k => CallerInv(j)'
  BY <1>1, <1>2, CallerStays DEF NetInv
<1>6. QED
  BY <1>3, <1>4, <1>5 DEF NetInv

LEMMA OwnerIsCaller == Owner \in Caller /\ \A k \in Stager : k \in Caller /\ k # Owner
BY NetworkNodeAssumption DEF Caller

\* A plan lists providers.
LEMMA PlansAreSequences ==
    ASSUME NEW of, NEW ps \in SUBSET Peer, NEW plan \in Plans(of, ps)
    PROVE  plan \in Seq(Peer)
<1>1. plan \in UNION {SetToSeqs(qs) : qs \in SUBSET ps}
  BY DEF Plans
<1>2. PICK qs \in SUBSET ps : plan \in SetToSeqs(qs)
  BY <1>1
<1>3. IsFiniteSet(qs) /\ Cardinality(qs) \in Nat
  BY NetworkNodeAssumption, FS_Subset, FS_CardinalityType
<1>4. plan \in [1 .. Cardinality(qs) -> qs]
  BY <1>2 DEF SetToSeqs
<1>5. QED
  BY <1>3, <1>4

-----------------------------------------------------------------------------

(* The owner and the users of a handle. *)

LEMMA CallFacts ==
    ASSUME NetInv, NEW k \in Caller
    PROVE  op[k] \in Op /\ op[k].reply \in Reply /\ op[k].todo \in Seq(Peer) /\ op[k].cids \in SUBSET Cid
           /\ op[k].reply.peers \in SUBSET Peer /\ Sound(k) /\ CallerInv(k)
<1>1. op[k] \in Op /\ CallerInv(k)
  BY DEF NetInv, Shape
<1>2. QED
  BY <1>1 DEF Op, Reply, CallerInv

\* The call is over.
LEMMA CallEnds ==
    ASSUME NetInv, NEW k \in Caller, Become(k, NoOp), UNCHANGED <<cmds, sent, pending, waiters>>,
           ~Awaits(k), \A c \in Cid : ~Seeks(k, c)
    PROVE  NetInv'
<1>1. op'[k] = NoOp
  BY BecomeFacts, ReplyFacts DEF NetInv, Shape
<1>2. Sound(k)' /\ ~Awaits(k)' /\ \A c \in Cid : ~Seeks(k, c)'
  BY <1>1, ReplyFacts DEF Sound, Awaits, Seeks
<1>3. QED
  BY <1>2, CallMoves, ReplyFacts

LEMMA FindInv ==
    ASSUME NetInv, NEW of \in {"get", "geo"}, NEW c \in Cid, find_providers_await(of, c)
    PROVE  NetInv'
<1>1. Owner \in Caller /\ op[Owner].name = "idle" /\ UNCHANGED <<sent, pending>>
  BY OwnerIsCaller DEF find_providers_await, Idle, swarmVars
<1>2. ~Awaits(Owner) /\ \A d \in Cid : ~Seeks(Owner, d) /\ Owner \notin waiters[d]
  BY <1>1 DEF Awaits, Seeks, NetInv, CallerInv
<1>3. ASSUME NEW k \in Caller, NEW d \in Cid PROVE k \notin waiters[d]
  <2>1. CASE k = Owner
    BY <1>2, <2>1
  <2>2. CASE k # Owner
    BY <2>2, CallFacts DEF Sound, CallerInv, Seeks
  <2>3. QED
    BY <2>1, <2>2
<1>4. CASE UNCHANGED <<cmds, op>> /\ Unlist(c)
  <2>1. waiters' = waiters
    <3>1. waiters \in [Cid -> SUBSET Caller]
      BY DEF NetInv, Shape
    <3>2. \A d \in Cid : waiters[d] = {}
      BY <1>3, <3>1
    <3>3. QED
      BY <1>4, <3>1, <3>2 DEF Unlist
  <2>2. QED
    BY <1>1, <1>4, <2>1, NothingMoves
<1>5. CASE /\ waiters' = [waiters EXCEPT ![c] = @ \cup {Owner}]
           /\ try_send("GetProviders", {c}, {})
           /\ Become(Owner, [NoOp EXCEPT !.name = "find", !.of = of, !.cids = {c}])
  <2> DEFINE o == [NoOp EXCEPT !.name = "find", !.of = of, !.cids = {c}]
  <2>1. o \in Op /\ o.name = "find" /\ o.cids = {c} /\ o.reply = NoReply
    BY ReplyFacts DEF Op
  <2>2. Become(Owner, o)
    BY <1>5
  <2> HIDE DEF o
  <2>3. op' \in [Caller -> Op] /\ op'[Owner] = o /\ \A j \in Caller : j # Owner => op'[j] = op[j]
    BY <1>1, <2>1, <2>2, BecomeFacts DEF NetInv, Shape
  <2>4. waiters' \in [Cid -> SUBSET Caller] /\ \A k, d : d \in Cid => (k \in waiters'[d] <=> k \in waiters[d] \/ (d = c /\ k = Owner))
    BY <1>1, <1>5 DEF NetInv, Shape
  <2>5. /\ cmds' \in Seq(Command)
        /\ \A n \in 1 .. Len(cmds') : cmds'[n].name \in {"GetProviders", "Other"} => cmds'[n].to = {}
        /\ \A k \in Caller : SameSenders(k)
    <3> DEFINE to == {}
               cids == {c}
    <3>1. /\ to \in SUBSET Caller /\ cids \in SUBSET Cid /\ to = {} /\ Shape
          /\ "GetProviders" \in {"GetProviders", "FetchBlock", "RunStage", "Other"} /\ try_send("GetProviders", cids, to)
      BY <1>5 DEF NetInv
    <3> HIDE DEF to, cids
    <3>2. /\ cmds' \in Seq(Command)
          /\ \A n \in 1 .. Len(cmds') : cmds'[n].name \in {"GetProviders", "Other"} => cmds'[n].to = {}
          /\ \A k \in Caller : k \notin to => SameSenders(k)
      BY <1>1, <3>1, Sends
    <3>3. QED
      BY <3>1, <3>2
  <2>6. Shape'
    BY <1>1, <2>3, <2>4, <2>5 DEF NetInv, Shape
  <2>7. CallerInv(Owner)'
    <3>1. (\A n : ~InCmd(Owner, n)') /\ \A i : ~InMap(Owner, i)'
      BY <1>1, <1>2, <2>5, NoSender DEF NetInv, SameSenders
    <3>2. ~Awaits(Owner)' /\ \A d \in Cid : Seeks(Owner, d)' <=> d = c
      BY <2>1, <2>3 DEF Awaits, Seeks
    <3>3. Sound(Owner)'
      BY <2>1, <2>3, ReplyFacts DEF Sound
    <3>4. \A d \in Cid : Owner \in waiters'[d] <=> Seeks(Owner, d)'
      BY <1>3, <1>1, <2>4, <3>2
    <3>5. QED
      BY <1>1, <3>1, <3>2, <3>3, <3>4, CallerQuiet
  <2>8. ASSUME NEW j \in Caller, j # Owner PROVE CallerInv(j)'
    BY <2>3, <2>4, <2>5, <2>8, CallerStays DEF NetInv, SameWaits
  <2>9. QED
    BY <2>6, <2>7, <2>8 DEF NetInv
<1>6. QED
  BY <1>4, <1>5 DEF find_providers_await

LEMMA FoundInv ==
    ASSUME NetInv, found
    PROVE  NetInv'
<1>1. /\ Owner \in Caller /\ op[Owner].name = "find" /\ op[Owner].reply # NoReply
      /\ UNCHANGED <<cmds, sent, pending, waiters>>
  BY OwnerIsCaller DEF found, swarmVars
<1>2. ~Awaits(Owner) /\ \A c \in Cid : ~Seeks(Owner, c)
  BY <1>1 DEF Awaits, Seeks
<1>3. PICK plan \in Plans(op[Owner].of, op[Owner].reply.peers) :
        Become(Owner, IF plan = <<>> THEN NoOp ELSE [op[Owner] EXCEPT !.name = "next", !.todo = plan, !.reply = NoReply])
  BY DEF found
<1>4. op[Owner] \in Op /\ Sound(Owner) /\ plan \in Seq(Peer)
  BY <1>1, CallFacts, PlansAreSequences
<1>5. CASE plan = <<>>
  BY <1>1, <1>2, <1>3, <1>5, CallEnds
<1>6. CASE plan # <<>>
  <2> DEFINE o == [op[Owner] EXCEPT !.name = "next", !.todo = plan, !.reply = NoReply]
  <2>1. o \in Op /\ o.name = "next" /\ o.cids = op[Owner].cids /\ o.reply = NoReply
    BY <1>4, ReplyFacts DEF Op
  <2>2. Become(Owner, o)
    BY <1>3, <1>6
  <2> HIDE DEF o
  <2>3. op'[Owner] = o
    BY <1>1, <2>1, <2>2, BecomeFacts DEF NetInv, Shape
  <2>4. Sound(Owner)' /\ ~Awaits(Owner)' /\ \A c \in Cid : ~Seeks(Owner, c)'
    BY <1>1, <1>4, <2>1, <2>3, ReplyFacts DEF Sound, Awaits, Seeks
  <2>5. QED
    BY <1>1, <1>2, <2>1, <2>2, <2>4, CallMoves
<1>7. QED
  BY <1>5, <1>6

LEMMA FetchedInv ==
    ASSUME NetInv, fetched
    PROVE  NetInv'
<1>1. /\ Owner \in Caller /\ op[Owner].name = "fetch" /\ op[Owner].reply # NoReply
      /\ UNCHANGED <<cmds, sent, pending, waiters>>
  BY OwnerIsCaller DEF fetched, swarmVars
<1>2. ~Awaits(Owner) /\ \A c \in Cid : ~Seeks(Owner, c)
  BY <1>1 DEF Awaits, Seeks
<1>3. op[Owner] \in Op /\ Sound(Owner) /\ op[Owner].todo \in Seq(Peer)
  BY <1>1, CallFacts
<1>4. CASE Become(Owner, NoOp)
  BY <1>1, <1>2, <1>4, CallEnds
<1>5. CASE Become(Owner, [op[Owner] EXCEPT !.name = "next", !.reply = NoReply])
  <2> DEFINE o == [op[Owner] EXCEPT !.name = "next", !.reply = NoReply]
  <2>1. o \in Op /\ o.name = "next" /\ o.cids = op[Owner].cids /\ o.reply = NoReply
    BY <1>3, ReplyFacts DEF Op
  <2>2. Become(Owner, o)
    BY <1>5
  <2> HIDE DEF o
  <2>3. op'[Owner] = o
    BY <1>1, <2>1, <2>2, BecomeFacts DEF NetInv, Shape
  <2>4. Sound(Owner)' /\ ~Awaits(Owner)' /\ \A c \in Cid : ~Seeks(Owner, c)'
    BY <1>1, <1>3, <2>1, <2>3, ReplyFacts DEF Sound, Awaits, Seeks
  <2>5. QED
    BY <1>1, <1>2, <2>1, <2>2, <2>4, CallMoves
<1>6. QED
  BY <1>4, <1>5 DEF fetched

LEMMA FindTimesOutInv ==
    ASSUME NetInv, find_times_out
    PROVE  NetInv'
<1>1. /\ Owner \in Caller /\ op[Owner].name = "find" /\ UNCHANGED <<cmds, sent, pending>> /\ Become(Owner, NoOp)
      /\ \E c \in op[Owner].cids : Unlist(c)
  BY OwnerIsCaller DEF find_times_out, swarmVars
<1>2. op' \in [Caller -> Op] /\ op'[Owner] = NoOp /\ \A j \in Caller : j # Owner => op'[j] = op[j]
  BY <1>1, BecomeFacts, ReplyFacts DEF NetInv, Shape
<1>3. /\ waiters' \in [Cid -> SUBSET Caller]
      /\ \A c \in Cid : waiters'[c] \in {{}, waiters[c]} /\ (c \in op[Owner].cids => waiters'[c] = {})
  <2>1. PICK e \in op[Owner].cids : Unlist(e)
    BY <1>1
  <2>2. waiters \in [Cid -> SUBSET Caller] /\ \E d \in Cid : op[Owner].cids = {d}
    BY <1>1 DEF NetInv, Shape, CallerInv, Sound
  <2>3. op[Owner].cids = {e} /\ e \in Cid /\ e \in Keyed(e)
    BY <2>1, <2>2, NetworkNodeAssumption DEF Keyed
  <2>4. QED
    BY <2>1, <2>2, <2>3 DEF Unlist
<1>4. \A k \in Caller : SameSenders(k)
  BY <1>1 DEF SameSenders, InCmd, InMap
<1>5. Shape'
  BY <1>1, <1>2, <1>3 DEF NetInv, Shape
<1>6. CallerInv(Owner)'
  <2>1. ~Awaits(Owner) /\ \A c \in Cid : Owner \in waiters[c] => c \in op[Owner].cids
    BY <1>1 DEF Awaits, NetInv, CallerInv, Seeks
  <2>2. (\A n : ~InCmd(Owner, n)') /\ \A i : ~InMap(Owner, i)'
    BY <1>1, <1>4, <2>1, NoSender DEF NetInv, SameSenders
  <2>3. Sound(Owner)' /\ ~Awaits(Owner)' /\ \A c \in Cid : ~Seeks(Owner, c)'
    BY <1>2, ReplyFacts DEF Sound, Awaits, Seeks
  <2>4. \A c \in Cid : Owner \notin waiters'[c]
    BY <1>3, <2>1
  <2>5. QED
    BY <1>1, <2>2, <2>3, <2>4, CallerQuiet
<1>7. ASSUME NEW j \in Caller, j # Owner PROVE CallerInv(j)'
  <2>1. \A c \in Cid : j \notin waiters[c]
    BY <1>7, CallFacts DEF Sound, CallerInv, Seeks
  <2>2. SameWaits(j)
    BY <1>3, <2>1 DEF SameWaits
  <2>3. QED
    BY <1>2, <1>4, <1>7, <2>2, CallerStays DEF NetInv
<1>8. QED
  BY <1>5, <1>6, <1>7 DEF NetInv

LEMMA FetchInv ==
    ASSUME NetInv, fetch_block_from_peer
    PROVE  NetInv'
<1>1. Owner \in Caller /\ op[Owner].name = "next" /\ UNCHANGED <<sent, pending, waiters>>
  BY OwnerIsCaller DEF fetch_block_from_peer, swarmVars
<1>2. ~Awaits(Owner) /\ \A c \in Cid : ~Seeks(Owner, c)
  BY <1>1 DEF Awaits, Seeks
<1>3. op[Owner] \in Op /\ Sound(Owner) /\ op[Owner].todo \in Seq(Peer) /\ op[Owner].cids \in SUBSET Cid /\ op[Owner].reply = NoReply
  <2>1. op[Owner] \in Op /\ Sound(Owner) /\ op[Owner].todo \in Seq(Peer) /\ op[Owner].cids \in SUBSET Cid
    BY <1>1, CallFacts
  <2>2. QED
    BY <1>1, <2>1 DEF Sound
<1>4. CASE op[Owner].todo = <<>>
  BY <1>1, <1>2, <1>4, CallEnds DEF fetch_block_from_peer
<1>5. CASE op[Owner].todo # <<>>
  <2>1. Tail(op[Owner].todo) \in Seq(Peer)
    BY <1>3, <1>5
  <2>2. CASE /\ try_send("FetchBlock", op[Owner].cids, {Owner})
             /\ Become(Owner, [op[Owner] EXCEPT !.name = "fetch", !.todo = Tail(@)])
    <3> DEFINE o == [op[Owner] EXCEPT !.name = "fetch", !.todo = Tail(@)]
    <3>1. o \in Op /\ o.name = "fetch" /\ o.cids = op[Owner].cids /\ o.reply = NoReply
      BY <1>3, <2>1 DEF Op
    <3>2. Become(Owner, o)
      BY <2>2
    <3> HIDE DEF o
    <3>3. op'[Owner] = o
      BY <1>1, <3>1, <3>2, BecomeFacts DEF NetInv, Shape
    <3>4. Sound(Owner)'
      BY <1>1, <1>3, <3>1, <3>3, ReplyFacts DEF Sound
    <3>5. QED
      BY <1>1, <1>2, <1>3, <2>2, <3>1, <3>2, <3>4, CallSends
  <2>3. CASE Become(Owner, [op[Owner] EXCEPT !.todo = Tail(@)]) /\ UNCHANGED cmds
    <3> DEFINE o == [op[Owner] EXCEPT !.todo = Tail(@)]
    <3>1. o \in Op /\ o.name = "next" /\ o.cids = op[Owner].cids /\ o.reply = NoReply
      BY <1>1, <1>3, <2>1 DEF Op
    <3>2. Become(Owner, o)
      BY <2>3
    <3> HIDE DEF o
    <3>3. op'[Owner] = o
      BY <1>1, <3>1, <3>2, BecomeFacts DEF NetInv, Shape
    <3>4. Sound(Owner)' /\ ~Awaits(Owner)' /\ \A c \in Cid : ~Seeks(Owner, c)'
      BY <1>1, <1>3, <3>1, <3>3, ReplyFacts DEF Sound, Awaits, Seeks
    <3>5. QED
      BY <1>1, <1>2, <2>3, <3>1, <3>2, <3>4, CallMoves
  <2>4. QED
    BY <1>5, <2>2, <2>3 DEF fetch_block_from_peer
<1>6. QED
  BY <1>4, <1>5

LEMMA FetchTimesOutInv ==
    ASSUME NetInv, fetch_times_out
    PROVE  NetInv'
<1>1. /\ Owner \in Caller /\ op[Owner].name = "fetch" /\ op[Owner].reply = NoReply
      /\ UNCHANGED <<sent, waiters>> /\ Unsend(Owner) /\ Unpend(Owner)
      /\ Become(Owner, [op[Owner] EXCEPT !.name = "next"])
  BY OwnerIsCaller DEF fetch_times_out, swarmVars
<1>2. op[Owner] \in Op /\ Sound(Owner)
  BY <1>1, CallFacts
<1> DEFINE o == [op[Owner] EXCEPT !.name = "next"]
<1>3. o \in Op /\ o.name = "next" /\ o.cids = op[Owner].cids /\ o.reply = NoReply
  BY <1>1, <1>2 DEF Op
<1>4. Become(Owner, o)
  BY <1>1
<1> HIDE DEF o
<1>5. op'[Owner] = o
  BY <1>1, <1>3, <1>4, BecomeFacts DEF NetInv, Shape
<1>6. Sound(Owner)' /\ ~Awaits(Owner)' /\ \A c \in Cid : ~Seeks(Owner, c)'
  BY <1>1, <1>2, <1>3, <1>5, ReplyFacts DEF Sound, Awaits, Seeks
<1>7. \A c \in Cid : Owner \in waiters'[c] <=> Seeks(Owner, c)'
  BY <1>1, <1>6 DEF NetInv, CallerInv, Seeks
<1>8. waiters' \in [Cid -> SUBSET Caller] /\ \A j \in Caller : SameWaits(j)
  BY <1>1 DEF NetInv, Shape, SameWaits
<1>9. QED
  BY <1>1, <1>3, <1>4, <1>6, <1>7, <1>8, CallDrops

LEMMA AbandonInv ==
    ASSUME NetInv, NEW k \in Caller, abandon(k)
    PROVE  NetInv'
<1>1. Unsend(k) /\ Unpend(k) /\ Unwait(k) /\ Become(k, NoOp) /\ UNCHANGED sent
  BY DEF abandon, swarmVars
<1>2. op'[k] = NoOp
  BY <1>1, BecomeFacts, ReplyFacts DEF NetInv, Shape
<1>3. Sound(k)' /\ ~Awaits(k)' /\ \A c \in Cid : ~Seeks(k, c)'
  BY <1>2, ReplyFacts DEF Sound, Awaits, Seeks
<1>4. /\ waiters' \in [Cid -> SUBSET Caller] /\ \A c \in Cid : k \notin waiters'[c]
      /\ \A j \in Caller : j # k => SameWaits(j)
  BY <1>1 DEF NetInv, Shape, SameWaits, Unwait
<1>5. QED
  BY <1>1, <1>3, <1>4, CallDrops, ReplyFacts

LEMMA StageInv ==
    ASSUME NetInv, NEW k \in Stager, NEW p, run_stage(k, p)
    PROVE  NetInv'
<1>1. /\ k \in Caller /\ k # Owner /\ op[k].name = "idle" /\ UNCHANGED <<sent, pending, waiters>>
      /\ try_send("RunStage", {}, {k}) /\ Become(k, [NoOp EXCEPT !.name = "stage"])
  BY OwnerIsCaller DEF run_stage, Idle, swarmVars
<1>2. ~Awaits(k) /\ \A c \in Cid : ~Seeks(k, c)
  BY <1>1 DEF Awaits, Seeks
<1> DEFINE o == [NoOp EXCEPT !.name = "stage"]
           cids == {}
<1>3. o \in Op /\ o.name = "stage" /\ o.reply = NoReply
  BY ReplyFacts DEF Op
<1>4. Become(k, o) /\ cids \in SUBSET Cid /\ try_send("RunStage", cids, {k}) /\ cids = {}
  BY <1>1
<1> HIDE DEF o, cids
<1>5. op'[k] = o
  BY <1>1, <1>3, <1>4, BecomeFacts DEF NetInv, Shape
<1>6. Sound(k)'
  BY <1>1, <1>3, <1>5, ReplyFacts DEF Sound
<1>7. QED
  BY <1>1, <1>2, <1>3, <1>4, <1>6, CallSends

LEMMA StagedInv ==
    ASSUME NetInv, NEW k \in Stager, staged(k)
    PROVE  NetInv'
<1>1. /\ k \in Caller /\ op[k].name = "stage" /\ op[k].reply # NoReply /\ Become(k, NoOp)
      /\ UNCHANGED <<cmds, sent, pending, waiters>>
  BY OwnerIsCaller DEF staged, swarmVars
<1>2. ~Awaits(k) /\ \A c \in Cid : ~Seeks(k, c)
  BY <1>1 DEF Awaits, Seeks
<1>3. QED
  BY <1>1, <1>2, CallEnds

-----------------------------------------------------------------------------

(* The task that owns the swarm. *)

LEMMA DeliverFacts ==
    ASSUME op \in [Caller -> Op], NEW ks, NEW r \in Reply, Deliver(ks, r)
    PROVE  /\ op' \in [Caller -> Op]
           /\ \A k \in Caller : k \notin ks => op'[k] = op[k]
           /\ \A k \in Caller : k \in ks => op'[k].name = op[k].name /\ op'[k].cids = op[k].cids /\ op'[k].reply = r
<1>1. \A k \in Caller : op'[k] = IF k \in ks THEN [op[k] EXCEPT !.reply = r] ELSE op[k]
  BY DEF Deliver
<1>2. ASSUME NEW k \in Caller, k \in ks
      PROVE  op'[k] \in Op /\ op'[k].name = op[k].name /\ op'[k].cids = op[k].cids /\ op'[k].reply = r
  <2>1. op[k] \in Op /\ op'[k] = [op[k] EXCEPT !.reply = r]
    BY <1>1, <1>2
  <2>2. QED
    BY <2>1 DEF Op
<1>3. \A k \in Caller : op'[k] \in Op
  BY <1>1, <1>2
<1>4. op' = [k \in Caller |-> op'[k]]
  BY DEF Deliver
<1>5. op' \in [Caller -> Op]
  BY <1>3, <1>4
<1>6. QED
  BY <1>1, <1>2, <1>5

\* A caller gets its reply; its sender and its places in the lists are gone.
LEMMA CallerGets ==
    ASSUME NEW k \in Caller, CallerInv(k), NEW r, r # NoReply, op[k].name \in {"find", "fetch", "stage"},
           op'[k].name = op[k].name, op'[k].cids = op[k].cids, op'[k].reply = r,
           r.kind = "block" => op[k].name = "fetch" /\ r.cids = op[k].cids,
           \A n : ~InCmd(k, n)', \A i : ~InMap(k, i)', \A c \in Cid : k \notin waiters'[c]
    PROVE  CallerInv(k)'
<1>1. Sound(k)' /\ ~Awaits(k)' /\ \A c \in Cid : ~Seeks(k, c)'
  BY DEF CallerInv, Sound, Awaits, Seeks
<1>2. QED
  BY <1>1, CallerQuiet

\* Whoever has a sender somewhere waits for a request, and is in no waiter list.
LEMMA SenderAwaits ==
    ASSUME NetInv, NEW k \in Caller, (\E n : InCmd(k, n)) \/ (\E i : InMap(k, i))
    PROVE  op[k].name \in {"fetch", "stage"} /\ Awaits(k) /\ \A c \in Cid : k \notin waiters[c]
<1>1. Awaits(k)
  BY DEF NetInv, CallerInv, OneSender
<1>2. QED
  BY <1>1 DEF Awaits, NetInv, CallerInv, Seeks

LEMMA SettleInv ==
    ASSUME NetInv, NEW i, NEW r \in Reply, r # NoReply, Settle(i, r),
           r.kind = "block" => \E c \in pending[i].cids : r.cids = {c}
    PROVE  NetInv'
<1>1. /\ i \in sent /\ DOMAIN pending = sent /\ i \in DOMAIN pending /\ pending[i] \in Entry /\ pending[i].to \in SUBSET Caller
  BY DEF Settle, NetInv, Shape, Entry
<1>2. /\ sent' = sent \ {i} /\ Deliver(pending[i].to, r) /\ UNCHANGED <<cmds, waiters>>
      /\ pending' = [j \in DOMAIN pending \ {i} |-> pending[j]]
  BY <1>1 DEF Settle
<1>3. /\ op' \in [Caller -> Op]
      /\ \A k \in Caller : k \notin pending[i].to => op'[k] = op[k]
      /\ \A k \in Caller : k \in pending[i].to => op'[k].name = op[k].name /\ op'[k].cids = op[k].cids /\ op'[k].reply = r
  <2> DEFINE ks == pending[i].to
  <2>1. Deliver(ks, r)
    BY <1>2
  <2> HIDE DEF ks
  <2>2. /\ op' \in [Caller -> Op]
        /\ \A k \in Caller : k \notin ks => op'[k] = op[k]
        /\ \A k \in Caller : k \in ks => op'[k].name = op[k].name /\ op'[k].cids = op[k].cids /\ op'[k].reply = r
    BY <2>1, DeliverFacts DEF NetInv, Shape
  <2>3. QED
    BY <2>2 DEF ks
<1>4. Shape'
  BY <1>1, <1>2, <1>3 DEF NetInv, Shape
<1>5. \A k, j : (InMap(k, j)' <=> InMap(k, j) /\ j # i) /\ (InMap(k, j)' => pending'[j] = pending[j])
  BY <1>2 DEF InMap
<1>6. \A k, n : InCmd(k, n)' <=> InCmd(k, n)
  BY <1>2 DEF InCmd
<1>7. ASSUME NEW k \in Caller, k \notin pending[i].to PROVE CallerInv(k)'
  <2>1. ~InMap(k, i)
    BY <1>7 DEF InMap
  <2>2. SameSenders(k) /\ SameWaits(k)
    BY <1>2, <1>5, <1>6, <2>1 DEF SameSenders, SameWaits
  <2>3. QED
    BY <1>3, <1>7, <2>2, CallerStays DEF NetInv
<1>8. ASSUME NEW k \in Caller, k \in pending[i].to PROVE CallerInv(k)'
  <2>1. InMap(k, i) /\ CallerInv(k)
    BY <1>1, <1>8 DEF InMap, NetInv
  <2>2. (\A n : ~InCmd(k, n)') /\ \A j : ~InMap(k, j)'
    BY <1>5, <1>6, <2>1 DEF CallerInv, OneSender
  <2>3. op[k].name \in {"fetch", "stage"} /\ \A c \in Cid : k \notin waiters'[c]
    BY <1>2, <2>1, SenderAwaits
  <2>4. ASSUME r.kind = "block" PROVE op[k].name = "fetch" /\ r.cids = op[k].cids
    <3>1. PICK c \in pending[i].cids : r.cids = {c}
      BY <2>4
    <3>2. op[k].name = "fetch" /\ pending[i].cids = op[k].cids
      BY <2>1, <3>1 DEF CallerInv, Owns
    <3>3. PICK d \in Cid : op[k].cids = {d}
      BY <2>1, <3>2 DEF CallerInv, Sound
    <3>4. QED
      BY <3>1, <3>2, <3>3
  <2>5. QED
    BY <1>3, <1>8, <2>1, <2>2, <2>3, <2>4, CallerGets
<1>9. QED
  BY <1>4, <1>7, <1>8 DEF NetInv

LEMMA AnsweredInv ==
    ASSUME NetInv, NEW i, Answered(i)
    PROVE  NetInv'
<1>1. CASE outbound_failure(i)
  <2>1. Settle(i, Failed) /\ Failed \in Reply /\ Failed # NoReply /\ Failed.kind # "block"
    BY <1>1, ReplyFacts DEF outbound_failure
  <2>2. QED
    BY <2>1, SettleInv
<1>2. CASE stage_response(i)
  <2> DEFINE r == [NoReply EXCEPT !.kind = "answer"]
  <2>1. r \in Reply /\ r.kind = "answer"
    BY DEF NoReply, Reply
  <2>2. Settle(i, r)
    BY <1>2 DEF stage_response
  <2> HIDE DEF r
  <2>3. QED
    BY <2>1, <2>2, SettleInv, ReplyFacts
<1>3. ASSUME NEW c \in Cid \cup {Junk}, fetch_response(i, c) PROVE NetInv'
  <2> DEFINE r == Verified(c, pending[i].cids)
  <2>1. i \in DOMAIN pending /\ Settle(i, r)
    BY <1>3 DEF fetch_response
  <2>2. r \in Reply /\ r # NoReply /\ (r.kind = "block" => c \in pending[i].cids /\ r.cids = {c})
    <3>1. CASE c \in pending[i].cids
      <4>1. r = [NoReply EXCEPT !.kind = "block", !.cids = {c}]
        BY <3>1 DEF Verified
      <4>2. r \in Reply /\ r.kind = "block" /\ r.cids = {c}
        BY <4>1 DEF NoReply, Reply
      <4>3. QED
        BY <3>1, <4>2, ReplyFacts
    <3>2. CASE c \notin pending[i].cids
      <4>1. r = Failed
        BY <3>2 DEF Verified
      <4>2. QED
        BY <4>1, ReplyFacts
    <3>3. QED
      BY <3>1, <3>2
  <2> HIDE DEF r
  <2>3. QED
    BY <2>1, <2>2, SettleInv
<1>4. QED
  BY <1>1, <1>2, <1>3 DEF Answered

LEMMA FoundProvidersInv ==
    ASSUME NetInv, NEW c \in Cid, NEW ps \in SUBSET Peer, found_providers(c, ps)
    PROVE  NetInv'
<1> DEFINE r == [NoReply EXCEPT !.kind = "providers", !.peers = ps]
           ks == UNION {waiters[d] : d \in Keyed(c)}
<1>1. r \in Reply /\ r.kind = "providers" /\ r # NoReply
  BY ReplyFacts DEF NoReply, Reply
<1>2. Deliver(ks, r) /\ Unlist(c) /\ UNCHANGED <<cmds, sent, pending>>
  BY DEF found_providers, swarmVars
<1> HIDE DEF r
<1>3. /\ op' \in [Caller -> Op]
      /\ \A k \in Caller : k \notin ks => op'[k] = op[k]
      /\ \A k \in Caller : k \in ks => op'[k].name = op[k].name /\ op'[k].cids = op[k].cids /\ op'[k].reply = r
  <2> HIDE DEF ks
  <2>1. QED
    BY <1>1, <1>2, DeliverFacts DEF NetInv, Shape
<1>4. waiters' \in [Cid -> SUBSET Caller] /\ \A k, d : d \in Cid => (k \in waiters'[d] <=> k \in waiters[d] /\ d \notin Keyed(c))
  BY <1>2 DEF NetInv, Shape, Unlist
<1>5. Shape'
  BY <1>2, <1>3, <1>4 DEF NetInv, Shape
<1>6. \A k \in Caller : SameSenders(k)
  BY <1>2 DEF SameSenders, InCmd, InMap
<1>7. ASSUME NEW k \in Caller, k \notin ks PROVE CallerInv(k)'
  <2>1. SameWaits(k)
    BY <1>4, <1>7 DEF SameWaits
  <2>2. QED
    BY <1>3, <1>6, <1>7, <2>1, CallerStays DEF NetInv
<1>8. ASSUME NEW k \in Caller, k \in ks PROVE CallerInv(k)'
  <2>0. PICK e \in Keyed(c) : k \in waiters[e]
    BY <1>8
  <2>1. e \in Cid /\ CallerInv(k) /\ Seeks(k, e)
    BY <2>0, NetworkNodeAssumption DEF NetInv, CallerInv, Keyed
  <2>2. op[k].name = "find" /\ op[k].cids = {e} /\ ~Awaits(k)
    BY <2>1 DEF Seeks, CallerInv, Sound, Awaits
  <2>3. \A d \in Cid : k \notin waiters'[d]
    BY <1>4, <2>0, <2>1, <2>2 DEF CallerInv, Seeks
  <2>4. (\A n : ~InCmd(k, n)') /\ \A j : ~InMap(k, j)'
    BY <1>6, <2>1, <2>2, NoSender DEF SameSenders
  <2>5. QED
    BY <1>1, <1>3, <1>8, <2>1, <2>2, <2>3, <2>4, CallerGets
<1>9. QED
  BY <1>5, <1>7, <1>8 DEF NetInv

\* The channel without its first command.
LEMMA TailFacts ==
    ASSUME Shape, cmds # <<>>, cmds' = Tail(cmds)
    PROVE  /\ cmds' \in Seq(Command) /\ Head(cmds) = cmds[1] /\ 1 \in 1 .. Len(cmds) /\ cmds[1] \in Command
           /\ \A n \in 1 .. Len(cmds') : cmds'[n].name \in {"GetProviders", "Other"} => cmds'[n].to = {}
           /\ \A k, n : InCmd(k, n)' <=> n \in Nat \ {0} /\ InCmd(k, n + 1)
           /\ \A k, n : InCmd(k, n)' => cmds'[n] = cmds[n + 1]
           /\ \A k, n : InCmd(k, n) => n \in Nat /\ (n = 1 \/ (InCmd(k, n - 1)' /\ (n - 1) + 1 = n))
<1>1. /\ cmds \in Seq(Command) /\ Len(cmds) \in Nat \ {0} /\ Head(cmds) = cmds[1] /\ cmds[1] \in Command
      /\ cmds' \in Seq(Command) /\ Len(cmds') = Len(cmds) - 1
      /\ \A n \in 1 .. Len(cmds) - 1 : cmds'[n] = cmds[n + 1]
  BY DEF Shape
<1>2. \A n : n \in 1 .. Len(cmds') <=> n \in Nat \ {0} /\ n + 1 \in 1 .. Len(cmds)
  BY <1>1
<1>3. \A n \in 1 .. Len(cmds') : cmds'[n] = cmds[n + 1]
  BY <1>1
<1>4. \A n \in 1 .. Len(cmds') : cmds'[n].name \in {"GetProviders", "Other"} => cmds'[n].to = {}
  BY <1>2, <1>3 DEF Shape
<1>5. ASSUME NEW k, NEW n PROVE (InCmd(k, n)' <=> n \in Nat \ {0} /\ InCmd(k, n + 1)) /\ (InCmd(k, n)' => cmds'[n] = cmds[n + 1])
  BY <1>2, <1>3 DEF InCmd
<1>6. ASSUME NEW k, NEW n, InCmd(k, n) PROVE n \in Nat /\ (n = 1 \/ (InCmd(k, n - 1)' /\ (n - 1) + 1 = n))
  <2>1. n \in 1 .. Len(cmds) /\ k \in cmds[n].to
    BY <1>6 DEF InCmd
  <2>2. n \in Nat /\ (n = 1 \/ (n - 1 \in Nat \ {0} /\ (n - 1) + 1 = n))
    BY <1>1, <2>1
  <2>3. QED
    BY <1>5, <1>6, <2>2
<1>7. 1 \in 1 .. Len(cmds)
  BY <1>1
<1>8. \A k, n : InCmd(k, n)' <=> n \in Nat \ {0} /\ InCmd(k, n + 1)
  BY <1>5
<1>9. \A k, n : InCmd(k, n)' => cmds'[n] = cmds[n + 1]
  BY <1>5
<1>10. \A k, n : InCmd(k, n) => n \in Nat /\ (n = 1 \/ (InCmd(k, n - 1)' /\ (n - 1) + 1 = n))
  BY <1>6
<1>11. QED
  BY <1>1, <1>4, <1>7, <1>8, <1>9, <1>10

\* The command is not this caller's: its sender moves up in the channel.
LEMMA CallerMovesUp ==
    ASSUME Shape, cmds # <<>>, cmds' = Tail(cmds), NEW k \in Caller, CallerInv(k), k \notin cmds[1].to, op'[k] = op[k],
           SameWaits(k), \A i : InMap(k, i)' <=> InMap(k, i), \A i : InMap(k, i) => pending'[i] = pending[i]
    PROVE  CallerInv(k)'
<1>1. /\ \A n : InCmd(k, n)' <=> n \in Nat \ {0} /\ InCmd(k, n + 1)
      /\ \A n : InCmd(k, n)' => cmds'[n] = cmds[n + 1]
      /\ \A n : InCmd(k, n) => InCmd(k, n - 1)'
  <2>1. ~InCmd(k, 1)
    BY DEF InCmd
  <2>2. QED
    BY <2>1, TailFacts
<1>2. Sound(k)' /\ (Awaits(k)' <=> Awaits(k)) /\ \A c \in Cid : Seeks(k, c)' <=> Seeks(k, c)
  BY DEF CallerInv, Sound, Awaits, Seeks
<1>3. \A m, n : InCmd(k, m)' /\ InCmd(k, n)' => m = n
  <2>1. SUFFICES ASSUME NEW m, NEW n, InCmd(k, m)', InCmd(k, n)' PROVE m = n
    OBVIOUS
  <2>2. m \in Nat /\ n \in Nat /\ m + 1 = n + 1
    BY <1>1, <2>1 DEF CallerInv, OneSender
  <2>3. QED
    BY <2>2
<1>4. OneSender(k)'
  <2>1. (\A i, j : InMap(k, i) /\ InMap(k, j) => i = j)'
    BY DEF CallerInv, OneSender
  <2>2. (\A n, i : ~(InCmd(k, n) /\ InMap(k, i)))'
    BY <1>1 DEF CallerInv, OneSender
  <2>3. (\E n : InCmd(k, n)') <=> \E n : InCmd(k, n)
    BY <1>1
  <2>4. (Awaits(k) <=> (\E n : InCmd(k, n)) \/ (\E i : InMap(k, i)))'
    BY <1>2, <2>3 DEF CallerInv, OneSender
  <2>5. QED
    BY <1>3, <2>1, <2>2, <2>4 DEF OneSender
<1>5. (\A n : InCmd(k, n) => Owns(k, cmds[n]))'
  <2>1. SUFFICES ASSUME NEW n, InCmd(k, n)' PROVE Owns(k, cmds[n])'
    OBVIOUS
  <2>2. InCmd(k, n + 1) /\ cmds'[n] = cmds[n + 1]
    BY <1>1, <2>1
  <2>3. Owns(k, cmds[n + 1])
    BY <2>2 DEF CallerInv
  <2>4. QED
    BY <2>2, <2>3 DEF Owns
<1>6. (\A i : InMap(k, i) => Owns(k, pending[i]))'
  BY DEF CallerInv, Owns
<1>7. (\A c \in Cid : k \in waiters[c] <=> Seeks(k, c))'
  BY <1>2 DEF CallerInv, SameWaits
<1>8. QED
  BY <1>2, <1>4, <1>5, <1>6, <1>7 DEF CallerInv

\* The command is this caller's: its sender goes from the channel to the map.
LEMMA CallerMovesOver ==
    ASSUME Shape, cmds # <<>>, cmds' = Tail(cmds), NEW k \in Caller, CallerInv(k), k \in cmds[1].to, op'[k] = op[k],
           SameWaits(k), NEW i, \A j : InMap(k, j)' <=> InMap(k, j) \/ j = i, pending'[i].cids = cmds[1].cids
    PROVE  CallerInv(k)'
<1>1. InCmd(k, 1)
  BY TailFacts DEF InCmd
<1>2. (\A n : InCmd(k, n) => n = 1) /\ \A j : ~InMap(k, j)
  BY <1>1 DEF CallerInv, OneSender
<1>3. \A n : ~InCmd(k, n)'
  <2>1. SUFFICES ASSUME NEW n, InCmd(k, n)' PROVE FALSE
    OBVIOUS
  <2>2. n \in Nat \ {0} /\ n + 1 = 1
    BY <1>2, <2>1, TailFacts
  <2>3. QED
    BY <2>2
<1>4. \A j : InMap(k, j)' <=> j = i
  BY <1>2
<1>5. Sound(k)' /\ Awaits(k)' /\ \A c \in Cid : Seeks(k, c)' <=> Seeks(k, c)
  BY <1>1 DEF CallerInv, OneSender, Sound, Awaits, Seeks
<1>6. OneSender(k)'
  BY <1>3, <1>4, <1>5 DEF OneSender
<1>7. (\A j : InMap(k, j) => Owns(k, pending[j]))'
  BY <1>1, <1>4 DEF CallerInv, Owns
<1>8. (\A c \in Cid : k \in waiters[c] <=> Seeks(k, c))'
  BY <1>5 DEF CallerInv, SameWaits
<1>9. QED
  BY <1>3, <1>5, <1>6, <1>7, <1>8 DEF CallerInv

LEMMA CommandInv ==
    ASSUME NetInv, handle_swarm_command
    PROVE  NetInv'
<1>1. cmds # <<>> /\ cmds' = Tail(cmds) /\ UNCHANGED <<waiters, op>> /\ Shape /\ DOMAIN pending = sent
  BY DEF handle_swarm_command, NetInv, Shape
<1>2. /\ cmds' \in Seq(Command) /\ Head(cmds) = cmds[1] /\ 1 \in 1 .. Len(cmds) /\ cmds[1] \in Command
      /\ \A n \in 1 .. Len(cmds') : cmds'[n].name \in {"GetProviders", "Other"} => cmds'[n].to = {}
  BY <1>1, TailFacts
<1>3. \A k \in Caller : SameWaits(k) /\ op'[k] = op[k] /\ CallerInv(k)
  BY <1>1 DEF SameWaits, NetInv
<1>4. CASE cmds[1].name \in {"GetProviders", "Other"} /\ UNCHANGED <<sent, pending>>
  <2>1. Shape'
    BY <1>1, <1>2, <1>4 DEF Shape
  <2>2. cmds[1].to = {}
    BY <1>1, <1>2, <1>4 DEF Shape
  <2>3. \A k, i : (InMap(k, i)' <=> InMap(k, i)) /\ pending'[i] = pending[i]
    BY <1>4 DEF InMap
  <2>4. ASSUME NEW k \in Caller PROVE CallerInv(k)'
    BY <1>1, <1>3, <2>2, <2>3, CallerMovesUp
  <2>5. QED
    BY <2>1, <2>4 DEF NetInv
<1>5. CASE Request(cmds[1])
  <2>1. PICK i \in Id \ sent : /\ sent' = sent \cup {i}
                               /\ pending' = [j \in DOMAIN pending \cup {i} |->
                                    IF j = i THEN [cids |-> cmds[1].cids, to |-> cmds[1].to] ELSE pending[j]]
    BY <1>5 DEF Request
  <2>2. i \notin DOMAIN pending /\ DOMAIN pending' = sent'
    BY <1>1, <2>1
  <2>3. pending'[i].cids = cmds[1].cids /\ pending'[i].to = cmds[1].to /\ pending'[i] \in Entry
    BY <1>2, <2>1 DEF Command, Entry
  <2>4. \A j \in DOMAIN pending : pending'[j] = pending[j]
    BY <2>1, <2>2
  <2>5. Shape'
    BY <1>1, <1>2, <2>1, <2>2, <2>3, <2>4 DEF Shape
  <2>6. \A k, j : InMap(k, j)' <=> InMap(k, j) \/ (j = i /\ k \in cmds[1].to)
    BY <2>1, <2>2, <2>3, <2>4 DEF InMap
  <2>7. ASSUME NEW k \in Caller, k \in cmds[1].to PROVE CallerInv(k)'
    <3>1. \A j : InMap(k, j)' <=> InMap(k, j) \/ j = i
      BY <2>6, <2>7
    <3>2. QED
      BY <1>1, <1>3, <2>3, <2>7, <3>1, CallerMovesOver
  <2>8. ASSUME NEW k \in Caller, k \notin cmds[1].to PROVE CallerInv(k)'
    <3>1. (\A j : InMap(k, j)' <=> InMap(k, j)) /\ \A j : InMap(k, j) => pending'[j] = pending[j]
      BY <2>4, <2>6, <2>8 DEF InMap
    <3>2. QED
      BY <1>1, <1>3, <2>8, <3>1, CallerMovesUp
  <2>9. QED
    BY <2>5, <2>7, <2>8 DEF NetInv
<1>6. QED
  BY <1>2, <1>4, <1>5 DEF handle_swarm_command

\* The end of the task drops every sender, and nobody waits for them any more.
LEMMA ShutdownInv ==
    ASSUME NetInv, shutdown
    PROVE  NetInv'
<1>1. Deliver(Senders, Failed) /\ cmds' = <<>> /\ pending' = <<>> /\ sent' = {} /\ UNCHANGED waiters
  BY DEF shutdown
<1>2. /\ op' \in [Caller -> Op]
      /\ \A k \in Caller : k \notin Senders => op'[k] = op[k]
      /\ \A k \in Caller : k \in Senders => op'[k].name = op[k].name /\ op'[k].cids = op[k].cids /\ op'[k].reply = Failed
  BY <1>1, DeliverFacts, ReplyFacts DEF NetInv, Shape
<1>3. Shape'
  <2>1. cmds' \in Seq(Command) /\ Len(cmds') = 0 /\ DOMAIN pending' = {}
    BY <1>1
  <2>2. QED
    BY <1>1, <1>2, <2>1 DEF NetInv, Shape
<1>4. \A k, n : ~InCmd(k, n)' /\ ~InMap(k, n)'
  BY <1>1 DEF InCmd, InMap
<1>5. \A k : k \in Senders <=> (\E n : InCmd(k, n)) \/ (\E i : InMap(k, i))
  <2>1. DOMAIN cmds = 1 .. Len(cmds)
    BY DEF NetInv, Shape
  <2>2. \A k : k \in UNION {cmds[n].to : n \in DOMAIN cmds} <=> \E n : InCmd(k, n)
    <3>1. ASSUME NEW k PROVE k \in UNION {cmds[n].to : n \in DOMAIN cmds} <=> \E n \in DOMAIN cmds : k \in cmds[n].to
      OBVIOUS
    <3>2. QED
      BY <2>1, <3>1 DEF InCmd
  <2>3. \A k : k \in UNION {pending[i].to : i \in DOMAIN pending} <=> \E i : InMap(k, i)
    BY DEF InMap
  <2> DEFINE A == UNION {cmds[n].to : n \in DOMAIN cmds}
             B == UNION {pending[i].to : i \in DOMAIN pending}
  <2>4. Senders = A \cup B
    BY DEF Senders
  <2>5. (\A k : k \in A <=> \E n : InCmd(k, n)) /\ \A k : k \in B <=> \E i : InMap(k, i)
    BY <2>2, <2>3
  <2> HIDE DEF A, B
  <2>6. QED
    BY <2>4, <2>5
<1>6. ASSUME NEW k \in Caller, k \in Senders PROVE CallerInv(k)'
  <2>1. op[k].name \in {"fetch", "stage"} /\ \A c \in Cid : k \notin waiters'[c]
    BY <1>1, <1>5, <1>6, SenderAwaits
  <2>2. Failed # NoReply /\ Failed.kind # "block" /\ CallerInv(k)
    BY ReplyFacts DEF NetInv
  <2>3. QED
    BY <1>2, <1>4, <1>6, <2>1, <2>2, CallerGets
<1>7. ASSUME NEW k \in Caller, k \notin Senders PROVE CallerInv(k)'
  <2>1. SameSenders(k) /\ SameWaits(k)
    BY <1>1, <1>4, <1>5, <1>7 DEF SameSenders, SameWaits
  <2>2. QED
    BY <1>2, <1>7, <2>1, CallerStays DEF NetInv
<1>8. QED
  BY <1>3, <1>6, <1>7 DEF NetInv

-----------------------------------------------------------------------------

(* The theorems. *)

LEMMA InitNetInv == Init => NetInv
<1> SUFFICES ASSUME Init PROVE NetInv
  OBVIOUS
<1>1. cmds = <<>> /\ sent = {} /\ pending = <<>> /\ waiters = [c \in Cid |-> {}] /\ op = [k \in Caller |-> NoOp]
  BY DEF Init
<1>2. cmds \in Seq(Command) /\ Len(cmds) = 0 /\ DOMAIN pending = {}
  BY <1>1
<1>3. Shape
  BY <1>1, <1>2, ReplyFacts DEF Shape
<1>4. \A k, n : ~InCmd(k, n) /\ ~InMap(k, n)
  BY <1>2 DEF InCmd, InMap
<1>5. ASSUME NEW k \in Caller PROVE CallerInv(k)
  <2>1. op[k] = NoOp /\ \A c \in Cid : k \notin waiters[c]
    BY <1>1
  <2>2. Sound(k) /\ ~Awaits(k) /\ \A c \in Cid : ~Seeks(k, c)
    BY <2>1, ReplyFacts DEF Sound, Awaits, Seeks
  <2>3. OneSender(k)
    BY <1>4, <2>2 DEF OneSender
  <2>4. QED
    BY <1>4, <2>1, <2>2, <2>3 DEF CallerInv
<1>6. QED
  BY <1>3, <1>5 DEF NetInv

LEMMA NextNetInv == NetInv /\ [Next]_vars => NetInv'
<1> SUFFICES ASSUME NetInv, [Next]_vars PROVE NetInv'
  OBVIOUS
<1>1. CASE UNCHANGED <<cmds, sent, pending, waiters, op>>
  BY <1>1, NothingMoves
<1>2. CASE UNCHANGED vars \/ take_event_receiver \/ stop \/ unblock \/ send_response
  BY <1>1, <1>2 DEF vars, take_event_receiver, stop, unblock, send_response, swarmVars
<1>3. CASE SwarmEvent
  <2>1. ASSUME NEW p, connection_established(p) \/ connection_closed(p) PROVE NetInv'
    BY <1>1, <2>1 DEF connection_established, connection_closed
  <2>2. ASSUME NEW c, query_ended(c) PROVE NetInv'
    BY <1>1, <2>2 DEF query_ended
  <2>3. CASE other_event \/ inbound_request
    BY <1>1, <2>3 DEF other_event, inbound_request, swarmVars
  <2>4. QED
    BY <1>3, <2>1, <2>2, <2>3, FoundProvidersInv DEF SwarmEvent
<1>4. CASE send_swarm_cmd
  BY <1>4, OtherSent DEF send_swarm_cmd, swarmVars
<1>5. CASE recv
  <2>1. UNCHANGED <<sent, pending, waiters, op>> /\ (UNCHANGED cmds \/ try_send("Other", {}, {}))
    BY <1>5 DEF recv, publish, swarmVars
  <2>2. QED
    BY <1>1, <2>1, OtherSent
<1>6. CASE OwnerStep
  BY <1>6, FoundInv, FetchInv, FetchedInv, FindTimesOutInv, FetchTimesOutInv DEF OwnerStep
<1>7. CASE \E k \in Stager : staged(k) \/ stage_times_out(k) \/ \E p \in Peer : run_stage(k, p)
  <2>1. PICK k \in Stager : staged(k) \/ stage_times_out(k) \/ \E p \in Peer : run_stage(k, p)
    BY <1>7
  <2>2. stage_times_out(k) => NetInv'
    BY AbandonInv, OwnerIsCaller DEF stage_times_out
  <2>3. QED
    BY <2>1, <2>2, StagedInv, StageInv
<1>8. QED
  BY <1>2, <1>3, <1>4, <1>5, <1>6, <1>7, FindInv, AbandonInv, AnsweredInv, CommandInv, ShutdownInv DEF Next

\* The invariant counts the senders.
LEMMA NetInvImplies == NetInv => NobodyForgotten /\ PendingIsOwed /\ BlocksAreOwn
<1> SUFFICES ASSUME NetInv PROVE NobodyForgotten /\ PendingIsOwed /\ BlocksAreOwn
  OBVIOUS
<1>1. PendingIsOwed
  BY DEF NetInv, Shape, PendingIsOwed
<1>2. BlocksAreOwn
  BY DEF NetInv, CallerInv, Sound, BlocksAreOwn
<1>3. ASSUME NEW k \in Caller
      PROVE  /\ Cardinality(InChannel(k)) + Cardinality(InPending(k))
                  = IF op[k].name \in {"fetch", "stage"} /\ op[k].reply = NoReply THEN 1 ELSE 0
             /\ {c \in Cid : k \in waiters[c]} = IF op[k].name = "find" /\ op[k].reply = NoReply THEN op[k].cids ELSE {}
  <2>1. OneSender(k) /\ DOMAIN cmds = 1 .. Len(cmds) /\ op[k].cids \subseteq Cid
    BY CallFacts DEF NetInv, Shape, CallerInv
  <2>2. (\A n : n \in InChannel(k) <=> InCmd(k, n)) /\ \A i : i \in InPending(k) <=> InMap(k, i)
    BY <2>1 DEF InChannel, InPending, InCmd, InMap
  <2>3. {c \in Cid : k \in waiters[c]} = IF op[k].name = "find" /\ op[k].reply = NoReply THEN op[k].cids ELSE {}
    BY <2>1 DEF NetInv, CallerInv, Seeks
  <2>4. Cardinality({}) = 0 /\ \A x : Cardinality({x}) = 1
    BY FS_EmptySet, FS_Singleton
  <2>5. CASE Awaits(k)
    <3>1. \/ InPending(k) = {} /\ \E n : InChannel(k) = {n}
          \/ InChannel(k) = {} /\ \E i : InPending(k) = {i}
      <4>1. CASE \E n : InCmd(k, n)
        <5>1. PICK n : InCmd(k, n)
          BY <4>1
        <5>2. InChannel(k) = {n} /\ InPending(k) = {}
          BY <2>1, <2>2, <5>1 DEF OneSender
        <5>3. QED
          BY <5>2
      <4>2. CASE \E i : InMap(k, i)
        <5>1. PICK i : InMap(k, i)
          BY <4>2
        <5>2. InPending(k) = {i} /\ InChannel(k) = {}
          BY <2>1, <2>2, <5>1 DEF OneSender
        <5>3. QED
          BY <5>2
      <4>3. QED
        BY <2>1, <2>5, <4>1, <4>2 DEF OneSender
    <3>2. Cardinality(InChannel(k)) + Cardinality(InPending(k)) = 1
      <4>1. ASSUME NEW n, InChannel(k) = {n}, InPending(k) = {} PROVE Cardinality(InChannel(k)) = 1 /\ Cardinality(InPending(k)) = 0
        BY <2>4, <4>1
      <4>2. ASSUME NEW i, InPending(k) = {i}, InChannel(k) = {} PROVE Cardinality(InChannel(k)) = 0 /\ Cardinality(InPending(k)) = 1
        BY <2>4, <4>2
      <4>3. QED
        BY <3>1, <4>1, <4>2
    <3>3. QED
      BY <2>3, <2>5, <3>2 DEF Awaits
  <2>6. CASE ~Awaits(k)
    <3>1. InChannel(k) = {} /\ InPending(k) = {}
      BY <2>1, <2>2, <2>6 DEF OneSender
    <3>2. QED
      BY <2>3, <2>4, <2>6, <3>1 DEF Awaits
  <2>7. QED
    BY <2>5, <2>6
<1>4. NobodyForgotten
  BY <1>3 DEF NobodyForgotten
<1>5. QED
  BY <1>1, <1>2, <1>4

\* Whoever waits for a reply has exactly one sender in the channel or in a pending
\* map, and whoever waits for none has none anywhere, across timeouts, dropped
\* calls, late answers and the end of the task.
THEOREM Remembered == Spec => []NobodyForgotten
<1>1. QED
  BY InitNetInv, NextNetInv, NetInvImplies, PTL DEF Spec

\* The pending maps hold exactly the requests that the swarm owes an answer.
THEOREM Owed == Spec => []PendingIsOwed
<1>1. QED
  BY InitNetInv, NextNetInv, NetInvImplies, PTL DEF Spec

\* A block that reaches a caller is the block the caller asked for, whatever bytes
\* a peer sends and whichever call of the caller they were meant for.
THEOREM OwnBlocks == Spec => []BlocksAreOwn
<1>1. QED
  BY InitNetInv, NextNetInv, NetInvImplies, PTL DEF Spec

-----------------------------------------------------------------------------

(* The connected peers. *)

ConnInv == conns \in [Peer -> Nat] /\ ConnectedIsTrue /\ loop \in {"run", "serving", "blocked", "ended"}

\* A peer is in connected_peers as long as the swarm has a connection to it,
\* however many it had.
THEOREM ConnectedMatches == Spec => []ConnectedIsTrue
<1>1. Init => ConnInv
  BY DEF Init, ConnInv, ConnectedIsTrue
<1>2. ConnInv /\ [Next]_vars => ConnInv'
  <2> SUFFICES ASSUME ConnInv, [Next]_vars PROVE ConnInv'
    OBVIOUS
  <2>1. CASE UNCHANGED <<conns, connected_peers, loop>>
    BY <2>1 DEF ConnInv, ConnectedIsTrue
  <2>2. CASE \E c \in Cid, of \in {"get", "geo"} : find_providers_await(of, c)
    BY <2>1, <2>2 DEF find_providers_await, chanVars, swarmVars
  <2>3. CASE OwnerStep
    BY <2>1, <2>3 DEF OwnerStep, found, fetch_block_from_peer, fetched, find_times_out, fetch_times_out, chanVars, swarmVars
  <2>4. CASE send_swarm_cmd \/ take_event_receiver \/ recv \/ stop \/ UNCHANGED vars
    BY <2>1, <2>4 DEF send_swarm_cmd, take_event_receiver, recv, stop, vars, chanVars, swarmVars
  <2>5. CASE \E k \in Stager : staged(k) \/ stage_times_out(k) \/ \E p \in Peer : run_stage(k, p)
    BY <2>1, <2>5 DEF staged, stage_times_out, abandon, run_stage, chanVars, swarmVars
  <2>6. CASE \E k \in Caller : abandon(k)
    BY <2>1, <2>6 DEF abandon, chanVars, swarmVars
  <2>7. CASE \E i \in Id : Answered(i)
    BY <2>1, <2>7 DEF Answered, stage_response, outbound_failure, fetch_response, Settle, chanVars
  <2>8. CASE handle_swarm_command
    BY <2>1, <2>8 DEF handle_swarm_command, chanVars
  <2>9. CASE unblock \/ inbound_request \/ send_response
    BY <2>9 DEF unblock, inbound_request, send_response, swarmVars, ConnInv, ConnectedIsTrue
  <2>10. CASE shutdown
    BY <2>10 DEF shutdown, ConnInv, ConnectedIsTrue
  <2>11. ASSUME loop = "run", Emit PROVE loop' \in {"run", "blocked"}
    BY <2>11 DEF Emit, chanVars
  <2>12. ASSUME NEW p \in Peer, connection_established(p) PROVE ConnInv'
    <3>1. /\ loop = "run" /\ conns' = [conns EXCEPT ![p] = @ + 1] /\ connected_peers' = connected_peers \cup {p}
          /\ loop' \in {"run", "blocked"}
      BY <2>11, <2>12 DEF connection_established
    <3>2. conns' \in [Peer -> Nat] /\ \A q \in Peer : conns'[q] > 0 <=> conns[q] > 0 \/ q = p
      BY <3>1 DEF ConnInv
    <3>3. connected_peers' = {q \in Peer : conns'[q] > 0}
      BY <3>1, <3>2 DEF ConnInv, ConnectedIsTrue
    <3>4. QED
      BY <3>1, <3>2, <3>3 DEF ConnInv, ConnectedIsTrue
  <2>13. ASSUME NEW p \in Peer, connection_closed(p) PROVE ConnInv'
    <3>1. /\ loop = "run" /\ conns[p] > 0 /\ conns' = [conns EXCEPT ![p] = @ - 1]
          /\ connected_peers' = (IF conns[p] - 1 = 0 THEN connected_peers \ {p} ELSE connected_peers)
          /\ loop' \in {"run", "blocked"}
      BY <2>11, <2>13 DEF connection_closed, Untracked
    <3>2. conns' \in [Peer -> Nat] /\ \A q \in Peer : conns'[q] > 0 <=> conns[q] > 0 /\ ~(q = p /\ conns[p] - 1 = 0)
      BY <3>1 DEF ConnInv
    <3>3. connected_peers' = {q \in Peer : conns'[q] > 0}
      BY <3>1, <3>2 DEF ConnInv, ConnectedIsTrue
    <3>4. QED
      BY <3>1, <3>2, <3>3 DEF ConnInv, ConnectedIsTrue
  <2>14. ASSUME NEW c, NEW ps, query_ended(c) \/ found_providers(c, ps) \/ other_event PROVE ConnInv'
    <3>1. UNCHANGED <<conns, connected_peers>> /\ loop = "run" /\ loop' \in {"run", "blocked"}
      BY <2>11, <2>14 DEF query_ended, found_providers, other_event, chanVars, swarmVars
    <3>2. QED
      BY <3>1 DEF ConnInv, ConnectedIsTrue
  <2>15. QED
    BY <2>2, <2>3, <2>4, <2>5, <2>6, <2>7, <2>8, <2>9, <2>10, <2>12, <2>13, <2>14 DEF Next, SwarmEvent
<1>3. ConnInv => ConnectedIsTrue
  BY DEF ConnInv
<1>4. QED
  BY <1>1, <1>2, <1>3, PTL DEF Spec

-----------------------------------------------------------------------------
(* The Raft node: logs as sequences *)

\* The first n entries of a are the first n of b.
Agree(a, b, n) == n <= Len(b) /\ \A i \in 1 .. n : a[i] = b[i]

LEMMA PrefixPointwise ==
    ASSUME NEW S, NEW a \in Seq(S), NEW b \in Seq(S), NEW n \in 0 .. Len(a)
    PROVE  IsPrefix(SubSeq(a, 1, n), b) <=> Agree(a, b, n)
BY DEF IsPrefix, Agree

LEMMA WholePrefix ==
    ASSUME NEW S, NEW a \in Seq(S), NEW b \in Seq(S)
    PROVE  IsPrefix(a, b) <=> Agree(a, b, Len(a))
BY DEF IsPrefix, Agree

LEMMA ConcatPointwise ==
    ASSUME NEW S, NEW a \in Seq(S), NEW b \in Seq(S)
    PROVE  /\ a \o b \in Seq(S) /\ Len(a \o b) = Len(a) + Len(b)
           /\ \A i \in 1 .. Len(a) : (a \o b)[i] = a[i]
           /\ \A j \in 1 .. Len(b) : (a \o b)[Len(a) + j] = b[j]
OBVIOUS

LEMMA MinOfTwo ==
    ASSUME NEW a \in Nat, NEW b \in Nat, a <= b
    PROVE  Min({a, b}) = a
BY DEF Min

LEMMA MinOfTwoSwapped ==
    ASSUME NEW a \in Nat, NEW b \in Nat, b <= a
    PROVE  Min({a, b}) = b
BY DEF Min

\* A function from a finite set to the naturals has a greatest value: among the
\* sets of arguments with a greater value than a given one, the least is empty.
LEMMA Greatest ==
    ASSUME NEW S, IsFiniteSet(S), S # {}, NEW f \in [S -> Nat]
    PROVE  \E s \in S : \A r \in S : f[r] <= f[s]
<1> DEFINE Above(s) == {r \in S : f[r] > f[s]}
           T == {Above(s) : s \in S}
<1>1. T \subseteq SUBSET S /\ T # {}
  <2>1. \A s \in S : Above(s) \subseteq S
    OBVIOUS
  <2>2. PICK s \in S : TRUE
    OBVIOUS
  <2>3. Above(s) \in T
    OBVIOUS
  <2>4. QED
    BY <2>1, <2>3
<1>2. IsWellFoundedOn(StrictSubsetOrdering(S), SUBSET S)
  BY FS_StrictSubsetOrderingWellFounded, FS_FiniteSubsetsOfFinite
<1>3. PICK X \in T : \A Y \in T : ~(<<Y, X>> \in StrictSubsetOrdering(S))
  <2> HIDE DEF T
  <2>1. QED
    BY <1>1, <1>2, WFMin
<1>4. PICK s \in S : X = Above(s)
  OBVIOUS
<1>5. SUFFICES ASSUME NEW r \in S, f[r] > f[s] PROVE FALSE
  OBVIOUS
<1>6. Above(r) \subseteq Above(s) /\ r \in Above(s) /\ r \notin Above(r)
  BY <1>5
<1>7. <<Above(r), X>> \in StrictSubsetOrdering(S)
  BY <1>4, <1>6 DEF StrictSubsetOrdering
<1>8. QED
  BY <1>3, <1>7

-----------------------------------------------------------------------------

(* What an honest history says of the leaders' logs. *)

Logs == history.logs
Commits == history.commits

\* The leaders' logs match one another, and hold what was committed before.
HistoryFacts ==
    /\ Logs \in [Terms -> Seq(Terms)] /\ Commits \in [Terms -> Nat]
    /\ \A t \in Terms :
         /\ Commits[t] <= Len(Logs[t])
         /\ \A i \in 1 .. Len(Logs[t]) : Logs[t][i] \in Terms /\ Agree(Logs[t], Logs[Logs[t][i]], i)
         /\ \A s \in 1 .. t : Agree(Logs[s], Logs[t], Commits[s])

LEMMA HonestHistory ==
    ASSUME history \in Histories
    PROVE  HistoryFacts
<1>1. Honest(history)
  BY RaftAssumption
<1>2. Logs \in [Terms -> Seq(Terms)] /\ Commits \in [Terms -> Nat]
  BY <1>1 DEF Honest, Logs, Commits
<1>3. ASSUME NEW t \in Terms
      PROVE  /\ Commits[t] <= Len(Logs[t])
             /\ \A i \in 1 .. Len(Logs[t]) : Logs[t][i] \in Terms /\ Agree(Logs[t], Logs[Logs[t][i]], i)
             /\ \A s \in 1 .. t : Agree(Logs[s], Logs[t], Commits[s])
  <2>1. /\ Commits[t] <= Len(Logs[t])
        /\ \A i \in DOMAIN Logs[t] : IsPrefix(SubSeq(Logs[t], 1, i), Logs[Logs[t][i]])
        /\ \A s \in 1 .. t : IsPrefix(SubSeq(Logs[s], 1, Commits[s]), Logs[t])
    BY <1>1 DEF Honest, Logs, Commits
  <2>2. ASSUME NEW i \in 1 .. Len(Logs[t])
        PROVE  Logs[t][i] \in Terms /\ Agree(Logs[t], Logs[Logs[t][i]], i)
    <3>1. Logs[t] \in Seq(Terms) /\ Logs[t][i] \in Terms /\ i \in DOMAIN Logs[t] /\ i \in 0 .. Len(Logs[t])
      BY <1>2
    <3>2. Logs[Logs[t][i]] \in Seq(Terms)
      BY <1>2, <3>1
    <3>3. QED
      BY <2>1, <3>1, <3>2, PrefixPointwise
  <2>3. ASSUME NEW s \in 1 .. t
        PROVE  Agree(Logs[s], Logs[t], Commits[s])
    <3>1. s \in Terms
      BY RaftAssumption DEF Terms
    <3>2. Logs[s] \in Seq(Terms) /\ Logs[t] \in Seq(Terms) /\ Commits[s] \in 0 .. Len(Logs[s])
      BY <1>1, <1>2, <3>1 DEF Honest, Logs, Commits
    <3>3. QED
      BY <2>1, <3>2, PrefixPointwise
  <2>4. QED
    BY <2>1, <2>2, <2>3
<1>4. QED
  BY <1>2, <1>3 DEF HistoryFacts

\* What any leader knows to be committed is committed in the end.
LEMMA CommittedFacts ==
    ASSUME HistoryFacts
    PROVE  /\ Committed \in Seq(Terms)
           /\ \A t \in Terms : Agree(Logs[t], Committed, Commits[t])
<1>1. \E s \in Terms : \A r \in Terms : Commits[r] <= Commits[s]
  <2>1. IsFiniteSet(1 .. MaxTerm) /\ 1 \in 1 .. MaxTerm
    BY RaftAssumption, FS_Interval
  <2>2. QED
    BY <2>1, Greatest DEF HistoryFacts, Terms
<1> DEFINE m == CHOOSE s \in Terms : \A r \in Terms : Commits[r] <= Commits[s]
<1>2. m \in Terms /\ \A r \in Terms : Commits[r] <= Commits[m]
  BY <1>1
<1>3. Committed = SubSeq(Logs[m], 1, Commits[m])
  BY DEF Committed, Logs, Commits
<1> HIDE DEF m
<1>4. Logs[m] \in Seq(Terms) /\ Commits[m] \in 0 .. Len(Logs[m])
  BY <1>2 DEF HistoryFacts
<1>5. Committed \in Seq(Terms) /\ Len(Committed) = Commits[m] /\ \A i \in 1 .. Commits[m] : Committed[i] = Logs[m][i]
  BY <1>3, <1>4
<1>6. ASSUME NEW t \in Terms PROVE Agree(Logs[t], Committed, Commits[t])
  <2>1. Commits[t] \in Nat /\ Commits[m] \in Nat /\ Commits[t] <= Commits[m] /\ t \in Nat /\ m \in Nat
    BY <1>2, RaftAssumption DEF HistoryFacts, Terms
  <2>2. CASE t <= m
    <3>1. t \in 1 .. m
      BY <2>2, <1>2, RaftAssumption DEF Terms
    <3>2. Agree(Logs[t], Logs[m], Commits[t])
      BY <1>2, <3>1 DEF HistoryFacts
    <3>3. QED
      BY <1>5, <2>1, <3>2 DEF Agree
  <2>3. CASE m <= t
    <3>1. m \in 1 .. t
      BY <2>3, <1>2, RaftAssumption DEF Terms
    <3>2. Agree(Logs[m], Logs[t], Commits[m])
      BY <3>1 DEF HistoryFacts
    <3>3. QED
      BY <1>5, <2>1, <3>2 DEF Agree
  <2>4. QED
    BY <2>1, <2>2, <2>3
<1>7. QED
  BY <1>5, <1>6

-----------------------------------------------------------------------------

(* The log of the node. *)

LogInv ==
    /\ history \in Histories
    /\ log \in Seq(Terms)
    /\ \A i \in 1 .. Len(log) : Agree(log, Logs[log[i]], i)

LEMMA LogInvImplies == LogInv => LogMatching
<1> SUFFICES ASSUME LogInv, NEW i \in DOMAIN log PROVE IsPrefix(SubSeq(log, 1, i), history.logs[log[i]])
  BY DEF LogMatching
<1>1. log \in Seq(Terms) /\ i \in 1 .. Len(log) /\ i \in 0 .. Len(log) /\ log[i] \in Terms /\ HistoryFacts
  BY HonestHistory DEF LogInv
<1>2. Logs[log[i]] \in Seq(Terms) /\ Agree(log, Logs[log[i]], i)
  BY <1>1 DEF LogInv, HistoryFacts
<1>3. IsPrefix(SubSeq(log, 1, i), Logs[log[i]])
  BY <1>1, <1>2, PrefixPointwise
<1>4. QED
  BY <1>3 DEF Logs

\* The test of the previous entry: where it holds, the log is the leader's so far.
LEMMA PrevAgrees ==
    ASSUME LogInv, NEW t \in Terms, NEW prev \in 0 .. Len(Logs[t]), PrevMatches(prev, Logs[t])
    PROVE  prev <= Len(log) /\ \A i \in 1 .. prev : log[i] = Logs[t][i]
<1>1. HistoryFacts /\ log \in Seq(Terms) /\ Logs[t] \in Seq(Terms)
  BY HonestHistory DEF LogInv, HistoryFacts
<1>2. CASE prev = 0
  BY <1>1, <1>2
<1>3. CASE prev # 0
  <2>1. prev \in 1 .. Len(log) /\ prev \in 1 .. Len(Logs[t]) /\ log[prev] = Logs[t][prev]
    BY <1>1, <1>3 DEF PrevMatches
  <2>2. Agree(log, Logs[log[prev]], prev) /\ Agree(Logs[t], Logs[Logs[t][prev]], prev)
    BY <1>1, <2>1 DEF LogInv, HistoryFacts
  <2>3. QED
    BY <2>1, <2>2 DEF Agree
<1>4. QED
  BY <1>2, <1>3

\* After the entries of a leader's request the log is the leader's as far as the
\* request goes.  It is otherwise as it was, or ends there, because it was no
\* longer or an entry of it was not the leader's.
LEMMA AppendedFacts ==
    ASSUME LogInv, NEW t \in Terms, NEW last \in 0 .. Len(Logs[t]), NEW prev \in 0 .. last, PrevMatches(prev, Logs[t]),
           NEW new, new = Appended(prev, SubSeq(Logs[t], prev + 1, last))
    PROVE  /\ new \in Seq(Terms) /\ last <= Len(new)
           /\ \A i \in 1 .. last : new[i] = Logs[t][i]
           /\ \/ new = log
              \/ /\ Len(new) = last
                 /\ Len(log) <= last \/ \E i \in 1 .. last : i <= Len(log) /\ log[i] # Logs[t][i]
<1>1. HistoryFacts /\ log \in Seq(Terms) /\ Logs[t] \in Seq(Terms) /\ last \in Nat /\ prev \in Nat
  BY HonestHistory DEF LogInv, HistoryFacts
<1>2. prev <= Len(log) /\ \A i \in 1 .. prev : log[i] = Logs[t][i]
  BY <1>1, PrevAgrees
<1> DEFINE entries == SubSeq(Logs[t], prev + 1, last)
           all == SubSeq(log, 1, prev) \o entries
           Same(i) == prev + i > Len(log) \/ log[prev + i] = entries[i]
           clash == {i \in DOMAIN entries : ~Same(i)}
<1>3. entries \in Seq(Terms) /\ Len(entries) = last - prev /\ \A i \in 1 .. last - prev : entries[i] = Logs[t][prev + i]
  BY <1>1
<1>4. DOMAIN entries = 1 .. last - prev
  BY <1>3
<1>5. new = IF clash # {} \/ Len(all) >= Len(log) THEN all ELSE log
  BY DEF Appended
<1>6. /\ all \in Seq(Terms) /\ Len(all) = last
      /\ \A i \in 1 .. last : all[i] = Logs[t][i]
  <2> HIDE DEF entries
  <2>1. SubSeq(log, 1, prev) \in Seq(Terms) /\ Len(SubSeq(log, 1, prev)) = prev
        /\ \A i \in 1 .. prev : SubSeq(log, 1, prev)[i] = log[i]
    BY <1>1, <1>2
  <2>2. /\ all \in Seq(Terms) /\ Len(all) = last
        /\ \A i \in 1 .. prev : all[i] = SubSeq(log, 1, prev)[i]
        /\ \A j \in 1 .. last - prev : all[prev + j] = entries[j]
    BY <1>1, <1>3, <2>1, ConcatPointwise
  <2> HIDE DEF all
  <2>3. ASSUME NEW i \in 1 .. last PROVE all[i] = Logs[t][i]
    <3>1. CASE i <= prev
      BY <1>1, <1>2, <2>1, <2>2, <3>1
    <3>2. CASE i > prev
      <4>1. PICK j \in 1 .. last - prev : i = prev + j
        <5>1. i - prev \in 1 .. last - prev /\ i = prev + (i - prev)
          BY <1>1, <3>2
        <5>2. QED
          BY <5>1
      <4>2. all[prev + j] = entries[j] /\ entries[j] = Logs[t][prev + j]
        BY <1>3, <2>2
      <4>3. QED
        BY <4>1, <4>2
    <3>3. QED
      BY <1>1, <3>1, <3>2
  <2>4. QED
    BY <2>2, <2>3
<1>7. CASE clash # {}
  <2>1. PICK i \in 1 .. last - prev : prev + i <= Len(log) /\ log[prev + i] # Logs[t][prev + i]
    <3>1. PICK i \in DOMAIN entries : ~(prev + i > Len(log)) /\ log[prev + i] # entries[i]
      BY <1>7
    <3>2. i \in 1 .. last - prev /\ entries[i] = Logs[t][prev + i]
      BY <1>3, <1>4, <3>1
    <3>3. prev + i <= Len(log)
      BY <1>1, <3>1, <3>2
    <3>4. log[prev + i] # Logs[t][prev + i]
      BY <3>1, <3>2
    <3>5. QED
      BY <3>2, <3>3, <3>4
  <2>2. prev + i \in 1 .. last
    BY <1>1
  <2> HIDE DEF all, clash
  <2>3. QED
    BY <1>5, <1>6, <1>7, <2>1, <2>2
<1>8. CASE clash = {} /\ Len(all) >= Len(log)
  <2> HIDE DEF all, clash
  <2>1. QED
    BY <1>1, <1>5, <1>6, <1>8
<1>9. CASE clash = {} /\ ~(Len(all) >= Len(log))
  <2>1. \A i \in 1 .. last - prev : prev + i > Len(log) \/ log[prev + i] = Logs[t][prev + i]
    BY <1>3, <1>4, <1>9
  <2> HIDE DEF all, clash
  <2>2. new = log /\ last < Len(log)
    BY <1>1, <1>5, <1>6, <1>9
  <2>3. ASSUME NEW i \in 1 .. last PROVE log[i] = Logs[t][i]
    <3>1. CASE i <= prev
      BY <1>1, <1>2, <3>1
    <3>2. CASE i > prev
      <4>1. i - prev \in 1 .. last - prev /\ prev + (i - prev) = i /\ i <= Len(log)
        BY <1>1, <2>2, <3>2
      <4>2. prev + (i - prev) > Len(log) \/ log[prev + (i - prev)] = Logs[t][prev + (i - prev)]
        BY <2>1, <4>1
      <4>3. i > Len(log) \/ log[i] = Logs[t][i]
        BY <4>1, <4>2
      <4>4. ~(i > Len(log))
        BY <1>1, <4>1
      <4>5. QED
        BY <4>3, <4>4
    <3>3. QED
      BY <1>1, <3>1, <3>2
  <2>4. QED
    BY <1>1, <2>2, <2>3
<1>10. QED
  BY <1>7, <1>8, <1>9

\* What a request of a leader does to the log.
LEMMA AppendLogInv ==
    ASSUME LogInv, NEW t \in Terms, NEW last \in 0 .. Len(Logs[t]), NEW prev \in 0 .. last,
           NEW leader_commit \in 0 .. Commits[t], handle_append_entries(t, prev, last, leader_commit)
    PROVE  LogInv'
<1>1. HistoryFacts /\ Logs[t] \in Seq(Terms) /\ log \in Seq(Terms) /\ history' = history /\ Logs' = Logs
  BY HonestHistory DEF LogInv, HistoryFacts, handle_append_entries, Logs
<1>2. CASE log' = log
  BY <1>1, <1>2 DEF LogInv
<1>3. CASE PrevMatches(prev, Logs[t]) /\ log' = Appended(prev, SubSeq(Logs[t], prev + 1, last)) /\ log' # log
  <2>1. log' \in Seq(Terms) /\ Len(log') = last /\ \A i \in 1 .. last : log'[i] = Logs[t][i]
    <3>1. LogInv /\ PrevMatches(prev, Logs[t])
      BY <1>3
    <3> DEFINE new == log'
    <3>2. new = Appended(prev, SubSeq(Logs[t], prev + 1, last)) /\ new # log
      BY <1>3
    <3> HIDE DEF new
    <3>3. /\ new \in Seq(Terms) /\ last <= Len(new)
          /\ \A i \in 1 .. last : new[i] = Logs[t][i]
          /\ \/ new = log
             \/ /\ Len(new) = last
                /\ Len(log) <= last \/ \E i \in 1 .. last : i <= Len(log) /\ log[i] # Logs[t][i]
      BY <3>1, <3>2, AppendedFacts
    <3>4. QED
      BY <3>2, <3>3 DEF new
  <2>2. ASSUME NEW i \in 1 .. last PROVE Agree(log', Logs[log'[i]], i)
    <3>1. i \in 1 .. Len(Logs[t]) /\ log'[i] = Logs[t][i]
      BY <1>1, <2>1
    <3>2. Agree(Logs[t], Logs[Logs[t][i]], i)
      BY <1>1, <3>1 DEF HistoryFacts
    <3>3. QED
      BY <2>1, <3>1, <3>2 DEF Agree
  <2>3. QED
    BY <1>1, <2>1, <2>2 DEF LogInv
<1>4. QED
  BY <1>2, <1>3 DEF handle_append_entries, Logs

LEMMA NextLogInv == LogInv /\ [RaftNext]_raftVars => LogInv'
<1> SUFFICES ASSUME LogInv, [RaftNext]_raftVars PROVE LogInv'
  OBVIOUS
<1>1. CASE UNCHANGED <<history, log>>
  BY <1>1 DEF LogInv, Logs
<1>2. CASE Timer \/ apply_committed_entries \/ UNCHANGED raftVars
  BY <1>1, <1>2 DEF Timer, election_timeout, become_candidate, increment_term, vote_for_self, apply_committed_entries,
                    raftVars, nodeVars
<1>3. CASE restart
  BY <1>3 DEF restart, LogInv
<1>4. CASE Rpc
  <2>1. ASSUME NEW t \in Terms, NEW last \in 0 .. Len(history.logs[t]), NEW prev \in 0 .. last,
               NEW leader_commit \in 0 .. history.commits[t], handle_append_entries(t, prev, last, leader_commit)
        PROVE  LogInv'
    BY <2>1, AppendLogInv DEF Logs, Commits
  <2>2. ASSUME NEW t, NEW c, NEW i, NEW l, handle_request_vote(t, c, i, l)
        PROVE  LogInv'
    BY <1>1, <2>2 DEF handle_request_vote
  <2>3. QED
    BY <1>4, <2>1, <2>2 DEF Rpc
<1>5. QED
  BY <1>2, <1>3, <1>4 DEF RaftNext

\* Every entry of the log is there with all that the leader of its term had
\* before it, in every execution.
THEOREM LogsMatch == RaftSpec => []LogMatching
<1>1. RaftInit => LogInv
  BY DEF RaftInit, LogInv
<1>2. QED
  BY <1>1, NextLogInv, LogInvImplies, PTL DEF RaftSpec

-----------------------------------------------------------------------------

(* The votes. *)

\* A vote granted since the last start is for the current term or an earlier one;
\* who got it in the current term still has it, or the timer has taken it.
GrantInv ==
    /\ current_term \in 0 .. MaxTerm /\ restarts \in 0 .. MaxRestarts
    /\ voted_for \in Candidates \cup {Self, None}
    /\ grants \subseteq (0 .. MaxRestarts) \X Terms \X Candidates
    /\ \A g \in grants :
         /\ g[1] <= restarts
         /\ g[1] = restarts => g[2] <= current_term
         /\ g[1] = restarts /\ g[2] = current_term => voted_for \in {g[3], Self}
    /\ OneGrantPerTerm

\* A request with a term at least as high is handled.
LEMMA AdoptFacts ==
    ASSUME GrantInv, NEW t \in Terms, t >= current_term, Adopt(t)
    PROVE  /\ current_term' = t /\ t \in Nat /\ current_term \in Nat
           /\ Vote(t) \in Candidates \cup {Self, None}
           /\ \A g \in grants : g[1] \in Nat /\ g[2] \in Nat /\ (g[1] = restarts => g[2] <= t)
           /\ \A g \in grants : g[1] = restarts /\ g[2] = t => Vote(t) \in {g[3], Self}
<1>1. t \in Nat /\ current_term \in Nat /\ current_term' = t
  BY RaftAssumption DEF GrantInv, Adopt, Terms
<1>2. \A g \in grants : g[1] \in Nat /\ g[2] \in Nat
  BY RaftAssumption DEF GrantInv, Terms
<1>3. QED
  BY <1>1, <1>2 DEF GrantInv, Vote

LEMMA VoteGrantInv ==
    ASSUME GrantInv, NEW t \in Terms, NEW c \in Candidates, NEW i, NEW l, handle_request_vote(t, c, i, l)
    PROVE  GrantInv'
<1> DEFINE grant == Vote(t) \in {None, c} /\ LogOk(i, l)
<1>1. /\ t >= current_term /\ Adopt(t) /\ restarts' = restarts
      /\ voted_for' = IF grant THEN c ELSE Vote(t)
      /\ grants' = IF grant THEN grants \cup {<<restarts, t, c>>} ELSE grants
  BY DEF handle_request_vote
<1>2. /\ current_term' = t /\ t \in Nat /\ current_term \in Nat
      /\ Vote(t) \in Candidates \cup {Self, None}
      /\ \A g \in grants : g[1] \in Nat /\ g[2] \in Nat /\ (g[1] = restarts => g[2] <= t)
      /\ \A g \in grants : g[1] = restarts /\ g[2] = t => Vote(t) \in {g[3], Self}
  BY <1>1, AdoptFacts
<1>3. t \in 0 .. MaxTerm /\ restarts \in Nat
  BY RaftAssumption DEF Terms, GrantInv
<1>4. CASE ~grant
  BY <1>1, <1>2, <1>3, <1>4 DEF GrantInv, OneGrantPerTerm
<1>5. CASE grant
  <2> DEFINE v == <<restarts, t, c>>
  <2>1. v \in (0 .. MaxRestarts) \X Terms \X Candidates /\ v[1] = restarts /\ v[2] = t /\ v[3] = c
    BY DEF GrantInv
  <2>2. grants' = grants \cup {v} /\ voted_for' = c /\ Vote(t) \in {None, c}
    BY <1>1, <1>5
  <2>3. \A g \in grants : g[1] = restarts /\ g[2] = t => g[3] = c /\ g = v
    <3> SUFFICES ASSUME NEW g \in grants, g[1] = restarts, g[2] = t PROVE g[3] = c /\ g = v
      OBVIOUS
    <3>1. g \in (0 .. MaxRestarts) \X Terms \X Candidates
      BY DEF GrantInv
    <3>2. Vote(t) \in {g[3], Self}
      BY <1>2
    <3>3. g[3] = c
      BY <2>2, <3>1, <3>2, RaftAssumption
    <3>4. g = <<g[1], g[2], g[3]>>
      BY <3>1
    <3>5. QED
      BY <3>3, <3>4
  <2> HIDE DEF v
  <2>4. OneGrantPerTerm'
    BY <2>1, <2>2, <2>3 DEF OneGrantPerTerm, GrantInv
  <2>5. grants' \subseteq (0 .. MaxRestarts) \X Terms \X Candidates
    BY <2>1, <2>2 DEF GrantInv
  <2>6. \A g \in grants' : /\ g[1] <= restarts
                           /\ g[1] = restarts => g[2] <= t
                           /\ g[1] = restarts /\ g[2] = t => g[3] = c
    BY <1>2, <1>3, <2>1, <2>2, <2>3 DEF GrantInv
  <2>7. QED
    BY <1>1, <1>2, <1>3, <2>2, <2>4, <2>5, <2>6 DEF GrantInv
<1>6. QED
  BY <1>4, <1>5

LEMMA AppendGrantInv ==
    ASSUME GrantInv, NEW t \in Terms, NEW prev, NEW last, NEW leader_commit,
           handle_append_entries(t, prev, last, leader_commit)
    PROVE  GrantInv'
<1>1. t >= current_term /\ Adopt(t) /\ voted_for' = Vote(t) /\ UNCHANGED <<grants, restarts>>
  BY DEF handle_append_entries
<1>2. t \in 0 .. MaxTerm
  BY RaftAssumption DEF Terms
<1>3. QED
  BY <1>1, <1>2, AdoptFacts DEF GrantInv, OneGrantPerTerm

LEMMA NextGrantInv == GrantInv /\ [RaftNext]_raftVars => GrantInv'
<1> SUFFICES ASSUME GrantInv, [RaftNext]_raftVars PROVE GrantInv'
  OBVIOUS
<1>1. current_term \in Nat /\ restarts \in Nat /\ MaxTerm \in Nat /\ MaxRestarts \in Nat
      /\ \A g \in grants : g[1] \in Nat /\ g[2] \in Nat
  BY RaftAssumption DEF GrantInv, Terms
<1>2. CASE UNCHANGED <<current_term, voted_for, grants, restarts>>
  BY <1>2 DEF GrantInv, OneGrantPerTerm
<1>3. CASE election_timeout \/ become_candidate \/ apply_committed_entries \/ UNCHANGED raftVars
  BY <1>2, <1>3 DEF election_timeout, become_candidate, apply_committed_entries, raftVars, nodeVars
<1>4. CASE increment_term
  <2>1. current_term' = current_term + 1 /\ current_term + 1 \in 0 .. MaxTerm /\ UNCHANGED <<voted_for, grants, restarts>>
    BY <1>1, <1>4 DEF increment_term
  <2>2. \A g \in grants : g[1] = restarts => g[2] < current_term + 1
    BY <1>1 DEF GrantInv
  <2>3. QED
    BY <1>1, <2>1, <2>2 DEF GrantInv, OneGrantPerTerm
<1>5. CASE vote_for_self
  BY <1>5 DEF vote_for_self, GrantInv, OneGrantPerTerm
<1>6. CASE restart
  <2>1. restarts' = restarts + 1 /\ restarts + 1 \in 0 .. MaxRestarts /\ current_term' = 0 /\ voted_for' = None /\ grants' = grants
    BY <1>1, <1>6 DEF restart
  <2>2. \A g \in grants : g[1] < restarts + 1
    BY <1>1 DEF GrantInv
  <2>3. QED
    BY <1>1, <2>1, <2>2 DEF GrantInv, OneGrantPerTerm
<1>7. CASE Rpc
  BY <1>7, AppendGrantInv, VoteGrantInv DEF Rpc
<1>8. QED
  BY <1>3, <1>4, <1>5, <1>6, <1>7 DEF RaftNext, Timer

\* In any execution, for any number of candidates and restarts, one candidate at
\* most is told in a term that it has the vote, between one start and the next.
THEOREM OneGrant == RaftSpec => []OneGrantPerTerm
<1>1. RaftInit => GrantInv
  BY RaftAssumption DEF RaftInit, GrantInv, OneGrantPerTerm
<1>2. GrantInv => OneGrantPerTerm
  BY DEF GrantInv
<1>3. QED
  BY <1>1, <1>2, NextGrantInv, PTL DEF RaftSpec

-----------------------------------------------------------------------------

(* The commit index and what is applied. *)

\* The committed part of the log is what the leader of a term that the node has
\* seen knows to be committed.
KnownCommit ==
    commit_index = 0 \/ \E s \in 1 .. current_term : commit_index <= Commits[s] /\ \A i \in 1 .. commit_index : log[i] = Logs[s][i]

\* What this start has given to the store.
Given == applied[restarts]

CommitInv ==
    /\ LogInv
    /\ current_term \in 0 .. MaxTerm
    /\ commit_index \in Nat /\ commit_index <= Len(log)
    /\ KnownCommit
    /\ last_applied \in 0 .. commit_index
    /\ halted \in BOOLEAN
    /\ Given \in Seq(Terms)
    /\ Agree(Given, Committed, Len(Given))
    /\ ~halted => Len(Given) = last_applied

LEMMA CommitInvFacts ==
    ASSUME CommitInv
    PROVE  /\ HistoryFacts /\ Committed \in Seq(Terms) /\ log \in Seq(Terms)
           /\ Agree(log, Committed, commit_index)
<1>1. HistoryFacts /\ log \in Seq(Terms)
  BY HonestHistory DEF CommitInv, LogInv
<1>2. Committed \in Seq(Terms) /\ \A t \in Terms : Agree(Logs[t], Committed, Commits[t])
  BY <1>1, CommittedFacts
<1>3. ASSUME commit_index = 0 PROVE Agree(log, Committed, commit_index)
  <2>1. Len(Committed) \in Nat
    BY <1>2
  <2>2. QED
    BY <1>3, <2>1 DEF Agree
<1>4. ASSUME commit_index # 0 PROVE Agree(log, Committed, commit_index)
  <2>1. PICK s \in 1 .. current_term : commit_index <= Commits[s] /\ \A i \in 1 .. commit_index : log[i] = Logs[s][i]
    BY <1>4 DEF CommitInv, KnownCommit
  <2>2. s \in Terms
    BY RaftAssumption DEF CommitInv, Terms
  <2>3. Commits[s] \in Nat /\ commit_index \in Nat /\ Agree(Logs[s], Committed, Commits[s])
    BY <1>1, <1>2, <2>2 DEF CommitInv, HistoryFacts
  <2>4. Commits[s] <= Len(Committed) /\ Len(Committed) \in Nat /\ \A i \in 1 .. Commits[s] : Logs[s][i] = Committed[i]
    BY <1>2, <2>3 DEF Agree
  <2>5. commit_index <= Len(Committed) /\ \A i \in 1 .. commit_index : i \in 1 .. Commits[s]
    BY <2>1, <2>3, <2>4
  <2>6. QED
    BY <2>1, <2>4, <2>5 DEF Agree
<1>5. QED
  BY <1>1, <1>2, <1>3, <1>4

LEMMA CommitInvImplies == CommitInv => CommittedIsCommitted /\ IsPrefix(Given, Committed)
<1> SUFFICES ASSUME CommitInv PROVE CommittedIsCommitted /\ IsPrefix(Given, Committed)
  OBVIOUS
<1>1. Committed \in Seq(Terms) /\ log \in Seq(Terms) /\ Agree(log, Committed, commit_index)
  BY CommitInvFacts
<1>2. commit_index \in 0 .. Len(log) /\ commit_index <= Len(log)
  BY DEF CommitInv
<1>3. CommittedIsCommitted
  BY <1>1, <1>2, PrefixPointwise DEF CommittedIsCommitted
<1>4. Given \in Seq(Terms) /\ Agree(Given, Committed, Len(Given))
  BY DEF CommitInv
<1> HIDE DEF Given
<1>5. IsPrefix(Given, Committed)
  BY <1>1, <1>4, WholePrefix
<1>6. QED
  BY <1>3, <1>5

\* A leader that the node listens to has the committed part of the node's log.
LEMMA LeaderHasCommit ==
    ASSUME CommitInv, NEW t \in Terms, t >= current_term, NEW i \in 1 .. commit_index
    PROVE  i <= Len(Logs[t]) /\ log[i] = Logs[t][i]
<1>1. HistoryFacts /\ Logs[t] \in Seq(Terms) /\ commit_index \in Nat /\ current_term \in Nat /\ t \in Nat
  BY HonestHistory, RaftAssumption DEF CommitInv, LogInv, HistoryFacts, Terms
<1>2. PICK s \in 1 .. current_term : commit_index <= Commits[s] /\ \A j \in 1 .. commit_index : log[j] = Logs[s][j]
  BY DEF CommitInv, KnownCommit
<1>3. s \in 1 .. t /\ s \in Terms
  BY <1>1, RaftAssumption DEF Terms
<1>4. Agree(Logs[s], Logs[t], Commits[s]) /\ Commits[s] \in Nat
  BY <1>1, <1>3 DEF HistoryFacts
<1>5. QED
  BY <1>1, <1>2, <1>4 DEF Agree

\* A leader's request leaves the committed part alone, and raises the commit index
\* only over entries that are the leader's, or over a leftover.
LEMMA AppendCommitInv ==
    ASSUME CommitInv, restarts \notin leftovers', NEW t \in Terms, NEW last \in 0 .. Len(Logs[t]), NEW prev \in 0 .. last,
           NEW leader_commit \in 0 .. Commits[t], handle_append_entries(t, prev, last, leader_commit)
    PROVE  CommitInv'
<1>1. /\ HistoryFacts /\ Logs[t] \in Seq(Terms) /\ log \in Seq(Terms) /\ Commits[t] \in Nat
      /\ commit_index \in Nat /\ commit_index <= Len(log) /\ current_term \in Nat /\ t \in 1 .. MaxTerm /\ t \in Nat
  BY HonestHistory, RaftAssumption DEF CommitInv, LogInv, HistoryFacts, Terms
<1>2. /\ t >= current_term /\ ~halted /\ Given' = Given
      /\ UNCHANGED <<history, last_applied, halted, applied, restarts>> /\ Adopt(t)
  BY DEF handle_append_entries, Given
<1>3. current_term' = t /\ Logs' = Logs /\ Commits' = Commits /\ Committed' = Committed
  BY <1>1, <1>2 DEF Adopt, Logs, Commits, Committed
<1>4. LogInv'
  BY AppendLogInv DEF CommitInv
<1>5. \A i \in 1 .. commit_index : i <= Len(Logs[t]) /\ log[i] = Logs[t][i]
  BY <1>2, LeaderHasCommit
<1>6. CASE UNCHANGED <<log, commit_index>>
  <2>1. KnownCommit'
    BY <1>1, <1>2, <1>3, <1>6 DEF CommitInv, KnownCommit
  <2>2. QED
    BY <1>1, <1>2, <1>3, <1>4, <1>6, <2>1 DEF CommitInv, Agree
<1>7. CASE PrevMatches(prev, Logs[t]) /\ log' = Appended(prev, SubSeq(Logs[t], prev + 1, last))
           /\ commit_index' = Commit(leader_commit, log')
           /\ ~(leader_commit > commit_index /\ Leftover(Logs[t], last, log', commit_index'))
  <2>1. /\ log' \in Seq(Terms) /\ last <= Len(log')
        /\ \A i \in 1 .. last : log'[i] = Logs[t][i]
        /\ \/ log' = log
           \/ /\ Len(log') = last
              /\ Len(log) <= last \/ \E i \in 1 .. last : i <= Len(log) /\ log[i] # Logs[t][i]
    <3>1. LogInv /\ PrevMatches(prev, Logs[t])
      BY <1>7 DEF CommitInv
    <3> DEFINE new == log'
    <3>2. new = Appended(prev, SubSeq(Logs[t], prev + 1, last))
      BY <1>7
    <3> HIDE DEF new
    <3>3. /\ new \in Seq(Terms) /\ last <= Len(new)
          /\ \A i \in 1 .. last : new[i] = Logs[t][i]
          /\ \/ new = log
             \/ /\ Len(new) = last
                /\ Len(log) <= last \/ \E i \in 1 .. last : i <= Len(log) /\ log[i] # Logs[t][i]
      BY <3>1, <3>2, AppendedFacts
    <3>4. QED
      BY <3>3 DEF new
  <2>2. last \in Nat /\ leader_commit \in Nat /\ Len(log') \in Nat /\ Len(log) \in Nat
    BY <1>1, <2>1
  <2>3. commit_index <= Len(log') /\ \A i \in 1 .. commit_index : log'[i] = log[i]
    <3>1. CASE log' = log
      BY <1>1, <3>1
    <3>2. CASE log' # log
      <4>1. commit_index <= last
        <5>1. CASE Len(log) <= last
          BY <1>1, <2>2, <5>1
        <5>2. CASE \E i \in 1 .. last : i <= Len(log) /\ log[i] # Logs[t][i]
          <6>1. PICK i \in 1 .. last : log[i] # Logs[t][i]
            BY <5>2
          <6>2. i \notin 1 .. commit_index /\ i \in Nat /\ i >= 1 /\ i <= last
            BY <1>5, <2>2, <6>1
          <6>3. QED
            BY <1>1, <2>2, <6>2
        <5>3. QED
          BY <2>1, <3>2, <5>1, <5>2
      <4>2. QED
        BY <1>1, <1>5, <2>1, <2>2, <4>1
    <3>3. QED
      BY <3>1, <3>2
  <2>4. CASE leader_commit > commit_index
    <3> DEFINE n == Len(log')
               m == Min({leader_commit, n})
    <3>0. n \in Nat /\ leader_commit \in Nat /\ leader_commit <= Commits[t] /\ commit_index <= n
      BY <1>1, <2>2, <2>3
    <3> HIDE DEF n
    <3>1. m \in Nat /\ m <= leader_commit /\ m <= n /\ commit_index <= m
      BY <1>1, <2>4, <3>0, MinOfTwo, MinOfTwoSwapped
    <3>2. commit_index' = m
      BY <1>7, <2>4 DEF Commit, n
    <3> HIDE DEF m
    <3>3. KnownCommit'
      <4>1. ASSUME NEW i \in 1 .. m PROVE log'[i] = Logs[t][i]
        <5>1. CASE i <= last
          BY <2>1, <2>2, <3>1, <5>1
        <5>2. CASE ~(i <= last)
          <6>1. i \in last + 1 .. commit_index'
            BY <2>2, <3>1, <3>2, <5>2
          <6>2. QED
            BY <1>7, <2>4, <6>1 DEF Leftover
        <5>3. QED
          BY <5>1, <5>2
      <4>2. t \in 1 .. current_term' /\ m <= Commits[t]
        BY <1>1, <1>3, <3>0, <3>1
      <4>3. QED
        BY <1>3, <3>2, <4>1, <4>2 DEF KnownCommit
    <3>4. last_applied \in 0 .. m /\ m <= Len(log')
      BY <1>1, <3>1 DEF CommitInv, n
    <3>5. current_term' \in 0 .. MaxTerm
      BY <1>1, <1>3, RaftAssumption
    <3>6. QED
      BY <1>2, <1>3, <1>4, <2>2, <3>1, <3>2, <3>3, <3>4, <3>5 DEF CommitInv, Agree
  <2>5. CASE ~(leader_commit > commit_index)
    <3>1. commit_index' = commit_index
      BY <1>7, <2>5 DEF Commit
    <3>2. KnownCommit'
      <4>1. t \in 1 .. current_term'
        BY <1>1, <1>3
      <4>2. CASE commit_index # 0
        <5>1. PICK s \in 1 .. current_term : commit_index <= Commits[s] /\ \A i \in 1 .. commit_index : log[i] = Logs[s][i]
          BY <4>2 DEF CommitInv, KnownCommit
        <5>2. s \in 1 .. current_term'
          BY <1>1, <1>2, <1>3
        <5>3. QED
          BY <1>3, <2>3, <3>1, <5>1, <5>2 DEF KnownCommit
      <4>3. QED
        BY <3>1, <4>2 DEF KnownCommit
    <3>3. current_term' \in 0 .. MaxTerm
      BY <1>1, <1>3, RaftAssumption
    <3>4. QED
      BY <1>2, <1>3, <1>4, <2>3, <3>1, <3>2, <3>3 DEF CommitInv, Agree
  <2>6. QED
    BY <2>4, <2>5
<1>8. PrevMatches(prev, Logs[t]) => ~(leader_commit > commit_index /\ Leftover(Logs[t], last, log', commit_index'))
  BY <1>2 DEF handle_append_entries, Logs
<1>9. QED
  BY <1>6, <1>7, <1>8 DEF handle_append_entries, Logs

\* Raising the term, by the timer or by a request for a vote, leaves the log alone.
LEMMA TermCommitInv ==
    ASSUME CommitInv, current_term' \in 0 .. MaxTerm, current_term' >= current_term,
           UNCHANGED <<history, log, commit_index, last_applied, halted, applied, restarts>>
    PROVE  CommitInv'
<1>1. LogInv' /\ Logs' = Logs /\ Commits' = Commits /\ Committed' = Committed
  BY DEF CommitInv, LogInv, Logs, Commits, Committed
<1>2. KnownCommit'
  <2>1. 1 .. current_term \subseteq 1 .. current_term'
    BY RaftAssumption DEF CommitInv
  <2>2. QED
    BY <1>1, <2>1 DEF CommitInv, KnownCommit
<1>3. Given' = Given
  BY DEF Given
<1>4. QED
  BY <1>1, <1>2, <1>3 DEF CommitInv, Agree

\* What is applied next is the next part of the committed log.
LEMMA ApplyCommitInv ==
    ASSUME CommitInv, applied \in [0 .. MaxRestarts -> Seq(Terms)], restarts \in 0 .. MaxRestarts, apply_committed_entries
    PROVE  CommitInv'
<1>1. /\ Committed \in Seq(Terms) /\ log \in Seq(Terms) /\ Agree(log, Committed, commit_index)
  BY CommitInvFacts
<1>2. /\ commit_index \in Nat /\ commit_index <= Len(log) /\ last_applied \in Nat /\ Given \in Seq(Terms)
      /\ Agree(Given, Committed, last_applied) /\ Len(Given) = last_applied /\ last_applied < commit_index
  BY DEF CommitInv, apply_committed_entries
<1>3. UNCHANGED <<history, current_term, log, commit_index, restarts>>
  BY DEF apply_committed_entries
<1>4. /\ LogInv' /\ KnownCommit' /\ Committed' = Committed
  BY <1>3 DEF CommitInv, LogInv, Logs, KnownCommit, Commits, Committed
<1>5. PICK n \in last_applied .. commit_index :
        /\ Given' = Given \o SubSeq(log, last_applied + 1, n)
        /\ last_applied' \in 0 .. commit_index
        /\ \/ last_applied' = n /\ halted' = halted
           \/ halted' = TRUE
  <2>1. \A m : applied' = Give(m) => Given' = Given \o SubSeq(log, last_applied + 1, m)
    BY <1>3 DEF Give, Given
  <2>2. CASE last_applied' = commit_index /\ applied' = Give(commit_index) /\ halted' = halted
    <3> DEFINE m == commit_index
    <3>1. Given' = Given \o SubSeq(log, last_applied + 1, m)
      BY <2>1, <2>2
    <3>2. m \in last_applied .. commit_index /\ last_applied' \in 0 .. commit_index /\ last_applied' = m /\ halted' = halted
      BY <1>2, <2>2
    <3> HIDE DEF m
    <3>3. QED
      BY <3>1, <3>2
  <2>3. CASE \E n \in last_applied + 1 .. commit_index : last_applied' = n /\ applied' = Give(n - 1) /\ halted' = TRUE
    <3>1. PICK n \in last_applied + 1 .. commit_index : last_applied' = n /\ applied' = Give(n - 1) /\ halted' = TRUE
      BY <2>3
    <3>2. n - 1 \in last_applied .. commit_index /\ n \in 0 .. commit_index
      BY <1>2
    <3> DEFINE m == n - 1
    <3>3. Given' = Given \o SubSeq(log, last_applied + 1, m)
      BY <2>1, <3>1
    <3>4. m \in last_applied .. commit_index /\ last_applied' \in 0 .. commit_index /\ halted' = TRUE
      BY <3>1, <3>2
    <3> HIDE DEF m
    <3>5. QED
      BY <3>3, <3>4
  <2>4. Min({commit_index, Len(log)}) = commit_index
    <3> DEFINE l == Len(log)
    <3>1. l \in Nat /\ commit_index <= l
      BY <1>1, <1>2
    <3> HIDE DEF l
    <3>2. Min({commit_index, l}) = commit_index
      BY <1>2, <3>1, MinOfTwo
    <3>3. QED
      BY <3>2 DEF l
  <2>5. ~(commit_index > Len(log))
    BY <1>1, <1>2
  <2>6. QED
    BY <2>2, <2>3, <2>4, <2>5 DEF apply_committed_entries
<1> DEFINE next == SubSeq(log, last_applied + 1, n)
<1>6. /\ next \in Seq(Terms) /\ Len(next) = n - last_applied
      /\ \A j \in 1 .. n - last_applied : next[j] = log[last_applied + j]
  BY <1>1, <1>2
<1>7. Given' = Given \o next
  BY <1>5
<1> HIDE DEF next
<1>8. /\ Given' \in Seq(Terms) /\ Len(Given') = n
      /\ \A i \in 1 .. last_applied : Given'[i] = Given[i]
      /\ \A j \in 1 .. n - last_applied : Given'[last_applied + j] = next[j]
  <2> DEFINE new == Given'
             m == n - last_applied
  <2>1. m \in Nat /\ last_applied + m = n
    BY <1>2
  <2>2. Given \in Seq(Terms) /\ next \in Seq(Terms) /\ Len(Given) = last_applied /\ Len(next) = m
    BY <1>2, <1>6
  <2>3. new = Given \o next
    BY <1>7
  <2> HIDE DEF new, m, Given
  <2>4. Given \in Seq(Terms) /\ next \in Seq(Terms)
    BY <2>2
  <2>5. /\ Given \o next \in Seq(Terms) /\ Len(Given \o next) = Len(Given) + Len(next)
        /\ \A i \in 1 .. Len(Given) : (Given \o next)[i] = Given[i]
        /\ \A j \in 1 .. Len(next) : (Given \o next)[Len(Given) + j] = next[j]
    BY <2>4, ConcatPointwise
  <2>6. /\ Given \o next \in Seq(Terms) /\ Len(Given \o next) = last_applied + m
        /\ \A i \in 1 .. last_applied : (Given \o next)[i] = Given[i]
        /\ \A j \in 1 .. m : (Given \o next)[last_applied + j] = next[j]
    <3> DEFINE all == Given \o next
    <3>1. /\ all \in Seq(Terms) /\ Len(all) = Len(Given) + Len(next)
          /\ \A i \in 1 .. Len(Given) : all[i] = Given[i]
          /\ \A j \in 1 .. Len(next) : all[Len(Given) + j] = next[j]
      BY <2>5
    <3> SUFFICES /\ all \in Seq(Terms) /\ Len(all) = last_applied + m
                 /\ \A i \in 1 .. last_applied : all[i] = Given[i]
                 /\ \A j \in 1 .. m : all[last_applied + j] = next[j]
      OBVIOUS
    <3>2. Len(Given) = last_applied /\ Len(next) = m
      BY <2>2
    <3> HIDE DEF all
    <3>3. QED
      BY ONLY <3>1, <3>2
  <2>7. QED
    BY <2>1, <2>3, <2>6 DEF new, m
<1>9. ASSUME NEW i \in 1 .. n PROVE Given'[i] = Committed[i]
  <2>1. CASE i <= last_applied
    BY <1>2, <1>8, <2>1 DEF Agree
  <2>2. CASE i > last_applied
    <3>1. PICK j \in 1 .. n - last_applied : i = last_applied + j
      <4>1. i - last_applied \in 1 .. n - last_applied /\ i = last_applied + (i - last_applied)
        BY <1>2, <2>2
      <4>2. QED
        BY <4>1
    <3>2. Given'[i] = next[j] /\ next[j] = log[last_applied + j]
      BY <1>6, <1>8, <3>1
    <3>3. i \in 1 .. commit_index
      BY <1>2, <1>5
    <3>4. log[i] = Committed[i]
      BY <1>1, <3>3 DEF Agree
    <3>5. QED
      BY <3>1, <3>2, <3>4
  <2>3. QED
    BY <1>2, <2>1, <2>2
<1>10. Agree(Given', Committed, n)
  BY <1>1, <1>2, <1>9 DEF Agree
<1>11. QED
  BY <1>2, <1>3, <1>4, <1>5, <1>8, <1>10 DEF CommitInv, Agree

LEMMA InitCommitInv == RaftInit => CommitInv
<1> SUFFICES ASSUME RaftInit PROVE CommitInv
  OBVIOUS
<1>1. LogInv
  BY DEF RaftInit, LogInv
<1>2. Committed \in Seq(Terms)
  BY <1>1, HonestHistory, CommittedFacts DEF LogInv
<1>3. 0 \in 0 .. MaxTerm /\ 0 \in 0 .. 0 /\ Len(<<>>) = 0 /\ <<>> \in Seq(Terms) /\ Len(Committed) \in Nat
  BY <1>2, RaftAssumption
<1>4. Given = <<>>
  BY RaftAssumption DEF RaftInit, Given
<1>5. Agree(Given, Committed, Len(Given))
  BY <1>3, <1>4 DEF Agree
<1>6. KnownCommit
  BY DEF RaftInit, KnownCommit
<1>7. /\ current_term \in 0 .. MaxTerm /\ commit_index \in Nat /\ commit_index <= Len(log)
      /\ last_applied \in 0 .. commit_index /\ Given \in Seq(Terms)
  BY <1>3, <1>4 DEF RaftInit
<1>8. halted \in BOOLEAN /\ (~halted => Len(Given) = last_applied)
  BY <1>3, <1>4 DEF RaftInit
<1>9. QED
  BY <1>1, <1>5, <1>6, <1>7, <1>8 DEF CommitInv

-----------------------------------------------------------------------------

(* All starts together. *)

\* What is well typed whatever the requests: the commit index may be past the end
\* of the log, and what is applied past the commit index.
StartsOK ==
    /\ LogInv /\ GrantInv
    /\ commit_index \in Nat /\ last_applied \in Nat /\ halted \in BOOLEAN
    /\ state \in {"Follower", "Candidate"} /\ timer \in {"sleep", "state", "term", "vote"}
    /\ applied \in [0 .. MaxRestarts -> Seq(Terms)]
    /\ leftovers \subseteq 0 .. restarts

LEMMA MaxOfTwo ==
    ASSUME NEW a \in Nat, NEW b \in Nat
    PROVE  Max({a, b}) \in Nat
<1>1. CASE a <= b
  BY <1>1 DEF Max
<1>2. CASE b <= a
  BY <1>2 DEF Max
<1>3. QED
  BY <1>1, <1>2

LEMMA GiveFacts ==
    ASSUME StartsOK, NEW n \in Nat, n <= Len(log), applied' = Give(n)
    PROVE  /\ applied' \in [0 .. MaxRestarts -> Seq(Terms)]
           /\ \A r \in 0 .. MaxRestarts : r # restarts => applied'[r] = applied[r]
<1>1. log \in Seq(Terms) /\ last_applied \in Nat /\ restarts \in 0 .. MaxRestarts /\ Given \in Seq(Terms)
  BY DEF StartsOK, LogInv, GrantInv, Given
<1> DEFINE next == SubSeq(log, last_applied + 1, n)
<1>2. next \in Seq(Terms)
  BY <1>1
<1> HIDE DEF next
<1>3. Given \o next \in Seq(Terms)
  <2> HIDE DEF Given
  <2>1. QED
    BY <1>1, <1>2, ConcatPointwise
<1> DEFINE given == Given \o next
<1>4. applied' = [applied EXCEPT ![restarts] = given]
  BY DEF Give, Given, next
<1> HIDE DEF given
<1>5. given \in Seq(Terms)
  BY <1>3 DEF given
<1>6. QED
  BY <1>1, <1>4, <1>5 DEF StartsOK

LEMMA NextStartsOK == StartsOK /\ [RaftNext]_raftVars => StartsOK'
<1> SUFFICES ASSUME StartsOK, [RaftNext]_raftVars PROVE StartsOK'
  OBVIOUS
<1>1. LogInv' /\ GrantInv'
  BY NextLogInv, NextGrantInv DEF StartsOK
<1>2. restarts \in Nat /\ log \in Seq(Terms) /\ Len(log) \in Nat /\ commit_index \in Nat /\ last_applied \in Nat
  BY RaftAssumption DEF StartsOK, GrantInv, LogInv
<1>3. CASE Timer \/ UNCHANGED raftVars
  BY <1>1, <1>3 DEF StartsOK, Timer, election_timeout, become_candidate, increment_term, vote_for_self, raftVars, nodeVars
<1>4. CASE apply_committed_entries
  <2>1. PICK n \in Nat : n <= Len(log) /\ applied' = Give(n) /\ last_applied' \in Nat /\ halted' \in BOOLEAN
    <3>1. CASE /\ commit_index <= Len(log) /\ last_applied' = commit_index /\ applied' = Give(commit_index) /\ halted' = halted
      BY <1>2, <3>1 DEF StartsOK
    <3>2. CASE \E n \in last_applied + 1 .. Min({commit_index, Len(log)}) :
                 last_applied' = n /\ applied' = Give(n - 1) /\ halted' = TRUE
      <4> DEFINE l == Len(log)
      <4>1. PICK n \in last_applied + 1 .. Min({commit_index, l}) : last_applied' = n /\ applied' = Give(n - 1) /\ halted' = TRUE
        BY <3>2
      <4>2. l \in Nat
        BY <1>2
      <4> HIDE DEF l
      <4>3. Min({commit_index, l}) \in Nat /\ Min({commit_index, l}) <= l
        BY <1>2, <4>2, MinOfTwo, MinOfTwoSwapped
      <4>4. n \in Nat /\ n - 1 \in Nat /\ n - 1 <= l
        BY <1>2, <4>2, <4>3
      <4>5. QED
        BY <4>1, <4>4 DEF l
    <3>3. CASE /\ last_applied' = Max({last_applied, Len(log)}) + 1 /\ applied' = Give(Len(log)) /\ halted' = TRUE
      <4> DEFINE l == Len(log)
      <4>1. l \in Nat /\ last_applied' = Max({last_applied, l}) + 1
        BY <1>2, <3>3
      <4> HIDE DEF l
      <4>2. last_applied' \in Nat
        BY <1>2, <4>1, MaxOfTwo
      <4>3. QED
        BY <1>2, <3>3, <4>2
    <3>4. QED
      BY <1>4, <3>1, <3>2, <3>3 DEF apply_committed_entries
  <2>2. applied' \in [0 .. MaxRestarts -> Seq(Terms)]
    BY <2>1, GiveFacts
  <2>3. UNCHANGED <<commit_index, state, timer, leftovers, restarts>>
    BY <1>4 DEF apply_committed_entries
  <2>4. QED
    BY <1>1, <2>1, <2>2, <2>3 DEF StartsOK
<1>5. CASE restart
  <2>1. leftovers' \subseteq 0 .. restarts'
    BY <1>2, <1>5 DEF restart, StartsOK
  <2>2. QED
    BY <1>1, <1>5, <2>1 DEF restart, StartsOK
<1>6. ASSUME NEW t \in Terms, NEW last, NEW prev, NEW leader_commit \in 0 .. history.commits[t],
             handle_append_entries(t, prev, last, leader_commit)
      PROVE  StartsOK'
  <2>1. commit_index' \in Nat
    <3>1. CASE commit_index' = commit_index
      BY <1>2, <3>1
    <3>2. CASE commit_index' = Commit(leader_commit, log') /\ commit_index' # commit_index
      <4> DEFINE l == Len(log')
      <4>1. commit_index' = Min({leader_commit, l})
        BY <3>2 DEF Commit
      <4>2. history.commits[t] \in Nat
        BY HonestHistory DEF StartsOK, LogInv, HistoryFacts, Commits
      <4>3. leader_commit \in Nat /\ l \in Nat
        BY <1>1, <4>2 DEF LogInv
      <4> HIDE DEF l
      <4>4. QED
        BY <4>1, <4>3, MinOfTwo, MinOfTwoSwapped
    <3>3. QED
      BY <1>6, <3>1, <3>2 DEF handle_append_entries
  <2>2. leftovers' \subseteq 0 .. restarts
    <3>1. leftovers' = leftovers \/ leftovers' = leftovers \cup {restarts}
      BY <1>6 DEF handle_append_entries
    <3>2. restarts \in 0 .. restarts /\ leftovers \subseteq 0 .. restarts
      BY <1>2 DEF StartsOK
    <3>3. QED
      BY <3>1, <3>2
  <2>3. state' \in {"Follower", "Candidate"} /\ UNCHANGED <<last_applied, halted, timer, applied, restarts>>
    BY <1>6 DEF handle_append_entries, Adopt, StartsOK
  <2>4. QED
    BY <1>1, <2>1, <2>2, <2>3 DEF StartsOK
<1>7. ASSUME NEW t, NEW c, NEW i, NEW l, handle_request_vote(t, c, i, l)
      PROVE  StartsOK'
  BY <1>1, <1>7 DEF handle_request_vote, Adopt, StartsOK
<1>8. QED
  BY <1>3, <1>4, <1>5, <1>6, <1>7 DEF RaftNext, Rpc

LEMMA InitStartsOK == RaftInit => StartsOK
<1> SUFFICES ASSUME RaftInit PROVE StartsOK
  OBVIOUS
<1>1. <<>> \in Seq(Terms)
  OBVIOUS
<1>2. GrantInv /\ LogInv
  BY RaftAssumption DEF RaftInit, GrantInv, OneGrantPerTerm, LogInv
<1>3. QED
  BY <1>1, <1>2 DEF RaftInit, StartsOK

\* Earlier starts have given what is committed, later ones nothing yet, and this
\* one is as CommitInv says: each unless the commit index went over a leftover.
RaftInv ==
    /\ StartsOK
    /\ restarts \notin leftovers => CommitInv
    /\ \A r \in 0 .. MaxRestarts : r < restarts => r \in leftovers \/ IsPrefix(applied[r], Committed)
    /\ \A r \in 0 .. MaxRestarts : r > restarts => applied[r] = <<>>

LEMMA RaftInvImplies == RaftInv => CommittedUnlessLeftover /\ AppliedUnlessLeftover
<1> SUFFICES ASSUME RaftInv PROVE CommittedUnlessLeftover /\ AppliedUnlessLeftover
  OBVIOUS
<1>1. restarts \in Nat /\ Committed \in Seq(Terms)
  BY RaftAssumption, HonestHistory, CommittedFacts DEF RaftInv, StartsOK, GrantInv, LogInv
<1>2. restarts \notin leftovers => CommittedIsCommitted /\ IsPrefix(applied[restarts], Committed)
  BY CommitInvImplies DEF RaftInv, Given
<1>3. ASSUME NEW r \in 0 .. MaxRestarts, r \notin leftovers PROVE IsPrefix(applied[r], Committed)
  <2>1. CASE r < restarts
    BY <1>3, <2>1 DEF RaftInv
  <2>2. CASE r = restarts
    BY <1>2, <1>3, <2>2
  <2>3. CASE r > restarts
    <3>1. applied[r] = <<>>
      BY <2>3 DEF RaftInv
    <3>2. <<>> \in Seq(Terms) /\ Len(<<>>) = 0 /\ Len(Committed) \in Nat
      BY <1>1
    <3>3. Agree(<<>>, Committed, Len(<<>>))
      BY <3>2 DEF Agree
    <3>4. QED
      BY <1>1, <3>1, <3>2, <3>3, WholePrefix
  <2>4. QED
    BY <1>1, <2>1, <2>2, <2>3
<1>4. QED
  BY <1>2, <1>3 DEF CommittedUnlessLeftover, AppliedUnlessLeftover

LEMMA NextRaftInv == RaftInv /\ [RaftNext]_raftVars => RaftInv'
<1> SUFFICES ASSUME RaftInv, [RaftNext]_raftVars PROVE RaftInv'
  OBVIOUS
<1>1. StartsOK'
  BY NextStartsOK DEF RaftInv
<1>2. /\ restarts \in Nat /\ restarts \in 0 .. MaxRestarts /\ MaxRestarts \in Nat /\ leftovers \subseteq 0 .. restarts
      /\ current_term \in 0 .. MaxTerm /\ MaxTerm \in Nat
      /\ applied \in [0 .. MaxRestarts -> Seq(Terms)]
  BY RaftAssumption DEF RaftInv, StartsOK, GrantInv
<1>3. history' = history /\ Committed' = Committed
  BY DEF Committed, RaftNext, Rpc, Timer, election_timeout, become_candidate, increment_term, vote_for_self, handle_append_entries,
         handle_request_vote, apply_committed_entries, restart, raftVars, nodeVars
<1>4. ASSUME UNCHANGED <<applied, restarts>>, leftovers \subseteq leftovers', restarts \notin leftovers' => CommitInv'
      PROVE  RaftInv'
  BY <1>1, <1>3, <1>4 DEF RaftInv
<1>5. CASE UNCHANGED raftVars \/ election_timeout \/ become_candidate \/ vote_for_self
  <2>1. UNCHANGED <<history, current_term, log, commit_index, last_applied, halted, applied, leftovers, restarts>>
    BY <1>5 DEF election_timeout, become_candidate, vote_for_self, raftVars, nodeVars
  <2>2. CommitInv => CommitInv'
    BY <1>2, <2>1, TermCommitInv
  <2>3. QED
    BY <1>4, <2>1, <2>2 DEF RaftInv
<1>6. CASE increment_term
  <2>1. current_term' \in 0 .. MaxTerm /\ current_term' >= current_term
    BY <1>2, <1>6 DEF increment_term
  <2>2. CommitInv => CommitInv'
    BY <1>6, <2>1, TermCommitInv DEF increment_term
  <2>3. QED
    BY <1>4, <1>6, <2>2 DEF RaftInv, increment_term
<1>7. CASE apply_committed_entries
  <2>1. UNCHANGED <<leftovers, restarts>>
    BY <1>7 DEF apply_committed_entries
  <2>2. restarts \notin leftovers => CommitInv'
    BY <1>2, <1>7, ApplyCommitInv DEF RaftInv
  <2>3. \A r \in 0 .. MaxRestarts : r # restarts => applied'[r] = applied[r]
    BY <1>2, <1>7 DEF apply_committed_entries, Give
  <2>4. ASSUME NEW r \in 0 .. MaxRestarts, r < restarts PROVE r \in leftovers \/ IsPrefix(applied'[r], Committed)
    <3>1. applied'[r] = applied[r]
      BY <1>2, <2>3, <2>4
    <3>2. QED
      BY <2>4, <3>1 DEF RaftInv
  <2>5. ASSUME NEW r \in 0 .. MaxRestarts, r > restarts PROVE applied'[r] = <<>>
    <3>1. applied'[r] = applied[r]
      BY <1>2, <2>3, <2>5
    <3>2. QED
      BY <2>5, <3>1 DEF RaftInv
  <2>6. QED
    BY <1>1, <1>3, <2>1, <2>2, <2>4, <2>5 DEF RaftInv
<1>8. CASE restart
  <2>1. /\ restarts' = restarts + 1 /\ restarts + 1 \in 0 .. MaxRestarts /\ applied' = applied /\ leftovers' = leftovers
    BY <1>2, <1>8 DEF restart
  <2>2. applied[restarts + 1] = <<>>
    BY <1>2, <2>1 DEF RaftInv
  <2>3. CommitInv'
    <3>1. LogInv'
      BY <1>1 DEF StartsOK
    <3>2. Len(Committed) \in Nat
      BY HonestHistory, CommittedFacts DEF RaftInv, StartsOK, LogInv
    <3>3. /\ current_term' = 0 /\ log' = <<>> /\ commit_index' = 0 /\ last_applied' = 0 /\ halted' = FALSE
      BY <1>8 DEF restart
    <3>4. Given' = <<>>
      BY <2>1, <2>2 DEF Given
    <3>5. 0 \in 0 .. MaxTerm /\ 0 \in 0 .. 0 /\ Len(<<>>) = 0 /\ <<>> \in Seq(Terms)
      BY <1>2
    <3>6. Agree(Given', Committed', Len(Given'))
      BY <1>3, <3>2, <3>4, <3>5 DEF Agree
    <3>7. KnownCommit'
      BY <3>3 DEF KnownCommit
    <3>8. Agree(Given, Committed, Len(Given))'
      BY <3>6
    <3>9. (/\ current_term \in 0 .. MaxTerm /\ commit_index \in Nat /\ commit_index <= Len(log)
           /\ last_applied \in 0 .. commit_index /\ Given \in Seq(Terms))'
      BY <3>3, <3>4, <3>5
    <3>10. (halted \in BOOLEAN /\ (~halted => Len(Given) = last_applied))'
      BY <3>3, <3>4, <3>5
    <3>11. QED
      BY <3>1, <3>7, <3>8, <3>9, <3>10 DEF CommitInv
  <2>4. ASSUME NEW r \in 0 .. MaxRestarts, r < restarts + 1 PROVE r \in leftovers \/ IsPrefix(applied[r], Committed)
    <3>1. CASE r < restarts
      BY <3>1 DEF RaftInv
    <3>2. CASE r = restarts
      BY <3>2, CommitInvImplies DEF RaftInv, Given
    <3>3. QED
      BY <1>2, <2>4, <3>1, <3>2
  <2>5. ASSUME NEW r \in 0 .. MaxRestarts, r > restarts + 1 PROVE applied[r] = <<>>
    BY <1>2, <2>5 DEF RaftInv
  <2>6. QED
    BY <1>1, <1>3, <2>1, <2>3, <2>4, <2>5 DEF RaftInv
<1>9. CASE Rpc
  <2>1. ASSUME NEW t \in Terms, NEW last \in 0 .. Len(history.logs[t]), NEW prev \in 0 .. last,
               NEW leader_commit \in 0 .. history.commits[t], handle_append_entries(t, prev, last, leader_commit)
        PROVE  RaftInv'
    <3>1. UNCHANGED <<applied, restarts>> /\ leftovers \subseteq leftovers'
      BY <2>1 DEF handle_append_entries
    <3>2. restarts \notin leftovers' => CommitInv'
      BY <2>1, <3>1, AppendCommitInv DEF RaftInv, Logs, Commits
    <3>3. QED
      BY <1>4, <3>1, <3>2
  <2>2. ASSUME NEW t \in Terms, NEW c, NEW i, NEW l, handle_request_vote(t, c, i, l)
        PROVE  RaftInv'
    <3>1. current_term' \in 0 .. MaxTerm /\ current_term' >= current_term
      BY <1>2, <2>2 DEF handle_request_vote, Adopt, Terms
    <3>2. UNCHANGED <<history, log, commit_index, last_applied, halted, applied, leftovers, restarts>>
      BY <2>2 DEF handle_request_vote
    <3>3. CommitInv => CommitInv'
      BY <3>1, <3>2, TermCommitInv
    <3>4. QED
      BY <1>4, <3>2, <3>3 DEF RaftInv
  <2>3. QED
    BY <1>9, <2>1, <2>2 DEF Rpc
<1>10. QED
  BY <1>5, <1>6, <1>7, <1>8, <1>9 DEF RaftNext, Timer

LEMMA InitRaftInv == RaftInit => RaftInv
BY InitStartsOK, InitCommitInv, RaftAssumption DEF RaftInit, RaftInv

\* What the node takes for committed is what the cluster has committed, and is in
\* its log, in every execution against any honest cluster, with requests of any
\* length: but for the starts in which a request that ends before its commit index
\* found an entry there that its leader does not have.  (raft.rs:451-454)
THEOREM CommitsAreCommitted == RaftSpec => []CommittedUnlessLeftover
BY InitRaftInv, NextRaftInv, RaftInvImplies, PTL DEF RaftSpec

\* The same of what every start has given to the store, in its order, with none
\* missing and none twice, also while the store fails.  (raft.rs, apply_committed_entries)
THEOREM AppliesAreCommitted == RaftSpec => []AppliedUnlessLeftover
BY InitRaftInv, NextRaftInv, RaftInvImplies, PTL DEF RaftSpec

\* RaftTypeOK holds of the specification, whatever the requests.
THEOREM RaftTypeCorrect == RaftSpec => []RaftTypeOK
<1>1. StartsOK => RaftTypeOK
  BY RaftAssumption DEF StartsOK, LogInv, GrantInv, RaftTypeOK
<1>2. QED
  BY <1>1, InitStartsOK, NextStartsOK, PTL DEF RaftSpec
=============================================================================
