--------------------------- MODULE LeaseLoopProofs ---------------------------
(***************************************************************************)
(* Proofs about LeaseLoop, for every set of ack IDs, every size of request *)
(* and every configuration: what a handler is told is true, no lease is    *)
(* left behind by a shutdown, and what one thread and WaitForProcessing    *)
(* guarantee.                                                              *)
(***************************************************************************)
EXTENDS LeaseLoop, Integers, WellFoundedInduction, SequenceTheorems, FiniteSetTheorems, TLAPS

\* Induction over the natural numbers with the hypothesis given as a set: one
\* that holds 0 and, with every natural number, the next one, holds them all.
LEMMA NatSetInduction ==
    ASSUME NEW T, 0 \in T, \A n \in Nat : n \in T => n + 1 \in T
    PROVE  Nat \subseteq T
<1> DEFINE R   == {ss \in Nat \X Nat : ss[1] < ss[2]}
           Out == Nat \ T
<1>1. IsWellFoundedOn(R, Nat)
  BY NatLessThanWellFounded DEF OpToRel
<1>2. SUFFICES ASSUME Out # {} PROVE FALSE
  OBVIOUS
<1>3. PICK x \in Out : \A y \in Out : ~(<<y, x>> \in R)
  <2>1. Out \subseteq Nat
    OBVIOUS
  <2> HIDE DEF R, Out
  <2> QED BY <1>1, <1>2, <2>1, WFMin, Zenon
<1>4. x # 0 /\ x - 1 \in Nat
  OBVIOUS
<1>5. <<x - 1, x>> \in R
  BY <1>4
<1> QED BY <1>3, <1>4, <1>5

AckIds == {ackq[k].id : k \in DOMAIN ackq}
MsgIds == {msgq[k] : k \in DOMAIN msgq}
Gone(i)    == i \in acked \cup nacked \cup expired     \* its lease was given up
Settled(i) == verdict[i] # "none"

\* Each message is queued for lease management once, before it is added, and its
\* handler is consumed once.
FlowInv ==
    /\ \A i \in Ids : Settled(i) <=> stage[i] \in {"held", "consumed"}
    /\ \A k, l \in DOMAIN msgq : k # l => msgq[k] # msgq[l]
    /\ \A i \in MsgIds : i \notin added
    /\ \A i \in MsgIds \cup added : stage[i] # "server"
    /\ \A k, l \in DOMAIN ackq : k # l => ackq[k].id # ackq[l].id
    /\ \A k \in DOMAIN ackq : verdict[ackq[k].id] = ackq[k].op /\ ackq[k].id \notin processed
    /\ \A i \in processed : Settled(i)

\* While the loop is alive, a message that was received is under way to it, and so
\* is the decision of the application.
ArrivesInv ==
    LoopAlive => \A i \in Ids :
        /\ stage[i] \in {"pool", "app", "held", "consumed"} => i \in added \cup MsgIds
        /\ Settled(i) => i \in processed \cup AckIds

\* What the status of a lease says of its message.
LeaseInv ==
    /\ IsFiniteSet(added)
    /\ \A i \in Ids : under[i] # "no" => i \in added /\ LoopAlive
    /\ \A i \in Ids : under[i] \in {"Acking", "Nacking"} => i \in EO \cap processed
    /\ \A i \in EO : under[i] = "Leased" => i \notin acked
    /\ \A i \in to_ack : verdict[i] = "ack" /\ i \in processed /\ LoopAlive
    /\ \A i \in to_nack : verdict[i] = "nack" /\ i \in processed \cap added /\ LoopAlive
    /\ \A i \in EO \cap to_ack : under[i] = "Acking" /\ i \notin acked \cup nacked
    /\ \A i \in EO \cap to_nack : under[i] = "Nacking" /\ i \notin acked \cup nacked
    /\ EO \cap acked \subseteq added

\* Until the shutdown, what was sent is what the application decided.
SentInv ==
    LoopAlive => /\ \A i \in acked : verdict[i] = "ack" /\ i \in processed
                 /\ \A i \in nacked : verdict[i] = "nack" /\ i \in processed

\* No lease is forgotten.
AccountInv ==
    \A i \in added : Gone(i) \/ (LoopAlive /\ (under[i] # "no" \/ i \in to_ack \cup to_nack))

\* The exactly-once RPCs and their results are about what was sent.
RpcInv ==
    /\ pc = "done" => rpcs = {}
    /\ \A t \in rpcs : /\ t.kind = "cack" => t.ids \subseteq acked
                       /\ t.kind = "cnack" => t.ids \subseteq nacked
    /\ \A k \in DOMAIN confq : confq[k].ok \cup confq[k].err \subseteq acked \cup nacked
    /\ LoopAlive => \A k \in DOMAIN confq : \A i \in confq[k].ok :
                        verdict[i] = "ack" => i \in confirmed

\* A result is given when the lease is over, and it is the truth.
ResultInv ==
    /\ \A i \in EO : result[i] \in {"ok", "rpc", "expired"} => under[i] = "no" /\ i \in added
    /\ \A i \in EO : result[i] \in {"ok", "rpc"} => i \in processed
    /\ \A i \in EO : result[i] = "ok" /\ verdict[i] = "ack" => i \in confirmed /\ i \notin nacked
    /\ \A i \in EO : result[i] = "expired" => i \notin acked \cup to_ack
    /\ \A i \in EO \cap nacked : result[i] = "shutdown" \/ verdict[i] = "nack"
    /\ LoopAlive => \A i \in Ids : result[i] # "shutdown"

\* On one thread a message is added before its ack is processed.
OrderInv ==
    ~MultiThread =>
        /\ processed \subseteq added
        /\ \A i \in processed : under[i] # "Leased"
        /\ \A i \in ALO : ~(i \in acked /\ i \in nacked)

\* WaitForProcessing shuts down when no handler is left.
WaitInv ==
    /\ ~FireAndForget /\ LoopAlive => \A i \in EO :
            verdict[i] = "ack" /\ stage[i] = "consumed" => result[i] # "none"
    /\ Behavior = "WaitForProcessing" /\ ~LoopAlive =>
            dropped /\ \A i \in Ids : stage[i] \notin {"app", "held"}
    /\ WaitHonoursConfirmedAcks

IInv == /\ TypeOK /\ FlowInv /\ ArrivesInv /\ LeaseInv /\ SentInv /\ AccountInv
        /\ RpcInv /\ ResultInv /\ OrderInv /\ WaitInv

-----------------------------------------------------------------------------
(***************************************************************************)
(* Queues.                                                                 *)
(***************************************************************************)
\* What the two queues of the loop hold.
AckActions == [op : {"ack", "nack"}, id : Ids]
Reports    == [ok : SUBSET EO, err : SUBSET EO]

LEMMA SeqElems == ASSUME NEW S, NEW s \in Seq(S) PROVE \A k \in DOMAIN s : s[k] \in S
  OBVIOUS

\* The elements of the queues, one by one.
LEMMA QueueElems ==
    ASSUME TypeOK
    PROVE  /\ ackq \in Seq(AckActions) /\ confq \in Seq(Reports)
           /\ \A k \in DOMAIN ackq : ackq[k].op \in {"ack", "nack"} /\ ackq[k].id \in Ids
           /\ \A k \in DOMAIN confq : confq[k].ok \subseteq EO /\ confq[k].err \subseteq EO
<1>1. ackq \in Seq(AckActions) /\ confq \in Seq(Reports)
  BY DEF TypeOK, AckActions, Reports
<1>2. \A k \in DOMAIN ackq : ackq[k] \in AckActions
  BY <1>1, SeqElems
<1>3. \A k \in DOMAIN confq : confq[k] \in Reports
  BY <1>1, SeqElems
<1> QED BY <1>1, <1>2, <1>3 DEF AckActions, Reports

\* An element of an extended sequence is the new one or an old one.
LEMMA AppendElems ==
    ASSUME NEW S, NEW s \in Seq(S), NEW e \in S
    PROVE  /\ Append(s, e) \in Seq(S)
           /\ Len(s) + 1 \in DOMAIN Append(s, e) /\ Append(s, e)[Len(s) + 1] = e
           /\ \A k \in DOMAIN s : k \in DOMAIN Append(s, e) /\ Append(s, e)[k] = s[k]
           /\ \A k \in DOMAIN Append(s, e) :
                \/ k = Len(s) + 1 /\ Append(s, e)[k] = e
                \/ k \in DOMAIN s /\ Append(s, e)[k] = s[k] /\ k # Len(s) + 1
  OBVIOUS

\* The elements of a tail are those after the head.
LEMMA TailElems ==
    ASSUME NEW S, NEW s \in Seq(S), s # <<>>
    PROVE  /\ Tail(s) \in Seq(S) /\ Head(s) \in S
           /\ 1 \in DOMAIN s /\ Head(s) = s[1]
           /\ \A k \in DOMAIN Tail(s) : k + 1 \in DOMAIN s /\ Tail(s)[k] = s[k + 1] /\ k + 1 # 1
           /\ \A k, l \in DOMAIN Tail(s) : k # l => k + 1 # l + 1
           /\ \A k \in DOMAIN s : k # 1 => k - 1 \in DOMAIN Tail(s) /\ Tail(s)[k - 1] = s[k]
<1>1. Tail(s) \in Seq(S) /\ Head(s) \in S /\ Len(Tail(s)) = Len(s) - 1
  BY HeadTailProperties
<1>2. Len(s) \in Nat /\ Len(s) # 0 /\ DOMAIN s = 1..Len(s) /\ DOMAIN Tail(s) = 1..(Len(s) - 1)
  BY <1>1
<1> QED BY <1>1, <1>2

-----------------------------------------------------------------------------
(***************************************************************************)
(* Chunks: a finite set of leases can be cut into requests.                *)
(***************************************************************************)
\* p is a partition of s into requests, all but one of them full.
IsChunks(p, s) ==
    /\ UNION p = s /\ {} \notin p
    /\ \A c, d \in p : c # d => c \cap d = {}
    /\ \A c \in p : Cardinality(c) <= MaxIds
    /\ Cardinality({c \in p : Cardinality(c) < MaxIds}) <= 1

\* A set with at most one element.
LEMMA AtMostOne ==
    ASSUME NEW S, NEW x, S \subseteq {x}
    PROVE  Cardinality(S) <= 1
<1>1. IsFiniteSet({x}) /\ Cardinality({x}) = 1
  BY FS_Singleton
<1> QED BY <1>1, FS_Subset

\* One more element goes into the request that has room, or into one of its own.
LEMMA AddToChunks ==
    ASSUME NEW s, IsFiniteSet(s), NEW x, x \notin s, NEW p, IsChunks(p, s)
    PROVE  \E q : IsChunks(q, s \cup {x})
<1> DEFINE small == {c \in p : Cardinality(c) < MaxIds}
<1>0. MaxIds \in Nat \ {0}
  BY LeaseAssumption
<1>1. \A c \in p : c \subseteq s /\ x \notin c /\ IsFiniteSet(c) /\ Cardinality(c) \in Nat
  <2>1. \A c \in p : c \subseteq s
    BY DEF IsChunks
  <2> QED BY <2>1, FS_Subset, FS_CardinalityType
<1>2. IsFiniteSet(small) /\ Cardinality(small) <= 1
  <2>1. small \subseteq SUBSET s
    BY <1>1
  <2>2. IsFiniteSet(small)
    BY <2>1, FS_SUBSET, FS_Subset
  <2> QED BY <2>2 DEF IsChunks
<1>3. CASE small = {}
  <2> DEFINE q == p \cup {{x}}
  <2>1. UNION q = s \cup {x} /\ {} \notin q
    BY DEF IsChunks
  <2>2. \A c, d \in q : c # d => c \cap d = {}
    <3>1. \A c \in p : c \cap {x} = {}
      BY <1>1
    <3>2. \A c, d \in p : c # d => c \cap d = {}
      BY DEF IsChunks
    <3> DEFINE y == {x}
    <3>3. \A c \in p : c \cap y = {} /\ y \cap c = {}
      BY <3>1
    <3>4. q = p \cup {y}
      OBVIOUS
    <3> HIDE DEF y, q
    <3> QED BY <3>2, <3>3, <3>4
  <2>3. Cardinality({x}) = 1
    BY FS_Singleton
  <2>4. \A c \in q : Cardinality(c) <= MaxIds
    <3>1. Cardinality({x}) <= MaxIds
      BY <1>0, <2>3
    <3>2. \A c \in p : Cardinality(c) <= MaxIds
      BY DEF IsChunks
    <3> QED BY <3>1, <3>2
  <2>5. Cardinality({c \in q : Cardinality(c) < MaxIds}) <= 1
    <3>1. {c \in q : Cardinality(c) < MaxIds} \subseteq {{x}}
      BY <1>3
    <3> QED BY <3>1, AtMostOne
  <2> HIDE DEF q
  <2> QED BY <2>1, <2>2, <2>4, <2>5 DEF IsChunks
<1>4. CASE small # {}
  <2>1. PICK c \in small : TRUE
    BY <1>4
  <2>2. \A d \in small : d = c
    <3> SUFFICES ASSUME NEW d \in small, d # c PROVE FALSE
      OBVIOUS
    <3>1. IsFiniteSet({c, d}) /\ Cardinality({c, d}) = 2
      <4>1. IsFiniteSet({c}) /\ Cardinality({c}) = 1
        BY FS_Singleton
      <4>2. IsFiniteSet({c} \cup {d}) /\ Cardinality({c} \cup {d}) = Cardinality({c}) + 1
        BY <4>1, FS_AddElement
      <4>3. {c} \cup {d} = {c, d}
        OBVIOUS
      <4> QED BY <4>1, <4>2, <4>3
    <3>2. {c, d} \subseteq small
      BY <2>1
    <3>3. Cardinality({c, d}) <= Cardinality(small)
      BY <1>2, <3>2, FS_Subset
    <3>4. Cardinality(small) \in Nat
      BY <1>2, FS_CardinalityType
    <3> QED BY <1>2, <3>1, <3>3, <3>4
  <2> DEFINE cx == c \cup {x}
             q  == (p \ {c}) \cup {cx}
  <2>3. c \in p /\ Cardinality(c) < MaxIds /\ Cardinality(c) \in Nat /\ IsFiniteSet(c) /\ x \notin c
    BY <1>1, <2>1
  <2>4. Cardinality(cx) = Cardinality(c) + 1
    BY <2>3, FS_AddElement
  <2>5. UNION q = s \cup {x} /\ {} \notin q
    <3>1. UNION p = s /\ {} \notin p
      BY DEF IsChunks
    <3>2. UNION q \subseteq s \cup {x}
      BY <2>3, <3>1
    <3>3. ASSUME NEW y \in s \cup {x} PROVE y \in UNION q
      <4>1. CASE y \in cx
        BY <4>1
      <4>2. CASE y \notin cx
        <5>1. PICK d \in p : y \in d
          BY <3>1, <4>2
        <5>2. d \in q
          BY <4>2, <5>1
        <5> QED BY <5>1, <5>2
      <4> QED BY <4>1, <4>2
    <3> QED BY <3>1, <3>2, <3>3
  <2>6. \A d, e \in q : d # e => d \cap e = {}
    <3>1. \A d \in p \ {c} : d \cap cx = {}
      BY <1>1, <2>3 DEF IsChunks
    <3>2. \A d, e \in p \ {c} : d # e => d \cap e = {}
      BY DEF IsChunks
    <3> HIDE DEF cx
    <3> QED BY <3>1, <3>2
  <2>7. \A d \in q : Cardinality(d) <= MaxIds
    <3>1. Cardinality(cx) <= MaxIds
      BY <1>0, <2>3, <2>4
    <3> HIDE DEF cx
    <3> QED BY <3>1 DEF IsChunks
  <2>8. Cardinality({d \in q : Cardinality(d) < MaxIds}) <= 1
    <3>1. {d \in q : Cardinality(d) < MaxIds} \subseteq {cx}
      BY <2>2
    <3> QED BY <3>1, AtMostOne
  <2> HIDE DEF q
  <2> QED BY <2>5, <2>6, <2>7, <2>8 DEF IsChunks
<1> QED BY <1>3, <1>4

\* Every finite set can be cut.
LEMMA ChunksExist == ASSUME NEW s, IsFiniteSet(s) PROVE \E p : IsChunks(p, s)
<1> DEFINE T == {n \in Nat : \A r : IsFiniteSet(r) /\ Cardinality(r) = n => \E p : IsChunks(p, r)}
<1>1. 0 \in T
  <2> SUFFICES ASSUME NEW r, IsFiniteSet(r), Cardinality(r) = 0 PROVE \E p : IsChunks(p, r)
    OBVIOUS
  <2>1. r = {}
    BY FS_EmptySet
  <2>2. Cardinality({}) = 0 /\ {c \in {} : Cardinality(c) < MaxIds} = {}
    BY FS_EmptySet
  <2>3. IsChunks({}, {})
    BY <2>2 DEF IsChunks
  <2> QED BY <2>1, <2>3
<1>2. ASSUME NEW n \in Nat, n \in T PROVE n + 1 \in T
  <2> SUFFICES ASSUME NEW r, IsFiniteSet(r), Cardinality(r) = n + 1 PROVE \E p : IsChunks(p, r)
    OBVIOUS
  <2>1. PICK x \in r : TRUE
    BY FS_EmptySet
  <2>2. IsFiniteSet(r \ {x}) /\ Cardinality(r \ {x}) = n
    <3>1. IsFiniteSet(r \ {x}) /\ Cardinality(r \ {x}) = Cardinality(r) - 1
      BY <2>1, FS_RemoveElement
    <3> QED BY <3>1
  <2>3. PICK p : IsChunks(p, r \ {x})
    BY <1>2, <2>2
  <2>4. \E q : IsChunks(q, (r \ {x}) \cup {x})
    BY <2>2, <2>3, AddToChunks
  <2>5. (r \ {x}) \cup {x} = r
    BY <2>1
  <2> QED BY <2>4, <2>5
<1> HIDE DEF T
<1>3. Nat \subseteq T
  BY <1>1, <1>2, NatSetInduction
<1>4. Cardinality(s) \in Nat
  BY FS_CardinalityType
<1> QED BY <1>3, <1>4 DEF T

\* What evict sends: every lease in one request, none of them empty.
LEMMA ChunksSpec ==
    ASSUME NEW s, IsFiniteSet(s)
    PROVE  UNION Chunks(s) = s /\ {} \notin Chunks(s)
<1>1. PICK p : IsChunks(p, s)
  BY ChunksExist
<1>2. p \in SUBSET SUBSET s
  BY <1>1 DEF IsChunks
<1>3. \E p1 \in SUBSET SUBSET s : IsChunks(p1, s)
  BY <1>1, <1>2
<1> DEFINE P(q) == IsChunks(q, s)
<1>4. Chunks(s) = CHOOSE q \in SUBSET SUBSET s : P(q)
  BY DEF Chunks, IsChunks
<1> HIDE DEF P
<1>5. P(Chunks(s))
  BY <1>3, <1>4 DEF P
<1> QED BY <1>5 DEF P, IsChunks

-----------------------------------------------------------------------------
(***************************************************************************)
(* The stream: messages move from the service to the application, and are  *)
(* queued for lease management on the way.                                 *)
(***************************************************************************)
LEMMA IdsSplit == ALO \subseteq Ids /\ EO \subseteq Ids /\ ALO \cap EO = {}
  BY LeaseAssumption DEF Ids

\* What a step of the stream may do to the stages and to the queue of messages.
Advances ==
    \A j \in Ids : stage'[j] # stage[j] =>
        \/ stage[j] = "server" /\ stage'[j] = "pool" /\ (LoopAlive => j \in MsgIds')
        \/ stage[j] = "pool" /\ stage'[j] = "app" /\ AckSenders
        \/ stage[j] \in {"server", "pool"} /\ stage'[j] = "lost"

LEMMA StreamStep ==
    ASSUME IInv, stage' \in [Ids -> {"server", "pool", "app", "held", "consumed", "lost"}],
           Advances,
           \/ msgq' = msgq
           \/ \E i \in Ids : stage[i] = "server" /\ stage'[i] # "server" /\ msgq' = Append(msgq, i),
           closed' \in BOOLEAN, cancelled' \in BOOLEAN, dropped' \in BOOLEAN, dropped => dropped',
           UNCHANGED <<config, verdict, result, ackq, confq, under, to_ack, to_nack, aged,
                       rpcs, acked, nacked, confirmed, pc, added, expired, processed>>
    PROVE  IInv'
<1> USE DEF IInv
<1>1. /\ MsgIds \subseteq MsgIds' /\ msgq' \in Seq(Ids)
      /\ \A k, l \in DOMAIN msgq' : k # l => msgq'[k] # msgq'[l]
      /\ \A i \in MsgIds' : i \in MsgIds \/ (i \in Ids /\ stage[i] = "server" /\ stage'[i] # "server")
  <2>1. CASE msgq' = msgq
    BY <2>1 DEF MsgIds, TypeOK, FlowInv
  <2>2. CASE \E i \in Ids : /\ stage[i] = "server" /\ stage'[i] # "server"
                            /\ msgq' = Append(msgq, i)
    <3>0. PICK i \in Ids : stage[i] = "server" /\ stage'[i] # "server" /\ msgq' = Append(msgq, i)
      BY <2>2
    <3>1. msgq \in Seq(Ids) /\ i \notin MsgIds
      BY <3>0 DEF TypeOK, FlowInv
    <3>2. /\ msgq' \in Seq(Ids)
          /\ \A k \in DOMAIN msgq : k \in DOMAIN msgq' /\ msgq'[k] = msgq[k]
          /\ \A k \in DOMAIN msgq' : \/ k = Len(msgq) + 1 /\ msgq'[k] = i
                                     \/ k \in DOMAIN msgq /\ msgq'[k] = msgq[k] /\ k # Len(msgq) + 1
      BY <3>0, <3>1, AppendElems
    <3>3. \A k, l \in DOMAIN msgq' : k # l => msgq'[k] # msgq'[l]
      BY <3>1, <3>2 DEF FlowInv, MsgIds
    <3> QED BY <3>0, <3>2, <3>3 DEF MsgIds
  <2> QED BY <2>1, <2>2
<1>2. TypeOK'
  BY <1>1 DEF TypeOK
<1>3. FlowInv'
  <2>1. \A i \in Ids : Settled(i)' <=> stage'[i] \in {"held", "consumed"}
    BY DEF FlowInv, Settled, Advances
  <2>2. \A i \in MsgIds' : i \notin added
    BY <1>1 DEF FlowInv
  <2>3. \A i \in MsgIds' \cup added : stage'[i] # "server"
    <3>1. MsgIds \subseteq Ids /\ added \subseteq Ids
      BY DEF TypeOK, MsgIds
    <3> QED BY <1>1, <3>1 DEF FlowInv, Advances
  <2> QED BY <1>1, <2>1, <2>2, <2>3 DEF FlowInv, Settled
<1>4. ArrivesInv'
  BY <1>1 DEF ArrivesInv, Settled, AckIds, LoopAlive, Advances
<1>5. LeaseInv' /\ SentInv' /\ AccountInv' /\ RpcInv' /\ ResultInv'
  BY DEF LeaseInv, SentInv, AccountInv, Gone, RpcInv, ResultInv, LoopAlive
<1>6. OrderInv'
  BY DEF OrderInv, MultiThread
<1>7. WaitInv'
  BY IdsSplit DEF WaitInv, WaitHonoursConfirmedAcks, WaitHonoursAcks, LoopAlive, FireAndForget,
                  Behavior, MultiThread, Advances, AckSenders
<1> QED BY <1>2, <1>3, <1>4, <1>5, <1>6, <1>7

LEMMA StepReceive == ASSUME IInv, NEW i \in Ids, Receive(i) PROVE IInv'
<1>1. /\ stage[i] = "server" /\ stage' \in [Ids -> {"server", "pool", "app", "held", "consumed", "lost"}]
      /\ \A j \in Ids : j # i => stage'[j] = stage[j]
      /\ UNCHANGED <<config, verdict, result, closed, cancelled, dropped, ackq, confq, under,
                     to_ack, to_nack, aged, rpcs, acked, nacked, confirmed, pc, added, expired,
                     processed>>
  BY DEF Receive, shutdown, leases, requests, ghosts, IInv, TypeOK
<1>2. \/ stage'[i] = "pool" /\ msgq' = IF LoopAlive THEN Append(msgq, i) ELSE msgq
      \/ stage'[i] = "lost" /\ msgq' = msgq
  BY <1>1 DEF Receive, IInv, TypeOK
<1>3. msgq' = Append(msgq, i) => i \in MsgIds'
  BY AppendElems DEF MsgIds, IInv, TypeOK
<1>4. Advances
  BY <1>1, <1>2, <1>3 DEF Advances
<1>5. closed' \in BOOLEAN /\ cancelled' \in BOOLEAN /\ dropped' \in BOOLEAN
  BY <1>1 DEF IInv, TypeOK
<1> QED BY <1>1, <1>2, <1>4, <1>5, StreamStep

LEMMA StepDeliver == ASSUME IInv, NEW i \in Ids, Deliver(i) PROVE IInv'
<1>1. /\ stage[i] = "pool" /\ stage' \in [Ids -> {"server", "pool", "app", "held", "consumed", "lost"}]
      /\ \A j \in Ids : j # i => stage'[j] = stage[j]
      /\ stage'[i] = IF AckSenders THEN "app" ELSE "lost"
      /\ UNCHANGED <<config, verdict, result, closed, cancelled, dropped, msgq, ackq, confq, under,
                     to_ack, to_nack, aged, rpcs, acked, nacked, confirmed, pc, added, expired,
                     processed>>
  BY DEF Deliver, shutdown, channels, leases, requests, ghosts, IInv, TypeOK
<1>2. Advances
  BY <1>1 DEF Advances
<1>3. closed' \in BOOLEAN /\ cancelled' \in BOOLEAN /\ dropped' \in BOOLEAN
  BY <1>1 DEF IInv, TypeOK
<1> QED BY <1>1, <1>2, <1>3, StreamStep

\* Closing the stream drops what nobody has seen.
LEMMA StepCloseStream ==
    ASSUME IInv, NEW unread, unread \subseteq {i \in Ids : stage[i] = "server"}, CloseStream(unread),
           msgq' = msgq \/ \E i \in unread : msgq' = Append(msgq, i)
    PROVE  IInv'
<1>1. /\ stage' \in [Ids -> {"server", "pool", "app", "held", "consumed", "lost"}]
      /\ \A j \in Ids : stage'[j] = IF j \in unread \/ stage[j] = "pool" THEN "lost" ELSE stage[j]
      /\ closed' = TRUE /\ cancelled' = TRUE
      /\ UNCHANGED <<config, verdict, result, dropped, ackq, confq, under, to_ack, to_nack, aged,
                     rpcs, acked, nacked, confirmed, pc, added, expired, processed>>
  BY DEF CloseStream, leases, requests, ghosts, IInv, TypeOK
<1>2. Advances
  BY <1>1 DEF Advances
<1>3. \A i \in unread : i \in Ids /\ stage[i] = "server" /\ stage'[i] # "server"
  BY <1>1
<1>4. closed' \in BOOLEAN /\ cancelled' \in BOOLEAN /\ dropped' \in BOOLEAN
  BY <1>1 DEF IInv, TypeOK
<1> QED BY <1>1, <1>2, <1>3, <1>4, StreamStep

LEMMA StepStream == ASSUME IInv, Stream PROVE IInv'
<1>1. CASE Close \/ StreamFails
  BY <1>1, StepCloseStream DEF Close, StreamFails
<1>2. ASSUME NEW i \in Ids, ReceiveCorrupt(i) PROVE IInv'
  <2>1. {i} \subseteq {j \in Ids : stage[j] = "server"} /\ CloseStream({i})
        /\ (msgq' = msgq \/ \E j \in {i} : msgq' = Append(msgq, j))
    BY <1>2 DEF ReceiveCorrupt
  <2> QED BY <2>1, StepCloseStream
<1>3. CASE Cancel \/ DropSenders
  <2>1. UNCHANGED <<config, stage, verdict, result, closed, msgq, ackq, confq, under, to_ack, to_nack,
                    aged, rpcs, acked, nacked, confirmed, pc, added, expired, processed>>
    BY <1>3 DEF Cancel, DropSenders, application, channels, leases, requests, ghosts
  <2>2. cancelled' \in BOOLEAN /\ dropped' \in BOOLEAN /\ closed' \in BOOLEAN /\ (dropped => dropped')
    BY <1>3 DEF Cancel, DropSenders, IInv, TypeOK
  <2>3. Advances /\ stage' \in [Ids -> {"server", "pool", "app", "held", "consumed", "lost"}]
    BY <2>1 DEF Advances, IInv, TypeOK
  <2> QED BY <2>1, <2>2, <2>3, StreamStep
<1> QED BY <1>1, <1>2, <1>3, StepReceive, StepDeliver DEF Stream

-----------------------------------------------------------------------------
(***************************************************************************)
(* The application.                                                        *)
(***************************************************************************)
\* A handler is consumed: its decision is queued, or the loop has ended.
LEMMA StepSettle ==
    ASSUME IInv, NEW i \in Ids, NEW op \in {"ack", "nack"}, NEW after \in {"held", "consumed"},
           stage[i] = "app", stage' = [stage EXCEPT ![i] = after],
           verdict' = [verdict EXCEPT ![i] = op],
           ackq' = IF LoopAlive THEN Append(ackq, [op |-> op, id |-> i]) ELSE ackq,
           \/ result' = result
           \/ pc = "done" /\ result' = [result EXCEPT ![i] = "shutdown"],
           after = "consumed" /\ LoopAlive /\ i \in EO /\ op = "ack" => FireAndForget,
           UNCHANGED <<config, closed, cancelled, dropped, msgq, confq, under, to_ack, to_nack, aged,
                       rpcs, acked, nacked, confirmed, pc, added, expired, processed>>
    PROVE  IInv'
<1> USE DEF IInv
<1> DEFINE e == [op |-> op, id |-> i]
<1>1. /\ stage' \in [Ids -> {"server", "pool", "app", "held", "consumed", "lost"}]
      /\ verdict' \in [Ids -> {"none", "ack", "nack"}]
      /\ stage'[i] = after /\ verdict'[i] = op
      /\ \A j \in Ids : j # i => stage'[j] = stage[j] /\ verdict'[j] = verdict[j]
  BY DEF TypeOK
<1>2. /\ result' \in [Ids -> {"none", "ok", "rpc", "expired", "shutdown"}]
      /\ \A j \in Ids : result'[j] = result[j] \/ (pc = "done" /\ result'[j] = "shutdown")
  BY DEF TypeOK
<1>3. verdict[i] = "none" /\ i \notin processed /\ i \notin AckIds
  <2>1. verdict[i] = "none" /\ i \notin processed
    BY DEF FlowInv, Settled
  <2>2. \A k \in DOMAIN ackq : ackq[k].id \in Ids /\ ackq[k].op # "none"
    BY QueueElems
  <2> QED BY <2>1, <2>2 DEF FlowInv, AckIds
<1>4. ackq \in Seq(AckActions) /\ e \in AckActions /\ e.op = op /\ e.id = i
  BY QueueElems DEF AckActions
<1> HIDE DEF e
<1>5. /\ ackq' \in Seq(AckActions)
      /\ \A k \in DOMAIN ackq : k \in DOMAIN ackq' /\ ackq'[k] = ackq[k]
      /\ \A k \in DOMAIN ackq' : \/ k = Len(ackq) + 1 /\ ackq'[k] = e
                                 \/ k \in DOMAIN ackq /\ ackq'[k] = ackq[k] /\ k # Len(ackq) + 1
      /\ LoopAlive => \E k \in DOMAIN ackq' : ackq'[k] = e
  <2>1. CASE LoopAlive
    <3>1. ackq' = Append(ackq, e)
      BY <2>1 DEF e
    <3> QED BY <1>4, <3>1, AppendElems
  <2>2. CASE ~LoopAlive
    <3>1. ackq' = ackq /\ \A k \in DOMAIN ackq : k # Len(ackq) + 1
      BY <1>4, <2>2
    <3> QED BY <1>4, <2>2, <3>1
  <2> QED BY <2>1, <2>2
<1>6. TypeOK'
  BY <1>1, <1>2, <1>5 DEF TypeOK, AckActions
<1>7. FlowInv'
  <2>1. \A j \in Ids : Settled(j)' <=> stage'[j] \in {"held", "consumed"}
    BY <1>1 DEF FlowInv, Settled
  <2>2. \A k \in DOMAIN ackq : ackq[k].id \in Ids /\ ackq[k].id # i
    BY <1>3, QueueElems DEF AckIds
  <2>3. \A k, l \in DOMAIN ackq' : k # l => ackq'[k].id # ackq'[l].id
    BY <1>4, <1>5, <2>2 DEF FlowInv
  <2>4. \A k \in DOMAIN ackq' : verdict'[ackq'[k].id] = ackq'[k].op /\ ackq'[k].id \notin processed
    BY <1>1, <1>3, <1>4, <1>5, <2>2 DEF FlowInv
  <2>5. \A j \in processed : Settled(j)'
    BY <1>1, <1>3 DEF FlowInv, Settled, TypeOK
  <2>6. \A j \in MsgIds \cup added : stage'[j] # "server"
    <3>1. MsgIds \subseteq Ids /\ added \subseteq Ids
      BY DEF TypeOK, MsgIds
    <3> QED BY <1>1, <3>1 DEF FlowInv
  <2> QED BY <2>1, <2>3, <2>4, <2>5, <2>6 DEF FlowInv, MsgIds, Settled
<1>8. ArrivesInv'
  <2> SUFFICES ASSUME LoopAlive, NEW j \in Ids
               PROVE  /\ stage'[j] \in {"pool", "app", "held", "consumed"} => j \in added \cup MsgIds
                      /\ Settled(j)' => j \in processed \cup AckIds'
    BY DEF ArrivesInv, LoopAlive, MsgIds
  <2>1. AckIds \subseteq AckIds' /\ i \in AckIds'
    BY <1>4, <1>5 DEF AckIds
  <2> QED BY <1>1, <2>1 DEF ArrivesInv, Settled
<1>9. LeaseInv'
  <2>1. to_ack \subseteq Ids /\ to_nack \subseteq Ids
    BY DEF TypeOK
  <2> QED BY <1>1, <1>3, <2>1 DEF LeaseInv, LoopAlive
<1>10. SentInv'
  BY <1>1, <1>3 DEF SentInv, LoopAlive, TypeOK
<1>11. AccountInv'
  BY DEF AccountInv, Gone, LoopAlive
<1>12. RpcInv'
  <2>1. LoopAlive => i \notin acked \cup nacked
    BY <1>3 DEF SentInv
  <2>2. \A k \in DOMAIN confq : confq[k].ok \subseteq Ids
    BY IdsSplit, QueueElems
  <2> QED BY <1>1, <2>1, <2>2 DEF RpcInv, LoopAlive
<1>13. ResultInv'
  BY <1>1, <1>2, <1>3, IdsSplit DEF ResultInv, LoopAlive
<1>14. OrderInv'
  BY DEF OrderInv, MultiThread
<1>15. WaitInv'
  <2>1. ~(Behavior = "WaitForProcessing" /\ ~LoopAlive)
    BY DEF WaitInv
  <2>2. LoopAlive => i \notin nacked
    BY <1>3 DEF SentInv
  <2>3. ASSUME ~FireAndForget, LoopAlive, NEW j \in EO, verdict'[j] = "ack", stage'[j] = "consumed"
        PROVE  result'[j] # "none"
    BY <1>1, <1>2, <2>3, IdsSplit DEF WaitInv
  <2>4. WaitHonoursConfirmedAcks'
    BY <1>1, <2>1, <2>2 DEF WaitInv, WaitHonoursConfirmedAcks, WaitHonoursAcks, FireAndForget,
                            Behavior, MultiThread
  <2> QED BY <2>1, <2>3, <2>4 DEF WaitInv, LoopAlive, FireAndForget, Behavior
<1> QED BY <1>6, <1>7, <1>8, <1>9, <1>10, <1>11, <1>12, <1>13, <1>14, <1>15

LEMMA StepAwaitReturns == ASSUME IInv, NEW i \in Ids, AwaitReturns(i) PROVE IInv'
<1> USE DEF IInv
<1>1. /\ stage[i] = "held" /\ stage'[i] = "consumed" /\ result'[i] # "none"
      /\ stage' \in [Ids -> {"server", "pool", "app", "held", "consumed", "lost"}]
      /\ result' \in [Ids -> {"none", "ok", "rpc", "expired", "shutdown"}]
      /\ \A j \in Ids : j # i => stage'[j] = stage[j]
      /\ \A j \in Ids : result'[j] = result[j] \/ (pc = "done" /\ result'[j] = "shutdown")
      /\ UNCHANGED <<config, verdict, closed, cancelled, dropped, msgq, ackq, confq, under, to_ack,
                     to_nack, aged, rpcs, acked, nacked, confirmed, pc, added, expired, processed>>
  BY DEF AwaitReturns, shutdown, channels, leases, requests, ghosts, TypeOK
<1>2. TypeOK'
  BY <1>1 DEF TypeOK
<1>3. FlowInv' /\ ArrivesInv'
  <2>1. MsgIds \subseteq Ids /\ added \subseteq Ids
    BY DEF TypeOK, MsgIds
  <2> QED BY <1>1, <2>1 DEF FlowInv, ArrivesInv, Settled, MsgIds, AckIds, LoopAlive
<1>4. LeaseInv' /\ SentInv' /\ AccountInv' /\ RpcInv'
  BY <1>1 DEF LeaseInv, SentInv, AccountInv, Gone, RpcInv, LoopAlive
<1>5. ResultInv'
  BY <1>1, IdsSplit DEF ResultInv, LoopAlive
<1>6. OrderInv'
  BY <1>1 DEF OrderInv, MultiThread
<1>7. WaitInv'
  BY <1>1, IdsSplit DEF WaitInv, WaitHonoursConfirmedAcks, WaitHonoursAcks, LoopAlive, FireAndForget,
                        Behavior, MultiThread
<1> QED BY <1>2, <1>3, <1>4, <1>5, <1>6, <1>7

LEMMA StepConsume == ASSUME IInv, NEW i \in Ids, Consume(i) PROVE IInv'
<1>1. ASSUME NEW op \in {"ack", "nack"}, AppSettles(i, op) PROVE IInv'
  <2> DEFINE after == "consumed"
  <2>1. /\ stage[i] = "app" /\ stage' = [stage EXCEPT ![i] = after]
        /\ verdict' = [verdict EXCEPT ![i] = op] /\ result' = result
        /\ ackq' = IF LoopAlive THEN Append(ackq, [op |-> op, id |-> i]) ELSE ackq
        /\ (i \in EO /\ op = "ack" => FireAndForget)
        /\ UNCHANGED <<config, closed, cancelled, dropped, msgq, confq, under, to_ack, to_nack, aged,
                       rpcs, acked, nacked, confirmed, pc, added, expired, processed>>
    BY <1>1 DEF AppSettles, Settle, shutdown, leases, requests, ghosts
  <2>2. after \in {"held", "consumed"}
    OBVIOUS
  <2> HIDE DEF after
  <2> QED BY <2>1, <2>2, StepSettle
<1>2. ASSUME NEW op \in {"ack", "nack"}, AppAwaits(i, op) PROVE IInv'
  <2> DEFINE after == IF pc = "done" THEN "consumed" ELSE "held"
  <2>1. /\ stage[i] = "app" /\ stage' = [stage EXCEPT ![i] = after]
        /\ verdict' = [verdict EXCEPT ![i] = op]
        /\ \/ result' = result
           \/ pc = "done" /\ result' = [result EXCEPT ![i] = "shutdown"]
        /\ ackq' = IF LoopAlive THEN Append(ackq, [op |-> op, id |-> i]) ELSE ackq
        /\ UNCHANGED <<config, closed, cancelled, dropped, msgq, confq, under, to_ack, to_nack, aged,
                       rpcs, acked, nacked, confirmed, pc, added, expired, processed>>
    BY <1>2 DEF AppAwaits, Settle, shutdown, leases, requests, ghosts
  <2>2. after \in {"held", "consumed"} /\ (LoopAlive => after # "consumed")
    BY DEF LoopAlive
  <2> HIDE DEF after
  <2> QED BY <2>1, <2>2, StepSettle
<1> QED BY <1>1, <1>2, StepAwaitReturns DEF Consume

-----------------------------------------------------------------------------
(***************************************************************************)
(* The lease loop.                                                         *)
(***************************************************************************)
LEMMA NewPassAlive == NewPass \/ AtAcks => LoopAlive /\ pc # "done"
  BY DEF NewPass, AtAcks, LoopAlive

\* The requests that are not, and that are, confirmed.
PlainTasks     == [kind : {"ack", "nack"}, ids : (SUBSET ALO) \ {{}}]
ConfirmedTasks == [kind : {"cack", "cnack"}, ids : (SUBSET EO) \ {{}}]

\* A request has the type its kind and its IDs say.
LEMMA TaskType ==
    ASSUME NEW kind, NEW ids, ids # {},
           \/ kind \in {"ack", "nack"} /\ ids \subseteq ALO
           \/ kind \in {"cack", "cnack"} /\ ids \subseteq EO
    PROVE  [kind |-> kind, ids |-> ids] \in PlainTasks \cup ConfirmedTasks
<1>1. ids \in (SUBSET ALO) \ {{}} \/ ids \in (SUBSET EO) \ {{}}
  OBVIOUS
<1>2. CASE kind \in {"ack", "nack"} /\ ids \subseteq ALO
  BY <1>2 DEF PlainTasks
<1>3. CASE kind \in {"cack", "cnack"} /\ ids \subseteq EO
  BY <1>3 DEF ConfirmedTasks
<1> QED BY <1>2, <1>3

\* Task, member by member.
LEMMA TaskElems ==
    ASSUME NEW kind, NEW ids, NEW t \in Task(kind, ids)
    PROVE  /\ t = [kind |-> kind, ids |-> ids] /\ t.kind = kind /\ t.ids = ids /\ ids # {}
           /\ \/ kind \in {"ack", "nack"} /\ ids \subseteq ALO
              \/ kind \in {"cack", "cnack"} /\ ids \subseteq EO
              => t \in PlainTasks \cup ConfirmedTasks
<1>1. ids # {} /\ t = [kind |-> kind, ids |-> ids]
  BY DEF Task
<1>2. t.kind = kind /\ t.ids = ids
  BY <1>1
<1> QED BY <1>1, <1>2, TaskType

\* The RPCs, one by one.
LEMMA RpcElems ==
    ASSUME TypeOK
    PROVE  /\ rpcs \subseteq PlainTasks \cup ConfirmedTasks
           /\ \A t \in rpcs : /\ \/ t.kind \in {"ack", "nack"} /\ t.ids \subseteq ALO
                                 \/ t.kind \in {"cack", "cnack"} /\ t.ids \subseteq EO
                              /\ t.ids # {}
<1>1. rpcs \subseteq PlainTasks \cup ConfirmedTasks
  BY DEF TypeOK, PlainTasks, ConfirmedTasks
<1>2. \A t \in PlainTasks : t.kind \in {"ack", "nack"} /\ t.ids \subseteq ALO /\ t.ids # {}
  BY DEF PlainTasks
<1>3. \A t \in ConfirmedTasks : t.kind \in {"cack", "cnack"} /\ t.ids \subseteq EO /\ t.ids # {}
  BY DEF ConfirmedTasks
<1> QED BY <1>1, <1>2, <1>3

LEMMA StepFlush == ASSUME IInv, Flush PROVE IInv'
<1> USE DEF IInv
<1>1. /\ LoopAlive /\ pc' = "start" /\ LoopAlive'
      /\ acked' = acked \cup to_ack /\ nacked' = nacked \cup to_nack
      /\ to_ack' = {} /\ to_nack' = {}
      /\ rpcs' = rpcs \cup Task("ack", to_ack \cap ALO) \cup Task("nack", to_nack \cap ALO)
                      \cup Task("cack", to_ack \cap EO) \cup Task("cnack", to_nack \cap EO)
      /\ UNCHANGED <<config, stage, verdict, result, closed, cancelled, dropped, msgq, ackq, confq,
                     under, aged, confirmed, added, expired, processed>>
  BY NewPassAlive DEF Flush, application, shutdown, channels, ghosts, LoopAlive
<1>2. \A t \in rpcs' : /\ t \in PlainTasks \cup ConfirmedTasks
                       /\ t.kind = "cack" => t.ids \subseteq acked'
                       /\ t.kind = "cnack" => t.ids \subseteq nacked'
  <2> SUFFICES ASSUME NEW t \in rpcs'
               PROVE  /\ t \in PlainTasks \cup ConfirmedTasks
                      /\ t.kind = "cack" => t.ids \subseteq acked'
                      /\ t.kind = "cnack" => t.ids \subseteq nacked'
    OBVIOUS
  <2>1. CASE t \in rpcs
    BY <1>1, <2>1, RpcElems DEF RpcInv
  <2>2. CASE t \in Task("ack", to_ack \cap ALO) \/ t \in Task("nack", to_nack \cap ALO)
    <3>1. /\ t.kind \in {"ack", "nack"} /\ t \in PlainTasks \cup ConfirmedTasks
      BY <2>2, TaskElems
    <3> QED BY <3>1
  <2>3. CASE t \in Task("cack", to_ack \cap EO)
    <3>1. t.kind = "cack" /\ t.ids = to_ack \cap EO /\ t \in PlainTasks \cup ConfirmedTasks
      BY <2>3, TaskElems
    <3> QED BY <1>1, <3>1
  <2>4. CASE t \in Task("cnack", to_nack \cap EO)
    <3>1. t.kind = "cnack" /\ t.ids = to_nack \cap EO /\ t \in PlainTasks \cup ConfirmedTasks
      BY <2>4, TaskElems
    <3> QED BY <1>1, <3>1
  <2> QED BY <1>1, <2>1, <2>2, <2>3, <2>4
<1>3. TypeOK'
  <2>1. rpcs' \subseteq [kind : {"ack", "nack"}, ids : (SUBSET ALO) \ {{}}]
                   \cup [kind : {"cack", "cnack"}, ids : (SUBSET EO) \ {{}}]
    BY <1>2 DEF PlainTasks, ConfirmedTasks
  <2>2. /\ UNION {to_ack', to_nack', aged, added, expired, processed} \subseteq Ids
        /\ acked' \cup nacked' \cup confirmed \subseteq Ids
    BY <1>1 DEF TypeOK
  <2> QED BY <1>1, <2>1, <2>2 DEF TypeOK
<1>4. FlowInv' /\ ArrivesInv'
  BY <1>1 DEF FlowInv, ArrivesInv, Settled, MsgIds, AckIds
<1>5. LeaseInv' /\ SentInv'
  <2>1. \A i \in EO \cap to_ack : i \in Ids /\ under[i] = "Acking" /\ i \in added
    BY IdsSplit DEF LeaseInv
  <2> QED BY <1>1, <2>1 DEF LeaseInv, SentInv
<1>6. AccountInv'
  BY <1>1 DEF AccountInv, Gone
<1>7. RpcInv'
  BY <1>1, <1>2 DEF RpcInv
<1>8. ResultInv'
  BY <1>1 DEF ResultInv, LeaseInv
<1>9. OrderInv'
  BY <1>1 DEF OrderInv, MultiThread, LeaseInv, SentInv
<1>10. WaitInv'
  BY <1>1 DEF WaitInv, WaitHonoursConfirmedAcks, WaitHonoursAcks, FireAndForget, Behavior, MultiThread,
              LeaseInv
<1> QED BY <1>3, <1>4, <1>5, <1>6, <1>7, <1>8, <1>9, <1>10

LEMMA StepExtend == ASSUME IInv, Extend PROVE IInv'
<1> USE DEF IInv
<1> DEFINE over == {i \in aged : under[i] = "Leased"}
<1>1. /\ LoopAlive /\ pc' = "start" /\ LoopAlive'
      /\ under' = [i \in Ids |-> IF i \in over THEN "no" ELSE under[i]]
      /\ result' = [i \in Ids |-> IF i \in over \cap EO THEN "expired" ELSE result[i]]
      /\ expired' = expired \cup over
      /\ UNCHANGED <<config, stage, verdict, closed, cancelled, dropped, msgq, ackq, confq, to_ack,
                     to_nack, aged, rpcs, acked, nacked, confirmed, added, processed>>
  BY NewPassAlive DEF Extend, application, shutdown, channels, requests, LoopAlive
<1>2. /\ over \subseteq Ids /\ \A i \in over : under[i] = "Leased" /\ i \in added
      /\ \A i \in over : under'[i] = "no" /\ i \in expired'
      /\ \A i \in Ids : i \notin over => under'[i] = under[i]
      /\ \A i \in over \cap EO : result'[i] = "expired" /\ i \notin acked \cup to_ack
      /\ \A i \in EO : i \notin over => result'[i] = result[i]
      /\ \A i \in Ids : result'[i] = "expired" \/ result'[i] = result[i]
  BY <1>1, IdsSplit DEF TypeOK, LeaseInv
<1>3. TypeOK'
  <2>1. under' \in [Ids -> {"no", "Leased", "Acking", "Nacking"}]
        /\ result' \in [Ids -> {"none", "ok", "rpc", "expired", "shutdown"}]
    BY <1>1 DEF TypeOK
  <2>2. UNION {to_ack, to_nack, aged, added, expired', processed} \subseteq Ids
    BY <1>1, <1>2 DEF TypeOK
  <2> QED BY <1>1, <2>1, <2>2 DEF TypeOK
<1> HIDE DEF over
<1>4. FlowInv' /\ ArrivesInv'
  BY <1>1 DEF FlowInv, ArrivesInv, Settled, MsgIds, AckIds
<1>5. LeaseInv' /\ SentInv'
  BY <1>1, <1>2, IdsSplit DEF LeaseInv, SentInv
<1>6. AccountInv'
  <2>1. added \subseteq Ids
    BY DEF TypeOK
  <2> QED BY <1>1, <1>2, <2>1 DEF AccountInv, Gone
<1>7. RpcInv'
  BY <1>1 DEF RpcInv
<1>8. ResultInv'
  BY <1>1, <1>2, IdsSplit DEF ResultInv, SentInv
<1>9. OrderInv'
  <2>1. processed \subseteq Ids
    BY DEF TypeOK
  <2> QED BY <1>1, <1>2, <2>1 DEF OrderInv, MultiThread
<1>10. WaitInv'
  BY <1>1, <1>2, IdsSplit DEF WaitInv, WaitHonoursConfirmedAcks, WaitHonoursAcks, FireAndForget,
                              Behavior, MultiThread
<1> QED BY <1>3, <1>4, <1>5, <1>6, <1>7, <1>8, <1>9, <1>10

LEMMA StepAddMessage == ASSUME IInv, AddMessage PROVE IInv'
<1> USE DEF IInv
<1> DEFINE h == Head(msgq)
<1>1. /\ LoopAlive /\ pc' = "start" /\ LoopAlive'
      /\ msgq # <<>> /\ msgq' = Tail(msgq)
      /\ under' = [under EXCEPT ![h] = "Leased"] /\ added' = added \cup {h}
      /\ UNCHANGED <<config, stage, verdict, result, closed, cancelled, dropped, ackq, confq, to_ack,
                     to_nack, aged, rpcs, acked, nacked, confirmed, expired, processed>>
  BY NewPassAlive DEF AddMessage, application, shutdown, requests, LoopAlive
<1>2. msgq \in Seq(Ids)
  BY DEF TypeOK
<1>3. /\ Tail(msgq) \in Seq(Ids) /\ h \in Ids /\ 1 \in DOMAIN msgq /\ h = msgq[1]
      /\ \A k \in DOMAIN msgq' : k + 1 \in DOMAIN msgq /\ msgq'[k] = msgq[k + 1] /\ k + 1 # 1
      /\ \A k, l \in DOMAIN msgq' : k # l => k + 1 # l + 1
      /\ \A k \in DOMAIN msgq : k # 1 => k - 1 \in DOMAIN msgq' /\ msgq'[k - 1] = msgq[k]
  BY <1>1, <1>2, TailElems
<1> HIDE DEF h
<1>4. /\ h \in MsgIds /\ h \notin added /\ stage[h] # "server"
      /\ MsgIds \subseteq MsgIds' \cup {h} /\ MsgIds' \subseteq MsgIds /\ h \notin MsgIds'
      /\ \A k, l \in DOMAIN msgq' : k # l => msgq'[k] # msgq'[l]
  <2>1. h \in MsgIds /\ h \notin added /\ stage[h] # "server"
    BY <1>3 DEF MsgIds, FlowInv
  <2>2. MsgIds \subseteq MsgIds' \cup {h} /\ MsgIds' \subseteq MsgIds
    BY <1>3 DEF MsgIds
  <2>3. h \notin MsgIds'
    BY <1>3 DEF MsgIds, FlowInv
  <2>4. \A k, l \in DOMAIN msgq' : k # l => msgq'[k] # msgq'[l]
    BY <1>3 DEF FlowInv
  <2> QED BY <2>1, <2>2, <2>3, <2>4
<1>5. /\ under' \in [Ids -> {"no", "Leased", "Acking", "Nacking"}]
      /\ under'[h] = "Leased" /\ \A i \in Ids : i # h => under'[i] = under[i]
  BY <1>1, <1>3 DEF TypeOK
<1>6. TypeOK'
  <2>1. UNION {to_ack, to_nack, aged, added', expired, processed} \subseteq Ids
    BY <1>1, <1>3 DEF TypeOK
  <2> QED BY <1>1, <1>3, <1>5, <2>1 DEF TypeOK
<1>7. FlowInv'
  <2>1. \A i \in MsgIds' : i \notin added'
    BY <1>1, <1>4 DEF FlowInv
  <2>2. \A i \in MsgIds' \cup added' : stage[i] # "server"
    BY <1>1, <1>4 DEF FlowInv
  <2> QED BY <1>1, <1>4, <2>1, <2>2 DEF FlowInv, Settled
<1>8. ArrivesInv'
  BY <1>1, <1>4 DEF ArrivesInv, Settled, AckIds
<1>9. LeaseInv' /\ SentInv'
  <2>1. IsFiniteSet(added')
    BY <1>1, <1>4, FS_AddElement DEF LeaseInv
  <2>2. \A i \in EO \cap (to_ack \cup to_nack) : i \in Ids /\ i # h
    BY <1>4, IdsSplit DEF LeaseInv
  <2> QED BY <1>1, <1>3, <1>4, <1>5, <2>1, <2>2, IdsSplit DEF LeaseInv, SentInv
<1>10. AccountInv'
  <2>1. added \subseteq Ids
    BY DEF TypeOK
  <2> QED BY <1>1, <1>4, <1>5, <2>1 DEF AccountInv, Gone
<1>11. RpcInv'
  BY <1>1 DEF RpcInv
<1>12. ResultInv'
  BY <1>1, <1>4, <1>5, IdsSplit DEF ResultInv
<1>13. OrderInv'
  <2>1. processed \subseteq Ids
    BY DEF TypeOK
  <2> QED BY <1>1, <1>4, <1>5, <2>1 DEF OrderInv, MultiThread
<1>14. WaitInv'
  BY <1>1 DEF WaitInv, WaitHonoursConfirmedAcks, WaitHonoursAcks, FireAndForget, Behavior, MultiThread
<1> QED BY <1>6, <1>7, <1>8, <1>9, <1>10, <1>11, <1>12, <1>13, <1>14

\* A step that only moves the loop on, lets time pass, or ends a request.
LEMMA StepIdle ==
    ASSUME IInv,
           \/ pc' = pc /\ aged' \subseteq Ids /\ rpcs' \subseteq rpcs
           \/ pc = "start" /\ pc' = "past" /\ UNCHANGED <<aged, rpcs>>
           \/ pc = "wait" /\ pc' = "done" /\ rpcs = {} /\ UNCHANGED <<aged, rpcs>>,
           UNCHANGED <<config, stage, verdict, result, closed, cancelled, dropped, msgq, ackq, confq,
                       under, to_ack, to_nack, acked, nacked, confirmed, added, expired, processed>>
    PROVE  IInv'
<1> USE DEF IInv
<1>1. (LoopAlive <=> LoopAlive') /\ rpcs' \subseteq rpcs /\ (pc' = "done" => rpcs' = {})
  BY DEF LoopAlive, RpcInv
<1>2. TypeOK'
  BY <1>1 DEF TypeOK
<1>3. FlowInv' /\ ArrivesInv'
  BY <1>1 DEF FlowInv, ArrivesInv, Settled, MsgIds, AckIds
<1>4. LeaseInv' /\ SentInv' /\ AccountInv'
  BY <1>1 DEF LeaseInv, SentInv, AccountInv, Gone
<1>5. RpcInv' /\ ResultInv'
  BY <1>1 DEF RpcInv, ResultInv
<1>6. OrderInv' /\ WaitInv'
  BY <1>1 DEF OrderInv, WaitInv, WaitHonoursConfirmedAcks, WaitHonoursAcks, FireAndForget, Behavior,
              MultiThread
<1> QED BY <1>2, <1>3, <1>4, <1>5, <1>6

LEMMA StepProcessAction == ASSUME IInv, ProcessAction PROVE IInv'
<1> USE DEF IInv
<1> DEFINE i      == Head(ackq).id
           op     == Head(ackq).op
           leased == under[i] # "no"
<1>1. /\ LoopAlive /\ AtAcks /\ pc' = "start" /\ LoopAlive'
      /\ ackq # <<>> /\ ackq' = Tail(ackq)
      /\ under' = [under EXCEPT ![i] = StatusAfter(i, op)]
      /\ to_ack' = IF op = "ack" /\ (leased \/ i \in ALO) THEN to_ack \cup {i} ELSE to_ack
      /\ to_nack' = IF op = "nack" /\ leased THEN to_nack \cup {i} ELSE to_nack
      /\ processed' = processed \cup {i}
      /\ UNCHANGED <<config, stage, verdict, result, closed, cancelled, dropped, msgq, confq, aged,
                     rpcs, acked, nacked, confirmed, added, expired>>
  BY NewPassAlive DEF ProcessAction, application, shutdown, requests, LoopAlive
<1>2. ackq \in Seq(AckActions)
  BY QueueElems
<1>3. /\ Tail(ackq) \in Seq(AckActions) /\ 1 \in DOMAIN ackq /\ Head(ackq) = ackq[1]
      /\ \A k \in DOMAIN ackq' : k + 1 \in DOMAIN ackq /\ ackq'[k] = ackq[k + 1] /\ k + 1 # 1
      /\ \A k, l \in DOMAIN ackq' : k # l => k + 1 # l + 1
      /\ \A k \in DOMAIN ackq : k # 1 => k - 1 \in DOMAIN ackq' /\ ackq'[k - 1] = ackq[k]
  BY <1>1, <1>2, TailElems
<1>4. i = ackq[1].id /\ op = ackq[1].op /\ i \in Ids /\ op \in {"ack", "nack"}
  BY <1>3, QueueElems
<1> HIDE DEF i, op
<1>5. /\ verdict[i] = op /\ i \notin processed /\ stage[i] \in {"held", "consumed"}
      /\ AckIds \subseteq AckIds' \cup {i} /\ AckIds' \subseteq AckIds /\ i \notin AckIds'
      /\ \A k, l \in DOMAIN ackq' : k # l => ackq'[k].id # ackq'[l].id
  <2>1. verdict[i] = op /\ i \notin processed
    BY <1>3, <1>4 DEF FlowInv
  <2>2. stage[i] \in {"held", "consumed"}
    BY <1>4, <2>1 DEF FlowInv, Settled
  <2>3. AckIds \subseteq AckIds' \cup {i}
    BY <1>3, <1>4 DEF AckIds
  <2>4. AckIds' \subseteq AckIds
    BY <1>3 DEF AckIds
  <2>5. i \notin AckIds'
    BY <1>3, <1>4 DEF AckIds, FlowInv
  <2>6. \A k, l \in DOMAIN ackq' : k # l => ackq'[k].id # ackq'[l].id
    BY <1>3 DEF FlowInv
  <2> QED BY <2>1, <2>2, <2>3, <2>4, <2>5, <2>6
<1>6. /\ i \notin acked \cup nacked /\ i \notin to_ack \cup to_nack
      /\ leased => under[i] = "Leased" /\ i \in added
  BY <1>1, <1>4, <1>5 DEF SentInv, LeaseInv, TypeOK
<1>7. /\ under' \in [Ids -> {"no", "Leased", "Acking", "Nacking"}]
      /\ \A j \in Ids : j # i => under'[j] = under[j]
      /\ i \in EO /\ leased /\ op = "ack" => under'[i] = "Acking"
      /\ i \in EO /\ leased /\ op = "nack" => under'[i] = "Nacking"
      /\ ~(i \in EO /\ leased) => under'[i] = "no"
  <2>1. StatusAfter(i, op) \in {"no", "Acking", "Nacking"}
    BY <1>4 DEF StatusAfter, AckStatus
  <2>2. under'[i] = StatusAfter(i, op) /\ \A j \in Ids : j # i => under'[j] = under[j]
    BY <1>1, <1>4 DEF TypeOK
  <2>3. under' \in [Ids -> {"no", "Leased", "Acking", "Nacking"}]
    BY <1>1, <1>4, <2>1 DEF TypeOK
  <2> QED BY <1>4, <2>2, <2>3 DEF StatusAfter, AckStatus
<1> HIDE DEF leased
<1>8. TypeOK'
  <2>1. UNION {to_ack', to_nack', aged, added, expired, processed'} \subseteq Ids
    BY <1>1, <1>4 DEF TypeOK
  <2>2. ackq' \in Seq([op : {"ack", "nack"}, id : Ids])
    BY <1>1, <1>3 DEF AckActions
  <2> QED BY <1>1, <1>7, <2>1, <2>2 DEF TypeOK
<1>9. FlowInv'
  <2>1. \A k \in DOMAIN ackq' : verdict[ackq'[k].id] = ackq'[k].op /\ ackq'[k].id \notin processed'
    <3>1. \A k \in DOMAIN ackq' : ackq'[k].id # i
      BY <1>5 DEF AckIds
    <3> QED BY <1>1, <1>3, <3>1 DEF FlowInv
  <2>2. \A j \in processed' : Settled(j)
    BY <1>1, <1>4, <1>5 DEF FlowInv, Settled
  <2> QED BY <1>1, <1>5, <2>1, <2>2 DEF FlowInv, Settled, MsgIds
<1>10. ArrivesInv'
  BY <1>1, <1>5 DEF ArrivesInv, Settled, MsgIds
<1>11. LeaseInv'
  <2>1. \A j \in Ids : under'[j] # "no" => j \in added
    BY <1>6, <1>7 DEF LeaseInv
  <2>2. \A j \in Ids : under'[j] \in {"Acking", "Nacking"} => j \in EO \cap processed'
    BY <1>1, <1>7 DEF LeaseInv
  <2>3. \A j \in EO : under'[j] = "Leased" => j \notin acked
    BY <1>4, <1>7, IdsSplit DEF LeaseInv
  <2>4. \A j \in to_ack' : verdict[j] = "ack" /\ j \in processed'
    BY <1>1, <1>5 DEF LeaseInv
  <2>5. \A j \in to_nack' : verdict[j] = "nack" /\ j \in processed' \cap added
    BY <1>1, <1>5, <1>6 DEF LeaseInv
  <2>6. \A j \in EO \cap to_ack' : under'[j] = "Acking" /\ j \notin acked \cup nacked
    BY <1>1, <1>6, <1>7, IdsSplit DEF LeaseInv
  <2>7. \A j \in EO \cap to_nack' : under'[j] = "Nacking" /\ j \notin acked \cup nacked
    BY <1>1, <1>6, <1>7, IdsSplit DEF LeaseInv
  <2> QED BY <1>1, <2>1, <2>2, <2>3, <2>4, <2>5, <2>6, <2>7 DEF LeaseInv
<1>12. SentInv'
  BY <1>1 DEF SentInv
<1>13. AccountInv'
  <2> SUFFICES ASSUME NEW j \in added
               PROVE  Gone(j) \/ under'[j] # "no" \/ j \in to_ack' \cup to_nack'
    BY <1>1 DEF AccountInv, Gone
  <2>1. j \in Ids /\ (Gone(j) \/ under[j] # "no" \/ j \in to_ack \cup to_nack)
    BY DEF AccountInv, TypeOK
  <2>2. CASE j = i
    <3>1. j \in ALO \cup EO
      BY <2>1 DEF Ids
    <3> QED BY <1>1, <1>4, <1>6, <1>7, <2>1, <2>2, <3>1 DEF leased
  <2>3. CASE j # i
    BY <1>1, <1>7, <2>1, <2>3
  <2> QED BY <2>2, <2>3
<1>14. RpcInv'
  BY <1>1 DEF RpcInv
<1>15. ResultInv'
  <2>1. \A j \in EO : result[j] \in {"ok", "rpc", "expired"} => under'[j] = "no" /\ j \in added
    BY <1>7, IdsSplit DEF ResultInv, leased
  <2>2. \A j \in EO : result[j] = "expired" => j \notin acked \cup to_ack'
    BY <1>1, IdsSplit DEF ResultInv, leased
  <2> QED BY <1>1, <2>1, <2>2 DEF ResultInv
<1>16. OrderInv'
  <2> SUFFICES ASSUME ~MultiThread
               PROVE  processed' \subseteq added /\ \A j \in processed' : under'[j] # "Leased"
    BY <1>1 DEF OrderInv, MultiThread
  <2>1. MsgIds = {}
    BY <1>1 DEF AtAcks, MsgIds
  <2>2. i \in added
    BY <1>1, <1>4, <1>5, <2>1 DEF ArrivesInv
  <2>3. under'[i] # "Leased"
    BY <1>4, <1>7
  <2>4. processed \subseteq Ids
    BY DEF TypeOK
  <2> QED BY <1>1, <1>7, <2>2, <2>3, <2>4 DEF OrderInv
<1>17. WaitInv'
  BY <1>1 DEF WaitInv, WaitHonoursConfirmedAcks, WaitHonoursAcks, FireAndForget, Behavior, MultiThread
<1> QED BY <1>8, <1>9, <1>10, <1>11, <1>12, <1>13, <1>14, <1>15, <1>16, <1>17

LEMMA StepConfirm == ASSUME IInv, Confirm PROVE IInv'
<1> USE DEF IInv
<1> DEFINE r   == Head(confq)
           ids == {i \in r.ok \cup r.err : under[i] # "no"}
<1>1. /\ LoopAlive /\ pc' = "start" /\ LoopAlive' /\ confq # <<>> /\ confq' = Tail(confq)
      /\ under' = [i \in Ids |-> IF i \in ids THEN "no" ELSE under[i]]
      /\ result' = [i \in Ids |-> IF i \notin ids THEN result[i]
                                  ELSE IF i \in r.ok THEN "ok" ELSE "rpc"]
      /\ UNCHANGED <<config, stage, verdict, closed, cancelled, dropped, msgq, ackq, to_ack, to_nack,
                     aged, rpcs, acked, nacked, confirmed, added, expired, processed>>
  BY NewPassAlive DEF Confirm, application, shutdown, requests, ghosts, LoopAlive
<1>2. confq \in Seq(Reports)
  BY QueueElems
<1>3. /\ Tail(confq) \in Seq(Reports) /\ 1 \in DOMAIN confq /\ r = confq[1]
      /\ \A k \in DOMAIN confq' : k + 1 \in DOMAIN confq /\ confq'[k] = confq[k + 1]
  BY <1>1, <1>2, TailElems
<1>4. /\ r.ok \subseteq EO /\ r.err \subseteq EO /\ r.ok \cup r.err \subseteq acked \cup nacked
      /\ \A i \in r.ok : verdict[i] = "ack" => i \in confirmed
  BY <1>1, <1>3, QueueElems DEF RpcInv
<1> HIDE DEF r
<1>5. /\ ids \subseteq EO /\ ids \subseteq Ids /\ ids \subseteq processed /\ ids \subseteq added
      /\ ids \subseteq acked \cup nacked
      /\ ids \cap (to_ack \cup to_nack) = {}
  <2>1. ids \subseteq EO /\ ids \subseteq Ids /\ ids \subseteq acked \cup nacked
    BY <1>4, IdsSplit
  <2> QED BY <1>1, <2>1 DEF SentInv, LeaseInv
<1>6. /\ \A i \in ids : under'[i] = "no" /\ result'[i] = IF i \in r.ok THEN "ok" ELSE "rpc"
      /\ \A i \in Ids : i \notin ids => under'[i] = under[i] /\ result'[i] = result[i]
      /\ under' \in [Ids -> {"no", "Leased", "Acking", "Nacking"}]
      /\ result' \in [Ids -> {"none", "ok", "rpc", "expired", "shutdown"}]
  BY <1>1, <1>5 DEF TypeOK
<1> HIDE DEF ids
<1>7. TypeOK'
  <2>1. confq' \in Seq([ok : SUBSET EO, err : SUBSET EO])
    BY <1>1, <1>3 DEF Reports
  <2> QED BY <1>1, <1>6, <2>1 DEF TypeOK
<1>8. FlowInv' /\ ArrivesInv'
  BY <1>1 DEF FlowInv, ArrivesInv, Settled, MsgIds, AckIds
<1>9. LeaseInv' /\ SentInv'
  BY <1>1, <1>5, <1>6, IdsSplit DEF LeaseInv, SentInv
<1>10. AccountInv'
  <2>1. added \subseteq Ids
    BY DEF TypeOK
  <2> QED BY <1>1, <1>5, <1>6, <2>1 DEF AccountInv, Gone
<1>11. RpcInv'
  BY <1>1, <1>3 DEF RpcInv
<1>12. ResultInv'
  <2> SUFFICES ASSUME NEW i \in EO
               PROVE  /\ result'[i] \in {"ok", "rpc", "expired"} => under'[i] = "no" /\ i \in added
                      /\ result'[i] \in {"ok", "rpc"} => i \in processed
                      /\ result'[i] = "ok" /\ verdict[i] = "ack" => i \in confirmed /\ i \notin nacked
                      /\ result'[i] = "expired" => i \notin acked \cup to_ack
                      /\ i \in nacked => verdict[i] = "nack"
    <3>1. \A i \in Ids : result'[i] # "shutdown"
      BY <1>1, <1>6 DEF ResultInv
    <3> QED BY <1>1, <3>1 DEF ResultInv
  <2>1. i \in Ids /\ (i \in nacked => verdict[i] = "nack")
    BY <1>1, IdsSplit DEF SentInv
  <2>2. CASE i \in ids
    BY <1>4, <1>5, <1>6, <2>1, <2>2
  <2>3. CASE i \notin ids
    BY <1>6, <2>1, <2>3 DEF ResultInv
  <2> QED BY <2>2, <2>3
<1>13. OrderInv'
  <2>1. processed \subseteq Ids
    BY DEF TypeOK
  <2> QED BY <1>1, <1>6, <2>1 DEF OrderInv, MultiThread
<1>14. WaitInv'
  BY <1>1, <1>6, IdsSplit DEF WaitInv, WaitHonoursConfirmedAcks, WaitHonoursAcks, FireAndForget,
                              Behavior, MultiThread
<1> QED BY <1>7, <1>8, <1>9, <1>10, <1>11, <1>12, <1>13, <1>14

-----------------------------------------------------------------------------
(***************************************************************************)
(* Shutdown.                                                               *)
(***************************************************************************)
\* The requests that evict makes of a set of leases.
LEMMA NackTaskElems ==
    ASSUME NEW kind, NEW s, IsFiniteSet(s), NEW t \in NackTasks(kind, s),
           \/ kind = "nack" /\ s \subseteq ALO
           \/ kind = "cnack" /\ s \subseteq EO
    PROVE  t \in PlainTasks \cup ConfirmedTasks /\ t.kind = kind /\ t.ids \subseteq s
<1>1. PICK c \in Chunks(s) : t = [kind |-> kind, ids |-> c]
  BY DEF NackTasks
<1>2. c \subseteq s /\ c # {}
  BY <1>1, ChunksSpec
<1>3. t.kind = kind /\ t.ids = c
  BY <1>1
<1> QED BY <1>1, <1>2, <1>3, TaskType

\* The last actions of the loop: la and ln are the acks and nacks it found in its queue.
LEMMA StepEvictAndWait ==
    ASSUME IInv, LoopAlive, NEW la, NEW ln, EvictAndWait(la, ln),
           la \cup ln = AckIds,
           \A i \in la : i \in Ids /\ verdict[i] = "ack",
           \A i \in ln : i \in Ids /\ verdict[i] = "nack",
           ~MultiThread => msgq = <<>>,
           Behavior = "WaitForProcessing" =>
                dropped /\ \A i \in Ids : stage[i] \notin {"app", "held"}
    PROVE  IInv'
<1> USE DEF IInv
<1> DEFINE leasedALO == {i \in ALO : under[i] # "no"}
           leasedEO  == {i \in EO : under[i] # "no"}
           ackNow    == (to_ack \cap ALO) \cup (la \cap ALO)
           nackNow   == (to_nack \cap ALO) \cup (leasedALO \ la)
<1>1. /\ rpcs' = rpcs \cup Task("ack", ackNow) \cup NackTasks("nack", nackNow)
                      \cup NackTasks("cnack", leasedEO)
      /\ acked' = acked \cup ackNow /\ nacked' = nacked \cup nackNow \cup leasedEO
      /\ result' = EvictedResults /\ under' = [i \in Ids |-> "no"]
      /\ to_ack' = {} /\ to_nack' = {} /\ processed' = processed \cup la \cup ln
      /\ ackq' = <<>> /\ pc' = "wait" /\ ~LoopAlive'
      /\ UNCHANGED <<config, stage, verdict, closed, cancelled, dropped, msgq, confq, aged, confirmed,
                     added, expired>>
  BY DEF EvictAndWait, application, shutdown, LoopAlive
<1>2. /\ ackNow \subseteq ALO /\ nackNow \subseteq ALO /\ leasedEO \subseteq EO
      /\ nackNow \subseteq added /\ leasedEO \subseteq added
      /\ \A i \in leasedEO : under[i] # "no"
      /\ \A i \in EO : under[i] # "no" => i \in leasedEO
      /\ \A i \in ALO : under[i] # "no" => i \in la \/ i \in nackNow
      /\ \A i \in to_ack \cap ALO : i \in ackNow
      /\ \A i \in la \cap ALO : i \in ackNow
      /\ \A i \in to_nack \cap ALO : i \in nackNow
      /\ \A i \in ackNow : i \in to_ack \/ i \in la
      /\ \A i \in nackNow : i \in to_nack \/ (under[i] # "no" /\ i \notin la)
  BY IdsSplit DEF LeaseInv
<1>3. IsFiniteSet(nackNow) /\ IsFiniteSet(leasedEO)
  BY <1>2, FS_Subset DEF LeaseInv
<1> HIDE DEF leasedALO, leasedEO, ackNow, nackNow
<1>4. \A t \in rpcs' : /\ t \in PlainTasks \cup ConfirmedTasks
                       /\ t.kind = "cack" => t.ids \subseteq acked'
                       /\ t.kind = "cnack" => t.ids \subseteq nacked'
  <2> SUFFICES ASSUME NEW t \in rpcs'
               PROVE  /\ t \in PlainTasks \cup ConfirmedTasks
                      /\ t.kind = "cack" => t.ids \subseteq acked'
                      /\ t.kind = "cnack" => t.ids \subseteq nacked'
    OBVIOUS
  <2>1. CASE t \in rpcs
    BY <1>1, <2>1, RpcElems DEF RpcInv
  <2>2. CASE t \in Task("ack", ackNow)
    <3>1. t.kind = "ack" /\ t \in PlainTasks \cup ConfirmedTasks
      BY <1>2, <2>2, TaskElems
    <3> QED BY <3>1
  <2>3. CASE t \in NackTasks("nack", nackNow)
    <3>1. t.kind = "nack" /\ t \in PlainTasks \cup ConfirmedTasks
      BY <1>2, <1>3, <2>3, NackTaskElems
    <3> QED BY <3>1
  <2>4. CASE t \in NackTasks("cnack", leasedEO)
    <3>1. t.kind = "cnack" /\ t.ids \subseteq leasedEO /\ t \in PlainTasks \cup ConfirmedTasks
      BY <1>2, <1>3, <2>4, NackTaskElems
    <3> QED BY <1>1, <3>1
  <2> QED BY <1>1, <2>1, <2>2, <2>3, <2>4
<1>5. /\ result' \in [Ids -> {"none", "ok", "rpc", "expired", "shutdown"}]
      /\ \A i \in leasedEO : result'[i] = "shutdown"
      /\ \A i \in Ids : result'[i] = result[i] \/ result'[i] = "shutdown"
  BY <1>1, <1>2, IdsSplit DEF EvictedResults, TypeOK
<1>6. \A i \in Ids : under'[i] = "no"
  BY <1>1
<1>7. TypeOK'
  <2>1. rpcs' \subseteq [kind : {"ack", "nack"}, ids : (SUBSET ALO) \ {{}}]
                   \cup [kind : {"cack", "cnack"}, ids : (SUBSET EO) \ {{}}]
    BY <1>4 DEF PlainTasks, ConfirmedTasks
  <2>2. /\ UNION {to_ack', to_nack', aged, added, expired, processed'} \subseteq Ids
        /\ acked' \cup nacked' \cup confirmed \subseteq Ids
    BY <1>1, <1>2, IdsSplit DEF TypeOK
  <2>3. under' \in [Ids -> {"no", "Leased", "Acking", "Nacking"}] /\ pc' \in {"start", "past", "wait", "done"}
    BY <1>1
  <2>4. ackq' \in Seq([op : {"ack", "nack"}, id : Ids])
    BY <1>1
  <2> QED BY <1>1, <1>5, <2>1, <2>2, <2>3, <2>4 DEF TypeOK
<1>8. FlowInv' /\ ArrivesInv'
  <2>1. \A i \in processed' : Settled(i)
    BY <1>1 DEF FlowInv, Settled
  <2>2. DOMAIN ackq' = {}
    BY <1>1
  <2> QED BY <1>1, <2>1, <2>2 DEF FlowInv, ArrivesInv, Settled, MsgIds
<1>9. LeaseInv' /\ SentInv'
  <2>1. EO \cap acked' \subseteq added
    BY <1>1, <1>2, IdsSplit DEF LeaseInv
  <2> QED BY <1>1, <1>6, <2>1, IdsSplit DEF LeaseInv, SentInv
<1>10. AccountInv'
  <2> SUFFICES ASSUME NEW i \in added, ~Gone(i) PROVE i \in acked' \cup nacked'
    BY <1>1 DEF AccountInv, Gone
  <2>1. i \in ALO \cup EO /\ (under[i] # "no" \/ i \in to_ack \cup to_nack)
    BY DEF AccountInv, TypeOK, Ids
  <2>2. CASE i \in EO
    BY <1>1, <1>2, <2>1, <2>2 DEF LeaseInv
  <2>3. CASE i \in ALO
    BY <1>1, <1>2, <2>1, <2>3
  <2> QED BY <2>1, <2>2, <2>3
<1>11. RpcInv'
  BY <1>1, <1>4 DEF RpcInv
<1>12. ResultInv'
  <2> SUFFICES ASSUME NEW i \in EO
               PROVE  /\ result'[i] \in {"ok", "rpc", "expired"} => under'[i] = "no" /\ i \in added
                      /\ result'[i] \in {"ok", "rpc"} => i \in processed'
                      /\ result'[i] = "ok" /\ verdict[i] = "ack" => i \in confirmed /\ i \notin nacked'
                      /\ result'[i] = "expired" => i \notin acked'
                      /\ i \in nacked' => result'[i] = "shutdown" \/ verdict[i] = "nack"
    BY <1>1 DEF ResultInv
  <2>1. i \in Ids /\ i \notin ackNow /\ i \notin nackNow /\ under'[i] = "no"
    BY <1>2, <1>6, IdsSplit
  <2>2. i \in nacked => verdict[i] = "nack"
    BY DEF SentInv
  <2>3. CASE result'[i] = "shutdown"
    BY <2>3
  <2>4. CASE result'[i] # "shutdown"
    <3>1. result'[i] = result[i] /\ i \notin leasedEO
      BY <1>5, <2>1, <2>4
    <3> QED BY <1>1, <2>1, <2>2, <3>1 DEF ResultInv
  <2> QED BY <2>3, <2>4
<1>13. ASSUME ~MultiThread, NEW i \in ALO, under[i] # "no"
       PROVE  i \notin processed
  <2>1. under[i] = "Leased"
    BY <1>13, IdsSplit DEF LeaseInv, TypeOK
  <2> QED BY <1>13, <2>1 DEF OrderInv
<1>14. OrderInv'
  <2> SUFFICES ASSUME ~MultiThread
               PROVE  /\ processed' \subseteq added
                      /\ \A i \in ALO : ~(i \in acked' /\ i \in nacked')
    <3>1. processed' \subseteq Ids
      BY <1>7 DEF TypeOK
    <3> QED BY <1>1, <1>6, <3>1 DEF OrderInv, MultiThread
  <2>1. MsgIds = {}
    BY DEF MsgIds
  <2>2. \A i \in la \cup ln : i \in added
    BY <2>1 DEF ArrivesInv, FlowInv, Settled
  <2>3. processed' \subseteq added
    BY <1>1, <2>2 DEF OrderInv
  <2>4. ASSUME NEW i \in ALO, i \in acked', i \in nacked' PROVE FALSE
    <3>1. i \notin leasedEO
      BY <1>2, IdsSplit
    <3>2. verdict[i] = "ack" /\ (i \in processed \/ i \in la)
      BY <1>1, <1>2, <2>4 DEF SentInv, LeaseInv
    <3>3. i \notin nacked /\ i \notin to_nack
      BY <3>2 DEF SentInv, LeaseInv
    <3>4. under[i] # "no" /\ i \notin la
      BY <1>1, <1>2, <2>4, <3>1, <3>3
    <3> QED BY <1>13, <3>2, <3>4
  <2> QED BY <2>3, <2>4
<1>15. WaitInv'
  <2>1. ASSUME ~MultiThread, ~FireAndForget, Behavior = "WaitForProcessing",
               NEW i \in Ids, verdict[i] = "ack", i \in nacked'
        PROVE  FALSE
    <3>1. i \notin nacked /\ i \notin to_nack /\ i \notin ln
      BY <2>1 DEF SentInv, LeaseInv
    <3>2. i \in nackNow \/ i \in leasedEO
      BY <1>1, <2>1, <3>1
    <3>3. i \in processed \/ i \in la
      BY <2>1, <3>1 DEF ArrivesInv, Settled
    <3>4. CASE i \in nackNow
      <4>1. i \in ALO /\ under[i] # "no" /\ i \notin la
        BY <1>2, <3>1, <3>4
      <4> QED BY <1>13, <2>1, <3>3, <4>1
    <3>5. CASE i \in leasedEO
      <4>1. i \in EO /\ under[i] # "no"
        BY <1>2, <3>5
      <4>2. stage[i] = "consumed"
        BY <2>1 DEF FlowInv, Settled
      <4>3. result[i] # "none" /\ result[i] # "shutdown"
        BY <2>1, <4>1, <4>2 DEF WaitInv, ResultInv
      <4>4. result[i] \in {"ok", "rpc", "expired"}
        BY <4>3 DEF TypeOK
      <4> QED BY <4>1, <4>4 DEF ResultInv
    <3> QED BY <3>2, <3>4, <3>5
  <2>2. WaitHonoursConfirmedAcks'
    BY <1>1, <2>1 DEF WaitHonoursConfirmedAcks, WaitHonoursAcks, FireAndForget, Behavior, MultiThread
  <2> QED BY <1>1, <2>2 DEF WaitInv, FireAndForget, Behavior
<1> QED BY <1>7, <1>8, <1>9, <1>10, <1>11, <1>12, <1>14, <1>15

LEMMA StepMessagesClosed == ASSUME IInv, MessagesClosed PROVE IInv'
<1> DEFINE la == InQueue("ack")
           ln == InQueue("nack")
<1>1. LoopAlive /\ pc # "done" /\ msgq = <<>> /\ ~MessageSenders /\ EvictAndWait(la, ln)
  BY NewPassAlive DEF MessagesClosed
<1>2. Behavior # "WaitForProcessing"
  BY <1>1 DEF MessageSenders
<1>3. \A k \in DOMAIN ackq : /\ ackq[k].op \in {"ack", "nack"} /\ ackq[k].id \in Ids
                             /\ verdict[ackq[k].id] = ackq[k].op
  BY QueueElems DEF IInv, FlowInv
<1>4. la \cup ln = AckIds
  BY <1>3 DEF InQueue, AckIds
<1>5. /\ \A i \in la : i \in Ids /\ verdict[i] = "ack"
      /\ \A i \in ln : i \in Ids /\ verdict[i] = "nack"
  BY <1>3 DEF InQueue
<1> HIDE DEF la, ln
<1> QED BY <1>1, <1>2, <1>4, <1>5, StepEvictAndWait

LEMMA StepAcksClosed == ASSUME IInv, AcksClosed PROVE IInv'
<1> DEFINE none == {}
<1>1. LoopAlive /\ AtAcks /\ ackq = <<>> /\ ~AckSenders /\ EvictAndWait(none, none)
  BY NewPassAlive DEF AcksClosed
<1>2. none \cup none = AckIds /\ none = {}
  BY <1>1 DEF AckIds
<1>3. dropped /\ \A i \in Ids : stage[i] \notin {"app", "held"}
  BY <1>1 DEF AckSenders
<1>4. ~MultiThread => msgq = <<>>
  BY <1>1 DEF AtAcks
<1> HIDE DEF none
<1> QED BY <1>1, <1>2, <1>3, <1>4, StepEvictAndWait

-----------------------------------------------------------------------------
(***************************************************************************)
(* The RPCs.                                                               *)
(***************************************************************************)
LEMMA StepEoAttempt ==
    ASSUME IInv, NEW t \in rpcs, NEW ok \in SUBSET t.ids, NEW err \in SUBSET (t.ids \ ok),
           EoAttempt(t, ok, err)
    PROVE  IInv'
<1> USE DEF IInv
<1> DEFINE left == t.ids \ (ok \cup err)
           e    == [ok |-> ok, err |-> err]
<1>1. /\ t.kind \in {"cack", "cnack"}
      /\ rpcs' = (rpcs \ {t}) \cup Task(t.kind, left)
      /\ confq' = IF LoopAlive THEN Append(confq, e) ELSE confq
      /\ confirmed' = IF t.kind = "cack" THEN confirmed \cup ok ELSE confirmed
      /\ UNCHANGED <<config, stage, verdict, result, closed, cancelled, dropped, msgq, ackq, under,
                     to_ack, to_nack, aged, acked, nacked, pc, added, expired, processed>>
  BY DEF EoAttempt, application, shutdown, leases, ghosts
<1>2. /\ t.ids \subseteq EO /\ t.ids \subseteq Ids /\ pc # "done" /\ left \subseteq t.ids
      /\ ok \subseteq t.ids /\ err \subseteq t.ids
      /\ t.kind = "cack" => t.ids \subseteq acked
      /\ t.kind = "cnack" => t.ids \subseteq nacked
  BY <1>1, RpcElems, IdsSplit DEF RpcInv
<1>3. /\ confq \in Seq(Reports) /\ e \in Reports /\ e.ok = ok /\ e.err = err
  BY <1>2, QueueElems DEF Reports
<1> HIDE DEF e, left
<1>4. /\ confq' \in Seq(Reports)
      /\ \A k \in DOMAIN confq' : confq'[k] = e \/ (k \in DOMAIN confq /\ confq'[k] = confq[k])
  <2>1. CASE LoopAlive
    BY <1>1, <1>3, <2>1, AppendElems
  <2>2. CASE ~LoopAlive
    BY <1>1, <1>3, <2>2
  <2> QED BY <2>1, <2>2
<1>5. \A u \in rpcs' : /\ u \in PlainTasks \cup ConfirmedTasks
                       /\ u.kind = "cack" => u.ids \subseteq acked
                       /\ u.kind = "cnack" => u.ids \subseteq nacked
  <2> SUFFICES ASSUME NEW u \in rpcs'
               PROVE  /\ u \in PlainTasks \cup ConfirmedTasks
                      /\ u.kind = "cack" => u.ids \subseteq acked
                      /\ u.kind = "cnack" => u.ids \subseteq nacked
    OBVIOUS
  <2>1. CASE u \in rpcs
    BY <2>1, RpcElems DEF RpcInv
  <2>2. CASE u \in Task(t.kind, left)
    <3>1. u.kind = t.kind /\ u.ids = left /\ u \in PlainTasks \cup ConfirmedTasks
      <4>1. left \subseteq EO
        BY <1>2
      <4> QED BY <1>1, <2>2, <4>1, TaskElems
    <3> QED BY <1>2, <3>1
  <2> QED BY <1>1, <2>1, <2>2
<1>6. TypeOK'
  <2>1. rpcs' \subseteq [kind : {"ack", "nack"}, ids : (SUBSET ALO) \ {{}}]
                   \cup [kind : {"cack", "cnack"}, ids : (SUBSET EO) \ {{}}]
    BY <1>5 DEF PlainTasks, ConfirmedTasks
  <2>2. acked \cup nacked \cup confirmed' \subseteq Ids
    BY <1>1, <1>2 DEF TypeOK
  <2>3. confq' \in Seq([ok : SUBSET EO, err : SUBSET EO])
    BY <1>4 DEF Reports
  <2> QED BY <1>1, <2>1, <2>2, <2>3 DEF TypeOK
<1>7. FlowInv' /\ ArrivesInv'
  BY <1>1 DEF FlowInv, ArrivesInv, Settled, MsgIds, AckIds, LoopAlive
<1>8. LeaseInv' /\ SentInv' /\ AccountInv'
  BY <1>1 DEF LeaseInv, SentInv, AccountInv, Gone, LoopAlive
<1>9. RpcInv'
  <2>1. \A k \in DOMAIN confq' : confq'[k].ok \cup confq'[k].err \subseteq acked \cup nacked
    <3>1. e.ok \cup e.err \subseteq acked \cup nacked
      BY <1>1, <1>2, <1>3
    <3> QED BY <1>4, <3>1 DEF RpcInv
  <2>2. ASSUME LoopAlive, NEW k \in DOMAIN confq', NEW i \in confq'[k].ok, verdict[i] = "ack"
        PROVE  i \in confirmed'
    <3>1. CASE confq'[k] = e
      <4>1. i \in ok
        BY <1>3, <2>2, <3>1
      <4>2. i \notin nacked
        BY <2>2 DEF SentInv
      <4> QED BY <1>1, <1>2, <4>1, <4>2
    <3>2. CASE k \in DOMAIN confq /\ confq'[k] = confq[k]
      BY <1>1, <2>2, <3>2 DEF RpcInv
    <3> QED BY <1>4, <3>1, <3>2
  <2> QED BY <1>1, <1>2, <1>5, <2>1, <2>2 DEF RpcInv, LoopAlive
<1>10. ResultInv'
  BY <1>1 DEF ResultInv, LoopAlive
<1>11. OrderInv' /\ WaitInv'
  BY <1>1 DEF OrderInv, WaitInv, WaitHonoursConfirmedAcks, WaitHonoursAcks, FireAndForget, Behavior,
              MultiThread, LoopAlive
<1> QED BY <1>6, <1>7, <1>8, <1>9, <1>10, <1>11

-----------------------------------------------------------------------------
(***************************************************************************)
(* The invariant, and what follows from it.                                *)
(***************************************************************************)
LEMMA InitIInv == Init => IInv
<1> SUFFICES ASSUME Init PROVE IInv
  OBVIOUS
<1>1. TypeOK
  <2>1. /\ msgq \in Seq(Ids) /\ ackq \in Seq([op : {"ack", "nack"}, id : Ids])
        /\ confq \in Seq([ok : SUBSET EO, err : SUBSET EO])
    BY DEF Init
  <2>2. /\ UNION {to_ack, to_nack, aged, added, expired, processed} \subseteq Ids
        /\ acked \cup nacked \cup confirmed \subseteq Ids
        /\ rpcs \subseteq [kind : {"ack", "nack"}, ids : (SUBSET ALO) \ {{}}]
                     \cup [kind : {"cack", "cnack"}, ids : (SUBSET EO) \ {{}}]
    BY DEF Init
  <2>3. /\ stage \in [Ids -> {"server", "pool", "app", "held", "consumed", "lost"}]
        /\ verdict \in [Ids -> {"none", "ack", "nack"}]
        /\ result \in [Ids -> {"none", "ok", "rpc", "expired", "shutdown"}]
        /\ under \in [Ids -> {"no", "Leased", "Acking", "Nacking"}]
    BY DEF Init
  <2> QED BY <2>1, <2>2, <2>3 DEF Init, TypeOK
<1>2. DOMAIN msgq = {} /\ DOMAIN ackq = {} /\ DOMAIN confq = {} /\ MsgIds = {} /\ AckIds = {}
  BY DEF Init, MsgIds, AckIds
<1>3. FlowInv /\ ArrivesInv
  BY <1>2 DEF Init, FlowInv, ArrivesInv, Settled
<1>4. LeaseInv /\ SentInv /\ AccountInv
  BY FS_EmptySet, IdsSplit DEF Init, LeaseInv, SentInv, AccountInv
<1>5. RpcInv /\ ResultInv
  BY <1>2, IdsSplit DEF Init, RpcInv, ResultInv
<1>6. OrderInv /\ WaitInv
  BY IdsSplit DEF Init, OrderInv, WaitInv, WaitHonoursConfirmedAcks, WaitHonoursAcks, LoopAlive
<1> QED BY <1>1, <1>3, <1>4, <1>5, <1>6 DEF IInv

LEMMA StepIInv == IInv /\ [Next]_vars => IInv'
<1> SUFFICES ASSUME IInv, [Next]_vars PROVE IInv'
  OBVIOUS
<1>1. CASE Stream
  BY <1>1, StepStream
<1>2. ASSUME NEW i \in Ids, Consume(i) PROVE IInv'
  BY <1>2, StepConsume
<1>3. ASSUME NEW i \in Ids, Age(i) PROVE IInv'
  <2>1. aged' \subseteq Ids
    BY <1>3 DEF Age, IInv, TypeOK
  <2> QED BY <1>3, <2>1, StepIdle DEF Age, application, shutdown, channels, requests, ghosts
<1>4. CASE Loop
  <2>1. CASE PassMessages
    BY <2>1, StepIdle DEF PassMessages, application, shutdown, channels, leases, requests, ghosts
  <2>2. CASE ShutdownDone
    BY <2>2, StepIdle DEF ShutdownDone, application, shutdown, channels, leases, requests, ghosts
  <2> QED BY <1>4, <2>1, <2>2, StepFlush, StepExtend, StepAddMessage, StepProcessAction, StepConfirm,
             StepMessagesClosed, StepAcksClosed DEF Loop
<1>5. ASSUME NEW t \in rpcs, Rpc(t) PROVE IInv'
  <2>1. CASE RpcDone(t)
    <3>1. aged' \subseteq Ids
      BY <2>1 DEF RpcDone, leases, IInv, TypeOK
    <3> QED BY <2>1, <3>1, StepIdle DEF RpcDone, application, shutdown, channels, leases, ghosts
  <2> QED BY <1>5, <2>1, StepEoAttempt DEF Rpc
<1>6. CASE UNCHANGED vars
  <2>1. aged' \subseteq Ids
    BY <1>6 DEF vars, leases, IInv, TypeOK
  <2> QED BY <1>6, <2>1, StepIdle DEF vars, application, shutdown, channels, leases, requests, ghosts
<1> QED BY <1>1, <1>2, <1>3, <1>4, <1>5, <1>6 DEF Next, Terminated

\* The invariant holds of the lease loop, whatever the stream, the application and the
\* service do.
THEOREM Invariance == Spec => []IInv
  BY InitIInv, StepIInv, PTL DEF Spec

\* Every variable has its type; no request is empty, and requests for confirmation are
\* those of exactly-once messages.
THEOREM TypeCorrect == Spec => []TypeOK
<1>1. IInv => TypeOK
  BY DEF IInv
<1> QED BY <1>1, Invariance, PTL

\* On one thread the biased select! of lease_loop.rs:79-95 adds a message before it processes
\* its ack, and no at-least-once message is both acked and nacked.
THEOREM OneThreadOrder == Spec => []OneThreadKeepsOrder
<1>1. IInv => OneThreadKeepsOrder
  BY DEF IInv, OrderInv, OneThreadKeepsOrder
<1> QED BY <1>1, Invariance, PTL

\* What confirmed_ack and confirmed_nack return is true, whatever the order of expirations,
\* retries, partial failures and shutdown.
THEOREM TruthfulReports == Spec => []ReportsAreTruthful
<1>1. IInv => ReportsAreTruthful
  BY DEF IInv, ResultInv, ReportsAreTruthful
<1> QED BY <1>1, Invariance, PTL

\* A shutdown that is complete has acked, nacked or given up every lease, and waited for every
\* RPC.
THEOREM NothingForgotten == Spec => []NothingLeftBehind
<1>1. IInv => NothingLeftBehind
  BY DEF IInv, AccountInv, RpcInv, NothingLeftBehind, Gone, LoopAlive
<1> QED BY <1>1, Invariance, PTL

\* WaitForProcessing on one thread nacks nothing that the application acked, if it waits for the
\* confirmations.
THEOREM WaitHonoured == Spec => []WaitHonoursConfirmedAcks
<1>1. IInv => WaitHonoursConfirmedAcks
  BY DEF IInv, WaitInv
<1> QED BY <1>1, Invariance, PTL
==============================================================================
