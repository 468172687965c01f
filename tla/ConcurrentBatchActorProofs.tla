--------------------- MODULE ConcurrentBatchActorProofs ---------------------
(***************************************************************************)
(* Proofs about ConcurrentBatchActor, for every number of commands, every  *)
(* set of message sizes and every batching option: a message goes into     *)
(* exactly one request, the requests respect the limits, and a flush is a  *)
(* barrier although any number of requests are in flight.                  *)
(***************************************************************************)
EXTENDS ConcurrentBatchActor, Integers, WellFoundedInduction, SequenceTheorems, TLAPS

-----------------------------------------------------------------------------
(***************************************************************************)
(* What size, at_threshold and can_add (module Batch) say of a batch to    *)
(* which a message is added, and why a batch that is flushed when it is    *)
(* full, or when the next message has no room, respects the limits.        *)
(* (The same lemmas stand in the proofs of both actors: each proof module  *)
(* extends only the component it is about.)                                *)
(***************************************************************************)

\* Induction over the natural numbers with the hypothesis given as a set: one
\* that holds 0 and, with every natural number, the next one, holds them all.
LEMMA NatSetInduction ==
    ASSUME NEW T, 0 \in T, \A n \in Nat : n \in T => n + 1 \in T
    PROVE  Nat \subseteq T
<1> DEFINE R   == {ss \in Nat \X Nat : ss[1] < ss[2]}
           Out == Nat \ T
<1>1. IsWellFoundedOn(R, Nat)
  BY NatLessThanWellFounded DEF OpToRel
<1>2. SUFFICES ASSUME Out # {} PROVE FALSE
  OBVIOUS
<1>3. PICK x \in Out : \A y \in Out : ~(<<y, x>> \in R)
  <2>1. Out \subseteq Nat
    OBVIOUS
  <2> HIDE DEF R, Out
  <2> QED BY <1>1, <1>2, <2>1, WFMin, Zenon
<1>4. x # 0 /\ x - 1 \in Nat
  OBVIOUS
<1>5. <<x - 1, x>> \in R
  BY <1>4
<1> QED BY <1>3, <1>4, <1>5

Messages(S) == \A m \in S : m.bytes \in Nat

\* The recursion that defines size, over the first n messages and over all.
IsSizesUpTo(b, n, f) ==
    f = [i \in 0..n |-> IF i = 0 THEN TopicBytes ELSE f[i - 1] + b[i].bytes]
IsSizes(b, f) == IsSizesUpTo(b, Len(b), f)

\* It has a solution for every batch.
LEMMA SizesExist == ASSUME NEW S, NEW b \in Seq(S) PROVE \E f : IsSizes(b, f)
  <1> DEFINE T == {n \in Nat : \E f : IsSizesUpTo(b, n, f)}
  <1>1. 0 \in T
    <2>1. IsSizesUpTo(b, 0, [i \in 0..0 |-> TopicBytes])
      BY DEF IsSizesUpTo
    <2> QED
      BY <2>1
  <1>2. ASSUME NEW n \in Nat, n \in T PROVE n + 1 \in T
    <2>1. PICK f : IsSizesUpTo(b, n, f)
      BY <1>2
    <2> DEFINE g == [i \in 0..(n + 1) |->
                       IF i = n + 1 THEN f[n] + b[n + 1].bytes ELSE f[i]]
    <2>2. ASSUME NEW i \in 0..(n + 1)
          PROVE  g[i] = IF i = 0 THEN TopicBytes ELSE g[i - 1] + b[i].bytes
      <3>1. CASE i = n + 1
        BY <3>1
      <3>2. CASE i # n + 1
        <4>1. i \in 0..n /\ g[i] = f[i]
          BY <3>2
        <4>2. f[i] = IF i = 0 THEN TopicBytes ELSE f[i - 1] + b[i].bytes
          BY <2>1, <4>1 DEF IsSizesUpTo
        <4>3. i # 0 => i - 1 \in 0..(n + 1) /\ g[i - 1] = f[i - 1]
          BY <4>1
        <4> QED
          BY <4>1, <4>2, <4>3
      <3> QED
        BY <3>1, <3>2
    <2>3. g = [i \in 0..(n + 1) |-> g[i]]
      OBVIOUS
    <2> HIDE DEF g
    <2>4. IsSizesUpTo(b, n + 1, g)
      BY <2>2, <2>3 DEF IsSizesUpTo
    <2> QED
      BY <2>4
  <1> HIDE DEF T
  <1>3. Len(b) \in T
    BY <1>1, <1>2, NatSetInduction
  <1> QED
    BY <1>3 DEF T, IsSizes

\* size is the last value of a solution.
LEMMA SizeIsLast ==
    ASSUME NEW S, NEW b \in Seq(S)
    PROVE  \E f : IsSizes(b, f) /\ size(b) = f[Len(b)]
  <1> DEFINE f == CHOOSE f : IsSizes(b, f)
  <1>1. IsSizes(b, f)
    BY SizesExist
  <1>2. size(b) = f[Len(b)]
    BY DEF size, IsSizes, IsSizesUpTo
  <1> QED
    BY <1>1, <1>2

\* All the values of a solution are numbers of bytes.
LEMMA SizesType ==
    ASSUME NEW S, Messages(S), NEW b \in Seq(S), NEW f, IsSizes(b, f)
    PROVE  \A i \in 0..Len(b) : f[i] \in Nat
  <1> DEFINE T == {i \in Nat : i <= Len(b) => f[i] \in Nat}
  <1>1. 0 \in T
    BY BatchingAssumption DEF IsSizes, IsSizesUpTo
  <1>2. ASSUME NEW i \in Nat, i \in T PROVE i + 1 \in T
    <2>1. SUFFICES ASSUME i + 1 <= Len(b) PROVE f[i + 1] \in Nat
      OBVIOUS
    <2>2. f[i + 1] = f[i] + b[i + 1].bytes
      BY <2>1 DEF IsSizes, IsSizesUpTo
    <2>3. f[i] \in Nat /\ b[i + 1] \in S
      BY <1>2, <2>1
    <2> QED
      BY <2>2, <2>3 DEF Messages
  <1> HIDE DEF T
  <1>3. Nat \subseteq T
    BY <1>1, <1>2, NatSetInduction
  <1> QED
    BY <1>3 DEF T

\* Two solutions agree as far as their batches do.
LEMMA SizesAgree ==
    ASSUME NEW S, NEW b \in Seq(S), NEW c \in Seq(S), NEW f, NEW g,
           IsSizes(b, f), IsSizes(c, g), Len(b) <= Len(c),
           \A i \in 1..Len(b) : b[i] = c[i]
    PROVE  f[Len(b)] = g[Len(b)]
  <1> DEFINE T == {i \in Nat : i <= Len(b) => f[i] = g[i]}
  <1>1. 0 \in T
    BY DEF IsSizes, IsSizesUpTo
  <1>2. ASSUME NEW i \in Nat, i \in T PROVE i + 1 \in T
    <2>1. SUFFICES ASSUME i + 1 <= Len(b) PROVE f[i + 1] = g[i + 1]
      OBVIOUS
    <2>2. f[i + 1] = f[i] + b[i + 1].bytes /\ g[i + 1] = g[i] + c[i + 1].bytes
      BY <2>1 DEF IsSizes, IsSizesUpTo
    <2> QED
      BY <1>2, <2>1, <2>2
  <1> HIDE DEF T
  <1>3. Len(b) \in T
    BY <1>1, <1>2, NatSetInduction
  <1> QED
    BY <1>3 DEF T

-----------------------------------------------------------------------------
\* The size of a batch is a number, of an empty one the length of the topic.
LEMMA SizeType ==
    ASSUME NEW S, Messages(S), NEW b \in Seq(S)
    PROVE  size(b) \in Nat /\ (b = <<>> => size(b) = TopicBytes)
  <1>1. PICK f : IsSizes(b, f) /\ size(b) = f[Len(b)]
    BY SizeIsLast
  <1>2. size(b) \in Nat
    BY <1>1, SizesType
  <1>3. b = <<>> => size(b) = TopicBytes
    BY <1>1 DEF IsSizes, IsSizesUpTo
  <1> QED
    BY <1>2, <1>3

\* Batch::push: a message adds its own size.
LEMMA SizeAppend ==
    ASSUME NEW S, Messages(S), NEW b \in Seq(S), NEW m \in S
    PROVE  size(Append(b, m)) = size(b) + m.bytes
  <1>1. PICK f : IsSizes(b, f) /\ size(b) = f[Len(b)]
    BY SizeIsLast
  <1>2. Append(b, m) \in Seq(S) /\ Len(Append(b, m)) = Len(b) + 1 /\ Len(b) \in Nat
    OBVIOUS
  <1>3. PICK g : IsSizes(Append(b, m), g) /\ size(Append(b, m)) = g[Len(b) + 1]
    BY <1>2, SizeIsLast
  <1>4. /\ Append(b, m)[Len(b) + 1] = m
        /\ \A i \in 1..Len(b) : b[i] = Append(b, m)[i]
    OBVIOUS
  <1> DEFINE c == Append(b, m)
  <1>5. g[Len(b) + 1] = g[Len(b)] + m.bytes
    <2>1. c[Len(b) + 1] = m /\ Len(c) = Len(b) + 1 /\ IsSizes(c, g)
      BY <1>2, <1>3, <1>4
    <2> HIDE DEF c
    <2> QED
      BY <1>2, <2>1 DEF IsSizes, IsSizesUpTo
  <1>6. f[Len(b)] = g[Len(b)]
    <2>1. /\ c \in Seq(S) /\ IsSizes(c, g) /\ Len(b) <= Len(c)
          /\ \A i \in 1..Len(b) : b[i] = c[i]
      BY <1>2, <1>3, <1>4
    <2> HIDE DEF c
    <2> QED
      BY <1>1, <2>1, SizesAgree
  <1> QED
    BY <1>1, <1>3, <1>5, <1>6

-----------------------------------------------------------------------------
\* A batch that is still being filled.
Open(b) == b # <<>> => ~at_threshold(b)

\* A batch below the thresholds that takes one more message, which has room or is
\* the first, respects the limits.
LEMMA PushWithinLimits ==
    ASSUME NEW S, Messages(S), NEW b \in Seq(S), NEW m \in S, Open(b),
           b = <<>> \/ can_add(b, m)
    PROVE  WithinLimits(Append(b, m))
  <1>1. /\ Len(Append(b, m)) = Len(b) + 1 /\ Len(b) \in Nat /\ size(b) \in Nat
        /\ size(Append(b, m)) = size(b) + m.bytes /\ m.bytes \in Nat
    BY SizeType, SizeAppend DEF Messages
  <1>2. CASE b = <<>>
    BY <1>1, <1>2 DEF WithinLimits
  <1>3. CASE b # <<>>
    BY <1>1, <1>3, BatchingAssumption DEF WithinLimits, Open, at_threshold, can_add
  <1> QED
    BY <1>2, <1>3

\* A batch that is still being filled respects them too.
LEMMA OpenWithinLimits ==
    ASSUME NEW S, Messages(S), NEW b \in Seq(S), Open(b), b # <<>>
    PROVE  WithinLimits(b)
  <1>1. Len(b) \in Nat /\ size(b) \in Nat
    BY SizeType
  <1> QED
    BY <1>1, BatchingAssumption DEF WithinLimits, Open, at_threshold

-----------------------------------------------------------------------------
Increasing(s) == \A i, j \in DOMAIN s : i < j => s[i].id < s[j].id
Before(s, t)  == \A i \in DOMAIN s, j \in DOMAIN t : s[i].id < t[j].id
UpTo(s, k)    == \A i \in DOMAIN s : s[i].id <= k

\* Requests s, the batch b, tasks t and the queue r, of k submissions: every
\* message is in one place, and the tasks work on requests within the limits.
Core(s, b, t, r, k) ==
    /\ s \in Seq(Seq(Commands)) /\ b \in Seq(Commands) /\ r \in Seq(Commands) /\ t \subseteq Tasks
    /\ Increasing(r) /\ UpTo(r, k) /\ UpTo(b, k) /\ Before(b, r)
    /\ \A i \in DOMAIN s : /\ Before(s[i], r) /\ UpTo(s[i], k) /\ WithinLimits(s[i])
                           /\ IdsOf(s[i]) \cap IdsOf(b) = {}
    /\ \A i, j \in DOMAIN s : i # j => IdsOf(s[i]) \cap IdsOf(s[j]) = {}
    /\ \A x \in t : \E i \in DOMAIN s : x.msgs = s[i]

CoreInv == Core(sent, batch, inflight, rx, Len(hist)) /\ Open(batch)

\* The messages whose tasks have not ended, and all that the actor holds.
Live(t)       == {x \in t : x.status \in {"running", "aborting"}}
LiveIds(t)    == UNION {IdsOf(x.msgs) : x \in Live(t)}
Held(b, t, r) == IdsOf(r) \cup IdsOf(b) \cup LiveIds(t)

\* No message is lost: one without an outcome is in the hands of the actor.
WaitingIsHeld ==
    \A m \in DOMAIN hist : hist[m].op = "publish" /\ fut[m] = "waiting" =>
        m \in Held(batch, inflight, rx)

\* The queue holds commands as they were submitted.
QueueIsHistory ==
    \A i \in DOMAIN rx : rx[i].id \in DOMAIN hist /\ rx[i] = hist[rx[i].id]

\* The batch is empty at join_all, where what is queued came after the Flush in
\* progress; only a dead actor aborts its tasks.
AtJoin ==
    /\ pc # "select" => batch = <<>>
    /\ pc = "join" /\ cont # 0 =>
         cont \in DOMAIN hist /\ \A i \in DOMAIN rx : cont < rx[i].id
    /\ pc # "dead" => \A x \in inflight : x.status # "aborting"

\* A future tells the outcome of a request only if the message was in one.
OutcomeOfRequest ==
    \A m \in Ids : fut[m] \in {"ok", "rpc"} => \E i \in DOMAIN sent : m \in IdsOf(sent[i])

IInv ==
    /\ TypeOK /\ CoreInv /\ QueueIsHistory /\ AtJoin /\ WaitingIsHeld /\ OutcomeOfRequest
    /\ replied \subseteq DOMAIN hist /\ FlushBarrier

-----------------------------------------------------------------------------
(***************************************************************************)
(* Sequences of commands and the numbers in them.                          *)
(***************************************************************************)
\* Sizes of commands are numbers of bytes.
LEMMA CommandsAreMessages == Messages(Commands)
  BY DEF Messages, Commands

\* The elements of a sequence of commands are numbered.
LEMMA ElemIsNat ==
    ASSUME NEW s \in Seq(Commands), NEW i \in DOMAIN s
    PROVE  s[i] \in Commands /\ s[i].id \in Ids /\ s[i].id \in Nat
<1>1. s[i] \in Commands
  OBVIOUS
<1> QED BY <1>1, ConcurrentAssumption DEF Commands, Ids

\* An element of an extended sequence is the new one or an old one.
LEMMA AppendElems ==
    ASSUME NEW S, NEW s \in Seq(S), NEW c \in S
    PROVE  /\ Append(s, c) \in Seq(S)
           /\ Len(s) + 1 \in DOMAIN Append(s, c) /\ Append(s, c)[Len(s) + 1] = c
           /\ \A i \in DOMAIN s : /\ i \in DOMAIN Append(s, c) /\ Append(s, c)[i] = s[i]
                                  /\ i # Len(s) + 1 /\ i < Len(s) + 1
           /\ \A i \in DOMAIN Append(s, c) :
                \/ i = Len(s) + 1 /\ Append(s, c)[i] = c
                \/ i \in DOMAIN s /\ Append(s, c)[i] = s[i]
  OBVIOUS

\* The elements of a tail are those after the head.
LEMMA TailElems ==
    ASSUME NEW s \in Seq(Commands), s # <<>>
    PROVE  /\ Tail(s) \in Seq(Commands) /\ Head(s) \in Commands
           /\ 1 \in DOMAIN s /\ Head(s) = s[1]
           /\ \A i \in DOMAIN Tail(s) : i + 1 \in DOMAIN s /\ Tail(s)[i] = s[i + 1] /\ 1 < i + 1
           /\ \A i \in DOMAIN s : i # 1 => i - 1 \in DOMAIN Tail(s) /\ Tail(s)[i - 1] = s[i]
<1>1. Tail(s) \in Seq(Commands) /\ Head(s) \in Commands /\ Len(Tail(s)) = Len(s) - 1
  BY HeadTailProperties
<1>2. Len(s) \in Nat /\ Len(s) # 0 /\ DOMAIN s = 1..Len(s) /\ DOMAIN Tail(s) = 1..(Len(s) - 1)
  BY <1>1
<1> QED BY <1>1, <1>2

\* The numbers in an extended sequence, and in a sequence and its tail.
LEMMA AppendIds ==
    ASSUME NEW s \in Seq(Commands), NEW c \in Commands
    PROVE  IdsOf(Append(s, c)) = IdsOf(s) \cup {c.id}
<1>1. IdsOf(Append(s, c)) \subseteq IdsOf(s) \cup {c.id}
  BY AppendElems DEF IdsOf
<1>2. IdsOf(s) \subseteq IdsOf(Append(s, c)) /\ c.id \in IdsOf(Append(s, c))
  BY AppendElems DEF IdsOf
<1> QED BY <1>1, <1>2

LEMMA TailIds ==
    ASSUME NEW s \in Seq(Commands), s # <<>>
    PROVE  IdsOf(s) = {Head(s).id} \cup IdsOf(Tail(s))
<1>1. IdsOf(s) \subseteq {Head(s).id} \cup IdsOf(Tail(s))
  <2> SUFFICES ASSUME NEW i \in DOMAIN s, i # 1 PROVE s[i].id \in IdsOf(Tail(s))
    BY TailElems DEF IdsOf
  <2>1. i - 1 \in DOMAIN Tail(s) /\ Tail(s)[i - 1] = s[i]
    BY TailElems
  <2> QED BY <2>1 DEF IdsOf
<1>2. IdsOf(Tail(s)) \subseteq IdsOf(s) /\ Head(s).id \in IdsOf(s)
  BY TailElems DEF IdsOf
<1> QED BY <1>1, <1>2

LEMMA EmptyIds == IdsOf(<<>>) = {}
  BY DEF IdsOf

\* A message that precedes all of a sequence is not in it.
LEMMA BeforeExcludes ==
    ASSUME NEW s \in Seq(Commands), NEW r \in Seq(Commands), Before(s, r)
    PROVE  IdsOf(s) \cap IdsOf(r) = {}
<1> SUFFICES ASSUME NEW i \in DOMAIN s, NEW j \in DOMAIN r, s[i].id = r[j].id PROVE FALSE
  BY DEF IdsOf
<1>1. s[i].id < r[j].id /\ s[i].id \in Nat
  BY ElemIsNat DEF Before
<1> QED BY <1>1

-----------------------------------------------------------------------------
(***************************************************************************)
(* How messages move.                                                      *)
(***************************************************************************)
\* A task for a batch.
LEMMA SpawnType ==
    ASSUME NEW b \in Seq(Commands), b # <<>>
    PROVE  Spawn(b) \in Tasks /\ Spawn(b).msgs = b /\ Spawn(b).status = "running"
  BY DEF Spawn, Tasks

\* The batch becomes a request.
LEMMA CoreSend ==
    ASSUME NEW s, NEW b, NEW t, NEW r, NEW k \in Nat, Core(s, b, t, r, k),
           b # <<>>, WithinLimits(b)
    PROVE  Core(Append(s, b), <<>>, t \cup {Spawn(b)}, r, k)
<1> DEFINE s1 == Append(s, b)
           t1 == t \cup {Spawn(b)}
<1>1. s \in Seq(Seq(Commands)) /\ b \in Seq(Commands) /\ t \subseteq Tasks /\ <<>> \in Seq(Commands)
  BY DEF Core
<1>2. /\ s1 \in Seq(Seq(Commands)) /\ Len(s) + 1 \in DOMAIN s1 /\ s1[Len(s) + 1] = b
      /\ \A i \in DOMAIN s : i \in DOMAIN s1 /\ s1[i] = s[i] /\ i # Len(s) + 1
      /\ \A i \in DOMAIN s1 : \/ i = Len(s) + 1 /\ s1[i] = b
                              \/ i \in DOMAIN s /\ s1[i] = s[i]
  BY <1>1, AppendElems
<1>3. t1 \subseteq Tasks /\ Spawn(b).msgs = b
  BY <1>1, SpawnType
<1> HIDE DEF s1, t1
<1>4. \A i \in DOMAIN s1 : /\ Before(s1[i], r) /\ UpTo(s1[i], k) /\ WithinLimits(s1[i])
                           /\ IdsOf(s1[i]) \cap IdsOf(<<>>) = {}
  BY <1>2, EmptyIds DEF Core
<1>5. ASSUME NEW i \in DOMAIN s1, NEW j \in DOMAIN s1, i # j
      PROVE  IdsOf(s1[i]) \cap IdsOf(s1[j]) = {}
  <2>1. CASE i \in DOMAIN s /\ s1[i] = s[i] /\ j \in DOMAIN s /\ s1[j] = s[j]
    BY <1>5, <2>1 DEF Core
  <2>2. CASE i = Len(s) + 1 /\ s1[i] = b /\ j \in DOMAIN s /\ s1[j] = s[j]
    BY <2>2 DEF Core
  <2>3. CASE j = Len(s) + 1 /\ s1[j] = b /\ i \in DOMAIN s /\ s1[i] = s[i]
    BY <2>3 DEF Core
  <2> QED BY <1>2, <1>5, <2>1, <2>2, <2>3
<1>6. \A x \in t1 : \E i \in DOMAIN s1 : x.msgs = s1[i]
  BY <1>2, <1>3 DEF Core, t1
<1>7. UpTo(<<>>, k) /\ Before(<<>>, r)
  BY DEF UpTo, Before
<1>8. Core(s1, <<>>, t1, r, k)
  BY <1>1, <1>2, <1>3, <1>4, <1>5, <1>6, <1>7 DEF Core
<1> QED BY <1>8 DEF s1, t1

\* The head of the queue is taken.
LEMMA CoreTail ==
    ASSUME NEW s, NEW b, NEW t, NEW r, NEW k \in Nat, Core(s, b, t, r, k), r # <<>>
    PROVE  Core(s, b, t, Tail(r), k)
<1>1. r \in Seq(Commands)
  BY DEF Core
<1>2. /\ Tail(r) \in Seq(Commands)
      /\ \A i \in DOMAIN Tail(r) : i + 1 \in DOMAIN r /\ Tail(r)[i] = r[i + 1]
  BY <1>1, TailElems
<1>3. Increasing(Tail(r))
  <2>1. \A i, j \in DOMAIN Tail(r) : i < j => i + 1 < j + 1
    BY <1>2
  <2> QED BY <1>2, <2>1 DEF Core, Increasing
<1>4. UpTo(Tail(r), k) /\ \A q : Before(q, r) => Before(q, Tail(r))
  BY <1>2 DEF Core, UpTo, Before
<1> QED BY <1>2, <1>3, <1>4 DEF Core

\* It joins the batch.
LEMMA CorePush ==
    ASSUME NEW s, NEW b, NEW t, NEW r, NEW k \in Nat, Core(s, b, t, r, k), r # <<>>
    PROVE  Core(s, Append(b, Head(r)), t, Tail(r), k)
<1> DEFINE b1 == Append(b, Head(r))
<1>1. r \in Seq(Commands) /\ b \in Seq(Commands) /\ s \in Seq(Seq(Commands))
  BY DEF Core
<1>2. /\ Tail(r) \in Seq(Commands) /\ Head(r) \in Commands /\ 1 \in DOMAIN r /\ Head(r) = r[1]
      /\ \A i \in DOMAIN Tail(r) : i + 1 \in DOMAIN r /\ Tail(r)[i] = r[i + 1] /\ 1 < i + 1
  BY <1>1, TailElems
<1>3. Core(s, b, t, Tail(r), k)
  BY CoreTail
<1>4. /\ b1 \in Seq(Commands) /\ IdsOf(b1) = IdsOf(b) \cup {Head(r).id}
      /\ \A i \in DOMAIN b1 : b1[i] = Head(r) \/ (i \in DOMAIN b /\ b1[i] = b[i])
  BY <1>1, <1>2, AppendElems, AppendIds
<1> HIDE DEF b1
<1>5. UpTo(b1, k)
  BY <1>2, <1>4 DEF Core, UpTo
<1>6. Before(b1, Tail(r))
  <2>1. \A j \in DOMAIN Tail(r) : Head(r).id < Tail(r)[j].id
    BY <1>2 DEF Core, Increasing
  <2> QED BY <1>3, <1>4, <2>1 DEF Core, Before
<1>7. ASSUME NEW i \in DOMAIN s PROVE IdsOf(s[i]) \cap IdsOf(b1) = {}
  <2>1. s[i] \in Seq(Commands) /\ Before(s[i], r)
    BY <1>1 DEF Core
  <2>2. Head(r).id \notin IdsOf(s[i])
    <3>1. Head(r).id \in IdsOf(r)
      BY <1>2 DEF IdsOf
    <3> QED BY <1>1, <2>1, <3>1, BeforeExcludes
  <2> QED BY <1>4, <2>2 DEF Core
<1>8. Core(s, b1, t, Tail(r), k)
  BY <1>3, <1>4, <1>5, <1>6, <1>7 DEF Core
<1> QED BY <1>8 DEF b1

\* A new command goes to the end of the queue.
LEMMA CoreSubmit ==
    ASSUME NEW s, NEW b, NEW t, NEW r, NEW k \in Nat, Core(s, b, t, r, k),
           NEW c \in Commands, c.id = k + 1
    PROVE  Core(s, b, t, Append(r, c), k + 1) /\ Core(s, b, t, r, k + 1)
<1> DEFINE r1 == Append(r, c)
<1>1. r \in Seq(Commands) /\ b \in Seq(Commands) /\ s \in Seq(Seq(Commands))
  BY DEF Core
<1>2. /\ r1 \in Seq(Commands) /\ DOMAIN r1 = 1..(Len(r) + 1) /\ DOMAIN r = 1..Len(r) /\ Len(r) \in Nat
      /\ \A i \in DOMAIN r1 : \/ i = Len(r) + 1 /\ r1[i] = c
                              \/ i \in DOMAIN r /\ r1[i] = r[i]
  BY <1>1, AppendElems
<1> HIDE DEF r1
<1>3. ASSUME NEW q \in Seq(Commands), UpTo(q, k)
      PROVE  UpTo(q, k + 1) /\ \A i \in DOMAIN q : q[i].id < c.id
  BY <1>3, ElemIsNat DEF UpTo
<1>4. ASSUME NEW q \in Seq(Commands), UpTo(q, k), Before(q, r) PROVE Before(q, r1)
  BY <1>2, <1>3, <1>4 DEF Before
<1>5. UpTo(r, k) /\ Increasing(r)
  BY DEF Core
<1>6. UpTo(r1, k + 1) /\ Increasing(r1)
  <2>1. UpTo(r, k + 1) /\ \A i \in DOMAIN r : r[i].id < c.id
    BY <1>1, <1>3, <1>5
  <2>2. UpTo(r1, k + 1)
    BY <1>2, <2>1 DEF UpTo
  <2>3. ASSUME NEW i \in DOMAIN r1, NEW j \in DOMAIN r1, i < j PROVE r1[i].id < r1[j].id
    <3>1. i \in DOMAIN r /\ r1[i] = r[i]
      <4>1. i # Len(r) + 1
        BY <1>2, <2>3
      <4> QED BY <1>2, <4>1
    <3> QED BY <1>2, <1>5, <2>1, <2>3, <3>1 DEF Increasing
  <2> QED BY <2>2, <2>3 DEF Increasing
<1>7. \A i \in DOMAIN s : s[i] \in Seq(Commands)
  BY <1>1
<1>8. Core(s, b, t, r1, k + 1)
  BY <1>1, <1>2, <1>3, <1>4, <1>6, <1>7 DEF Core
<1>9. Core(s, b, t, r, k + 1)
  BY <1>1, <1>3, <1>5, <1>7 DEF Core
<1> QED BY <1>8, <1>9 DEF r1

\* Tasks end, are joined or aborted.
LEMMA CoreTasks ==
    ASSUME NEW s, NEW b, NEW t, NEW r, NEW k, Core(s, b, t, r, k),
           NEW u, u \subseteq Tasks, \A x \in u : \E y \in t : x.msgs = y.msgs
    PROVE  Core(s, b, u, r, k)
  BY DEF Core

\* Sending the batch keeps its messages held; so does taking one from the queue.
LEMMA HeldSend ==
    ASSUME NEW b \in Seq(Commands), b # <<>>, NEW t, NEW r
    PROVE  Held(b, t, r) \subseteq Held(<<>>, t \cup {Spawn(b)}, r)
<1>1. Spawn(b) \in Live(t \cup {Spawn(b)}) /\ Spawn(b).msgs = b
  BY SpawnType DEF Live
<1>2. Live(t) \subseteq Live(t \cup {Spawn(b)})
  BY DEF Live
<1> QED BY <1>1, <1>2 DEF Held, LiveIds

LEMMA HeldPush ==
    ASSUME NEW b \in Seq(Commands), NEW t, NEW r \in Seq(Commands), r # <<>>
    PROVE  Held(b, t, r) \subseteq Held(Append(b, Head(r)), t, Tail(r))
<1>1. Head(r) \in Commands
  BY TailElems
<1> QED BY <1>1, TailIds, AppendIds DEF Held

-----------------------------------------------------------------------------
(***************************************************************************)
(* flush and add_msg_and_flush.                                            *)
(***************************************************************************)
\* Requests are only added.
Grown == \A i \in DOMAIN sent : i \in DOMAIN sent' /\ sent'[i] = sent[i]

\* New tasks are running.
Spawned == \A x \in inflight' : x \in inflight \/ x.status = "running"

\* What the two do to the messages, with queue r after the step.
Moved(r) ==
    /\ Core(sent', batch', inflight', r, Len(hist)) /\ Open(batch')
    /\ Held(batch, inflight, rx) \ (IdsOf(rx) \ IdsOf(r)) \subseteq Held(batch', inflight', r)
    /\ Grown /\ Spawned

\* flush sends the batch, if there is one.
LEMMA FlushMoves ==
    ASSUME TypeOK, CoreInv, flush, NEW r, r = rx \/ (rx # <<>> /\ r = Tail(rx))
    PROVE  Moved(r) /\ batch' = <<>>
<1>1. Core(sent, batch, inflight, r, Len(hist)) /\ Open(batch)
  <2>1. Core(sent, batch, inflight, rx, Len(hist)) /\ Open(batch)
    BY DEF CoreInv
  <2>2. Len(hist) \in Nat
    BY DEF TypeOK
  <2>3. CASE rx # <<>> /\ r = Tail(rx)
    BY <2>1, <2>2, <2>3, CoreTail
  <2> QED BY <2>1, <2>3
<1>2. Held(batch, inflight, rx) \ (IdsOf(rx) \ IdsOf(r)) \subseteq Held(batch, inflight, r)
  BY DEF Held
<1>3. batch' = <<>> /\ Open(batch') /\ batch \in Seq(Commands) /\ sent \in Seq(Seq(Commands))
  BY DEF flush, Open, TypeOK
<1>4. CASE batch = <<>>
  <2>1. sent' = sent /\ inflight' = inflight /\ batch' = batch
    BY <1>4 DEF flush
  <2> QED BY <1>1, <1>2, <1>3, <2>1 DEF Moved, Grown, Spawned
<1>5. CASE batch # <<>>
  <2>1. sent' = Append(sent, batch) /\ inflight' = inflight \cup {Spawn(batch)}
    BY <1>5 DEF flush
  <2>2. WithinLimits(batch)
    BY <1>1, <1>3, <1>5, CommandsAreMessages, OpenWithinLimits
  <2>3. Core(sent', batch', inflight', r, Len(hist))
    BY <1>1, <1>3, <1>5, <2>1, <2>2, CoreSend DEF TypeOK
  <2>4. Held(batch, inflight, r) \subseteq Held(batch', inflight', r)
    BY <1>3, <1>5, <2>1, HeldSend
  <2>5. Grown /\ Spawned
    BY <1>3, <1>5, <2>1, AppendElems, SpawnType DEF Grown, Spawned
  <2> QED BY <1>2, <1>3, <2>3, <2>4, <2>5 DEF Moved
<1> QED BY <1>4, <1>5

\* At most two batches, in the order in which they are sent.
LEMMA ConcatOne ==
    ASSUME NEW S, NEW x \in S
    PROVE  <<>> \o <<x>> = <<x>> /\ <<x>> \o <<>> = <<x>> /\ DOMAIN <<x>> = {1} /\ <<x>>[1] = x
<1>1. <<x>> \in Seq(S)
  OBVIOUS
<1>2. <<>> \o <<x>> = <<x>> /\ <<x>> \o <<>> = <<x>>
  BY <1>1, ConcatEmptySeq
<1> QED BY <1>2

LEMMA ConcatTwo ==
    ASSUME NEW S, NEW x \in S, NEW y \in S
    PROVE  <<x>> \o <<y>> = <<x, y>> /\ DOMAIN <<x, y>> = {1, 2}
           /\ <<x, y>>[1] = x /\ <<x, y>>[2] = y
<1>1. <<x>> \in Seq(S) /\ <<y>> \in Seq(S) /\ <<x, y>> \in Seq(S)
  OBVIOUS
<1>2. Len(<<x>>) = 1 /\ Len(<<y>>) = 1 /\ Len(<<x, y>>) = 2 /\ <<x>>[1] = x /\ <<y>>[1] = y
      /\ <<x, y>>[1] = x /\ <<x, y>>[2] = y
  OBVIOUS
<1> DEFINE z == <<x>> \o <<y>>
           w == <<x, y>>
<1>3. z \in Seq(S) /\ Len(z) = 2 /\ z[1] = x /\ z[2] = y
  BY <1>1, <1>2, ConcatProperties
<1>4. DOMAIN w = {1, 2}
  BY <1>2
<1>5. w \in Seq(S) /\ Len(w) = 2 /\ w[1] = x /\ w[2] = y
  BY <1>1, <1>2
<1> HIDE DEF z, w
<1>6. z = w
  <2>1. \A i \in 1..2 : z[i] = w[i]
    BY <1>3, <1>5
  <2> QED BY <1>3, <1>5, <2>1, SeqEqual
<1> QED BY <1>2, <1>4, <1>6 DEF z, w

\* The cases of add_msg_and_flush.
LEMMA AddCases ==
    ASSUME TypeOK, NEW msg \in Commands, add_msg_and_flush(msg)
    PROVE  LET c == Append(batch, msg)
               d == Append(<<>>, msg)
           IN  \/ /\ batch = <<>> \/ can_add(batch, msg)
                  /\ ~at_threshold(c) /\ batch' = c /\ sent' = sent /\ inflight' = inflight
               \/ /\ batch = <<>> \/ can_add(batch, msg)
                  /\ batch' = <<>> /\ sent' = Append(sent, c)
                  /\ inflight' = inflight \cup {Spawn(c)}
               \/ /\ batch # <<>> /\ ~at_threshold(d) /\ batch' = d
                  /\ sent' = Append(sent, batch) /\ inflight' = inflight \cup {Spawn(batch)}
               \/ /\ batch # <<>> /\ batch' = <<>>
                  /\ sent' = Append(Append(sent, batch), d)
                  /\ inflight' = (inflight \cup {Spawn(batch)}) \cup {Spawn(d)}
<1> DEFINE c == Append(batch, msg)
           d == Append(<<>>, msg)
           first == IF can_add(batch, msg) \/ batch = <<>> THEN <<>> ELSE <<batch>>
           b == IF can_add(batch, msg) THEN c ELSE d
           full == IF at_threshold(b) THEN <<b>> ELSE <<>>
           out == first \o full
<1>1. batch \in Seq(Commands) /\ sent \in Seq(Seq(Commands))
  BY DEF TypeOK
<1>2. <<msg>> = d /\ c \in Seq(Commands) /\ d \in Seq(Commands)
  BY <1>1
<1>3. /\ sent' = sent \o out /\ inflight' = inflight \cup {Spawn(out[i]) : i \in DOMAIN out}
      /\ batch' = IF full = <<>> THEN b ELSE <<>>
  BY <1>2 DEF add_msg_and_flush
<1>4. b \in Seq(Commands) /\ (batch = <<>> \/ can_add(batch, msg) => b = c)
  BY <1>2
<1> HIDE DEF b, c, d
<1>5. CASE first = <<>> /\ full = <<>>
  <2>1. out = <<>>
    BY <1>5
  <2>2. sent' = sent /\ inflight' = inflight /\ batch' = b /\ ~at_threshold(b)
    BY <1>1, <1>3, <1>5, <2>1
  <2>3. batch = <<>> \/ can_add(batch, msg)
    BY <1>5
  <2> QED BY <1>4, <2>2, <2>3 DEF c, d
<1>6. CASE first = <<>> /\ full = <<b>>
  <2>1. out = <<b>> /\ DOMAIN out = {1} /\ out[1] = b
    BY <1>4, <1>6, ConcatOne
  <2>2. sent \o <<b>> = Append(sent, b)
    BY <1>1, <1>4
  <2>3. sent' = Append(sent, b) /\ inflight' = inflight \cup {Spawn(b)} /\ batch' = <<>>
    BY <1>3, <1>6, <2>1, <2>2
  <2>4. batch = <<>> \/ can_add(batch, msg)
    BY <1>6
  <2> QED BY <1>4, <2>3, <2>4 DEF c, d
<1>7. CASE first = <<batch>> /\ full = <<>>
  <2>1. out = <<batch>> /\ DOMAIN out = {1} /\ out[1] = batch
    BY <1>1, <1>7, ConcatOne
  <2>2. sent \o <<batch>> = Append(sent, batch)
    BY <1>1
  <2>3. /\ sent' = Append(sent, batch) /\ inflight' = inflight \cup {Spawn(batch)} /\ batch' = b
        /\ ~at_threshold(b)
    BY <1>3, <1>7, <2>1, <2>2
  <2>4. batch # <<>> /\ b = d
    BY <1>7 DEF b
  <2> QED BY <2>3, <2>4 DEF c, d
<1>8. CASE first = <<batch>> /\ full = <<b>>
  <2>1. out = <<batch, b>> /\ DOMAIN out = {1, 2} /\ out[1] = batch /\ out[2] = b
    BY <1>1, <1>4, <1>8, ConcatTwo
  <2>2. sent \o <<batch, b>> = Append(Append(sent, batch), b)
    BY <1>1, <1>4
  <2>3. /\ sent' = Append(Append(sent, batch), b) /\ batch' = <<>>
        /\ inflight' = (inflight \cup {Spawn(batch)}) \cup {Spawn(b)}
    BY <1>3, <1>8, <2>1, <2>2
  <2>4. batch # <<>> /\ b = d
    BY <1>8 DEF b
  <2> QED BY <2>3, <2>4 DEF c, d
<1>9. (first = <<>> \/ first = <<batch>>) /\ (full = <<>> \/ full = <<b>>)
  OBVIOUS
<1> QED BY <1>5, <1>6, <1>7, <1>8, <1>9

\* add_msg_and_flush moves the head of the queue into the batch, and one or two
\* batches into requests.
LEMMA AddMoves ==
    ASSUME TypeOK, CoreInv, rx # <<>>, add_msg_and_flush(Head(rx))
    PROVE  /\ Core(sent', batch', inflight', Tail(rx), Len(hist)) /\ Open(batch')
           /\ Held(batch, inflight, rx) \subseteq Held(batch', inflight', Tail(rx))
           /\ Grown /\ Spawned
<1> DEFINE msg == Head(rx)
           k == Len(hist)
           c == Append(batch, msg)
           d == Append(<<>>, msg)
           s1 == Append(sent, batch)
           t1 == inflight \cup {Spawn(batch)}
<1>1. /\ rx \in Seq(Commands) /\ batch \in Seq(Commands) /\ sent \in Seq(Seq(Commands))
      /\ k \in Nat /\ <<>> \in Seq(Commands)
  BY DEF TypeOK
<1>2. msg \in Commands
  BY <1>1, TailElems
<1>3. Core(sent, batch, inflight, rx, k) /\ Open(batch)
  BY DEF CoreInv
<1>4. /\ c \in Seq(Commands) /\ d \in Seq(Commands) /\ c # <<>> /\ d # <<>>
      /\ s1 \in Seq(Seq(Commands))
  <2> HIDE DEF msg
  <2>1. c \in Seq(Commands) /\ d \in Seq(Commands) /\ s1 \in Seq(Seq(Commands))
    BY <1>1, <1>2
  <2>2. Len(c) = Len(batch) + 1 /\ Len(batch) \in Nat /\ Len(d) = 1
    BY <1>1, <1>2
  <2> HIDE DEF c, d
  <2>3. Len(c) # 0 /\ Len(d) # 0 /\ Len(<<>>) = 0
    BY <2>2
  <2> QED BY <2>1, <2>3
<1>5. \/ /\ batch = <<>> \/ can_add(batch, msg)
         /\ ~at_threshold(c) /\ batch' = c /\ sent' = sent /\ inflight' = inflight
      \/ /\ batch = <<>> \/ can_add(batch, msg)
         /\ batch' = <<>> /\ sent' = Append(sent, c)
         /\ inflight' = inflight \cup {Spawn(c)}
      \/ /\ batch # <<>> /\ ~at_threshold(d) /\ batch' = d
         /\ sent' = s1 /\ inflight' = t1
      \/ /\ batch # <<>> /\ batch' = <<>>
         /\ sent' = Append(s1, d)
         /\ inflight' = t1 \cup {Spawn(d)}
  <2>1. add_msg_and_flush(msg)
    OBVIOUS
  <2> HIDE DEF msg
  <2> QED BY <1>2, <2>1, AddCases
<1>6. Core(sent, c, inflight, Tail(rx), k)
  BY <1>1, <1>3, CorePush
<1>7. Held(batch, inflight, rx) \subseteq Held(c, inflight, Tail(rx))
  BY <1>1, HeldPush
<1>8. Open(<<>>)
  BY DEF Open
<1>9. ASSUME batch # <<>>
      PROVE  /\ Core(s1, d, t1, Tail(rx), k)
             /\ Held(batch, inflight, rx) \subseteq Held(d, t1, Tail(rx))
  <2>1. WithinLimits(batch)
    BY <1>1, <1>3, <1>9, CommandsAreMessages, OpenWithinLimits
  <2>2. Core(s1, <<>>, t1, rx, k)
    BY <1>1, <1>3, <1>9, <2>1, CoreSend
  <2>3. Core(s1, d, t1, Tail(rx), k)
    BY <1>1, <2>2, CorePush
  <2>4. Held(batch, inflight, rx) \subseteq Held(<<>>, t1, rx)
    BY <1>1, <1>9, HeldSend
  <2>5. Held(<<>>, t1, rx) \subseteq Held(d, t1, Tail(rx))
    BY <1>1, HeldPush
  <2> QED BY <2>3, <2>4, <2>5
<1>10. /\ \A i \in DOMAIN sent : i \in DOMAIN s1 /\ s1[i] = sent[i]
       /\ \A i \in DOMAIN sent : i \in DOMAIN Append(sent, c) /\ Append(sent, c)[i] = sent[i]
       /\ \A i \in DOMAIN s1 : i \in DOMAIN Append(s1, d) /\ Append(s1, d)[i] = s1[i]
  <2>1. \A q \in Seq(Seq(Commands)), x \in Seq(Commands) : \A i \in DOMAIN q :
            i \in DOMAIN Append(q, x) /\ Append(q, x)[i] = q[i]
    BY AppendElems
  <2> HIDE DEF s1, c, d
  <2>2. \A i \in DOMAIN sent : i \in DOMAIN Append(sent, batch) /\ Append(sent, batch)[i] = sent[i]
    BY <1>1, <2>1
  <2>3. \A i \in DOMAIN sent : i \in DOMAIN Append(sent, c) /\ Append(sent, c)[i] = sent[i]
    BY <1>1, <1>4, <2>1
  <2>4. \A i \in DOMAIN s1 : i \in DOMAIN Append(s1, d) /\ Append(s1, d)[i] = s1[i]
    BY <1>4, <2>1
  <2> QED BY <2>2, <2>3, <2>4 DEF s1
<1>11. Spawn(batch).status = "running" /\ Spawn(c).status = "running" /\ Spawn(d).status = "running"
  BY DEF Spawn
<1> HIDE DEF msg, k, c, d, s1
<1>12. CASE batch' = c /\ ~at_threshold(c) /\ sent' = sent /\ inflight' = inflight
  BY <1>6, <1>7, <1>12 DEF Grown, Spawned, Open, k
<1>13. CASE /\ batch = <<>> \/ can_add(batch, msg)
            /\ batch' = <<>> /\ sent' = Append(sent, c) /\ inflight' = inflight \cup {Spawn(c)}
  <2>1. WithinLimits(c)
    BY <1>1, <1>2, <1>3, <1>13, CommandsAreMessages, PushWithinLimits DEF c
  <2>2. Core(sent', batch', inflight', Tail(rx), k)
    BY <1>1, <1>4, <1>6, <1>13, <2>1, CoreSend
  <2>3. Held(c, inflight, Tail(rx)) \subseteq Held(batch', inflight', Tail(rx))
    BY <1>4, <1>13, HeldSend
  <2>4. Grown /\ Spawned
    BY <1>10, <1>11, <1>13 DEF Grown, Spawned
  <2> QED BY <1>7, <1>8, <1>13, <2>2, <2>3, <2>4 DEF k
<1>14. CASE batch # <<>> /\ ~at_threshold(d) /\ batch' = d /\ sent' = s1 /\ inflight' = t1
  <2>1. Grown /\ Spawned
    BY <1>10, <1>11, <1>14 DEF Grown, Spawned
  <2> QED BY <1>9, <1>14, <2>1 DEF Open, k
<1>15. CASE batch # <<>> /\ batch' = <<>> /\ sent' = Append(s1, d) /\ inflight' = t1 \cup {Spawn(d)}
  <2>1. WithinLimits(d)
    BY <1>1, <1>2, <1>8, CommandsAreMessages, PushWithinLimits DEF d
  <2>2. Core(sent', batch', inflight', Tail(rx), k)
    BY <1>1, <1>4, <1>9, <1>15, <2>1, CoreSend
  <2>3. Held(d, t1, Tail(rx)) \subseteq Held(batch', inflight', Tail(rx))
    BY <1>4, <1>15, HeldSend
  <2>4. Grown /\ Spawned
    BY <1>10, <1>11, <1>15 DEF Grown, Spawned
  <2> QED BY <1>8, <1>9, <1>15, <2>2, <2>3, <2>4 DEF k
<1> QED BY <1>5, <1>12, <1>13, <1>14, <1>15

-----------------------------------------------------------------------------
(***************************************************************************)
(* The steps of the actor that take commands, send requests or join tasks  *)
(* leave the client's view alone.                                          *)
(***************************************************************************)
LEMMA ActorStep ==
    ASSUME IInv, UNCHANGED <<hist, fut, replied, dropped, open>>,
           rx' = rx \/ (rx # <<>> /\ rx' = Tail(rx)),
           Core(sent', batch', inflight', rx', Len(hist)), Open(batch'), Grown,
           \A m \in DOMAIN hist : hist[m].op = "publish" /\ m \in Held(batch, inflight, rx) =>
                m \in Held(batch', inflight', rx'),
           timer' \in BOOLEAN, pc' \in {"select", "join", "done", "dead"}, cont' \in 0..MaxCmds,
           AtJoin'
    PROVE  IInv'
<1> USE DEF IInv
<1>1. TypeOK'
  BY DEF TypeOK, Core
<1>2. CoreInv'
  BY DEF CoreInv
<1>3. QueueIsHistory'
  <2>1. CASE rx' = rx
    BY <2>1 DEF QueueIsHistory
  <2>2. CASE rx # <<>> /\ rx' = Tail(rx)
    <3>1. \A i \in DOMAIN rx' : i + 1 \in DOMAIN rx /\ rx'[i] = rx[i + 1]
      BY <2>2, TailElems DEF TypeOK
    <3> QED BY <3>1 DEF QueueIsHistory
  <2> QED BY <2>1, <2>2
<1>4. WaitingIsHeld'
  BY DEF WaitingIsHeld
<1>5. OutcomeOfRequest'
  BY DEF OutcomeOfRequest, Grown
<1>6. (replied \subseteq DOMAIN hist /\ FlushBarrier)'
  BY DEF FlushBarrier
<1> QED BY <1>1, <1>2, <1>3, <1>4, <1>5, <1>6

\* join_all removes tasks; only those that have ended, so nothing that is held.
LEMMA LiveGrows ==
    ASSUME NEW t, NEW u, Live(t) \subseteq Live(u), NEW b, NEW r
    PROVE  Held(b, t, r) \subseteq Held(b, u, r)
  BY DEF Held, LiveIds

LEMMA StepJoinInflight == ASSUME IInv, JoinInflight PROVE IInv'
<1> USE DEF IInv
<1>1. PICK task \in inflight : task.status # "running" /\ inflight' = inflight \ {task}
  BY DEF JoinInflight
<1>2. /\ pc = "select" /\ task.status # "aborting"
      /\ UNCHANGED <<hist, fut, replied, dropped, sent, rx, open, batch, timer, pc, cont>>
  BY DEF JoinInflight, AtJoin, client, queue
<1>3. Core(sent', batch', inflight', rx', Len(hist)) /\ Open(batch')
  <2>1. Core(sent, batch, inflight', rx, Len(hist))
    <3>1. Core(sent, batch, inflight, rx, Len(hist)) /\ inflight' \subseteq Tasks
      BY <1>1 DEF CoreInv, TypeOK
    <3>2. \A x \in inflight' : \E y \in inflight : x.msgs = y.msgs
      BY <1>1
    <3> QED BY <3>1, <3>2, CoreTasks
  <2> QED BY <1>2, <2>1 DEF CoreInv
<1>4. Live(inflight) \subseteq Live(inflight')
  BY <1>1, <1>2 DEF Live
<1>5. Held(batch, inflight, rx) \subseteq Held(batch', inflight', rx')
  BY <1>2, <1>4, LiveGrows
<1>6. AtJoin'
  BY <1>1, <1>2 DEF AtJoin
<1>7. Grown /\ timer' \in BOOLEAN /\ pc' \in {"select", "join", "done", "dead"} /\ cont' \in 0..MaxCmds
  BY <1>2 DEF Grown, TypeOK
<1> QED BY <1>2, <1>3, <1>5, <1>6, <1>7, ActorStep

LEMMA StepTimerFires == ASSUME IInv, TimerFires PROVE IInv'
<1> USE DEF IInv
<1>1. /\ flush /\ pc = "select" /\ timer' = FALSE
      /\ UNCHANGED <<hist, fut, replied, dropped, rx, open, pc, cont>>
  BY DEF TimerFires, queue
<1>2. Moved(rx) /\ batch' = <<>>
  BY <1>1, FlushMoves
<1>3. AtJoin'
  BY <1>1, <1>2 DEF AtJoin, Moved, Spawned
<1>4. pc' \in {"select", "join", "done", "dead"} /\ cont' \in 0..MaxCmds /\ timer' \in BOOLEAN
  BY <1>1 DEF TypeOK
<1>5. /\ Core(sent', batch', inflight', rx', Len(hist)) /\ Open(batch') /\ Grown
      /\ Held(batch, inflight, rx) \subseteq Held(batch', inflight', rx')
  BY <1>1, <1>2 DEF Moved
<1> QED BY <1>1, <1>3, <1>4, <1>5, ActorStep

LEMMA StepRecvPublish == ASSUME IInv, RecvPublish PROVE IInv'
<1> USE DEF IInv
<1>1. /\ add_msg_and_flush(Head(rx)) /\ pc = "select" /\ timer' \in BOOLEAN
      /\ rx # <<>> /\ rx' = Tail(rx)
      /\ UNCHANGED <<hist, fut, replied, dropped, open, pc, cont>>
  BY DEF RecvPublish, Recv
<1>2. /\ Core(sent', batch', inflight', rx', Len(hist)) /\ Open(batch') /\ Grown /\ Spawned
      /\ Held(batch, inflight, rx) \subseteq Held(batch', inflight', rx')
  BY <1>1, AddMoves
<1>3. AtJoin'
  BY <1>1, <1>2 DEF AtJoin, Spawned
<1>4. pc' \in {"select", "join", "done", "dead"} /\ cont' \in 0..MaxCmds
  BY <1>1 DEF TypeOK
<1> QED BY <1>1, <1>2, <1>3, <1>4, ActorStep

\* A Flush or a ResumePublish at the head of the queue holds no message.
LEMMA HeadIsNoMessage ==
    ASSUME IInv, rx # <<>>, Head(rx).op # "publish"
    PROVE  /\ Head(rx).id \in DOMAIN hist /\ hist[Head(rx).id].op # "publish"
           /\ \A i \in DOMAIN Tail(rx) : Head(rx).id < Tail(rx)[i].id
           /\ \A m \in DOMAIN hist : hist[m].op = "publish" =>
                m \notin IdsOf(rx) \ IdsOf(Tail(rx))
<1>1. /\ 1 \in DOMAIN rx /\ Head(rx) = rx[1]
      /\ \A i \in DOMAIN Tail(rx) : i + 1 \in DOMAIN rx /\ Tail(rx)[i] = rx[i + 1] /\ 1 < i + 1
  BY TailElems DEF IInv, TypeOK
<1>2. Head(rx).id \in DOMAIN hist /\ hist[Head(rx).id] = Head(rx)
  BY <1>1 DEF IInv, QueueIsHistory
<1>3. \A i \in DOMAIN Tail(rx) : Head(rx).id < Tail(rx)[i].id
  BY <1>1 DEF IInv, CoreInv, Core, Increasing
<1>4. IdsOf(rx) = {Head(rx).id} \cup IdsOf(Tail(rx))
  BY TailIds DEF IInv, TypeOK
<1> QED BY <1>2, <1>3, <1>4

LEMMA StepRecvFlush == ASSUME IInv, RecvFlush PROVE IInv'
<1> USE DEF IInv
<1>1. /\ flush /\ pc = "select" /\ pc' = "join" /\ cont' = Head(rx).id
      /\ rx # <<>> /\ rx' = Tail(rx) /\ Head(rx).op = "flush"
      /\ UNCHANGED <<hist, fut, replied, dropped, open, timer>>
  BY DEF RecvFlush, Recv
<1>2. Moved(rx') /\ batch' = <<>>
  BY <1>1, FlushMoves
<1>3. /\ Head(rx).id \in DOMAIN hist
      /\ \A i \in DOMAIN rx' : cont' < rx'[i].id
      /\ \A m \in DOMAIN hist : hist[m].op = "publish" => m \notin IdsOf(rx) \ IdsOf(rx')
  BY <1>1, HeadIsNoMessage
<1>4. AtJoin'
  BY <1>1, <1>2, <1>3 DEF AtJoin, Moved, Spawned
<1>5. pc' \in {"select", "join", "done", "dead"} /\ cont' \in 0..MaxCmds /\ timer' \in BOOLEAN
  <2>1. Head(rx).id \in 1..Len(hist) /\ Len(hist) \in 0..MaxCmds
    BY <1>3 DEF TypeOK
  <2> QED BY <1>1, <2>1, ConcurrentAssumption DEF TypeOK
<1>6. /\ Core(sent', batch', inflight', rx', Len(hist)) /\ Open(batch') /\ Grown
      /\ \A m \in DOMAIN hist : hist[m].op = "publish" /\ m \in Held(batch, inflight, rx) =>
            m \in Held(batch', inflight', rx')
  BY <1>2, <1>3 DEF Moved
<1> QED BY <1>1, <1>4, <1>5, <1>6, ActorStep

LEMMA StepRecvResume == ASSUME IInv, RecvResume PROVE IInv'
<1> USE DEF IInv
<1>1. /\ rx # <<>> /\ rx' = Tail(rx) /\ Head(rx).op = "resume" /\ pc = "select"
      /\ UNCHANGED <<hist, fut, replied, dropped, sent, open, batch, timer, inflight, pc, cont>>
  BY DEF RecvResume, Recv, client, actor
<1>2. \A m \in DOMAIN hist : hist[m].op = "publish" => m \notin IdsOf(rx) \ IdsOf(rx')
  BY <1>1, HeadIsNoMessage
<1>3. Core(sent', batch', inflight', rx', Len(hist)) /\ Open(batch')
  <2>1. Core(sent, batch, inflight, rx, Len(hist)) /\ Open(batch) /\ Len(hist) \in Nat
    BY DEF CoreInv, TypeOK
  <2>2. Core(sent, batch, inflight, Tail(rx), Len(hist))
    BY <1>1, <2>1, CoreTail
  <2> QED BY <1>1, <2>1, <2>2
<1>4. \A m \in DOMAIN hist : hist[m].op = "publish" /\ m \in Held(batch, inflight, rx) =>
          m \in Held(batch', inflight', rx')
  BY <1>1, <1>2 DEF Held
<1>5. AtJoin' /\ Grown
  BY <1>1 DEF AtJoin, Grown
<1>6. pc' \in {"select", "join", "done", "dead"} /\ cont' \in 0..MaxCmds /\ timer' \in BOOLEAN
  BY <1>1 DEF TypeOK
<1> QED BY <1>1, <1>3, <1>4, <1>5, <1>6, ActorStep

LEMMA StepRecvClosed == ASSUME IInv, RecvClosed PROVE IInv'
<1> USE DEF IInv
<1>1. /\ flush /\ pc = "select" /\ pc' = "join" /\ cont' = 0
      /\ UNCHANGED <<hist, fut, replied, dropped, rx, open, timer>>
  BY DEF RecvClosed, queue
<1>2. Moved(rx) /\ batch' = <<>>
  BY <1>1, FlushMoves
<1>3. AtJoin'
  BY <1>1, <1>2 DEF AtJoin, Moved, Spawned
<1>4. pc' \in {"select", "join", "done", "dead"} /\ cont' \in 0..MaxCmds /\ timer' \in BOOLEAN
  BY <1>1, ConcurrentAssumption DEF TypeOK
<1>5. /\ Core(sent', batch', inflight', rx', Len(hist)) /\ Open(batch') /\ Grown
      /\ Held(batch, inflight, rx) \subseteq Held(batch', inflight', rx')
  BY <1>1, <1>2 DEF Moved
<1> QED BY <1>1, <1>3, <1>4, <1>5, ActorStep

-----------------------------------------------------------------------------
(***************************************************************************)
(* The steps that resolve futures.                                         *)
(***************************************************************************)
\* Resolve gives some futures an outcome and leaves the others.
LEMMA ResolveSpec ==
    ASSUME TypeOK, NEW ids, NEW o \in {"ok", "rpc", "shutdown"}, fut' = Resolve(ids, o)
    PROVE  /\ fut' \in [Ids -> {"waiting", "ok"} \cup Failures]
           /\ \A m \in Ids : m \in ids => fut'[m] = o
           /\ \A m \in Ids : m \notin ids => fut'[m] = fut[m]
  BY DEF TypeOK, Resolve, Failures

\* A task with an outcome for its messages ends; it is removed or keeps its result.
LEMMA TaskEnds ==
    ASSUME IInv, NEW task \in Live(inflight), NEW o \in {"ok", "rpc", "shutdown"},
           fut' = Resolve(IdsOf(task.msgs), o),
           UNCHANGED <<hist, replied, dropped, sent, rx, open, batch, timer, pc, cont>>,
           NEW done, done \subseteq Tasks, inflight' = (inflight \ {task}) \cup done,
           \A x \in done : x.msgs = task.msgs /\ x.status # "aborting"
    PROVE  IInv'
<1> USE DEF IInv
<1>1. /\ fut' \in [Ids -> {"waiting", "ok"} \cup Failures]
      /\ \A m \in Ids : m \in IdsOf(task.msgs) => fut'[m] = o
      /\ \A m \in Ids : m \notin IdsOf(task.msgs) => fut'[m] = fut[m]
  BY ResolveSpec
<1>2. task \in inflight
  BY DEF Live
<1>3. DOMAIN hist \subseteq Ids
  BY ConcurrentAssumption DEF TypeOK, Ids
<1>4. TypeOK'
  BY <1>1 DEF TypeOK
<1>5. CoreInv'
  <2>1. \A x \in inflight' : \E y \in inflight : x.msgs = y.msgs
    BY <1>2
  <2>2. Core(sent, batch, inflight', rx, Len(hist))
    BY <1>4, <2>1, CoreTasks DEF CoreInv, TypeOK
  <2> QED BY <2>2 DEF CoreInv
<1>6. QueueIsHistory'
  BY DEF QueueIsHistory
<1>7. AtJoin'
  BY DEF AtJoin
<1>8. WaitingIsHeld'
  <2> SUFFICES ASSUME NEW m \in DOMAIN hist, hist[m].op = "publish", fut'[m] = "waiting"
               PROVE  m \in Held(batch, inflight', rx)
    BY DEF WaitingIsHeld
  <2>1. m \notin IdsOf(task.msgs) /\ fut[m] = "waiting"
    BY <1>1, <1>3
  <2>2. m \in Held(batch, inflight, rx)
    BY <2>1 DEF WaitingIsHeld
  <2>3. LiveIds(inflight) \subseteq LiveIds(inflight') \cup IdsOf(task.msgs)
    BY DEF LiveIds, Live
  <2> QED BY <2>1, <2>2, <2>3 DEF Held
<1>9. OutcomeOfRequest'
  <2> SUFFICES ASSUME NEW m \in Ids, fut'[m] \in {"ok", "rpc"}
               PROVE  \E i \in DOMAIN sent : m \in IdsOf(sent[i])
    BY DEF OutcomeOfRequest
  <2>1. CASE m \in IdsOf(task.msgs)
    BY <1>2, <2>1 DEF CoreInv, Core
  <2>2. CASE m \notin IdsOf(task.msgs)
    BY <1>1, <2>2 DEF OutcomeOfRequest
  <2> QED BY <2>1, <2>2
<1>10. (replied \subseteq DOMAIN hist /\ FlushBarrier)'
  <2>1. \A f \in replied : \A m \in 1..(f - 1) : m \in Ids
    BY <1>3, ConcurrentAssumption DEF TypeOK, Ids
  <2> QED BY <1>1, <2>1 DEF FlushBarrier
<1> QED BY <1>4, <1>5, <1>6, <1>7, <1>8, <1>9, <1>10

LEMMA StepRpcDone ==
    ASSUME IInv, NEW task \in inflight, NEW o \in {"ok", "err", "panic"}, RpcDone(task, o)
    PROVE  IInv'
<1> DEFINE t1 == [task EXCEPT !.status = o]
<1>1. task \in Live(inflight) /\ task \in Tasks
  BY DEF RpcDone, Live, IInv, TypeOK
<1>2. t1 \in Tasks /\ t1.msgs = task.msgs /\ t1.status = o
  BY <1>1 DEF Tasks
<1>3. FutureOf(o) \in {"ok", "rpc", "shutdown"}
  BY DEF FutureOf
<1>4. /\ fut' = Resolve(IdsOf(task.msgs), FutureOf(o))
      /\ inflight' = (inflight \ {task}) \cup {t1}
      /\ UNCHANGED <<hist, replied, dropped, sent, rx, open, batch, timer, pc, cont>>
  BY DEF RpcDone, queue
<1> HIDE DEF t1
<1> DEFINE res == FutureOf(o)
           done == {t1}
<1>5. done \subseteq Tasks /\ \A x \in done : x.msgs = task.msgs /\ x.status # "aborting"
  BY <1>2
<1>6. /\ res \in {"ok", "rpc", "shutdown"} /\ fut' = Resolve(IdsOf(task.msgs), res)
      /\ inflight' = (inflight \ {task}) \cup done
  BY <1>3, <1>4
<1> HIDE DEF res, done
<1> QED BY <1>1, <1>4, <1>5, <1>6, TaskEnds

LEMMA StepTaskAborted == ASSUME IInv, TaskAborted PROVE IInv'
<1>1. PICK task \in inflight : /\ task.status = "aborting" /\ inflight' = inflight \ {task}
                               /\ fut' = Resolve(IdsOf(task.msgs), "shutdown")
  BY DEF TaskAborted
<1>2. UNCHANGED <<hist, replied, dropped, sent, rx, open, batch, timer, pc, cont>>
  BY DEF TaskAborted, queue
<1> DEFINE res == "shutdown"
           done == {}
<1>3. /\ task \in Live(inflight) /\ inflight' = (inflight \ {task}) \cup done
      /\ done \subseteq Tasks /\ \A x \in done : x.msgs = task.msgs /\ x.status # "aborting"
  BY <1>1 DEF Live
<1>4. res \in {"ok", "rpc", "shutdown"} /\ fut' = Resolve(IdsOf(task.msgs), res)
  BY <1>1
<1> HIDE DEF res, done
<1> QED BY <1>2, <1>3, <1>4, TaskEnds

\* Every task has ended, the batch is empty, and what is queued came after the
\* Flush: no message published before it waits.
LEMMA StepJoinAll == ASSUME IInv, JoinAll PROVE IInv'
<1> USE DEF IInv
<1>1. /\ pc = "join" /\ \A task \in inflight : task.status \in {"ok", "err"}
      /\ inflight' = {} /\ cont' = 0 /\ timer' \in BOOLEAN
      /\ replied' = IF cont = 0 THEN replied ELSE replied \cup {cont}
      /\ pc' \in {"select", "done"}
      /\ UNCHANGED <<hist, fut, dropped, sent, rx, open, batch>>
  BY DEF JoinAll, queue
<1>2. Len(hist) \in 0..MaxCmds /\ DOMAIN hist = 1..Len(hist) /\ DOMAIN hist \subseteq Ids
  BY ConcurrentAssumption DEF TypeOK, Ids
<1>3. batch = <<>> /\ (cont # 0 => cont \in DOMAIN hist /\ \A i \in DOMAIN rx : cont < rx[i].id)
  BY <1>1 DEF AtJoin
<1>4. TypeOK'
  <2>1. replied' \subseteq Ids
    BY <1>1, <1>2, <1>3 DEF TypeOK
  <2> QED BY <1>1, <2>1, ConcurrentAssumption DEF TypeOK
<1>5. CoreInv'
  <2>1. Core(sent, batch, {}, rx, Len(hist))
    BY CoreTasks DEF CoreInv
  <2> QED BY <1>1, <2>1 DEF CoreInv
<1>6. QueueIsHistory'
  BY <1>1 DEF QueueIsHistory
<1>7. AtJoin'
  BY <1>1, <1>3 DEF AtJoin
<1>8. Held(batch, inflight, rx) = IdsOf(rx)
  BY <1>1, <1>3, EmptyIds DEF Held, LiveIds, Live
<1>9. WaitingIsHeld'
  BY <1>1, <1>8 DEF WaitingIsHeld, Held
<1>10. OutcomeOfRequest'
  BY <1>1 DEF OutcomeOfRequest
<1>11. ASSUME cont # 0, NEW m \in 1..(cont - 1), hist[m].op = "publish"
       PROVE  fut[m] # "waiting"
  <2> SUFFICES ASSUME fut[m] = "waiting" PROVE FALSE
    OBVIOUS
  <2>1. m \in DOMAIN hist /\ m < cont /\ m \in Nat /\ cont \in Nat
    BY <1>2, <1>3, <1>11
  <2>2. m \in IdsOf(rx)
    BY <1>8, <1>11, <2>1 DEF WaitingIsHeld
  <2>3. cont < m
    BY <1>3, <1>11, <2>2 DEF IdsOf
  <2> QED BY <2>1, <2>3
<1>12. (replied \subseteq DOMAIN hist /\ FlushBarrier)'
  BY <1>1, <1>3, <1>11 DEF FlushBarrier
<1> QED BY <1>4, <1>5, <1>6, <1>7, <1>9, <1>10, <1>12

LEMMA StepJoinAllPanics == ASSUME IInv, JoinAllPanics PROVE IInv'
<1> USE DEF IInv
<1>1. /\ pc = "join" /\ pc' = "dead" /\ cont' = 0 /\ timer' = FALSE /\ rx' = <<>>
      /\ fut' = Resolve(Queued("publish"), "shutdown")
      /\ dropped' = dropped \cup ({cont} \ {0}) \cup Queued("flush")
      /\ inflight' = {[t EXCEPT !.status = "aborting"] :
                        t \in {u \in inflight : u.status = "running"}}
      /\ UNCHANGED <<hist, replied, sent, open, batch>>
  BY DEF JoinAllPanics
<1>2. /\ fut' \in [Ids -> {"waiting", "ok"} \cup Failures]
      /\ \A m \in Ids : m \in Queued("publish") => fut'[m] = "shutdown"
      /\ \A m \in Ids : m \notin Queued("publish") => fut'[m] = fut[m]
  BY <1>1, ResolveSpec
<1>3. Len(hist) \in 0..MaxCmds /\ DOMAIN hist \subseteq Ids
  BY ConcurrentAssumption DEF TypeOK, Ids
<1>4. batch = <<>>
  BY <1>1 DEF AtJoin
<1>5. \A x \in inflight' : x \in Tasks /\ \E y \in inflight : x.msgs = y.msgs
  <2> SUFFICES ASSUME NEW y \in inflight
               PROVE  /\ [y EXCEPT !.status = "aborting"] \in Tasks
                      /\ [y EXCEPT !.status = "aborting"].msgs = y.msgs
    BY <1>1
  <2>1. y \in Tasks
    BY DEF TypeOK
  <2> QED BY <2>1 DEF Tasks
<1>6. TypeOK'
  <2>1. dropped' \subseteq Ids
    <3>1. Queued("flush") \subseteq Ids
      BY ElemIsNat DEF TypeOK, Queued
    <3>2. {cont} \ {0} \subseteq Ids
      BY ConcurrentAssumption DEF TypeOK, Ids
    <3> QED BY <1>1, <3>1, <3>2 DEF TypeOK
  <2>2. inflight' \subseteq Tasks
    BY <1>5
  <2>3. rx' \in Seq(Commands) /\ timer' \in BOOLEAN /\ cont' \in 0..MaxCmds
    <3>1. rx' = <<>> /\ timer' = FALSE /\ cont' = 0
      BY <1>1
    <3>2. <<>> \in Seq(Commands) /\ 0 \in 0..MaxCmds
      BY ConcurrentAssumption
    <3> QED BY <3>1, <3>2
  <2> QED BY <1>1, <1>2, <2>1, <2>2, <2>3 DEF TypeOK
<1>7. CoreInv'
  <2>1. Core(sent, batch, inflight', rx, Len(hist))
    <3>1. inflight' \subseteq Tasks
      BY <1>5
    <3> QED BY <1>5, <3>1, CoreTasks DEF CoreInv
  <2>2. Core(sent, batch, inflight', <<>>, Len(hist))
    BY <2>1 DEF Core, Increasing, UpTo, Before
  <2> QED BY <1>1, <2>2 DEF CoreInv
<1>8. QueueIsHistory'
  BY <1>1 DEF QueueIsHistory
<1>9. AtJoin'
  BY <1>1, <1>4 DEF AtJoin
<1>10. WaitingIsHeld'
  <2> SUFFICES ASSUME NEW m \in DOMAIN hist, hist[m].op = "publish", fut'[m] = "waiting"
               PROVE  m \in Held(batch', inflight', rx')
    BY <1>1 DEF WaitingIsHeld
  <2>1. m \notin Queued("publish") /\ fut[m] = "waiting"
    BY <1>2, <1>3
  <2>2. m \notin IdsOf(rx)
    BY <2>1 DEF QueueIsHistory, IdsOf, Queued
  <2>3. m \in LiveIds(inflight)
    BY <1>4, <2>1, <2>2, EmptyIds DEF WaitingIsHeld, Held
  <2>4. PICK x \in Live(inflight) : m \in IdsOf(x.msgs)
    BY <2>3 DEF LiveIds
  <2>5. x \in inflight /\ x.status = "running" /\ x \in Tasks
    BY <1>1 DEF Live, AtJoin, TypeOK
  <2> DEFINE y == [x EXCEPT !.status = "aborting"]
  <2>6. y \in inflight' /\ y.status = "aborting" /\ y.msgs = x.msgs
    BY <1>1, <2>5 DEF Tasks
  <2> HIDE DEF y
  <2> QED BY <2>4, <2>6 DEF Held, LiveIds, Live
<1>11. OutcomeOfRequest'
  BY <1>1, <1>2 DEF OutcomeOfRequest
<1>12. (replied \subseteq DOMAIN hist /\ FlushBarrier)'
  <2>1. \A f \in replied : \A m \in 1..(f - 1) : m \in Ids
    BY <1>3, ConcurrentAssumption DEF TypeOK, Ids
  <2> QED BY <1>1, <1>2, <2>1 DEF FlushBarrier
<1> QED BY <1>6, <1>7, <1>8, <1>9, <1>10, <1>11, <1>12

-----------------------------------------------------------------------------
(***************************************************************************)
(* Submit, and the steps that change nothing the invariant speaks of.      *)
(***************************************************************************)
LEMMA StepSubmit ==
    ASSUME IInv, NEW op \in {"publish", "flush", "resume"}, NEW bytes \in Nat, Submit(op, bytes)
    PROVE  IInv'
<1> USE DEF IInv
<1> DEFINE k == Len(hist)
           cmd == [op |-> op, id |-> k + 1, bytes |-> bytes]
<1>1. /\ hist' = Append(hist, cmd) /\ rx' = (IF pc = "dead" THEN rx ELSE Append(rx, cmd))
      /\ fut' = IF pc = "dead" /\ op = "publish" THEN Resolve({cmd.id}, "shutdown") ELSE fut
      /\ dropped' = IF pc = "dead" /\ op = "flush" THEN dropped \cup {cmd.id} ELSE dropped
      /\ k < MaxCmds
      /\ UNCHANGED <<replied, sent, open, batch, timer, inflight, pc, cont>>
  BY DEF Submit, actor
<1>2. k \in Nat /\ k + 1 \in Ids /\ hist \in Seq(Commands) /\ rx \in Seq(Commands)
  BY <1>1, ConcurrentAssumption DEF TypeOK, Ids
<1>3. cmd \in Commands /\ cmd.id = k + 1 /\ cmd.op = op
  BY <1>2 DEF Commands
<1> HIDE DEF cmd
<1>4. /\ hist' \in Seq(Commands) /\ Len(hist') = k + 1
      /\ k + 1 \in DOMAIN hist' /\ hist'[k + 1] = cmd
      /\ \A i \in DOMAIN hist : i \in DOMAIN hist' /\ hist'[i] = hist[i] /\ i < k + 1
      /\ \A i \in DOMAIN hist' : i = k + 1 \/ i \in DOMAIN hist
  <2>1. Len(Append(hist, cmd)) = k + 1
    BY <1>2, <1>3
  <2> QED BY <1>1, <1>2, <1>3, <2>1, AppendElems
<1>5. /\ fut' \in [Ids -> {"waiting", "ok"} \cup Failures]
      /\ \A m \in Ids : fut'[m] # fut[m] => fut'[m] = "shutdown"
      /\ pc = "dead" /\ op = "publish" => fut'[k + 1] = "shutdown"
  <2>1. CASE pc = "dead" /\ op = "publish"
    <3>1. fut' = Resolve({cmd.id}, "shutdown")
      BY <1>1, <2>1
    <3>2. /\ fut' \in [Ids -> {"waiting", "ok"} \cup Failures]
          /\ \A m \in Ids : m \in {cmd.id} => fut'[m] = "shutdown"
          /\ \A m \in Ids : m \notin {cmd.id} => fut'[m] = fut[m]
      BY <3>1, ResolveSpec
    <3> QED BY <1>2, <1>3, <3>2
  <2>2. CASE ~(pc = "dead" /\ op = "publish")
    BY <1>1, <2>2 DEF TypeOK
  <2> QED BY <2>1, <2>2
<1>6. TypeOK'
  <2>1. rx' \in Seq(Commands)
    BY <1>1, <1>2, <1>3
  <2>2. dropped' \subseteq Ids
    BY <1>1, <1>2, <1>3 DEF TypeOK
  <2>3. Len(hist') \in 0..MaxCmds
    BY <1>1, <1>2, <1>4, ConcurrentAssumption
  <2> QED BY <1>1, <1>4, <1>5, <2>1, <2>2, <2>3 DEF TypeOK
<1>7. CoreInv'
  <2>1. Core(sent, batch, inflight, Append(rx, cmd), k + 1) /\ Core(sent, batch, inflight, rx, k + 1)
    BY <1>2, <1>3, CoreSubmit DEF CoreInv
  <2>2. Core(sent, batch, inflight, rx', Len(hist')) /\ Open(batch)
    BY <1>1, <1>4, <2>1 DEF CoreInv
  <2> QED BY <1>1, <2>2 DEF CoreInv
<1>8. \A i \in DOMAIN rx' : rx'[i] = cmd \/ (i \in DOMAIN rx /\ rx'[i] = rx[i])
  BY <1>1, <1>2, <1>3, AppendElems
<1>9. QueueIsHistory'
  BY <1>3, <1>4, <1>8 DEF QueueIsHistory
<1>10. AtJoin'
  BY <1>1, <1>3, <1>4, <1>8 DEF AtJoin
<1>11. IdsOf(rx) \subseteq IdsOf(rx') /\ (pc # "dead" => k + 1 \in IdsOf(rx'))
  BY <1>1, <1>2, <1>3, AppendIds
<1>12. WaitingIsHeld'
  <2> SUFFICES ASSUME NEW m \in DOMAIN hist', hist'[m].op = "publish", fut'[m] = "waiting"
               PROVE  m \in Held(batch, inflight, rx')
    BY <1>1 DEF WaitingIsHeld
  <2>1. CASE m = k + 1
    BY <1>3, <1>4, <1>5, <1>11, <2>1 DEF Held
  <2>2. CASE m \in DOMAIN hist
    <3>1. m \in Ids
      BY <2>2, ConcurrentAssumption DEF TypeOK, Ids
    <3>2. fut[m] = "waiting" /\ hist[m].op = "publish"
      BY <1>4, <1>5, <2>2, <3>1
    <3>3. m \in Held(batch, inflight, rx)
      BY <2>2, <3>2 DEF WaitingIsHeld
    <3> QED BY <1>11, <3>3 DEF Held
  <2> QED BY <1>4, <2>1, <2>2
<1>13. OutcomeOfRequest'
  BY <1>1, <1>5 DEF OutcomeOfRequest
<1>14. (replied \subseteq DOMAIN hist /\ FlushBarrier)'
  <2>1. ASSUME NEW f \in replied, NEW m \in 1..(f - 1) PROVE m \in DOMAIN hist /\ m \in Ids
    <3>1. f \in 1..Len(hist) /\ Len(hist) \in 0..MaxCmds /\ DOMAIN hist = 1..Len(hist)
      BY DEF TypeOK
    <3> QED BY <2>1, <3>1, ConcurrentAssumption DEF Ids
  <2>2. FlushBarrier'
    <3> SUFFICES ASSUME NEW f \in replied, NEW m \in 1..(f - 1), hist'[m].op = "publish"
                 PROVE  fut'[m] # "waiting"
      BY <1>1 DEF FlushBarrier
    <3>1. m \in DOMAIN hist /\ m \in Ids
      BY <2>1
    <3>2. fut[m] # "waiting"
      BY <1>4, <3>1 DEF FlushBarrier
    <3> QED BY <1>5, <3>1, <3>2
  <2> QED BY <1>1, <1>4, <2>2
<1> QED BY <1>6, <1>7, <1>9, <1>10, <1>12, <1>13, <1>14

LEMMA StepQuiet ==
    ASSUME IInv, UNCHANGED <<client, rx, actor>>, open' \in BOOLEAN PROVE IInv'
<1>1. UNCHANGED <<hist, fut, replied, dropped, sent, rx, batch, timer, inflight, pc, cont>>
  BY DEF client, actor
<1>2. TypeOK'
  BY <1>1 DEF IInv, TypeOK
<1>3. CoreInv' /\ QueueIsHistory' /\ AtJoin'
  BY <1>1 DEF IInv, CoreInv, QueueIsHistory, AtJoin
<1>4. WaitingIsHeld' /\ OutcomeOfRequest' /\ (replied \subseteq DOMAIN hist /\ FlushBarrier)'
  BY <1>1 DEF IInv, WaitingIsHeld, OutcomeOfRequest, FlushBarrier
<1> QED BY <1>2, <1>3, <1>4 DEF IInv

-----------------------------------------------------------------------------
LEMMA Initially == Init => IInv
<1> SUFFICES ASSUME Init PROVE IInv
  OBVIOUS
<1> USE DEF Init
<1>1. TypeOK
  <2>1. /\ hist \in Seq(Commands) /\ rx \in Seq(Commands) /\ batch \in Seq(Commands)
        /\ sent \in Seq(Seq(Commands)) /\ Len(hist) = 0
    OBVIOUS
  <2>2. fut \in [Ids -> {"waiting", "ok"} \cup Failures]
    OBVIOUS
  <2>3. 0 \in 0..MaxCmds
    BY ConcurrentAssumption
  <2> QED BY <2>1, <2>2, <2>3 DEF TypeOK
<1>2. CoreInv
  BY DEF CoreInv, Core, Increasing, UpTo, Before, Open
<1>3. QueueIsHistory /\ AtJoin
  BY DEF QueueIsHistory, AtJoin
<1>4. WaitingIsHeld /\ OutcomeOfRequest /\ replied \subseteq DOMAIN hist /\ FlushBarrier
  BY DEF WaitingIsHeld, OutcomeOfRequest, FlushBarrier
<1> QED BY <1>1, <1>2, <1>3, <1>4 DEF IInv

LEMMA Step == IInv /\ [Next]_vars => IInv'
<1> SUFFICES ASSUME IInv, [Next]_vars PROVE IInv'
  OBVIOUS
<1>1. ASSUME NEW b \in MsgBytes, Submit("publish", b) PROVE IInv'
  BY <1>1, StepSubmit, ConcurrentAssumption
<1>2. ASSUME NEW op \in {"flush", "resume"}, Submit(op, 0) PROVE IInv'
  BY <1>2, StepSubmit
<1>3. CASE Close
  BY <1>3, StepQuiet DEF Close
<1>4. CASE JoinInflight
  BY <1>4, StepJoinInflight
<1>5. CASE TimerFires
  BY <1>5, StepTimerFires
<1>6. CASE RecvPublish
  BY <1>6, StepRecvPublish
<1>7. CASE RecvFlush
  BY <1>7, StepRecvFlush
<1>8. CASE RecvResume
  BY <1>8, StepRecvResume
<1>9. CASE RecvClosed
  BY <1>9, StepRecvClosed
<1>10. CASE JoinAll
  BY <1>10, StepJoinAll
<1>11. CASE JoinAllPanics
  BY <1>11, StepJoinAllPanics
<1>12. ASSUME NEW task \in inflight, NEW o \in {"ok", "err", "panic"}, RpcDone(task, o) PROVE IInv'
  BY <1>12, StepRpcDone
<1>13. CASE TaskAborted
  BY <1>13, StepTaskAborted
<1>14. CASE UNCHANGED vars
  <2>1. UNCHANGED <<client, rx, actor>> /\ open' \in BOOLEAN
    BY <1>14 DEF vars, queue, IInv, TypeOK
  <2> QED BY <2>1, StepQuiet
<1>15. CASE Terminated
  BY <1>14, <1>15 DEF Terminated
<1> QED
  BY <1>1, <1>2, <1>3, <1>4, <1>5, <1>6, <1>7, <1>8, <1>9, <1>10, <1>11, <1>12, <1>13, <1>14, <1>15
     DEF Next, Application, Actor, Rpc

\* The inductive invariant: every message is in one place, in the order of
\* submission, until its future has an outcome (actor.rs, ConcurrentBatchActor::run).
THEOREM Invariance == Spec => []IInv
  BY Initially, Step, PTL DEF Spec

\* The variables keep their types; no RPC task has an empty request.
THEOREM TypeCorrect == Spec => []TypeOK
<1>1. IInv => TypeOK
  BY DEF IInv
<1> QED BY <1>1, Invariance, PTL

\* A Flush is answered only when every message published before it has an
\* outcome, although any number of requests are in flight (actor.rs, the Flush arm
\* of run: flush and join_all).
THEOREM FlushIsBarrier == Spec => []FlushBarrier
<1>1. IInv => FlushBarrier
  BY DEF IInv
<1> QED BY <1>1, Invariance, PTL

\* No message is in two requests, no request exceeds the batching options, and a
\* future has the outcome of an RPC only if its message was sent (add_msg_and_flush).
THEOREM Partition == Spec => []RequestsArePartition
<1>1. ASSUME IInv PROVE RequestsArePartition
  <2>1. /\ \A i \in DOMAIN sent : WithinLimits(sent[i])
        /\ \A i, j \in DOMAIN sent : i # j => IdsOf(sent[i]) \cap IdsOf(sent[j]) = {}
    BY <1>1 DEF IInv, CoreInv, Core
  <2>2. \A m \in 1..Len(hist) : m \in Ids
    BY <1>1, ConcurrentAssumption DEF IInv, TypeOK, Ids
  <2> QED BY <1>1, <2>1, <2>2 DEF RequestsArePartition, IInv, OutcomeOfRequest
<1> QED BY <1>1, Invariance, PTL

\* A message without an outcome is in the queue, in the batch or in a request whose
\* task has not ended: the actor loses none, even when it dies.
THEOREM NoMessageIsLost == Spec => []WaitingIsHeld
<1>1. IInv => WaitingIsHeld
  BY DEF IInv
<1> QED BY <1>1, Invariance, PTL
=============================================================================
