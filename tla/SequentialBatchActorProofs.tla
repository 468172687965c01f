--------------------- MODULE SequentialBatchActorProofs ---------------------
(***************************************************************************)
(* Proofs about SequentialBatchActor, for every number of commands, every  *)
(* set of message sizes and every batching option: what the code's         *)
(* comments rely on (IInv), the order in which messages leave (LineInv),   *)
(* that a flush is a barrier (BarrierInv), and that the actor keeps the    *)
(* promise of an ordering key.                                             *)
(***************************************************************************)
EXTENDS SequentialBatchActor, Integers, WellFoundedInduction, SequenceTheorems, TLAPS

-----------------------------------------------------------------------------
(***************************************************************************)
(* What size, at_threshold and can_add (module Batch) say of a batch to    *)
(* which a message is added, and why a batch that is flushed when it is    *)
(* full, or when the next message has no room, respects the limits.        *)
(* (The same lemmas stand in the proofs of both actors: each proof module  *)
(* extends only the component it is about.)                                *)
(***************************************************************************)

\* Induction over the natural numbers with the hypothesis given as a set: one
\* that holds 0 and, with every natural number, the next one, holds them all.
LEMMA NatSetInduction ==
    ASSUME NEW T, 0 \in T, \A n \in Nat : n \in T => n + 1 \in T
    PROVE  Nat \subseteq T
<1> DEFINE R   == {ss \in Nat \X Nat : ss[1] < ss[2]}
           Out == Nat \ T
<1>1. IsWellFoundedOn(R, Nat)
  BY NatLessThanWellFounded DEF OpToRel
<1>2. SUFFICES ASSUME Out # {} PROVE FALSE
  OBVIOUS
<1>3. PICK x \in Out : \A y \in Out : ~(<<y, x>> \in R)
  <2>1. Out \subseteq Nat
    OBVIOUS
  <2> HIDE DEF R, Out
  <2> QED BY <1>1, <1>2, <2>1, WFMin, Zenon
<1>4. x # 0 /\ x - 1 \in Nat
  OBVIOUS
<1>5. <<x - 1, x>> \in R
  BY <1>4
<1> QED BY <1>3, <1>4, <1>5

Messages(S) == \A m \in S : m.bytes \in Nat

\* The recursion that defines size, over the first n messages and over all.
IsSizesUpTo(b, n, f) ==
    f = [i \in 0..n |-> IF i = 0 THEN TopicBytes ELSE f[i - 1] + b[i].bytes]
IsSizes(b, f) == IsSizesUpTo(b, Len(b), f)

\* It has a solution for every batch.
LEMMA SizesExist == ASSUME NEW S, NEW b \in Seq(S) PROVE \E f : IsSizes(b, f)
  <1> DEFINE T == {n \in Nat : \E f : IsSizesUpTo(b, n, f)}
  <1>1. 0 \in T
    <2>1. IsSizesUpTo(b, 0, [i \in 0..0 |-> TopicBytes])
      BY DEF IsSizesUpTo
    <2> QED
      BY <2>1
  <1>2. ASSUME NEW n \in Nat, n \in T PROVE n + 1 \in T
    <2>1. PICK f : IsSizesUpTo(b, n, f)
      BY <1>2
    <2> DEFINE g == [i \in 0..(n + 1) |->
                       IF i = n + 1 THEN f[n] + b[n + 1].bytes ELSE f[i]]
    <2>2. ASSUME NEW i \in 0..(n + 1)
          PROVE  g[i] = IF i = 0 THEN TopicBytes ELSE g[i - 1] + b[i].bytes
      <3>1. CASE i = n + 1
        BY <3>1
      <3>2. CASE i # n + 1
        <4>1. i \in 0..n /\ g[i] = f[i]
          BY <3>2
        <4>2. f[i] = IF i = 0 THEN TopicBytes ELSE f[i - 1] + b[i].bytes
          BY <2>1, <4>1 DEF IsSizesUpTo
        <4>3. i # 0 => i - 1 \in 0..(n + 1) /\ g[i - 1] = f[i - 1]
          BY <4>1
        <4> QED
          BY <4>1, <4>2, <4>3
      <3> QED
        BY <3>1, <3>2
    <2>3. g = [i \in 0..(n + 1) |-> g[i]]
      OBVIOUS
    <2> HIDE DEF g
    <2>4. IsSizesUpTo(b, n + 1, g)
      BY <2>2, <2>3 DEF IsSizesUpTo
    <2> QED
      BY <2>4
  <1> HIDE DEF T
  <1>3. Len(b) \in T
    BY <1>1, <1>2, NatSetInduction
  <1> QED
    BY <1>3 DEF T, IsSizes

\* size is the last value of a solution.
LEMMA SizeIsLast ==
    ASSUME NEW S, NEW b \in Seq(S)
    PROVE  \E f : IsSizes(b, f) /\ size(b) = f[Len(b)]
  <1> DEFINE f == CHOOSE f : IsSizes(b, f)
  <1>1. IsSizes(b, f)
    BY SizesExist
  <1>2. size(b) = f[Len(b)]
    BY DEF size, IsSizes, IsSizesUpTo
  <1> QED
    BY <1>1, <1>2

\* All the values of a solution are numbers of bytes.
LEMMA SizesType ==
    ASSUME NEW S, Messages(S), NEW b \in Seq(S), NEW f, IsSizes(b, f)
    PROVE  \A i \in 0..Len(b) : f[i] \in Nat
  <1> DEFINE T == {i \in Nat : i <= Len(b) => f[i] \in Nat}
  <1>1. 0 \in T
    BY BatchingAssumption DEF IsSizes, IsSizesUpTo
  <1>2. ASSUME NEW i \in Nat, i \in T PROVE i + 1 \in T
    <2>1. SUFFICES ASSUME i + 1 <= Len(b) PROVE f[i + 1] \in Nat
      OBVIOUS
    <2>2. f[i + 1] = f[i] + b[i + 1].bytes
      BY <2>1 DEF IsSizes, IsSizesUpTo
    <2>3. f[i] \in Nat /\ b[i + 1] \in S
      BY <1>2, <2>1
    <2> QED
      BY <2>2, <2>3 DEF Messages
  <1> HIDE DEF T
  <1>3. Nat \subseteq T
    BY <1>1, <1>2, NatSetInduction
  <1> QED
    BY <1>3 DEF T

\* Two solutions agree as far as their batches do.
LEMMA SizesAgree ==
    ASSUME NEW S, NEW b \in Seq(S), NEW c \in Seq(S), NEW f, NEW g,
           IsSizes(b, f), IsSizes(c, g), Len(b) <= Len(c),
           \A i \in 1..Len(b) : b[i] = c[i]
    PROVE  f[Len(b)] = g[Len(b)]
  <1> DEFINE T == {i \in Nat : i <= Len(b) => f[i] = g[i]}
  <1>1. 0 \in T
    BY DEF IsSizes, IsSizesUpTo
  <1>2. ASSUME NEW i \in Nat, i \in T PROVE i + 1 \in T
    <2>1. SUFFICES ASSUME i + 1 <= Len(b) PROVE f[i + 1] = g[i + 1]
      OBVIOUS
    <2>2. f[i + 1] = f[i] + b[i + 1].bytes /\ g[i + 1] = g[i] + c[i + 1].bytes
      BY <2>1 DEF IsSizes, IsSizesUpTo
    <2> QED
      BY <1>2, <2>1, <2>2
  <1> HIDE DEF T
  <1>3. Len(b) \in T
    BY <1>1, <1>2, NatSetInduction
  <1> QED
    BY <1>3 DEF T

-----------------------------------------------------------------------------
\* The size of a batch is a number, of an empty one the length of the topic.
LEMMA SizeType ==
    ASSUME NEW S, Messages(S), NEW b \in Seq(S)
    PROVE  size(b) \in Nat /\ (b = <<>> => size(b) = TopicBytes)
  <1>1. PICK f : IsSizes(b, f) /\ size(b) = f[Len(b)]
    BY SizeIsLast
  <1>2. size(b) \in Nat
    BY <1>1, SizesType
  <1>3. b = <<>> => size(b) = TopicBytes
    BY <1>1 DEF IsSizes, IsSizesUpTo
  <1> QED
    BY <1>2, <1>3

\* Batch::push: a message adds its own size.
LEMMA SizeAppend ==
    ASSUME NEW S, Messages(S), NEW b \in Seq(S), NEW m \in S
    PROVE  size(Append(b, m)) = size(b) + m.bytes
  <1>1. PICK f : IsSizes(b, f) /\ size(b) = f[Len(b)]
    BY SizeIsLast
  <1>2. Append(b, m) \in Seq(S) /\ Len(Append(b, m)) = Len(b) + 1 /\ Len(b) \in Nat
    OBVIOUS
  <1>3. PICK g : IsSizes(Append(b, m), g) /\ size(Append(b, m)) = g[Len(b) + 1]
    BY <1>2, SizeIsLast
  <1>4. /\ Append(b, m)[Len(b) + 1] = m
        /\ \A i \in 1..Len(b) : b[i] = Append(b, m)[i]
    OBVIOUS
  <1> DEFINE c == Append(b, m)
  <1>5. g[Len(b) + 1] = g[Len(b)] + m.bytes
    <2>1. c[Len(b) + 1] = m /\ Len(c) = Len(b) + 1 /\ IsSizes(c, g)
      BY <1>2, <1>3, <1>4
    <2> HIDE DEF c
    <2> QED
      BY <1>2, <2>1 DEF IsSizes, IsSizesUpTo
  <1>6. f[Len(b)] = g[Len(b)]
    <2>1. /\ c \in Seq(S) /\ IsSizes(c, g) /\ Len(b) <= Len(c)
          /\ \A i \in 1..Len(b) : b[i] = c[i]
      BY <1>2, <1>3, <1>4
    <2> HIDE DEF c
    <2> QED
      BY <1>1, <2>1, SizesAgree
  <1> QED
    BY <1>1, <1>3, <1>5, <1>6

-----------------------------------------------------------------------------
\* A batch that is still being filled.
Open(b) == b # <<>> => ~at_threshold(b)

\* A batch below the thresholds that takes one more message, which has room or is
\* the first, respects the limits.
LEMMA PushWithinLimits ==
    ASSUME NEW S, Messages(S), NEW b \in Seq(S), NEW m \in S, Open(b),
           b = <<>> \/ can_add(b, m)
    PROVE  WithinLimits(Append(b, m))
  <1>1. /\ Len(Append(b, m)) = Len(b) + 1 /\ Len(b) \in Nat /\ size(b) \in Nat
        /\ size(Append(b, m)) = size(b) + m.bytes /\ m.bytes \in Nat
    BY SizeType, SizeAppend DEF Messages
  <1>2. CASE b = <<>>
    BY <1>1, <1>2 DEF WithinLimits
  <1>3. CASE b # <<>>
    BY <1>1, <1>3, BatchingAssumption DEF WithinLimits, Open, at_threshold, can_add
  <1> QED
    BY <1>2, <1>3

\* A batch that is still being filled respects them too.
LEMMA OpenWithinLimits ==
    ASSUME NEW S, Messages(S), NEW b \in Seq(S), Open(b), b # <<>>
    PROVE  WithinLimits(b)
  <1>1. Len(b) \in Nat /\ size(b) \in Nat
    BY SizeType
  <1> QED
    BY <1>1, BatchingAssumption DEF WithinLimits, Open, at_threshold

-----------------------------------------------------------------------------
(***************************************************************************)
(* The inductive invariant.  Beside the three invariants of the model it   *)
(* says what flush_all has already achieved at its last join, and that a   *)
(* pause inside flush_all leaves the loop at once.                         *)
(***************************************************************************)
LastIsDrained == pc = "last" => pending_msgs = <<>> /\ batch = <<>>

PausedInv ==
    paused => /\ pc # "join"
              /\ pending_msgs = <<>> /\ batch = <<>> /\ inflight = NoTask

IInv ==
    /\ TypeOK
    /\ BatchEmptyWhileInflight
    /\ LastIsDrained
    /\ PausedInv
    /\ WaitingMessagesHaveTimer

Tasks == [status : {"none", "running", "ok", "err", "panic"},
          msgs : Seq(Commands)]

-----------------------------------------------------------------------------
\* The empty JoinSet is a value of the type of inflight.
LEMMA NoTaskType == NoTask \in Tasks
<1>1. <<>> \in Seq(Commands)
  OBVIOUS
<1> QED BY <1>1 DEF NoTask, Tasks

\* A batch extended by a prefix of the pending messages is a batch.
LEMMA MovedType ==
    ASSUME NEW p \in Seq(Commands), NEW b \in Seq(Commands), NEW n \in 0..Len(p)
    PROVE  /\ b \o SubSeq(p, 1, n) \in Seq(Commands)
           /\ SubSeq(p, n + 1, Len(p)) \in Seq(Commands)
<1>1. SubSeq(p, 1, n) \in Seq(Commands)
  OBVIOUS
<1>2. SubSeq(p, n + 1, Len(p)) \in Seq(Commands)
  OBVIOUS
<1> QED BY <1>1, <1>2

\* flush sends the batch it is given, if there is anything to send.
LEMMA FlushFacts ==
    ASSUME TypeOK, NEW b \in Seq(Commands), flush(b, NoTask)
    PROVE  /\ batch' = <<>>
           /\ sent' \in Seq(Seq(Commands))
           /\ inflight' \in Tasks
           /\ inflight'.status = "none" => inflight' = NoTask
           /\ b = <<>> => inflight' = NoTask /\ sent' = sent
<1>1. CASE b = <<>>
  <2>1. batch' = <<>> /\ inflight' = NoTask /\ sent' = sent
    BY <1>1 DEF flush
  <2> QED BY <2>1, NoTaskType DEF TypeOK
<1>2. CASE b # <<>>
  <2>1. sent' = Append(sent, b) /\ inflight' = [status |-> "running", msgs |-> b]
    BY <1>2 DEF flush, send
  <2>2. batch' = <<>>
    BY DEF flush
  <2>3. Append(sent, b) \in Seq(Seq(Commands))
    BY DEF TypeOK
  <2> QED BY <1>2, <2>1, <2>2, <2>3 DEF Tasks
<1> QED BY <1>1, <1>2

\* move_to_batch_and_flush on an empty JoinSet keeps the types, leaves the
\* batch empty when it sends, and does nothing when nothing is pending.
LEMMA MoveFacts ==
    ASSUME TypeOK, NEW p \in Seq(Commands), move_to_batch_and_flush(p, NoTask)
    PROVE  /\ pending_msgs' \in Seq(Commands)
           /\ batch' \in Seq(Commands)
           /\ sent' \in Seq(Seq(Commands))
           /\ inflight' \in Tasks
           /\ inflight'.status = "none" => inflight' = NoTask
           /\ inflight' # NoTask => batch' = <<>>
           /\ p = <<>> /\ batch = <<>> =>
                pending_msgs' = <<>> /\ batch' = <<>> /\ inflight' = NoTask
<1>1. PICK n \in 0..Len(p) :
        /\ Stops(p, batch, n)
        /\ pending_msgs' = SubSeq(p, n + 1, Len(p))
        /\ IF FullAfter(p, batch, n) \/ NextDoesNotFit(p, batch, n)
              THEN flush(batch \o SubSeq(p, 1, n), NoTask)
              ELSE /\ batch' = batch \o SubSeq(p, 1, n)
                   /\ inflight' = NoTask
                   /\ UNCHANGED sent
  BY DEF move_to_batch_and_flush
<1> DEFINE b == batch \o SubSeq(p, 1, n)
<1>2. b \in Seq(Commands) /\ pending_msgs' \in Seq(Commands)
  BY <1>1, MovedType DEF TypeOK
<1>3. /\ batch' \in Seq(Commands)
      /\ sent' \in Seq(Seq(Commands))
      /\ inflight' \in Tasks
      /\ inflight'.status = "none" => inflight' = NoTask
      /\ inflight' # NoTask => batch' = <<>>
  <2>1. CASE FullAfter(p, batch, n) \/ NextDoesNotFit(p, batch, n)
    <3>1. flush(b, NoTask)
      BY <1>1, <2>1
    <3> HIDE DEF b
    <3>2. /\ batch' = <<>>
          /\ sent' \in Seq(Seq(Commands))
          /\ inflight' \in Tasks
          /\ inflight'.status = "none" => inflight' = NoTask
      BY <1>2, <3>1, FlushFacts
    <3>3. <<>> \in Seq(Commands)
      OBVIOUS
    <3> QED BY <3>2, <3>3
  <2>2. CASE ~(FullAfter(p, batch, n) \/ NextDoesNotFit(p, batch, n))
    <3>1. batch' = b /\ inflight' = NoTask /\ sent' = sent
      BY <1>1, <2>2
    <3> HIDE DEF b
    <3> QED BY <1>2, <3>1, NoTaskType DEF TypeOK
  <2> QED BY <2>1, <2>2
<1>4. ASSUME p = <<>>, batch = <<>>
      PROVE  pending_msgs' = <<>> /\ batch' = <<>> /\ inflight' = NoTask
  <2>1. n = 0 /\ Len(p) = 0
    BY <1>4
  <2>2. ~FullAfter(p, batch, n) /\ ~NextDoesNotFit(p, batch, n)
    BY <2>1 DEF FullAfter, NextDoesNotFit
  <2>3. batch' = batch \o SubSeq(p, 1, n) /\ inflight' = NoTask
    BY <1>1, <2>2
  <2>4. SubSeq(p, 1, 0) = <<>> /\ SubSeq(p, 1, Len(p)) = <<>>
    BY <2>1
  <2> QED BY <1>1, <1>4, <2>1, <2>3, <2>4
<1> QED BY <1>2, <1>3, <1>4

\* handle_inflight_join keeps the types, and clears what is pending exactly
\* when it pauses.
LEMMA JoinFacts ==
    ASSUME TypeOK, handle_inflight_join
    PROVE  /\ paused' \in BOOLEAN /\ paused' = (paused \/ JoinFailed)
           /\ fut' \in [Ids -> Outcomes]
           /\ PendingAfterJoin \in Seq(Commands)
<1>1. fut' \in [Ids -> Outcomes]
  BY DEF handle_inflight_join, Rejected, TypeOK, Outcomes, Failures
<1>2. PendingAfterJoin \in Seq(Commands)
  BY DEF PendingAfterJoin, TypeOK
<1> QED BY <1>1, <1>2 DEF handle_inflight_join, TypeOK, JoinFailed

\* Receiving a command keeps the queue well typed.
LEMMA RecvFacts ==
    ASSUME TypeOK, NEW op, Recv(op)
    PROVE  /\ Head(rx) \in Commands /\ Head(rx).id \in Ids
           /\ rx' \in Seq(Commands)
           /\ open' = open /\ pc = "select"
<1>1. rx \in Seq(Commands) /\ rx # <<>>
  BY DEF Recv, TypeOK
<1>2. Head(rx) \in Commands /\ Tail(rx) \in Seq(Commands)
  BY <1>1, HeadTailProperties
<1>3. Head(rx).id \in Ids
  BY <1>2 DEF Commands
<1> QED BY <1>2, <1>3 DEF Recv

-----------------------------------------------------------------------------
\* The initial state satisfies the inductive invariant.
LEMMA InitIInv == Init => IInv
<1> SUFFICES ASSUME Init PROVE IInv
  OBVIOUS
<1>1. NoTask \in Tasks /\ <<>> \in Seq(Commands) /\ <<>> \in Seq(Seq(Commands))
  BY NoTaskType
<1>2. /\ Idle \in [kind : {"none", "timer", "flush", "stop"}, tx : 0..MaxCmds]
      /\ Idle.kind # "flush"
  BY SequentialAssumption DEF Idle
<1>3. fut \in [Ids -> Outcomes]
  BY DEF Init, Outcomes
<1>4. Len(hist) \in 0..MaxCmds
  BY SequentialAssumption DEF Init
<1>5. TypeOK
  BY <1>1, <1>2, <1>3, <1>4 DEF Init, TypeOK, Tasks
<1> QED BY <1>5 DEF Init, IInv, BatchEmptyWhileInflight, LastIsDrained,
                   PausedInv, WaitingMessagesHaveTimer

\* What the application does never touches the actor.
LEMMA ApplicationStep == IInv /\ Application => IInv'
<1> SUFFICES ASSUME IInv, Application PROVE IInv'
  OBVIOUS
<1> USE DEF IInv, TypeOK, BatchEmptyWhileInflight, LastIsDrained, PausedInv,
            WaitingMessagesHaveTimer, actor, client, queue
<1>1. ASSUME NEW op \in {"publish", "flush", "resume"}, NEW b \in Nat, Submit(op, b)
      PROVE  IInv'
  <2> DEFINE cmd == [op |-> op, id |-> Len(hist) + 1, bytes |-> b]
  <2>1. cmd \in Commands
    BY <1>1, SequentialAssumption DEF Submit, Commands, Ids
  <2>2. hist' = Append(hist, cmd) /\ rx' = Append(rx, cmd)
    BY <1>1 DEF Submit
  <2>3. hist' \in Seq(Commands) /\ rx' \in Seq(Commands) /\ Len(hist') = Len(hist) + 1
    <3> HIDE DEF cmd
    <3> QED BY <2>1, <2>2
  <2>4. Len(hist') \in 0..MaxCmds
    BY <1>1, <2>3, SequentialAssumption DEF Submit
  <2> QED BY <1>1, <2>3, <2>4 DEF Submit
<1>2. ASSUME Close PROVE IInv'
  BY <1>2 DEF Close
<1>3. \A b \in MsgBytes : b \in Nat
  BY SequentialAssumption
<1> QED BY <1>1, <1>2, <1>3 DEF Application

\* The RPC task changes its own status and the futures of its messages.
LEMMA RpcStep == IInv /\ Rpc => IInv'
<1> SUFFICES ASSUME IInv, NEW o \in {"ok", "err", "panic"}, RpcDone(o) PROVE IInv'
  BY DEF Rpc
<1>1. fut' \in [Ids -> Outcomes]
  BY DEF RpcDone, FutureOf, IInv, TypeOK, Outcomes, Failures
<1>2. inflight' \in Tasks /\ inflight'.status = o /\ inflight # NoTask /\ inflight' # NoTask
  BY DEF RpcDone, IInv, TypeOK, Tasks, NoTask
<1>3. TypeOK'
  BY <1>1, <1>2 DEF RpcDone, IInv, TypeOK, Tasks, queue
<1> QED BY <1>2, <1>3 DEF RpcDone, IInv, TypeOK, BatchEmptyWhileInflight, LastIsDrained,
                   PausedInv, WaitingMessagesHaveTimer, queue

\* The branches of the loop while the key is paused.
LEMMA PausedStep ==
    IInv /\ (PausedPublish \/ PausedFlush \/ PausedResume \/ PausedClosed) => IInv'
<1> SUFFICES ASSUME IInv, PausedPublish \/ PausedFlush \/ PausedResume \/ PausedClosed
             PROVE  IInv'
  OBVIOUS
<1> USE DEF IInv, TypeOK, BatchEmptyWhileInflight, LastIsDrained, PausedInv,
            WaitingMessagesHaveTimer, actor, client, queue
<1>1. CASE PausedPublish
  <2>1. rx' \in Seq(Commands) /\ open' = open
    BY <1>1, RecvFacts DEF PausedPublish
  <2>2. fut' \in [Ids -> Outcomes]
    BY <1>1 DEF PausedPublish, Rejected, Outcomes, Failures
  <2> QED BY <1>1, <2>1, <2>2 DEF PausedPublish
<1>2. CASE PausedFlush
  <2>1. rx' \in Seq(Commands) /\ open' = open /\ Head(rx).id \in Ids
    BY <1>2, RecvFacts DEF PausedFlush
  <2> QED BY <1>2, <2>1 DEF PausedFlush
<1>3. CASE PausedResume
  <2>1. rx' \in Seq(Commands) /\ open' = open
    BY <1>3, RecvFacts DEF PausedResume
  <2> QED BY <1>3, <2>1 DEF PausedResume
<1>4. CASE PausedClosed
  BY <1>4 DEF PausedClosed
<1> QED BY <1>1, <1>2, <1>3, <1>4

\* The join branch of select!: a failed join finds the batch empty, because it
\* was inflight, so that pausing leaves nothing behind.
LEMMA JoinStep == IInv /\ JoinInflight => IInv'
<1> SUFFICES ASSUME IInv, JoinInflight PROVE IInv'
  OBVIOUS
<1>1. TypeOK /\ ~paused /\ pc = "select" /\ inflight # NoTask /\ batch = <<>>
  BY DEF JoinInflight, IInv, BatchEmptyWhileInflight, NoTask
<1>2. /\ paused' \in BOOLEAN /\ paused' = (paused \/ JoinFailed)
      /\ fut' \in [Ids -> Outcomes]
      /\ PendingAfterJoin \in Seq(Commands)
  BY <1>1, JoinFacts DEF JoinInflight
<1>3. /\ pending_msgs' \in Seq(Commands)
      /\ batch' \in Seq(Commands)
      /\ sent' \in Seq(Seq(Commands))
      /\ inflight' \in Tasks
      /\ inflight'.status = "none" => inflight' = NoTask
      /\ inflight' # NoTask => batch' = <<>>
      /\ PendingAfterJoin = <<>> /\ batch = <<>> =>
           pending_msgs' = <<>> /\ batch' = <<>> /\ inflight' = NoTask
  BY <1>1, <1>2, MoveFacts DEF JoinInflight
<1>4. TypeOK'
  BY <1>1, <1>2, <1>3 DEF JoinInflight, TypeOK, Tasks, queue
<1>5. paused' => PendingAfterJoin = <<>>
  BY <1>1, <1>2 DEF PendingAfterJoin
<1>6. timer' = timer /\ pc' = pc
  BY DEF JoinInflight
<1>7. WaitingMessagesHaveTimer'
  <2>1. CASE pending_msgs = <<>>
    <3>1. PendingAfterJoin = <<>>
      BY <2>1 DEF PendingAfterJoin
    <3> QED BY <3>1, <1>1, <1>3 DEF WaitingMessagesHaveTimer
  <2>2. CASE pending_msgs # <<>>
    BY <2>2, <1>1, <1>6 DEF IInv, WaitingMessagesHaveTimer
  <2> QED BY <2>1, <2>2
<1>8. BatchEmptyWhileInflight' /\ LastIsDrained' /\ PausedInv'
  BY <1>1, <1>3, <1>5, <1>6 DEF BatchEmptyWhileInflight, LastIsDrained, PausedInv
<1> QED BY <1>4, <1>7, <1>8 DEF IInv

\* A published message is queued, and batched if no batch is inflight.
LEMMA PublishStep == IInv /\ RecvPublish => IInv'
<1> SUFFICES ASSUME IInv, RecvPublish PROVE IInv'
  OBVIOUS
<1>1. TypeOK /\ ~paused /\ paused' = paused /\ pc = "select" /\ pc' = pc
  BY DEF RecvPublish, Recv, IInv
<1>2. Head(rx) \in Commands /\ rx' \in Seq(Commands) /\ open' = open
  BY <1>1, RecvFacts DEF RecvPublish
<1> DEFINE p == Append(pending_msgs, Head(rx))
<1>3. p \in Seq(Commands)
  BY <1>1, <1>2 DEF TypeOK
<1>4. /\ pending_msgs' \in Seq(Commands)
      /\ batch' \in Seq(Commands)
      /\ sent' \in Seq(Seq(Commands))
      /\ inflight' \in Tasks
      /\ inflight'.status = "none" => inflight' = NoTask
      /\ inflight' # NoTask => batch' = <<>>
  <2>1. CASE inflight = NoTask
    <3>1. move_to_batch_and_flush(p, NoTask)
      BY <2>1 DEF RecvPublish
    <3> HIDE DEF p
    <3> QED BY <1>1, <1>3, <3>1, MoveFacts
  <2>2. CASE inflight # NoTask
    <3>1. pending_msgs' = p /\ batch' = batch /\ inflight' = inflight /\ sent' = sent
      BY <2>2 DEF RecvPublish
    <3> HIDE DEF p
    <3> QED BY <1>1, <1>3, <3>1, <2>2 DEF IInv, BatchEmptyWhileInflight, TypeOK, Tasks
  <2> QED BY <2>1, <2>2
<1>5. TypeOK'
  <2>1. timer' \in BOOLEAN
    BY DEF RecvPublish
  <2> QED BY <1>1, <1>2, <1>4, <2>1 DEF RecvPublish, TypeOK, Tasks
<1>6. WaitingMessagesHaveTimer'
  BY DEF RecvPublish, WaitingMessagesHaveTimer
<1> QED BY <1>1, <1>4, <1>5, <1>6 DEF IInv, BatchEmptyWhileInflight, LastIsDrained, PausedInv

\* The branches that enter flush_all, and the one that does nothing.
LEMMA EnterFlushStep ==
    IInv /\ (TimerFires \/ RecvFlush \/ RecvResume \/ RecvClosed) => IInv'
<1> SUFFICES ASSUME IInv, TimerFires \/ RecvFlush \/ RecvResume \/ RecvClosed
             PROVE  IInv'
  OBVIOUS
<1> USE DEF IInv, TypeOK, BatchEmptyWhileInflight, LastIsDrained, PausedInv,
            WaitingMessagesHaveTimer, actor, client, queue
<1>1. CASE TimerFires
  <2>1. /\ cont' \in [kind : {"none", "timer", "flush", "stop"}, tx : 0..MaxCmds]
        /\ cont'.kind # "flush"
    BY <1>1, SequentialAssumption DEF TimerFires, StartFlushAll
  <2> QED BY <1>1, <2>1 DEF TimerFires, StartFlushAll
<1>2. CASE RecvFlush
  <2>1. rx' \in Seq(Commands) /\ Head(rx).id \in Ids
    BY <1>2, RecvFacts DEF RecvFlush
  <2>2. /\ cont' \in [kind : {"none", "timer", "flush", "stop"}, tx : 0..MaxCmds]
        /\ cont'.tx \in Ids
    BY <1>2, <2>1, SequentialAssumption DEF RecvFlush, StartFlushAll, Ids
  <2> QED BY <1>2, <2>1, <2>2 DEF RecvFlush, StartFlushAll
<1>3. CASE RecvResume
  <2>1. rx' \in Seq(Commands) /\ open' = open
    BY <1>3, RecvFacts DEF RecvResume
  <2> QED BY <1>3, <2>1 DEF RecvResume
<1>4. CASE RecvClosed
  <2>1. /\ cont' \in [kind : {"none", "timer", "flush", "stop"}, tx : 0..MaxCmds]
        /\ cont'.kind # "flush"
    BY <1>4, SequentialAssumption DEF RecvClosed, StartFlushAll
  <2> QED BY <1>4, <2>1 DEF RecvClosed, StartFlushAll
<1> QED BY <1>1, <1>2, <1>3, <1>4

\* A join inside flush_all: a failure leaves the loop, because nothing is
\* pending any more.
LEMMA FlushJoinStep == IInv /\ FlushAllJoin => IInv'
<1> SUFFICES ASSUME IInv, FlushAllJoin PROVE IInv'
  OBVIOUS
<1>1. TypeOK /\ ~paused /\ pc = "join"
  BY DEF FlushAllJoin, IInv, PausedInv
<1>2. /\ paused' \in BOOLEAN /\ paused' = (paused \/ JoinFailed)
      /\ fut' \in [Ids -> Outcomes]
      /\ PendingAfterJoin \in Seq(Commands)
  BY <1>1, JoinFacts DEF FlushAllJoin
<1>3. paused' => PendingAfterJoin = <<>> /\ batch = <<>>
  <2>1. JoinFailed => inflight # NoTask
    BY DEF JoinFailed, NoTask
  <2> QED BY <1>1, <1>2, <2>1 DEF PendingAfterJoin, IInv, BatchEmptyWhileInflight
<1>4. CASE PendingAfterJoin # <<>>
  <2>1. /\ pending_msgs' \in Seq(Commands)
        /\ batch' \in Seq(Commands)
        /\ sent' \in Seq(Seq(Commands))
        /\ inflight' \in Tasks
        /\ inflight'.status = "none" => inflight' = NoTask
        /\ inflight' # NoTask => batch' = <<>>
    BY <1>1, <1>2, <1>4, MoveFacts DEF FlushAllJoin
  <2>2. pc' = "join" /\ ~paused'
    BY <1>1, <1>3, <1>4 DEF FlushAllJoin
  <2>3. TypeOK'
    BY <1>1, <1>2, <2>1, <2>2 DEF FlushAllJoin, TypeOK, Tasks, queue
  <2> QED BY <2>1, <2>2, <2>3 DEF IInv, BatchEmptyWhileInflight, LastIsDrained, PausedInv,
                                 WaitingMessagesHaveTimer
<1>5. CASE PendingAfterJoin = <<>>
  <2>1. flush(batch, NoTask) /\ pending_msgs' = <<>> /\ pc' = "last"
    BY <1>5 DEF FlushAllJoin
  <2>2. /\ batch' = <<>>
        /\ sent' \in Seq(Seq(Commands))
        /\ inflight' \in Tasks
        /\ inflight'.status = "none" => inflight' = NoTask
        /\ batch = <<>> => inflight' = NoTask
    <3>1. batch \in Seq(Commands)
      BY <1>1 DEF TypeOK
    <3> QED BY <1>1, <2>1, <3>1, FlushFacts
  <2>3. <<>> \in Seq(Commands)
    OBVIOUS
  <2>4. TypeOK'
    BY <1>1, <1>2, <2>1, <2>2, <2>3 DEF FlushAllJoin, TypeOK, Tasks, queue
  <2> QED BY <1>3, <2>1, <2>2, <2>4 DEF IInv, BatchEmptyWhileInflight, LastIsDrained,
                                 PausedInv, WaitingMessagesHaveTimer
<1> QED BY <1>4, <1>5

\* The last join of flush_all and the return to run.
LEMMA FlushLastStep == IInv /\ FlushAllLast => IInv'
<1> SUFFICES ASSUME IInv, FlushAllLast PROVE IInv'
  OBVIOUS
<1>1. TypeOK /\ pc = "last" /\ pending_msgs = <<>> /\ batch = <<>>
  BY DEF FlushAllLast, IInv, LastIsDrained
<1>2. /\ paused' \in BOOLEAN
      /\ fut' \in [Ids -> Outcomes]
      /\ PendingAfterJoin = <<>>
  BY <1>1, JoinFacts DEF FlushAllLast, PendingAfterJoin
<1>3. pending_msgs' = <<>> /\ batch' = <<>> /\ inflight' = NoTask
  BY <1>1, <1>2 DEF FlushAllLast
<1>4. replied' \subseteq Ids
  BY <1>1 DEF FlushAllLast, TypeOK
<1>5. TypeOK'
  <2>1. /\ cont' \in [kind : {"none", "timer", "flush", "stop"}, tx : 0..MaxCmds]
        /\ cont'.kind # "flush"
    BY SequentialAssumption DEF FlushAllLast, Idle
  <2>2. timer' \in BOOLEAN /\ pc' \in {"select", "done"}
    BY <1>1 DEF FlushAllLast, TypeOK
  <2>3. <<>> \in Seq(Commands)
    OBVIOUS
  <2> QED BY <1>1, <1>2, <1>3, <1>4, <2>1, <2>2, <2>3, NoTaskType
        DEF FlushAllLast, TypeOK, Tasks, queue
<1> QED BY <1>3, <1>5 DEF FlushAllLast, IInv, BatchEmptyWhileInflight, LastIsDrained,
                 PausedInv, WaitingMessagesHaveTimer

-----------------------------------------------------------------------------
\* Every step of the actor, the RPC task and the application keeps IInv.
LEMMA NextIInv == IInv /\ [Next]_vars => IInv'
<1> SUFFICES ASSUME IInv, [Next]_vars PROVE IInv'
  OBVIOUS
<1>1. CASE Application
  BY <1>1, ApplicationStep
<1>2. CASE Select
  BY <1>2, PausedStep, JoinStep, PublishStep, EnterFlushStep DEF Select
<1>3. CASE FlushAll
  BY <1>3, FlushJoinStep, FlushLastStep DEF FlushAll
<1>4. CASE Rpc
  BY <1>4, RpcStep
<1>5. CASE UNCHANGED vars
  BY <1>5 DEF vars, client, queue, actor, IInv, TypeOK, BatchEmptyWhileInflight,
              LastIsDrained, PausedInv, WaitingMessagesHaveTimer
<1>6. CASE Terminated
  BY <1>5, <1>6 DEF Terminated
<1> QED BY <1>1, <1>2, <1>3, <1>4, <1>5, <1>6 DEF Next

\* The inductive invariant holds in every reachable state.
THEOREM Invariance == Spec => []IInv
<1> QED BY InitIInv, NextIInv, PTL DEF Spec

\* Every variable of the actor keeps its type, whatever the application submits
\* and however the Publish RPCs end.
THEOREM TypeCorrect == Spec => []TypeOK
<1>1. IInv => TypeOK
  BY DEF IInv
<1> QED BY Invariance, <1>1, PTL

\* No message waits in the batch while a batch is inflight, which is what pause
\* relies on when it fails only the pending messages (actor.rs:578-581).
THEOREM BatchIsEmptyWhileInflight == Spec => []BatchEmptyWhileInflight
<1>1. IInv => BatchEmptyWhileInflight
  BY DEF IInv
<1> QED BY Invariance, <1>1, PTL

\* A paused key has nothing pending, nothing batched and nothing inflight, which
\* is what the paused loop relies on (actor.rs:439-440).
THEOREM PausedKeyIsDrained == Spec => []PausedIsDrained
<1>1. IInv => PausedIsDrained
  BY DEF IInv, PausedInv, PausedIsDrained
<1> QED BY Invariance, <1>1, PTL

\* A message that waits for its batch to fill always has a timer armed, so that
\* none is stranded (actor.rs:482-494).
THEOREM NoStrandedMessage == Spec => []WaitingMessagesHaveTimer
<1>1. IInv => WaitingMessagesHaveTimer
  BY DEF IInv
<1> QED BY Invariance, <1>1, PTL

-----------------------------------------------------------------------------
(***************************************************************************)
(* The invariant: the requests, the batch, the pending messages and the    *)
(* queue, one after the other, hold commands in the order of submission.   *)
(***************************************************************************)
Increasing(s) == \A i, j \in DOMAIN s : i < j => s[i].id < s[j].id
Before(s, t)  == \A i \in DOMAIN s, j \in DOMAIN t : s[i].id < t[j].id
UpTo(s, k)    == \A i \in DOMAIN s : s[i].id <= k

InOrder(s) ==
    /\ \A i \in DOMAIN s : Increasing(s[i])
    /\ \A i, j \in DOMAIN s : i < j => Before(s[i], s[j])

\* Sent requests s, batch b, pending messages p and queue r, of k submissions.
Line(s, b, p, r, k) ==
    /\ InOrder(s) /\ Increasing(b) /\ Increasing(p) /\ Increasing(r)
    /\ \A i \in DOMAIN s : /\ Before(s[i], b) /\ Before(s[i], p) /\ Before(s[i], r)
                           /\ UpTo(s[i], k)
    /\ Before(b, p) /\ Before(b, r) /\ Before(p, r)
    /\ UpTo(b, k) /\ UpTo(p, k) /\ UpTo(r, k)

LineInv == Line(sent, batch, pending_msgs, rx, Len(hist))

-----------------------------------------------------------------------------
(***************************************************************************)
(* How Line moves along, whatever the values.                              *)
(***************************************************************************)
\* Appending a command with the next number keeps a sequence increasing.
LEMMA IncreasingAppend ==
    ASSUME NEW s \in Seq(Commands), NEW c \in Commands,
           Increasing(s), \A i \in DOMAIN s : s[i].id < c.id
    PROVE  Increasing(Append(s, c))
<1>1. DOMAIN Append(s, c) = 1..(Len(s) + 1) /\ DOMAIN s = 1..Len(s)
  OBVIOUS
<1>2. \A i \in 1..(Len(s) + 1) :
         Append(s, c)[i] = IF i = Len(s) + 1 THEN c ELSE s[i]
  OBVIOUS
<1>3. Len(s) \in Nat
  OBVIOUS
<1> QED BY <1>1, <1>2, <1>3 DEF Increasing

\* An element of an extended sequence is the new one or an old one.
LEMMA AppendElems ==
    ASSUME NEW s \in Seq(Commands), NEW c \in Commands, NEW i \in DOMAIN Append(s, c)
    PROVE  Append(s, c)[i] = c \/ (i \in DOMAIN s /\ Append(s, c)[i] = s[i])
  OBVIOUS

\* The elements of a tail are those after the head.
LEMMA TailElems ==
    ASSUME NEW s \in Seq(Commands), s # <<>>, NEW i \in DOMAIN Tail(s)
    PROVE  /\ i + 1 \in DOMAIN s /\ Tail(s)[i] = s[i + 1]
           /\ 1 \in DOMAIN s /\ Head(s) = s[1] /\ i \in Nat \ {0}
  OBVIOUS

\* The elements of a prefix.
LEMMA PrefixElems ==
    ASSUME NEW p \in Seq(Commands), NEW n \in 0..Len(p), NEW i \in DOMAIN SubSeq(p, 1, n)
    PROVE  i \in 1..n /\ i \in DOMAIN p /\ SubSeq(p, 1, n)[i] = p[i]
  OBVIOUS

\* The elements of what follows a prefix.
LEMMA SuffixElems ==
    ASSUME NEW p \in Seq(Commands), NEW n \in 0..Len(p),
           NEW i \in DOMAIN SubSeq(p, n + 1, Len(p))
    PROVE  i + n \in DOMAIN p /\ SubSeq(p, n + 1, Len(p))[i] = p[i + n] /\ i \in Nat \ {0}
  OBVIOUS

\* An element of a concatenation comes from one of the two sequences.
LEMMA ConcatElems ==
    ASSUME NEW a \in Seq(Commands), NEW b \in Seq(Commands), NEW i \in DOMAIN (a \o b)
    PROVE  \/ i \in DOMAIN a /\ (a \o b)[i] = a[i]
           \/ i > Len(a) /\ i - Len(a) \in DOMAIN b /\ (a \o b)[i] = b[i - Len(a)]
  OBVIOUS

\* Commands are numbered.
LEMMA IdIsNat == \A c \in Commands : c.id \in Nat
<1> QED BY SequentialAssumption DEF Commands, Ids

\* The number of an element is a natural number.
LEMMA ElemIsNat ==
    ASSUME NEW s \in Seq(Commands), NEW i \in DOMAIN s
    PROVE  s[i] \in Commands /\ s[i].id \in Nat
<1>1. s[i] \in Commands
  OBVIOUS
<1> QED BY <1>1, IdIsNat

\* A new command goes to the end of the queue.
LEMMA LineSubmit ==
    ASSUME NEW s \in Seq(Seq(Commands)), NEW b \in Seq(Commands), NEW p \in Seq(Commands),
           NEW r \in Seq(Commands), NEW k \in Nat, NEW c \in Commands,
           Line(s, b, p, r, k), c.id = k + 1
    PROVE  Line(s, b, p, Append(r, c), k + 1)
<1> DEFINE r1 == Append(r, c)
<1>1. ASSUME NEW q \in Seq(Commands), UpTo(q, k)
      PROVE  UpTo(q, k + 1) /\ (\A i \in DOMAIN q : q[i].id < c.id)
  BY <1>1, ElemIsNat DEF UpTo
<1>2. ASSUME NEW q \in Seq(Commands), UpTo(q, k), Before(q, r)
      PROVE  Before(q, r1)
  BY <1>1, <1>2, AppendElems DEF Before
<1>3. UpTo(r1, k + 1) /\ Increasing(r1)
  <2>1. UpTo(r, k) /\ Increasing(r)
    BY DEF Line
  <2>2. UpTo(r, k + 1) /\ \A i \in DOMAIN r : r[i].id < c.id
    BY <1>1, <2>1
  <2>3. Increasing(r1)
    BY <2>1, <2>2, IncreasingAppend
  <2>4. UpTo(r1, k + 1)
    BY <2>2, AppendElems DEF UpTo
  <2> QED BY <2>3, <2>4
<1>4. \A i \in DOMAIN s : s[i] \in Seq(Commands)
  OBVIOUS
<1> QED BY <1>1, <1>2, <1>3, <1>4 DEF Line

\* The head of the queue is taken.
LEMMA LineTail ==
    ASSUME NEW s \in Seq(Seq(Commands)), NEW b \in Seq(Commands), NEW p \in Seq(Commands),
           NEW r \in Seq(Commands), NEW k \in Nat,
           Line(s, b, p, r, k), r # <<>>
    PROVE  Line(s, b, p, Tail(r), k)
<1>1. \A i \in DOMAIN Tail(r) : i + 1 \in DOMAIN r /\ Tail(r)[i] = r[i + 1] /\ i \in Nat
  BY TailElems
<1>2. ASSUME NEW q \in Seq(Commands), Before(q, r)
      PROVE  Before(q, Tail(r))
  BY <1>1, <1>2 DEF Before
<1>3. UpTo(Tail(r), k) /\ Increasing(Tail(r))
  BY <1>1 DEF Line, UpTo, Increasing
<1>4. \A i \in DOMAIN s : s[i] \in Seq(Commands)
  OBVIOUS
<1> QED BY <1>2, <1>3, <1>4 DEF Line

\* The head of the queue becomes the last pending message.
LEMMA LineRecv ==
    ASSUME NEW s \in Seq(Seq(Commands)), NEW b \in Seq(Commands), NEW p \in Seq(Commands),
           NEW r \in Seq(Commands), NEW k \in Nat,
           Line(s, b, p, r, k), r # <<>>
    PROVE  Line(s, b, Append(p, Head(r)), Tail(r), k)
<1> DEFINE p1 == Append(p, Head(r))
<1>1. 1 \in DOMAIN r /\ Head(r) = r[1] /\ Head(r) \in Commands
  OBVIOUS
<1>2. Line(s, b, p, Tail(r), k)
  BY LineTail
<1>3. ASSUME NEW q \in Seq(Commands), Before(q, p), Before(q, r)
      PROVE  Before(q, p1)
  BY <1>1, <1>3, AppendElems DEF Before
<1>4. \A i \in DOMAIN p : p[i].id < Head(r).id
  BY <1>1 DEF Line, Before
<1>5. Increasing(p1) /\ UpTo(p1, k)
  BY <1>1, <1>4, AppendElems, IncreasingAppend DEF Line, UpTo
<1>6. Before(p1, Tail(r))
  <2>1. \A j \in DOMAIN Tail(r) : Head(r).id < Tail(r)[j].id
    BY <1>1, TailElems DEF Line, Increasing
  <2> QED BY <2>1, <1>2, AppendElems DEF Line, Before
<1>7. \A i \in DOMAIN s : s[i] \in Seq(Commands)
  OBVIOUS
<1> HIDE DEF p1
<1>8. /\ Before(b, p1)
      /\ \A i \in DOMAIN s : Before(s[i], p1)
  BY <1>3, <1>7 DEF Line
<1> QED BY <1>2, <1>5, <1>6, <1>8 DEF Line, p1

\* The first n pending messages move to the batch.
LEMMA LineMove ==
    ASSUME NEW s \in Seq(Seq(Commands)), NEW b \in Seq(Commands), NEW p \in Seq(Commands),
           NEW r \in Seq(Commands), NEW k \in Nat, NEW n \in 0..Len(p),
           Line(s, b, p, r, k)
    PROVE  Line(s, b \o SubSeq(p, 1, n), SubSeq(p, n + 1, Len(p)), r, k)
<1> DEFINE x == SubSeq(p, 1, n)
           y == SubSeq(p, n + 1, Len(p))
           b1 == b \o x
<1>1. /\ x \in Seq(Commands) /\ y \in Seq(Commands) /\ b1 \in Seq(Commands)
      /\ \A i \in DOMAIN s : s[i] \in Seq(Commands)
  BY MovedType
<1>2. \A i \in DOMAIN x : i \in 1..n /\ i \in DOMAIN p /\ x[i] = p[i]
  BY PrefixElems
<1>3. \A i \in DOMAIN y : i + n \in DOMAIN p /\ y[i] = p[i + n] /\ i \in Nat \ {0}
  BY SuffixElems
<1>4. /\ Increasing(x) /\ Increasing(y) /\ Before(x, y) /\ Before(x, r) /\ Before(y, r)
      /\ UpTo(x, k) /\ UpTo(y, k) /\ Before(b, x) /\ Before(b, y)
  <2>1. Increasing(x) /\ Increasing(y)
    <3>1. Increasing(p)
      BY DEF Line
    <3>2. Increasing(x)
      BY <1>2, <3>1 DEF Increasing
    <3>3. \A i, j \in DOMAIN y : i < j => i + n < j + n
      BY <1>3
    <3> HIDE DEF y
    <3>4. Increasing(y)
      BY <1>3, <3>1, <3>3 DEF Increasing
    <3> QED BY <3>2, <3>4
  <2>2. Before(x, y)
    <3> SUFFICES ASSUME NEW i \in DOMAIN x, NEW j \in DOMAIN y
                 PROVE  x[i].id < y[j].id
      BY DEF Before
    <3>1. i < j + n
      BY <1>2, <1>3
    <3> QED BY <3>1, <1>2, <1>3 DEF Line, Increasing
  <2>3. Before(x, r) /\ Before(y, r) /\ Before(b, x) /\ Before(b, y)
    BY <1>2, <1>3 DEF Line, Before
  <2>4. UpTo(x, k) /\ UpTo(y, k)
    BY <1>2, <1>3 DEF Line, UpTo
  <2> QED BY <2>1, <2>2, <2>3, <2>4
<1>5. \A i \in DOMAIN b1 : \/ i \in DOMAIN b /\ b1[i] = b[i]
                           \/ i > Len(b) /\ i - Len(b) \in DOMAIN x
                              /\ b1[i] = x[i - Len(b)]
  BY <1>1, ConcatElems
<1>6. DOMAIN b = 1..Len(b) /\ Len(b) \in Nat /\ DOMAIN b1 \subseteq Nat
  BY <1>1
<1>7. ASSUME NEW q \in Seq(Commands), Before(q, p)
      PROVE  Before(q, x) /\ Before(q, y)
  BY <1>2, <1>3, <1>7 DEF Before
<1> HIDE DEF x, y, b1
<1>8. Increasing(b1)
  <2> SUFFICES ASSUME NEW i \in DOMAIN b1, NEW j \in DOMAIN b1, i < j
               PROVE  b1[i].id < b1[j].id
    BY DEF Increasing
  <2>1. CASE j \in DOMAIN b /\ b1[j] = b[j]
    <3>1. i \in DOMAIN b /\ b1[i] = b[i]
      BY <2>1, <1>5, <1>6
    <3> QED BY <2>1, <3>1 DEF Line, Increasing
  <2>2. CASE j > Len(b) /\ j - Len(b) \in DOMAIN x /\ b1[j] = x[j - Len(b)]
    <3>1. CASE i \in DOMAIN b /\ b1[i] = b[i]
      BY <2>2, <3>1, <1>4 DEF Before
    <3>2. CASE i > Len(b) /\ i - Len(b) \in DOMAIN x /\ b1[i] = x[i - Len(b)]
      <4>1. i - Len(b) < j - Len(b)
        BY <1>6
      <4> QED BY <4>1, <2>2, <3>2, <1>4 DEF Increasing
    <3> QED BY <1>5, <3>1, <3>2
  <2> QED BY <1>5, <2>1, <2>2
<1>9. Before(b1, y) /\ Before(b1, r) /\ UpTo(b1, k)
  BY <1>4, <1>5 DEF Line, Before, UpTo
<1>10. \A i \in DOMAIN s : Before(s[i], x) /\ Before(s[i], y)
  BY <1>1, <1>7 DEF Line
<1>11. \A i \in DOMAIN s : Before(s[i], b1)
  BY <1>5, <1>10 DEF Line, Before
<1>12. Line(s, b1, y, r, k)
  BY <1>4, <1>8, <1>9, <1>10, <1>11 DEF Line
<1> QED BY <1>12 DEF x, y, b1

\* The empty sequence can stand anywhere in the line.
LEMMA EmptyInLine ==
    /\ Increasing(<<>>) /\ \A k \in Nat : UpTo(<<>>, k)
    /\ \A q : Before(<<>>, q) /\ Before(q, <<>>)
<1> QED BY DEF Increasing, UpTo, Before

\* The batch becomes the last request.
LEMMA LineSend ==
    ASSUME NEW s \in Seq(Seq(Commands)), NEW b \in Seq(Commands), NEW p \in Seq(Commands),
           NEW r \in Seq(Commands), NEW k \in Nat,
           Line(s, b, p, r, k)
    PROVE  Line(Append(s, b), <<>>, p, r, k)
<1> DEFINE s1 == Append(s, b)
<1>1. /\ DOMAIN s1 = 1..(Len(s) + 1) /\ DOMAIN s = 1..Len(s) /\ Len(s) \in Nat
      /\ \A i \in DOMAIN s1 : s1[i] = IF i = Len(s) + 1 THEN b ELSE s[i]
  OBVIOUS
<1> HIDE DEF s1
<1>2. InOrder(s1)
  <2>1. \A i \in DOMAIN s1 : Increasing(s1[i])
    BY <1>1 DEF Line, InOrder
  <2>2. ASSUME NEW i \in DOMAIN s1, NEW j \in DOMAIN s1, i < j
        PROVE  Before(s1[i], s1[j])
    <3>1. i \in DOMAIN s /\ s1[i] = s[i]
      <4>1. i \in 1..(Len(s) + 1) /\ j \in 1..(Len(s) + 1)
        BY <1>1
      <4>2. i \in 1..Len(s) /\ i # Len(s) + 1
        BY <1>1, <2>2, <4>1
      <4> QED BY <1>1, <4>2
    <3>2. CASE j = Len(s) + 1
      <4>1. s1[j] = b
        BY <1>1, <3>2
      <4> QED BY <3>1, <4>1 DEF Line
    <3>3. CASE j # Len(s) + 1
      <4>1. j \in DOMAIN s /\ s1[j] = s[j]
        BY <1>1, <3>3
      <4> QED BY <2>2, <3>1, <4>1 DEF Line, InOrder
    <3> QED BY <3>2, <3>3
  <2> QED BY <2>1, <2>2 DEF InOrder
<1>3. \A i \in DOMAIN s1 : /\ Before(s1[i], p) /\ Before(s1[i], r) /\ UpTo(s1[i], k)
                           /\ Before(s1[i], <<>>)
  <2> SUFFICES ASSUME NEW i \in DOMAIN s1
               PROVE  /\ Before(s1[i], p) /\ Before(s1[i], r) /\ UpTo(s1[i], k)
                      /\ Before(s1[i], <<>>)
    OBVIOUS
  <2>1. CASE i = Len(s) + 1
    <3>1. s1[i] = b
      BY <1>1, <2>1
    <3> QED BY <3>1, EmptyInLine DEF Line
  <2>2. CASE i # Len(s) + 1
    <3>1. i \in 1..(Len(s) + 1)
      BY <1>1
    <3>2. i \in 1..Len(s)
      BY <1>1, <2>2, <3>1
    <3>3. i \in DOMAIN s /\ s1[i] = s[i]
      BY <1>1, <2>2, <3>2
    <3> QED BY <3>3, EmptyInLine DEF Line
  <2> QED BY <2>1, <2>2
<1> QED BY <1>2, <1>3, EmptyInLine DEF Line, s1

\* The pending messages, or the batch, are given up.
LEMMA LineClear ==
    ASSUME NEW s, NEW b, NEW p, NEW r, NEW k \in Nat, Line(s, b, p, r, k)
    PROVE  Line(s, b, <<>>, r, k) /\ Line(s, <<>>, p, r, k)
<1> QED BY EmptyInLine DEF Line

-----------------------------------------------------------------------------
(***************************************************************************)
(* The steps of the actor.                                                 *)
(***************************************************************************)
\* flush moves the batch, if any, to the end of the requests.
LEMMA FlushLine ==
    ASSUME TypeOK, NEW b \in Seq(Commands), NEW p \in Seq(Commands),
           NEW r \in Seq(Commands), NEW k \in Nat, NEW task,
           Line(sent, b, p, r, k), flush(b, task)
    PROVE  Line(sent', batch', p, r, k)
<1>1. sent \in Seq(Seq(Commands))
  BY DEF TypeOK
<1>2. CASE b = <<>>
  BY <1>2 DEF flush
<1>3. CASE b # <<>>
  <2>1. sent' = Append(sent, b) /\ batch' = <<>>
    BY <1>3 DEF flush, send
  <2> QED BY <1>1, <2>1, LineSend
<1> QED BY <1>2, <1>3

\* move_to_batch_and_flush keeps the order.
LEMMA MoveLine ==
    ASSUME TypeOK, NEW p \in Seq(Commands), NEW r \in Seq(Commands), NEW k \in Nat,
           NEW task, Line(sent, batch, p, r, k), move_to_batch_and_flush(p, task)
    PROVE  Line(sent', batch', pending_msgs', r, k)
<1>1. PICK n \in 0..Len(p) :
        /\ pending_msgs' = SubSeq(p, n + 1, Len(p))
        /\ IF FullAfter(p, batch, n) \/ NextDoesNotFit(p, batch, n)
              THEN flush(batch \o SubSeq(p, 1, n), task)
              ELSE /\ batch' = batch \o SubSeq(p, 1, n)
                   /\ UNCHANGED sent
  BY DEF move_to_batch_and_flush
<1> DEFINE b == batch \o SubSeq(p, 1, n)
<1>2. batch \in Seq(Commands) /\ sent \in Seq(Seq(Commands))
  BY DEF TypeOK
<1>3. b \in Seq(Commands) /\ pending_msgs' \in Seq(Commands)
  BY <1>1, <1>2, MovedType
<1>4. Line(sent, b, pending_msgs', r, k)
  BY <1>1, <1>2, LineMove
<1>5. flush(b, task) \/ (batch' = b /\ sent' = sent)
  BY <1>1
<1> HIDE DEF b
<1> QED BY <1>3, <1>4, <1>5, FlushLine

\* A join gives up the pending messages or keeps them.
LEMMA JoinLine ==
    ASSUME TypeOK, LineInv
    PROVE  /\ PendingAfterJoin \in Seq(Commands)
           /\ Line(sent, batch, PendingAfterJoin, rx, Len(hist))
<1>1. Len(hist) \in Nat
  BY DEF TypeOK
<1> QED BY <1>1, LineClear DEF LineInv, PendingAfterJoin, TypeOK

\* Publisher::publish, flush and resume_publish submit at the end of the line.
LEMMA ApplicationLine == TypeOK /\ LineInv /\ Application => LineInv'
<1> SUFFICES ASSUME TypeOK, LineInv, Application PROVE LineInv'
  OBVIOUS
<1>1. /\ hist \in Seq(Commands) /\ Len(hist) \in Nat /\ rx \in Seq(Commands)
      /\ batch \in Seq(Commands) /\ pending_msgs \in Seq(Commands)
      /\ sent \in Seq(Seq(Commands))
  BY DEF TypeOK
<1>2. CASE Close
  BY <1>2 DEF Close, LineInv, client, actor
<1>3. ASSUME NEW op \in {"publish", "flush", "resume"}, NEW bytes \in Nat,
             Submit(op, bytes)
      PROVE  LineInv'
  <2> DEFINE cmd == [op |-> op, id |-> Len(hist) + 1, bytes |-> bytes]
  <2>1. /\ hist' = Append(hist, cmd) /\ rx' = Append(rx, cmd)
        /\ sent' = sent /\ batch' = batch /\ pending_msgs' = pending_msgs
        /\ Len(hist) < MaxCmds
    BY <1>3 DEF Submit, actor
  <2>2. cmd \in Commands /\ cmd.id = Len(hist) + 1
    BY <1>1, <2>1, SequentialAssumption DEF Commands, Ids
  <2> HIDE DEF cmd
  <2>3. Len(hist') = Len(hist) + 1
    BY <1>1, <2>1, <2>2
  <2>4. Line(sent, batch, pending_msgs, rx', Len(hist) + 1)
    BY <1>1, <2>1, <2>2, LineSubmit DEF LineInv
  <2> QED BY <2>1, <2>3, <2>4 DEF LineInv
<1> QED BY <1>2, <1>3, SequentialAssumption DEF Application

\* Taking a command that is not a message leaves the rest of the line alone.
LEMMA RecvLine ==
    ASSUME TypeOK, LineInv, NEW op, Recv(op)
    PROVE  /\ Line(sent, batch, pending_msgs, rx', Len(hist))
           /\ Line(sent, batch, Append(pending_msgs, Head(rx)), rx', Len(hist))
           /\ rx' \in Seq(Commands) /\ Append(pending_msgs, Head(rx)) \in Seq(Commands)
<1>1. /\ rx \in Seq(Commands) /\ rx # <<>> /\ rx' = Tail(rx) /\ Len(hist) \in Nat
      /\ batch \in Seq(Commands) /\ pending_msgs \in Seq(Commands)
      /\ sent \in Seq(Seq(Commands))
  BY DEF TypeOK, Recv
<1>2. Head(rx) \in Commands /\ Tail(rx) \in Seq(Commands)
  BY <1>1, HeadTailProperties
<1>3. Append(pending_msgs, Head(rx)) \in Seq(Commands)
  BY <1>1, <1>2
<1> QED BY <1>1, <1>2, <1>3, LineTail, LineRecv DEF LineInv

\* Receiving a message: it goes to the end of the pending messages.
LEMMA PublishLine == TypeOK /\ LineInv /\ RecvPublish => LineInv'
<1> SUFFICES ASSUME TypeOK, LineInv, RecvPublish PROVE LineInv'
  OBVIOUS
<1> DEFINE p == Append(pending_msgs, Head(rx))
<1>1. Recv("publish") /\ hist' = hist
  BY DEF RecvPublish
<1>2. Line(sent, batch, p, rx', Len(hist)) /\ rx' \in Seq(Commands) /\ p \in Seq(Commands)
  BY <1>1, RecvLine
<1>3. \/ move_to_batch_and_flush(p, NoTask)
      \/ pending_msgs' = p /\ batch' = batch /\ sent' = sent
  BY DEF RecvPublish
<1>4. Len(hist) \in Nat
  BY DEF TypeOK
<1> HIDE DEF p
<1>5. Line(sent', batch', pending_msgs', rx', Len(hist))
  BY <1>2, <1>3, <1>4, MoveLine
<1> QED BY <1>1, <1>5 DEF LineInv

\* The other branches of the select.
LEMMA SelectLine == TypeOK /\ LineInv /\ Select => LineInv'
<1> SUFFICES ASSUME TypeOK, LineInv, Select PROVE LineInv'
  OBVIOUS
<1>1. CASE PausedPublish \/ PausedFlush \/ PausedResume \/ RecvFlush \/ RecvResume
  <2>1. \E op : Recv(op)
    BY <1>1 DEF PausedPublish, PausedFlush, PausedResume, RecvFlush, RecvResume
  <2>2. UNCHANGED <<hist, sent, batch, pending_msgs>>
    BY <1>1 DEF PausedPublish, PausedFlush, PausedResume, RecvFlush, RecvResume,
                StartFlushAll, client, actor
  <2> QED BY <2>1, <2>2, RecvLine DEF LineInv
<1>2. CASE PausedClosed \/ TimerFires \/ RecvClosed
  BY <1>2 DEF PausedClosed, TimerFires, RecvClosed, StartFlushAll, client, queue, LineInv
<1>3. CASE JoinInflight
  <2>1. /\ move_to_batch_and_flush(PendingAfterJoin, NoTask)
        /\ hist' = hist /\ rx' = rx
    BY <1>3 DEF JoinInflight, queue
  <2>2. rx \in Seq(Commands) /\ Len(hist) \in Nat
    BY DEF TypeOK
  <2> QED BY <2>1, <2>2, JoinLine, MoveLine DEF LineInv
<1>4. CASE RecvPublish
  BY <1>4, PublishLine
<1> QED BY <1>1, <1>2, <1>3, <1>4 DEF Select

\* flush_all sends in order, too.
LEMMA FlushAllLine == TypeOK /\ LineInv /\ FlushAll => LineInv'
<1> SUFFICES ASSUME TypeOK, LineInv, FlushAll PROVE LineInv'
  OBVIOUS
<1>1. /\ rx \in Seq(Commands) /\ Len(hist) \in Nat /\ batch \in Seq(Commands)
      /\ <<>> \in Seq(Commands)
  BY DEF TypeOK
<1>2. CASE FlushAllJoin
  <2>1. hist' = hist /\ rx' = rx
    BY <1>2 DEF FlushAllJoin, queue
  <2>2. CASE PendingAfterJoin # <<>>
    BY <1>1, <1>2, <2>1, <2>2, JoinLine, MoveLine DEF FlushAllJoin, LineInv
  <2>3. CASE PendingAfterJoin = <<>>
    <3>1. flush(batch, NoTask) /\ pending_msgs' = <<>>
      BY <1>2, <2>3 DEF FlushAllJoin
    <3>2. Line(sent, batch, <<>>, rx, Len(hist))
      BY <2>3, JoinLine
    <3> QED BY <1>1, <2>1, <3>1, <3>2, FlushLine DEF LineInv
  <2> QED BY <2>2, <2>3
<1>3. CASE FlushAllLast
  <2>1. /\ pending_msgs' = PendingAfterJoin
        /\ UNCHANGED <<hist, sent, rx, batch>>
    BY <1>3 DEF FlushAllLast, queue
  <2> QED BY <2>1, JoinLine DEF LineInv
<1> QED BY <1>2, <1>3 DEF FlushAll

\* Every step keeps the line in order.
LEMMA NextLine == TypeOK /\ LineInv /\ [Next]_vars => LineInv'
<1> SUFFICES ASSUME TypeOK, LineInv, [Next]_vars PROVE LineInv'
  OBVIOUS
<1>1. CASE Rpc
  BY <1>1 DEF Rpc, RpcDone, queue, LineInv
<1>2. CASE Terminated \/ UNCHANGED vars
  BY <1>2 DEF Terminated, vars, client, queue, actor, LineInv
<1> QED BY <1>1, <1>2, ApplicationLine, SelectLine, FlushAllLine DEF Next

\* The line is in order in every reachable state.
THEOREM LineInvariance == Spec => []LineInv
<1>1. Init => LineInv
  BY EmptyInLine DEF Init, LineInv, Line, InOrder
<1>2. IInv => TypeOK
  BY DEF IInv
<1> QED BY <1>1, <1>2, NextLine, Invariance, PTL DEF Spec

\* Messages of an ordering key are sent in the order in which they were
\* published, each at most once, within and across requests.
THEOREM SentInPublicationOrder == Spec => []SentInOrder
<1>1. TypeOK /\ LineInv => SentInOrder
  BY DEF LineInv, Line, InOrder, Increasing, Before, SentInOrder
<1>2. IInv => TypeOK
  BY DEF IInv
<1> QED BY <1>1, <1>2, LineInvariance, Invariance, PTL

-----------------------------------------------------------------------------
\* The messages of an RPC task that has not resolved their futures yet.
Running == IF inflight.status = "running" THEN IdsOf(inflight.msgs) ELSE {}

\* The messages the actor holds, wherever they are.
Held == IdsOf(rx) \cup IdsOf(pending_msgs) \cup IdsOf(batch) \cup Running

\* No message is lost: one without an outcome is in the hands of the actor.
WaitingIsHeld ==
    \A m \in DOMAIN hist : hist[m].op = "publish" /\ fut[m] = "waiting" =>
        m \in Held

\* The queue holds commands as they were submitted.
QueueIsHistory ==
    \A i \in DOMAIN rx : rx[i].id \in DOMAIN hist /\ rx[i] = hist[rx[i].id]

\* What is still queued was submitted after the Flush in progress.
FlushPrecedesQueue ==
    cont.kind = "flush" =>
        cont.tx \in DOMAIN hist /\ \A i \in DOMAIN rx : cont.tx < rx[i].id

BarrierInv ==
    /\ WaitingIsHeld /\ QueueIsHistory /\ FlushPrecedesQueue
    /\ replied \subseteq DOMAIN hist
    /\ FlushBarrier

AllInv == IInv /\ LineInv /\ BarrierInv

-----------------------------------------------------------------------------
(***************************************************************************)
(* Where the messages are, in terms of their numbers.                      *)
(***************************************************************************)
\* The empty sequence holds no message.
LEMMA EmptyIds == IdsOf(<<>>) = {}
  BY DEF IdsOf

\* Appending keeps what is held and adds the new command.
LEMMA AppendIds ==
    ASSUME NEW s \in Seq(Commands), NEW c \in Commands
    PROVE  IdsOf(s) \subseteq IdsOf(Append(s, c)) /\ c.id \in IdsOf(Append(s, c))
<1>1. /\ Len(s) + 1 \in DOMAIN Append(s, c) /\ Append(s, c)[Len(s) + 1] = c
      /\ \A i \in DOMAIN s : i \in DOMAIN Append(s, c) /\ Append(s, c)[i] = s[i]
  OBVIOUS
<1> QED BY <1>1 DEF IdsOf

\* What a sequence holds is its head or in its tail.
LEMMA HeadTailIds ==
    ASSUME NEW s \in Seq(Commands), s # <<>>, NEW m \in IdsOf(s), m # Head(s).id
    PROVE  m \in IdsOf(Tail(s))
<1>1. PICK i \in DOMAIN s : m = s[i].id
  BY DEF IdsOf
<1>2. i # 1 /\ i \in 1..Len(s) /\ Len(s) \in Nat
  BY <1>1
<1>3. i - 1 \in DOMAIN Tail(s) /\ Tail(s)[i - 1] = s[i]
  BY <1>2
<1> QED BY <1>1, <1>3 DEF IdsOf

\* The tail holds nothing new.
LEMMA TailIds ==
    ASSUME NEW s \in Seq(Commands), s # <<>>
    PROVE  IdsOf(Tail(s)) \subseteq IdsOf(s)
<1>1. \A i \in DOMAIN Tail(s) : i + 1 \in DOMAIN s /\ Tail(s)[i] = s[i + 1]
  BY TailElems
<1> QED BY <1>1 DEF IdsOf

\* Moving a prefix of the pending messages to the batch loses none.
LEMMA MovedIds ==
    ASSUME NEW b \in Seq(Commands), NEW p \in Seq(Commands), NEW n \in 0..Len(p)
    PROVE  IdsOf(b) \cup IdsOf(p) \subseteq
             IdsOf(b \o SubSeq(p, 1, n)) \cup IdsOf(SubSeq(p, n + 1, Len(p)))
<1> DEFINE x == SubSeq(p, 1, n)
           y == SubSeq(p, n + 1, Len(p))
           b1 == b \o x
<1>1. /\ x \in Seq(Commands) /\ y \in Seq(Commands) /\ b1 \in Seq(Commands)
      /\ Len(x) = n /\ Len(b) \in Nat /\ Len(p) \in Nat
  BY MovedType
<1>2. \A i \in DOMAIN b : i \in DOMAIN b1 /\ b1[i] = b[i]
  BY <1>1
<1>3. \A i \in 1..n : x[i] = p[i]
  OBVIOUS
<1>4. \A i \in 1..n : Len(b) + i \in DOMAIN b1 /\ b1[Len(b) + i] = x[i]
  BY <1>1
<1>5. \A i \in (n + 1)..Len(p) : i - n \in DOMAIN y /\ y[i - n] = p[i]
  BY <1>1
<1>6. \A i \in DOMAIN p : i \in 1..n \/ i \in (n + 1)..Len(p)
  BY <1>1
<1> HIDE DEF x, y, b1
<1>7. IdsOf(b) \subseteq IdsOf(b1)
  BY <1>2 DEF IdsOf
<1>8. IdsOf(p) \subseteq IdsOf(b1) \cup IdsOf(y)
  <2> SUFFICES ASSUME NEW i \in DOMAIN p PROVE p[i].id \in IdsOf(b1) \cup IdsOf(y)
    BY DEF IdsOf
  <2>1. CASE i \in 1..n
    BY <2>1, <1>3, <1>4 DEF IdsOf
  <2>2. CASE i \in (n + 1)..Len(p)
    BY <2>2, <1>5 DEF IdsOf
  <2> QED BY <2>1, <2>2, <1>6
<1> QED BY <1>7, <1>8 DEF x, y, b1

\* flush puts the messages of the batch in the hands of the RPC task.
LEMMA FlushHolds ==
    ASSUME NEW b, flush(b, NoTask)
    PROVE  IdsOf(b) \subseteq Running'
<1>1. CASE b = <<>>
  BY <1>1, EmptyIds
<1>2. CASE b # <<>>
  <2>1. inflight' = [status |-> "running", msgs |-> b]
    BY <1>2 DEF flush, send
  <2> QED BY <2>1 DEF Running, IdsOf
<1> QED BY <1>1, <1>2

\* move_to_batch_and_flush loses no message.
LEMMA MoveHolds ==
    ASSUME TypeOK, NEW p \in Seq(Commands), move_to_batch_and_flush(p, NoTask)
    PROVE  IdsOf(batch) \cup IdsOf(p) \subseteq
             IdsOf(pending_msgs') \cup IdsOf(batch') \cup Running'
<1>1. PICK n \in 0..Len(p) :
        /\ pending_msgs' = SubSeq(p, n + 1, Len(p))
        /\ \/ flush(batch \o SubSeq(p, 1, n), NoTask)
           \/ batch' = batch \o SubSeq(p, 1, n)
  BY DEF move_to_batch_and_flush
<1> DEFINE b == batch \o SubSeq(p, 1, n)
<1>2. batch \in Seq(Commands)
  BY DEF TypeOK
<1>3. IdsOf(batch) \cup IdsOf(p) \subseteq IdsOf(b) \cup IdsOf(pending_msgs')
  BY <1>1, <1>2, MovedIds
<1>4. flush(b, NoTask) \/ batch' = b
  BY <1>1
<1> HIDE DEF b
<1>5. IdsOf(b) \subseteq IdsOf(batch') \cup Running'
  BY <1>4, FlushHolds
<1> QED BY <1>3, <1>5

-----------------------------------------------------------------------------
(***************************************************************************)
(* What no step undoes.                                                    *)
(***************************************************************************)
\* The history of submissions only grows.
LEMMA HistGrows ==
    ASSUME TypeOK, [Next]_vars, NEW m \in DOMAIN hist
    PROVE  m \in DOMAIN hist' /\ hist'[m] = hist[m]
<1>1. CASE hist' = hist
  BY <1>1
<1>2. ASSUME NEW op \in {"publish", "flush", "resume"}, NEW b \in Nat, Submit(op, b)
      PROVE  m \in DOMAIN hist' /\ hist'[m] = hist[m]
  BY <1>2 DEF Submit, TypeOK
<1>3. CASE Application
  BY <1>1, <1>2, <1>3, SequentialAssumption DEF Application, Close, client
<1>4. CASE Select \/ FlushAll \/ Rpc \/ Terminated \/ UNCHANGED vars
  <2>1. hist' = hist
    BY <1>4 DEF Select, FlushAll, Rpc, Terminated, vars, client, RpcDone, PausedPublish,
                PausedFlush, PausedResume, PausedClosed, JoinInflight, TimerFires,
                RecvPublish, RecvFlush, RecvResume, RecvClosed, StartFlushAll,
                FlushAllJoin, FlushAllLast
  <2> QED BY <2>1, <1>1
<1> QED BY <1>3, <1>4 DEF Next

\* A join resolves futures and reopens none.
LEMMA JoinResolves ==
    ASSUME TypeOK, handle_inflight_join, NEW m \in Ids, fut'[m] = "waiting"
    PROVE  fut[m] = "waiting" /\ (JoinFailed => m \notin IdsOf(pending_msgs))
<1>1. CASE JoinFailed
  BY <1>1 DEF handle_inflight_join, Rejected
<1>2. CASE ~JoinFailed
  BY <1>2 DEF handle_inflight_join
<1> QED BY <1>1, <1>2

\* A future that was resolved stays resolved.
LEMMA FutureStays ==
    ASSUME TypeOK, [Next]_vars, NEW m \in Ids, fut'[m] = "waiting"
    PROVE  fut[m] = "waiting"
<1>1. CASE fut' = fut
  BY <1>1
<1>2. CASE Application \/ Terminated \/ UNCHANGED vars
  <2>1. fut' = fut
    BY <1>2 DEF Application, Submit, Close, Terminated, vars, client
  <2> QED BY <2>1, <1>1
<1>3. CASE Rpc
  BY <1>3 DEF Rpc, RpcDone, FutureOf
<1>4. CASE PausedPublish
  BY <1>4 DEF PausedPublish, Rejected
<1>5. CASE JoinInflight \/ FlushAll
  BY <1>5, JoinResolves DEF JoinInflight, FlushAll, FlushAllJoin, FlushAllLast
<1>6. CASE PausedFlush \/ PausedResume \/ PausedClosed \/ TimerFires
             \/ RecvPublish \/ RecvFlush \/ RecvResume \/ RecvClosed
  <2>1. fut' = fut
    BY <1>6 DEF PausedFlush, PausedResume, PausedClosed, TimerFires, RecvPublish,
                RecvFlush, RecvResume, RecvClosed, StartFlushAll, client
  <2> QED BY <2>1, <1>1
<1> QED BY <1>2, <1>3, <1>4, <1>5, <1>6 DEF Next, Select

-----------------------------------------------------------------------------
(***************************************************************************)
(* No message is lost, step by step.                                       *)
(***************************************************************************)
\* A step that submits nothing and drops no message whose future is unresolved.
LEMMA HeldKept ==
    ASSUME TypeOK, WaitingIsHeld, hist' = hist,
           \A m \in DOMAIN hist :
               hist[m].op = "publish" /\ fut'[m] = "waiting" /\ (fut[m] = "waiting" => m \in Held)
                   => fut[m] = "waiting" /\ m \in Held'
    PROVE  WaitingIsHeld'
  BY DEF WaitingIsHeld

\* Commands are numbered from 1.
LEMMA HistIds == TypeOK => DOMAIN hist \subseteq Ids
  BY SequentialAssumption DEF TypeOK, Ids

\* A submission adds its message to the queue.
LEMMA ApplicationHolds == TypeOK /\ WaitingIsHeld /\ Application => WaitingIsHeld'
<1> SUFFICES ASSUME TypeOK, WaitingIsHeld, Application PROVE WaitingIsHeld'
  OBVIOUS
<1>1. CASE Close
  BY <1>1 DEF Close, WaitingIsHeld, Held, Running, client, actor
<1>2. ASSUME NEW op \in {"publish", "flush", "resume"}, NEW b \in Nat, Submit(op, b)
      PROVE  WaitingIsHeld'
  <2> DEFINE cmd == [op |-> op, id |-> Len(hist) + 1, bytes |-> b]
  <2>1. /\ hist' = Append(hist, cmd) /\ rx' = Append(rx, cmd) /\ Len(hist) < MaxCmds
        /\ fut' = fut /\ UNCHANGED <<pending_msgs, batch, inflight>>
    BY <1>2 DEF Submit, actor
  <2>2. cmd \in Commands /\ cmd.id = Len(hist) + 1
    BY <2>1, SequentialAssumption DEF Commands, Ids, TypeOK
  <2> HIDE DEF cmd
  <2>3. IdsOf(rx) \subseteq IdsOf(rx') /\ cmd.id \in IdsOf(rx')
    BY <2>1, <2>2, AppendIds DEF TypeOK
  <2>4. Held \subseteq Held' /\ Len(hist) + 1 \in Held'
    BY <2>1, <2>2, <2>3 DEF Held, Running
  <2>5. ASSUME NEW m \in DOMAIN hist'
        PROVE  m = Len(hist) + 1 \/ (m \in DOMAIN hist /\ hist'[m] = hist[m])
    BY <2>1, <2>2 DEF TypeOK
  <2> QED BY <2>1, <2>4, <2>5 DEF WaitingIsHeld
<1> QED BY <1>1, <1>2, SequentialAssumption DEF Application

\* The RPC task resolves the futures of the messages it held.
LEMMA RpcHolds == TypeOK /\ WaitingIsHeld /\ Rpc => WaitingIsHeld'
<1> SUFFICES ASSUME TypeOK, WaitingIsHeld, NEW o \in {"ok", "err", "panic"}, RpcDone(o)
             PROVE  WaitingIsHeld'
  BY DEF Rpc
<1>1. UNCHANGED <<hist, rx, pending_msgs, batch>>
  BY DEF RpcDone, queue
<1>2. \A m \in Ids : fut'[m] = "waiting" => fut[m] = "waiting" /\ m \notin IdsOf(inflight.msgs)
  BY DEF RpcDone, FutureOf
<1>3. Running = IdsOf(inflight.msgs)
  BY DEF RpcDone, Running
<1>4. IdsOf(rx') = IdsOf(rx) /\ IdsOf(pending_msgs') = IdsOf(pending_msgs)
        /\ IdsOf(batch') = IdsOf(batch)
  BY <1>1
<1> QED BY <1>1, <1>2, <1>3, <1>4, HeldKept, HistIds DEF Held

\* Taking a command off the queue drops no message but the one at the head.
LEMMA RecvHolds ==
    ASSUME TypeOK, QueueIsHistory, NEW op, Recv(op)
    PROVE  /\ \A m \in IdsOf(rx) : m # Head(rx).id => m \in IdsOf(rx')
           /\ Head(rx).id \in DOMAIN hist /\ hist[Head(rx).id].op = op
<1>1. rx \in Seq(Commands) /\ rx # <<>> /\ rx' = Tail(rx) /\ Head(rx).op = op
  BY DEF TypeOK, Recv
<1>2. 1 \in DOMAIN rx /\ Head(rx) = rx[1]
  BY <1>1
<1> QED BY <1>1, <1>2, HeadTailIds DEF QueueIsHistory

\* The commands that are not messages, and the message that a paused key rejects.
LEMMA CommandHolds ==
    TypeOK /\ WaitingIsHeld /\ QueueIsHistory
      /\ (PausedPublish \/ PausedFlush \/ PausedResume \/ RecvFlush \/ RecvResume)
    => WaitingIsHeld'
<1> SUFFICES ASSUME TypeOK, WaitingIsHeld, QueueIsHistory,
                    PausedPublish \/ PausedFlush \/ PausedResume \/ RecvFlush \/ RecvResume
             PROVE  WaitingIsHeld'
  OBVIOUS
<1>1. UNCHANGED <<hist, pending_msgs, batch, inflight>>
  BY DEF PausedPublish, PausedFlush, PausedResume, RecvFlush, RecvResume, StartFlushAll,
         client, actor
<1>2. Running' = Running /\ IdsOf(pending_msgs') = IdsOf(pending_msgs)
        /\ IdsOf(batch') = IdsOf(batch)
  BY <1>1 DEF Running
<1>3. CASE PausedPublish
  <2>1. \A m \in IdsOf(rx) : m # Head(rx).id => m \in IdsOf(rx')
    BY <1>3, RecvHolds DEF PausedPublish
  <2>2. \A m \in Ids : fut'[m] = "waiting" => fut[m] = "waiting" /\ m # Head(rx).id
    BY <1>3 DEF PausedPublish, Rejected
  <2> QED BY <1>1, <1>2, <2>1, <2>2, HeldKept, HistIds DEF Held
<1>4. CASE PausedFlush \/ PausedResume \/ RecvFlush \/ RecvResume
  <2>1. PICK op \in {"flush", "resume"} : Recv(op)
    BY <1>4 DEF PausedFlush, PausedResume, RecvFlush, RecvResume
  <2>2. fut' = fut
    BY <1>4 DEF PausedFlush, PausedResume, RecvFlush, RecvResume, StartFlushAll, client
  <2>3. /\ \A m \in IdsOf(rx) : m # Head(rx).id => m \in IdsOf(rx')
        /\ hist[Head(rx).id].op # "publish"
    BY <2>1, RecvHolds
  <2> QED BY <1>1, <1>2, <2>2, <2>3, HeldKept DEF Held
<1> QED BY <1>3, <1>4

\* A received message is pending, batched or sent.
LEMMA PublishHolds ==
    TypeOK /\ WaitingIsHeld /\ QueueIsHistory /\ RecvPublish => WaitingIsHeld'
<1> SUFFICES ASSUME TypeOK, WaitingIsHeld, QueueIsHistory, RecvPublish PROVE WaitingIsHeld'
  OBVIOUS
<1> DEFINE p == Append(pending_msgs, Head(rx))
<1>1. Recv("publish") /\ hist' = hist /\ fut' = fut
  BY DEF RecvPublish
<1>2. \A m \in IdsOf(rx) : m # Head(rx).id => m \in IdsOf(rx')
  BY <1>1, RecvHolds
<1>3. Head(rx) \in Commands /\ pending_msgs \in Seq(Commands)
  BY <1>1, RecvFacts DEF TypeOK
<1>4. /\ p \in Seq(Commands)
      /\ IdsOf(pending_msgs) \subseteq IdsOf(p) /\ Head(rx).id \in IdsOf(p)
  BY <1>3, AppendIds
<1>5. IdsOf(batch) \cup IdsOf(p) \cup Running \subseteq
        IdsOf(pending_msgs') \cup IdsOf(batch') \cup Running'
  <2>1. CASE inflight = NoTask
    <3>1. move_to_batch_and_flush(p, NoTask)
      BY <2>1 DEF RecvPublish
    <3>2. Running = {}
      BY <2>1 DEF Running, NoTask
    <3> HIDE DEF p
    <3> QED BY <1>4, <3>1, <3>2, MoveHolds
  <2>2. CASE inflight # NoTask
    <3>1. pending_msgs' = p /\ batch' = batch /\ inflight' = inflight
      BY <2>2 DEF RecvPublish
    <3> HIDE DEF p
    <3> QED BY <3>1 DEF Running
  <2> QED BY <2>1, <2>2
<1> HIDE DEF p
<1> QED BY <1>1, <1>2, <1>4, <1>5, HeldKept DEF Held

\* After a join, what is not rejected stays pending, batched or sent.
LEMMA JoinHolds ==
    ASSUME TypeOK, WaitingIsHeld, Joinable, handle_inflight_join, hist' = hist, rx' = rx,
           IdsOf(batch) \cup IdsOf(PendingAfterJoin) \subseteq
             IdsOf(pending_msgs') \cup IdsOf(batch') \cup Running'
    PROVE  WaitingIsHeld'
<1>1. Running = {}
  BY DEF Joinable, Running
<1>2. \A m \in Ids : fut'[m] = "waiting" =>
        fut[m] = "waiting" /\ (m \in IdsOf(pending_msgs) => m \in IdsOf(PendingAfterJoin))
  BY JoinResolves DEF PendingAfterJoin
<1>3. IdsOf(rx') = IdsOf(rx)
  OBVIOUS
<1> QED BY <1>1, <1>2, <1>3, HeldKept, HistIds DEF Held

\* The joins of the select and of flush_all.
LEMMA JoinsHold ==
    IInv /\ WaitingIsHeld /\ (JoinInflight \/ FlushAll) => WaitingIsHeld'
<1> SUFFICES ASSUME IInv, WaitingIsHeld, JoinInflight \/ FlushAll PROVE WaitingIsHeld'
  OBVIOUS
<1>1. TypeOK /\ PendingAfterJoin \in Seq(Commands)
  BY DEF IInv, TypeOK, PendingAfterJoin
<1>2. Joinable /\ handle_inflight_join /\ hist' = hist /\ rx' = rx
  BY DEF JoinInflight, FlushAll, FlushAllJoin, FlushAllLast, queue
<1>3. CASE move_to_batch_and_flush(PendingAfterJoin, NoTask)
  BY <1>1, <1>2, <1>3, MoveHolds, JoinHolds
<1>4. CASE PendingAfterJoin = <<>> /\ flush(batch, NoTask)
  <2>1. IdsOf(batch) \subseteq Running'
    BY <1>4, FlushHolds
  <2> QED BY <1>1, <1>2, <1>4, <2>1, EmptyIds, JoinHolds
<1>5. CASE FlushAllLast
  <2>1. batch' = batch /\ pending_msgs' = PendingAfterJoin
    BY <1>5 DEF FlushAllLast
  <2>2. IdsOf(batch) = IdsOf(batch') /\ IdsOf(pending_msgs') = IdsOf(PendingAfterJoin)
    BY <2>1
  <2> QED BY <1>1, <1>2, <2>2, JoinHolds
<1> QED BY <1>3, <1>4, <1>5 DEF JoinInflight, FlushAll, FlushAllJoin

\* No step loses a message.
LEMMA NextHolds == IInv /\ WaitingIsHeld /\ QueueIsHistory /\ [Next]_vars => WaitingIsHeld'
<1> SUFFICES ASSUME IInv, WaitingIsHeld, QueueIsHistory, [Next]_vars PROVE WaitingIsHeld'
  OBVIOUS
<1>1. TypeOK
  BY DEF IInv
<1>2. CASE PausedClosed \/ TimerFires \/ RecvClosed \/ Terminated \/ UNCHANGED vars
  <2>1. UNCHANGED <<hist, fut, rx, pending_msgs, batch, inflight>>
    BY <1>2 DEF PausedClosed, TimerFires, RecvClosed, Terminated, StartFlushAll, vars,
                client, queue, actor
  <2> QED BY <2>1 DEF WaitingIsHeld, Held, Running
<1> QED BY <1>1, <1>2, ApplicationHolds, RpcHolds, CommandHolds, PublishHolds, JoinsHold
        DEF Next, Select

-----------------------------------------------------------------------------
(***************************************************************************)
(* The queue and the Flush in progress.                                    *)
(***************************************************************************)
\* What every step does to the queue.
LEMMA QueueSteps ==
    ASSUME TypeOK, [Next]_vars
    PROVE  \/ rx' = rx
           \/ \E c \in Commands : /\ hist' = Append(hist, c) /\ c.id = Len(hist) + 1
                                  /\ rx' = Append(rx, c) /\ cont' = cont
           \/ rx # <<>> /\ rx' = Tail(rx)
<1>1. ASSUME NEW op \in {"publish", "flush", "resume"}, NEW b \in Nat, Submit(op, b)
      PROVE  \E c \in Commands : /\ hist' = Append(hist, c) /\ c.id = Len(hist) + 1
                                 /\ rx' = Append(rx, c) /\ cont' = cont
  <2> DEFINE cmd == [op |-> op, id |-> Len(hist) + 1, bytes |-> b]
  <2>1. /\ hist' = Append(hist, cmd) /\ rx' = Append(rx, cmd) /\ Len(hist) < MaxCmds
        /\ cont' = cont
    BY <1>1 DEF Submit, actor
  <2>2. cmd \in Commands /\ cmd.id = Len(hist) + 1
    BY <2>1, SequentialAssumption DEF Commands, Ids, TypeOK
  <2> HIDE DEF cmd
  <2> QED BY <2>1, <2>2
<1>2. CASE Application
  BY <1>1, <1>2, SequentialAssumption DEF Application, Close
<1>3. CASE PausedPublish \/ PausedFlush \/ PausedResume
             \/ RecvPublish \/ RecvFlush \/ RecvResume
  BY <1>3 DEF PausedPublish, PausedFlush, PausedResume, RecvPublish, RecvFlush, RecvResume,
              Recv
<1>4. CASE PausedClosed \/ JoinInflight \/ TimerFires \/ RecvClosed \/ FlushAll \/ Rpc
             \/ Terminated \/ UNCHANGED vars
  BY <1>4 DEF PausedClosed, JoinInflight, TimerFires, RecvClosed, FlushAll, FlushAllJoin,
              FlushAllLast, Rpc, RpcDone, Terminated, vars, queue
<1> QED BY <1>2, <1>3, <1>4 DEF Next, Select

\* The queue keeps the commands as they were submitted.
LEMMA NextQueue == TypeOK /\ QueueIsHistory /\ [Next]_vars => QueueIsHistory'
<1> SUFFICES ASSUME TypeOK, QueueIsHistory, [Next]_vars, NEW i \in DOMAIN rx'
             PROVE  rx'[i].id \in DOMAIN hist' /\ rx'[i] = hist'[rx'[i].id]
  BY DEF QueueIsHistory
<1>1. \A m \in DOMAIN hist : m \in DOMAIN hist' /\ hist'[m] = hist[m]
  BY HistGrows
<1>2. rx \in Seq(Commands) /\ hist \in Seq(Commands)
  BY DEF TypeOK
<1>3. CASE rx' = rx
  BY <1>1, <1>3 DEF QueueIsHistory
<1>4. ASSUME NEW c \in Commands, hist' = Append(hist, c), c.id = Len(hist) + 1,
             rx' = Append(rx, c)
      PROVE  rx'[i].id \in DOMAIN hist' /\ rx'[i] = hist'[rx'[i].id]
  <2>1. rx'[i] = c \/ (i \in DOMAIN rx /\ rx'[i] = rx[i])
    BY <1>2, <1>4, AppendElems
  <2>2. c.id \in DOMAIN hist' /\ hist'[c.id] = c
    BY <1>2, <1>4
  <2> QED BY <1>1, <2>1, <2>2 DEF QueueIsHistory
<1>5. CASE rx # <<>> /\ rx' = Tail(rx)
  <2>1. i + 1 \in DOMAIN rx /\ rx'[i] = rx[i + 1]
    BY <1>2, <1>5, TailElems
  <2> QED BY <1>1, <2>1 DEF QueueIsHistory
<1> QED BY <1>3, <1>4, <1>5, QueueSteps

\* While flush_all runs, the queue holds what was submitted after the Flush.
LEMMA NextPrecedes ==
    TypeOK /\ LineInv /\ QueueIsHistory /\ FlushPrecedesQueue /\ [Next]_vars
    => FlushPrecedesQueue'
<1> SUFFICES ASSUME TypeOK, LineInv, QueueIsHistory, FlushPrecedesQueue, [Next]_vars,
                    cont'.kind = "flush"
             PROVE  cont'.tx \in DOMAIN hist' /\ \A i \in DOMAIN rx' : cont'.tx < rx'[i].id
  BY DEF FlushPrecedesQueue
<1>1. rx \in Seq(Commands) /\ hist \in Seq(Commands) /\ Len(hist) \in Nat
  BY DEF TypeOK
<1>2. CASE RecvFlush
  <2>1. /\ rx # <<>> /\ rx' = Tail(rx) /\ hist' = hist /\ cont'.tx = Head(rx).id
        /\ Recv("flush")
    BY <1>2 DEF RecvFlush, Recv, StartFlushAll, client
  <2>2. Head(rx).id \in DOMAIN hist
    BY <2>1, RecvHolds
  <2>3. \A i \in DOMAIN Tail(rx) : Head(rx).id < Tail(rx)[i].id
    BY <1>1, <2>1, TailElems DEF LineInv, Line, Increasing
  <2> QED BY <2>1, <2>2, <2>3
<1>3. CASE cont' = cont
  <2>1. cont.tx \in DOMAIN hist /\ \A i \in DOMAIN rx : cont.tx < rx[i].id
    BY <1>3 DEF FlushPrecedesQueue
  <2>2. cont.tx \in DOMAIN hist' /\ cont.tx \in Nat /\ cont.tx <= Len(hist)
    BY <1>1, <2>1, HistGrows
  <2>3. CASE rx' = rx
    BY <1>3, <2>1, <2>2, <2>3
  <2>4. CASE rx # <<>> /\ rx' = Tail(rx)
    BY <1>1, <1>3, <2>1, <2>2, <2>4, TailElems
  <2>5. ASSUME NEW c \in Commands, c.id = Len(hist) + 1, rx' = Append(rx, c)
        PROVE  \A i \in DOMAIN rx' : cont.tx < rx'[i].id
    <3>1. cont.tx < c.id
      BY <1>1, <2>2, <2>5
    <3> QED BY <1>1, <2>1, <2>5, <3>1, AppendElems
  <2> QED BY <1>3, <2>2, <2>3, <2>4, <2>5, QueueSteps
<1>4. CASE TimerFires \/ RecvClosed \/ FlushAllLast
  BY <1>4 DEF TimerFires, RecvClosed, StartFlushAll, FlushAllLast, Idle
<1>5. CASE Application \/ Rpc \/ Terminated \/ UNCHANGED vars \/ PausedPublish \/ PausedFlush
             \/ PausedResume \/ PausedClosed \/ JoinInflight \/ RecvPublish \/ RecvResume
             \/ FlushAllJoin
  <2>1. cont' = cont
    BY <1>5 DEF Application, Submit, Close, Rpc, RpcDone, Terminated, vars, actor,
                PausedPublish, PausedFlush, PausedResume, PausedClosed, JoinInflight,
                RecvPublish, RecvResume, FlushAllJoin
  <2> QED BY <2>1, <1>3
<1> QED BY <1>2, <1>4, <1>5 DEF Next, Select, FlushAll

-----------------------------------------------------------------------------
(***************************************************************************)
(* The barrier.                                                            *)
(***************************************************************************)
\* The Flushes that a step answers were submitted, and every message published
\* before one of them is resolved.
LEMMA AnswerIsBarrier ==
    ASSUME AllInv, [Next]_vars, NEW f \in replied' \ replied
    PROVE  /\ f \in DOMAIN hist
           /\ \A m \in 1..(f - 1) : hist[m].op = "publish" => fut[m] # "waiting"
<1>1. /\ TypeOK /\ LastIsDrained /\ PausedInv /\ LineInv
      /\ WaitingIsHeld /\ QueueIsHistory /\ FlushPrecedesQueue
  BY DEF AllInv, IInv, BarrierInv
<1>2. rx \in Seq(Commands) /\ hist \in Seq(Commands) /\ Len(hist) \in Nat
  BY <1>1 DEF TypeOK
<1>3. /\ PausedFlush \/ FlushAllLast
      /\ PausedFlush => f = Head(rx).id
      /\ FlushAllLast => cont.kind = "flush" /\ f = cont.tx
  <2>1. CASE PausedFlush
    <3>1. f = Head(rx).id /\ pc = "select"
      BY <2>1 DEF PausedFlush, Recv
    <3> QED BY <2>1, <3>1 DEF FlushAllLast
  <2>2. CASE FlushAllLast
    <3>1. cont.kind = "flush" /\ f = cont.tx /\ pc = "last"
      BY <2>2 DEF FlushAllLast
    <3> QED BY <2>2, <3>1 DEF PausedFlush, Recv
  <2>3. CASE ~PausedFlush /\ ~FlushAllLast
    <3>1. replied' = replied
      BY <2>3 DEF Next, Select, FlushAll, Application, Submit, Close, Rpc, RpcDone,
                  Terminated, vars, client, PausedPublish, PausedResume, PausedClosed,
                  JoinInflight, TimerFires, RecvPublish, RecvFlush, RecvResume, RecvClosed,
                  StartFlushAll, FlushAllJoin
    <3> QED BY <3>1
  <2> QED BY <2>1, <2>2, <2>3
<1>4. /\ f \in DOMAIN hist
      /\ Held \subseteq IdsOf(rx)
      /\ \A i \in DOMAIN rx : f <= rx[i].id
  <2>1. CASE PausedFlush
    <3>1. Recv("flush") /\ paused /\ f = Head(rx).id /\ rx # <<>>
      BY <2>1, <1>3 DEF PausedFlush, Recv
    <3>2. f \in DOMAIN hist
      BY <1>1, <3>1, RecvHolds
    <3>3. pending_msgs = <<>> /\ batch = <<>> /\ Running = {}
      BY <1>1, <3>1 DEF PausedInv, Running, NoTask
    <3>4. Held \subseteq IdsOf(rx)
      BY <3>3, EmptyIds DEF Held
    <3>5. \A i \in DOMAIN rx : f <= rx[i].id
      <4>1. 1 \in DOMAIN rx /\ f = rx[1].id /\ Increasing(rx)
        BY <1>1, <1>2, <3>1 DEF LineInv, Line
      <4>2. \A i \in DOMAIN rx : rx[i].id \in Nat /\ (i = 1 \/ 1 < i)
        BY <1>2, ElemIsNat
      <4> QED BY <4>1, <4>2 DEF Increasing
    <3> QED BY <3>2, <3>4, <3>5
  <2>2. CASE FlushAllLast
    <3>1. pc = "last" /\ Joinable /\ cont.kind = "flush" /\ f = cont.tx
      BY <2>2, <1>3 DEF FlushAllLast
    <3>2. f \in DOMAIN hist /\ \A i \in DOMAIN rx : f < rx[i].id
      BY <1>1, <3>1 DEF FlushPrecedesQueue
    <3>3. pending_msgs = <<>> /\ batch = <<>> /\ Running = {}
      BY <1>1, <3>1 DEF LastIsDrained, Joinable, Running
    <3>4. Held \subseteq IdsOf(rx)
      BY <3>3, EmptyIds DEF Held
    <3>5. \A i \in DOMAIN rx : rx[i].id \in Nat /\ f \in Nat
      BY <1>2, <3>2, ElemIsNat
    <3> QED BY <3>2, <3>4, <3>5
  <2> QED BY <1>3, <2>1, <2>2
<1>5. SUFFICES ASSUME NEW m \in 1..(f - 1), hist[m].op = "publish", fut[m] = "waiting"
               PROVE  FALSE
  BY <1>4
<1>6. f \in 1..Len(hist)
  BY <1>2, <1>4
<1>7. m \in DOMAIN hist /\ m < f
  BY <1>2, <1>6
<1>8. m \in IdsOf(rx)
  BY <1>1, <1>4, <1>5, <1>7 DEF WaitingIsHeld
<1>9. PICK i \in DOMAIN rx : m = rx[i].id
  BY <1>8 DEF IdsOf
<1> QED BY <1>4, <1>6, <1>7, <1>9

\* Every step keeps the barrier and what it rests on.
LEMMA NextBarrier == AllInv /\ [Next]_vars => BarrierInv'
<1> SUFFICES ASSUME AllInv, [Next]_vars PROVE BarrierInv'
  OBVIOUS
<1>1. /\ IInv /\ TypeOK /\ LineInv /\ WaitingIsHeld /\ QueueIsHistory /\ FlushPrecedesQueue
      /\ replied \subseteq DOMAIN hist /\ FlushBarrier
  BY DEF AllInv, IInv, BarrierInv
<1>2. \A f \in replied' : /\ f \in DOMAIN hist
                          /\ \A m \in 1..(f - 1) : hist[m].op = "publish" => fut[m] # "waiting"
  <2>1. \A f \in replied' : f \in replied \/ f \in replied' \ replied
    OBVIOUS
  <2> QED BY <1>1, <2>1, AnswerIsBarrier DEF FlushBarrier
<1>3. replied' \subseteq DOMAIN hist'
  BY <1>1, <1>2, HistGrows
<1>4. FlushBarrier'
  <2> SUFFICES ASSUME NEW f \in replied', NEW m \in 1..(f - 1), hist'[m].op = "publish",
                      fut'[m] = "waiting"
               PROVE  FALSE
    BY DEF FlushBarrier
  <2>1. f \in 1..Len(hist) /\ Len(hist) \in Nat
    BY <1>1, <1>2 DEF TypeOK
  <2>2. m \in DOMAIN hist
    BY <1>1, <2>1 DEF TypeOK
  <2>3. m \in Ids /\ hist'[m] = hist[m]
    BY <1>1, <2>2, HistGrows, HistIds
  <2>4. fut[m] = "waiting"
    BY <1>1, <2>3, FutureStays
  <2> QED BY <1>2, <2>3, <2>4
<1> QED BY <1>1, <1>3, <1>4, NextHolds, NextQueue, NextPrecedes DEF BarrierInv

\* No message is lost and the barrier stands in every reachable state.
THEOREM BarrierInvariance == Spec => []BarrierInv
<1>1. Init => BarrierInv
  BY DEF Init, BarrierInv, WaitingIsHeld, QueueIsHistory, FlushPrecedesQueue, FlushBarrier, Idle
<1>2. AllInv <=> IInv /\ LineInv /\ BarrierInv
  BY DEF AllInv
<1> QED BY <1>1, <1>2, NextBarrier, Invariance, LineInvariance, PTL DEF Spec

\* When a Flush is answered, every message published before it has its outcome:
\* the flush of an ordering key is a barrier (client.rs:137-139).
THEOREM FlushIsBarrier == Spec => []FlushBarrier
<1>1. BarrierInv => FlushBarrier
  BY DEF BarrierInv
<1> QED BY <1>1, BarrierInvariance, PTL

-----------------------------------------------------------------------------
(***************************************************************************)
(* The actor keeps the promise of its key: nothing overtakes a failed      *)
(* message, and seen from outside the actor does what OrderingKey says     *)
(* and nothing else.                                                       *)
(***************************************************************************)

\* A future is resolved only after its command was received.
ResolvedIsBehind ==
    \A m \in Ids : fut[m] # "waiting" =>
        m \in DOMAIN hist /\ \A i \in DOMAIN rx : m < rx[i].id

\* The messages in the hands of the actor are unresolved.
Unresolved(s) ==
    \A i \in DOMAIN s :
        /\ s[i].id \in DOMAIN hist /\ s[i] = hist[s[i].id]
        /\ s[i].op = "publish" /\ fut[s[i].id] = "waiting"
HeldIsUnresolved == Unresolved(pending_msgs) /\ Unresolved(batch)

\* The RPC task works on the last request, and resolves all of it at once.
TaskInv ==
    inflight # NoTask =>
        /\ inflight.msgs # <<>> /\ sent # <<>> /\ inflight.msgs = sent[Len(sent)]
        /\ inflight.status = "running" => \A m \in IdsOf(inflight.msgs) : fut[m] = "waiting"
        /\ JoinFailed => \A m \in IdsOf(inflight.msgs) : fut[m] \in {"rpc", "shutdown"}

\* Only the request of a running task is unresolved.
SentIsResolved ==
    \A i \in DOMAIN sent : \A m \in IdsOf(sent[i]) : fut[m] = "waiting" => m \in Running

\* A key is paused because a request failed.
PausedByFailure == paused => \E m \in Ids : fut[m] \in {"rpc", "shutdown"}

(***************************************************************************)
(* Why nothing overtakes a failed message m: the key is paused, or will be *)
(* when the failed task is joined, or a Resume was received after m, and   *)
(* everything that may still be sent was submitted after that Resume.      *)
(***************************************************************************)
Joining(m)    == JoinFailed /\ m \in IdsOf(inflight.msgs)
Follows(r, s) == \A i \in DOMAIN s : r < s[i].id
ResumedAfter(m) ==
    \E r \in DOMAIN hist : /\ hist[r].op = "resume" /\ m < r
                           /\ Follows(r, pending_msgs) /\ Follows(r, batch) /\ Follows(r, rx)
FailureIsHandled ==
    \A m \in Ids : fut[m] \in Failures =>
        paused \/ Joining(m) \/ ResumedAfter(m)

PromiseInv ==
    /\ ResolvedIsBehind /\ HeldIsUnresolved /\ TaskInv /\ SentIsResolved
    /\ PausedByFailure /\ FailureIsHandled /\ NoOvertake /\ Open(batch)

-----------------------------------------------------------------------------
(***************************************************************************)
(* What the steps of the actor and of its environment do to the messages.  *)
(***************************************************************************)
messages == <<hist, fut, sent, pending_msgs, batch, inflight>>

Submits ==
    \E c \in Commands :
        /\ c.id = Len(hist) + 1 /\ hist' = Append(hist, c) /\ rx' = Append(rx, c)
        /\ UNCHANGED <<fut, sent, pending_msgs, batch, inflight, paused>>

Taken == rx # <<>> /\ rx' = Tail(rx)

Passes == (rx' = rx \/ Taken) /\ UNCHANGED <<messages, paused>>

Resumes ==
    /\ paused /\ Taken /\ Head(rx).op = "resume"
    /\ ~paused' /\ UNCHANGED messages

Rejects ==
    /\ paused /\ Taken /\ Head(rx).op = "publish"
    /\ fut' = Rejected({Head(rx).id})
    /\ UNCHANGED <<hist, sent, pending_msgs, batch, inflight, paused>>

Queues ==
    /\ ~paused /\ Taken /\ Head(rx).op = "publish"
    /\ inflight # NoTask
    /\ pending_msgs' = Append(pending_msgs, Head(rx))
    /\ UNCHANGED <<hist, fut, sent, batch, inflight, paused>>

\* The elements of s come from t and u.
From(s, t, u) ==
    \A i \in DOMAIN s : (\E j \in DOMAIN t : s[i] = t[j]) \/ (\E j \in DOMAIN u : s[i] = u[j])

\* The batch takes messages of p, and is sent or not.
Sends(b) ==
    /\ b # <<>> /\ WithinLimits(b)
    /\ sent' = Append(sent, b) /\ batch' = <<>>
    /\ inflight' = [status |-> "running", msgs |-> b]
Keeps(b) == sent' = sent /\ batch' = b /\ inflight' = NoTask
Moves(p) ==
    /\ \E b \in Seq(Commands) : From(b, batch, p) /\ (Sends(b) \/ Keeps(b))
    /\ pending_msgs' \in Seq(Commands) /\ From(pending_msgs', batch, p)
    /\ Open(batch')

Fills ==
    /\ ~paused /\ Taken /\ Head(rx).op = "publish"
    /\ inflight = NoTask
    /\ Moves(Append(pending_msgs, Head(rx)))
    /\ UNCHANGED <<hist, fut, paused>>

Joins ==
    /\ Joinable /\ ~JoinFailed
    /\ Moves(pending_msgs)
    /\ UNCHANGED <<hist, fut, rx, paused>>

Pauses ==
    /\ JoinFailed
    /\ fut' = Rejected(IdsOf(pending_msgs))
    /\ pending_msgs' = <<>> /\ batch' = <<>> /\ inflight' = NoTask /\ paused'
    /\ UNCHANGED <<hist, sent, rx>>

Ends(o) ==
    /\ inflight.status = "running"
    /\ inflight' = [status |-> o, msgs |-> inflight.msgs]
    /\ fut' = [i \in Ids |-> IF i \in IdsOf(inflight.msgs) THEN FutureOf(o) ELSE fut[i]]
    /\ UNCHANGED <<hist, sent, rx, pending_msgs, batch, paused>>

-----------------------------------------------------------------------------
\* Sizes of commands are numbers of bytes.
LEMMA CommandsAreMessages == Messages(Commands)
  BY DEF Messages, Commands

\* The elements of a moved batch and of what stays pending.
LEMMA MovedFrom ==
    ASSUME NEW b \in Seq(Commands), NEW p \in Seq(Commands), NEW n \in 0..Len(p)
    PROVE  /\ From(b \o SubSeq(p, 1, n), b, p)
           /\ From(SubSeq(p, n + 1, Len(p)), b, p)
<1> DEFINE x == SubSeq(p, 1, n)
           b1 == b \o x
<1>1. x \in Seq(Commands)
  OBVIOUS
<1>2. \A i \in DOMAIN b1 : \/ i \in DOMAIN b /\ b1[i] = b[i]
                           \/ i - Len(b) \in DOMAIN x /\ b1[i] = x[i - Len(b)]
  BY <1>1, ConcatElems
<1>3. \A i \in DOMAIN x : i \in DOMAIN p /\ x[i] = p[i]
  BY PrefixElems
<1>4. From(SubSeq(p, n + 1, Len(p)), b, p)
  BY SuffixElems DEF From
<1> HIDE DEF x, b1
<1>5. From(b1, b, p)
  BY <1>2, <1>3 DEF From
<1> QED BY <1>4, <1>5 DEF b1, x

\* One more message in a moved batch.
LEMMA MovedNext ==
    ASSUME NEW b \in Seq(Commands), NEW p \in Seq(Commands), NEW n \in 1..Len(p)
    PROVE  b \o SubSeq(p, 1, n) = Append(b \o SubSeq(p, 1, n - 1), p[n])
<1> DEFINE x == SubSeq(p, 1, n - 1)
<1>1. x \in Seq(Commands) /\ p[n] \in Commands
  OBVIOUS
<1>2. SubSeq(p, 1, n) = Append(x, p[n])
  OBVIOUS
<1>3. b \o Append(x, p[n]) = Append(b \o x, p[n])
  BY <1>1
<1> QED BY <1>2, <1>3

\* A batch below the thresholds, filled until it is full or the next message has
\* no room, respects the limits.
LEMMA FilledWithinLimits ==
    ASSUME NEW b \in Seq(Commands), NEW p \in Seq(Commands), NEW n \in 0..Len(p), Open(b),
           \A k \in 0..(n - 1) : ~Stops(p, b, k),
           FullAfter(p, b, n) \/ NextDoesNotFit(p, b, n)
    PROVE  LET c == b \o SubSeq(p, 1, n) IN c # <<>> /\ WithinLimits(c)
<1> DEFINE c == b \o SubSeq(p, 1, n)
<1>1. c \in Seq(Commands) /\ Len(p) \in Nat
  BY MovedType
<1>2. CASE n = 0
  <2>1. c = b
    BY <1>2
  <2>2. b # <<>>
    BY <1>2, <2>1 DEF FullAfter, NextDoesNotFit
  <2> QED BY <2>1, <2>2, CommandsAreMessages, OpenWithinLimits
<1>3. CASE n # 0
  <2> DEFINE d == b \o SubSeq(p, 1, n - 1)
  <2>1. n - 1 \in 0..(n - 1) /\ n \in 1..Len(p) /\ n - 1 \in 0..Len(p) /\ (n - 1) + 1 = n
    BY <1>3
  <2>2. c = Append(d, p[n]) /\ p[n] \in Commands
    BY <2>1, MovedNext
  <2>3. d \in Seq(Commands)
    BY <2>1, MovedType
  <2>4. d = <<>> \/ can_add(d, p[n])
    BY <2>1 DEF Stops, NextDoesNotFit
  <2>5. Open(d)
    <3>1. CASE n = 1
      <4>1. d = b
        BY <3>1
      <4> QED BY <4>1
    <3>2. CASE n # 1
      <4>1. ~at_threshold(d)
        BY <2>1, <3>2 DEF Stops, FullAfter
      <4> QED BY <4>1 DEF Open
    <3> QED BY <3>1, <3>2
  <2> HIDE DEF d, c
  <2>6. WithinLimits(c)
    BY <2>2, <2>3, <2>4, <2>5, CommandsAreMessages, PushWithinLimits
  <2>7. c # <<>>
    BY <2>2, <2>3
  <2> QED BY <2>6, <2>7 DEF c
<1> QED BY <1>2, <1>3

\* move_to_batch_and_flush moves messages as Moves says.
LEMMA MoveMoves ==
    ASSUME TypeOK, Open(batch), NEW p \in Seq(Commands), move_to_batch_and_flush(p, NoTask)
    PROVE  Moves(p)
<1>1. PICK n \in 0..Len(p) :
        /\ Stops(p, batch, n)
        /\ \A k \in 0..(n - 1) : ~Stops(p, batch, k)
        /\ pending_msgs' = SubSeq(p, n + 1, Len(p))
        /\ IF FullAfter(p, batch, n) \/ NextDoesNotFit(p, batch, n)
              THEN flush(batch \o SubSeq(p, 1, n), NoTask)
              ELSE /\ batch' = batch \o SubSeq(p, 1, n)
                   /\ inflight' = NoTask
                   /\ UNCHANGED sent
  BY DEF move_to_batch_and_flush
<1> DEFINE b == batch \o SubSeq(p, 1, n)
<1>2. batch \in Seq(Commands)
  BY DEF TypeOK
<1>3. b \in Seq(Commands) /\ pending_msgs' \in Seq(Commands)
  BY <1>1, <1>2, MovedType
<1>4. From(b, batch, p) /\ From(pending_msgs', batch, p)
  BY <1>1, <1>2, MovedFrom
<1>5. CASE FullAfter(p, batch, n) \/ NextDoesNotFit(p, batch, n)
  <2>1. b # <<>> /\ WithinLimits(b)
    BY <1>1, <1>2, <1>5, FilledWithinLimits
  <2>2. flush(b, NoTask)
    BY <1>1, <1>5
  <2> HIDE DEF b
  <2>3. Sends(b) /\ batch' = <<>>
    BY <2>1, <2>2 DEF Sends, flush, send
  <2>4. Open(batch')
    BY <2>3 DEF Open
  <2> QED BY <1>3, <1>4, <2>3, <2>4 DEF Moves
<1>6. CASE ~FullAfter(p, batch, n) /\ ~NextDoesNotFit(p, batch, n)
  <2>1. Keeps(b)
    BY <1>1, <1>6 DEF Keeps
  <2>2. Open(b)
    <3>1. CASE n = 0
      <4>1. b = batch
        BY <1>2, <3>1
      <4> QED BY <4>1
    <3>2. CASE n # 0
      BY <1>6, <3>2 DEF FullAfter, Open
    <3> QED BY <3>1, <3>2
  <2>3. batch' = b
    BY <2>1 DEF Keeps
  <2> HIDE DEF b
  <2> QED BY <1>3, <1>4, <2>1, <2>2, <2>3 DEF Moves
<1> QED BY <1>5, <1>6

\* The last batch of flush_all is sent as it is.
LEMMA FlushMoves ==
    ASSUME TypeOK, Open(batch), flush(batch, NoTask), pending_msgs' = <<>>
    PROVE  Moves(<<>>)
<1>1. batch \in Seq(Commands) /\ <<>> \in Seq(Commands)
  BY DEF TypeOK
<1>2. From(batch, batch, <<>>) /\ From(pending_msgs', batch, <<>>)
  BY DEF From
<1>3. batch' = <<>> /\ Open(batch')
  BY DEF flush, Open
<1>4. CASE batch = <<>>
  <2>1. Keeps(batch)
    BY <1>3, <1>4 DEF flush, Keeps
  <2> QED BY <1>1, <1>2, <1>3, <2>1 DEF Moves
<1>5. CASE batch # <<>>
  <2>1. WithinLimits(batch)
    BY <1>1, <1>5, CommandsAreMessages, OpenWithinLimits
  <2>2. Sends(batch)
    BY <1>5, <2>1 DEF flush, send, Sends
  <2> QED BY <1>1, <1>2, <1>3, <2>2 DEF Moves
<1> QED BY <1>4, <1>5

\* The three joins.
LEMMA JoinShape ==
    ASSUME IInv, Open(batch), JoinInflight \/ FlushAll
    PROVE  Joins \/ Pauses
<1>1. TypeOK /\ BatchEmptyWhileInflight /\ LastIsDrained
  BY DEF IInv
<1>2. /\ handle_inflight_join /\ Joinable /\ hist' = hist /\ rx' = rx
  BY DEF JoinInflight, FlushAll, FlushAllJoin, FlushAllLast, queue
<1>3. pending_msgs \in Seq(Commands) /\ batch \in Seq(Commands) /\ <<>> \in Seq(Commands)
  BY <1>1 DEF TypeOK
<1>4. CASE ~JoinFailed
  <2>1. fut' = fut /\ paused' = paused /\ PendingAfterJoin = pending_msgs
    BY <1>1, <1>2, <1>4 DEF handle_inflight_join, PendingAfterJoin, TypeOK
  <2>2. Moves(pending_msgs)
    <3>1. CASE JoinInflight
      BY <1>1, <1>3, <2>1, <3>1, MoveMoves DEF JoinInflight
    <3>2. CASE FlushAllJoin /\ pending_msgs # <<>>
      BY <1>1, <1>3, <2>1, <3>2, MoveMoves DEF FlushAllJoin
    <3>3. CASE FlushAllJoin /\ pending_msgs = <<>>
      BY <1>1, <2>1, <3>3, FlushMoves DEF FlushAllJoin
    <3>4. CASE FlushAllLast
      <4>1. pending_msgs' = <<>> /\ batch = <<>> /\ Keeps(batch) /\ batch' = batch
        BY <1>1, <2>1, <3>4 DEF FlushAllLast, LastIsDrained, Keeps
      <4>2. From(batch, batch, pending_msgs) /\ From(pending_msgs', batch, pending_msgs)
        BY <4>1 DEF From
      <4>3. Open(batch')
        BY <4>1 DEF Open
      <4> QED BY <1>3, <4>1, <4>2, <4>3 DEF Moves
    <3> QED BY <3>1, <3>2, <3>3, <3>4 DEF FlushAll
  <2> QED BY <1>2, <1>4, <2>1, <2>2 DEF Joins
<1>5. CASE JoinFailed
  <2>1. fut' = Rejected(IdsOf(pending_msgs)) /\ paused' /\ PendingAfterJoin = <<>>
    BY <1>2, <1>5 DEF handle_inflight_join, PendingAfterJoin
  <2>2. batch = <<>>
    BY <1>1, <1>5 DEF BatchEmptyWhileInflight, JoinFailed, NoTask
  <2>3. pending_msgs' = <<>> /\ batch' = <<>> /\ inflight' = NoTask /\ sent' = sent
    <3>1. CASE JoinInflight
      <4>1. move_to_batch_and_flush(<<>>, NoTask)
        BY <2>1, <3>1 DEF JoinInflight
      <4>2. pending_msgs' = <<>> /\ batch' = <<>> /\ inflight' = NoTask
        BY <1>1, <1>3, <2>2, <4>1, MoveFacts
      <4>3. sent' = sent
        BY <4>1, <4>2 DEF move_to_batch_and_flush, flush, send, NoTask
      <4> QED BY <4>2, <4>3
    <3>2. CASE FlushAllJoin
      BY <2>1, <2>2, <3>2 DEF FlushAllJoin, flush
    <3>3. CASE FlushAllLast
      BY <2>1, <2>2, <3>3 DEF FlushAllLast
    <3> QED BY <3>1, <3>2, <3>3 DEF FlushAll
  <2> QED BY <1>2, <1>5, <2>1, <2>3 DEF Pauses
<1> QED BY <1>4, <1>5

\* Every step is one of those above.
LEMMA Shapes ==
    ASSUME IInv, Open(batch), [Next]_vars
    PROVE  \/ Submits \/ Passes \/ Resumes \/ Rejects \/ Queues \/ Fills \/ Joins \/ Pauses
           \/ \E o \in {"ok", "err", "panic"} : Ends(o)
<1>1. TypeOK
  BY DEF IInv
<1>2. ASSUME NEW op \in {"publish", "flush", "resume"}, NEW b \in Nat, Submit(op, b)
      PROVE  Submits
  <2> DEFINE cmd == [op |-> op, id |-> Len(hist) + 1, bytes |-> b]
  <2>1. /\ hist' = Append(hist, cmd) /\ rx' = Append(rx, cmd) /\ Len(hist) < MaxCmds
        /\ UNCHANGED <<fut, sent, pending_msgs, batch, inflight, paused>>
    BY <1>2 DEF Submit, actor
  <2>2. cmd \in Commands /\ cmd.id = Len(hist) + 1
    BY <1>1, <2>1, SequentialAssumption DEF Commands, Ids, TypeOK
  <2> HIDE DEF cmd
  <2> QED BY <2>1, <2>2 DEF Submits
<1>3. CASE Application
  <2>1. Close => Passes
    BY DEF Close, Passes, messages, client, actor
  <2> QED BY <1>2, <1>3, <2>1, SequentialAssumption DEF Application
<1>4. CASE PausedFlush \/ RecvFlush \/ RecvResume
  BY <1>4 DEF PausedFlush, RecvFlush, RecvResume, Recv, StartFlushAll, client, actor,
              Passes, Taken, messages
<1>5. CASE PausedClosed \/ TimerFires \/ RecvClosed \/ Terminated \/ UNCHANGED vars
  BY <1>5 DEF PausedClosed, TimerFires, RecvClosed, Terminated, StartFlushAll, vars, queue,
              client, actor, Passes, messages
<1>6. CASE PausedPublish
  BY <1>6 DEF PausedPublish, Recv, actor, Rejects, Taken
<1>7. CASE PausedResume
  BY <1>7 DEF PausedResume, Recv, client, Resumes, Taken, messages
<1>8. CASE RecvPublish
  <2> DEFINE p == Append(pending_msgs, Head(rx))
  <2>1. /\ ~paused /\ Taken /\ Head(rx).op = "publish" /\ UNCHANGED <<hist, fut, paused>>
        /\ Recv("publish")
    BY <1>8 DEF RecvPublish, Recv, Taken
  <2>2. CASE inflight = NoTask
    <3>1. move_to_batch_and_flush(p, NoTask)
      BY <1>8, <2>2 DEF RecvPublish
    <3>2. p \in Seq(Commands)
      BY <1>1, <2>1, RecvFacts DEF TypeOK
    <3> HIDE DEF p
    <3>3. Moves(p)
      BY <1>1, <3>1, <3>2, MoveMoves
    <3> QED BY <2>1, <2>2, <3>3 DEF Fills, p
  <2>3. CASE inflight # NoTask
    <3>1. pending_msgs' = p /\ UNCHANGED <<batch, inflight, sent>>
      BY <1>8, <2>3 DEF RecvPublish
    <3> QED BY <2>1, <2>3, <3>1 DEF Queues
  <2> QED BY <2>2, <2>3
<1>9. CASE JoinInflight \/ FlushAll
  BY <1>9, JoinShape
<1>10. ASSUME NEW o \in {"ok", "err", "panic"}, RpcDone(o) PROVE Ends(o)
  <2>1. inflight' = [status |-> o, msgs |-> inflight.msgs]
    BY <1>1, <1>10 DEF RpcDone, TypeOK
  <2> QED BY <1>10, <2>1 DEF RpcDone, Ends, queue
<1>11. CASE Rpc
  BY <1>10, <1>11 DEF Rpc
<1> QED BY <1>3, <1>4, <1>5, <1>6, <1>7, <1>8, <1>9, <1>11 DEF Next, Select

-----------------------------------------------------------------------------
(***************************************************************************)
(* What the order of the messages means for the places they are in.        *)
(***************************************************************************)
\* The command at the head of the queue.
LEMMA HeadFacts ==
    ASSUME AllInv, Taken
    PROVE  /\ Head(rx) \in Commands /\ Head(rx).id \in DOMAIN hist /\ Head(rx).id \in Ids
           /\ hist[Head(rx).id] = Head(rx)
           /\ 1 \in DOMAIN rx /\ Head(rx) = rx[1]
           /\ \A i \in DOMAIN rx' : /\ Head(rx).id < rx'[i].id
                                   /\ i + 1 \in DOMAIN rx /\ rx'[i] = rx[i + 1]
<1>1. TypeOK /\ LineInv /\ QueueIsHistory
  BY DEF AllInv, IInv, BarrierInv
<1>2. rx \in Seq(Commands) /\ rx # <<>> /\ rx' = Tail(rx)
  BY <1>1 DEF TypeOK, Taken
<1>3. 1 \in DOMAIN rx /\ Head(rx) = rx[1] /\ Head(rx) \in Commands
  BY <1>2
<1>4. Head(rx).id \in DOMAIN hist /\ hist[Head(rx).id] = Head(rx)
  BY <1>1, <1>3 DEF QueueIsHistory
<1>5. \A i \in DOMAIN rx' : i + 1 \in DOMAIN rx /\ rx'[i] = rx[i + 1] /\ 1 < i + 1
  BY <1>2, TailElems
<1>6. \A i \in DOMAIN rx' : Head(rx).id < rx'[i].id
  BY <1>1, <1>3, <1>5 DEF LineInv, Line, Increasing
<1>7. Head(rx).id \in Ids
  BY <1>3 DEF Commands
<1> QED BY <1>3, <1>4, <1>5, <1>6, <1>7

\* A message that was sent precedes everything the actor still holds.
LEMMA SentPrecedes ==
    ASSUME TypeOK, LineInv, NEW i \in DOMAIN sent, NEW m \in IdsOf(sent[i])
    PROVE  /\ Follows(m, batch) /\ Follows(m, pending_msgs) /\ Follows(m, rx)
           /\ m \in Ids /\ m \in DOMAIN hist
<1>1. PICK k \in DOMAIN sent[i] : m = sent[i][k].id
  BY DEF IdsOf
<1>2. sent[i] \in Seq(Commands)
  BY DEF TypeOK
<1>3. m \in Ids
  <2>1. sent[i][k] \in Commands
    BY <1>2, ElemIsNat
  <2> QED BY <1>1, <2>1 DEF Commands
<1>4. m <= Len(hist) /\ Len(hist) \in Nat /\ DOMAIN hist = 1..Len(hist)
  BY <1>1 DEF LineInv, Line, UpTo, TypeOK
<1>5. m \in DOMAIN hist
  BY <1>3, <1>4, SequentialAssumption DEF Ids
<1> QED BY <1>1, <1>3, <1>5 DEF LineInv, Line, Before, Follows

\* The batch precedes the pending messages, and both precede the queue.
LEMMA HeldPrecedes ==
    ASSUME LineInv
    PROVE  /\ \A i \in DOMAIN batch : Follows(batch[i].id, pending_msgs) /\ Follows(batch[i].id, rx)
           /\ \A i \in DOMAIN pending_msgs : Follows(pending_msgs[i].id, rx)
  BY DEF LineInv, Line, Before, Follows

\* What precedes a sequence is not in it.
LEMMA FollowsExcludes ==
    ASSUME NEW s \in Seq(Commands), NEW m, Follows(m, s)
    PROVE  m \notin IdsOf(s)
<1> SUFFICES ASSUME NEW i \in DOMAIN s, m = s[i].id PROVE FALSE
  BY DEF IdsOf
<1>1. s[i].id \in Nat /\ m < s[i].id
  BY ElemIsNat DEF Follows
<1> QED BY <1>1

\* The messages of the task have numbers that precede everything held.
LEMMA TaskPrecedes ==
    ASSUME TypeOK, LineInv, TaskInv, inflight # NoTask, NEW m \in IdsOf(inflight.msgs)
    PROVE  /\ Follows(m, batch) /\ Follows(m, pending_msgs) /\ Follows(m, rx)
           /\ m \in Ids /\ m \in DOMAIN hist
           /\ m \notin IdsOf(batch) /\ m \notin IdsOf(pending_msgs)
<1>1. sent # <<>> /\ sent \in Seq(Seq(Commands)) /\ inflight.msgs = sent[Len(sent)]
  BY DEF TaskInv, TypeOK
<1>2. Len(sent) \in DOMAIN sent
  BY <1>1
<1>3. /\ Follows(m, batch) /\ Follows(m, pending_msgs) /\ Follows(m, rx)
      /\ m \in Ids /\ m \in DOMAIN hist
  BY <1>1, <1>2, SentPrecedes
<1> QED BY <1>3, FollowsExcludes DEF TypeOK

\* A paused key holds no message.
LEMMA PausedHoldsNothing ==
    ASSUME IInv, paused
    PROVE  pending_msgs = <<>> /\ batch = <<>> /\ inflight = NoTask
  BY DEF IInv, PausedInv

-----------------------------------------------------------------------------
(***************************************************************************)
(* The parts of the invariant, step by step.                               *)
(***************************************************************************)
\* A future that has its outcome keeps it.
LEMMA OutcomesStay ==
    ASSUME AllInv, PromiseInv, [Next]_vars, NEW m \in Ids, fut[m] # "waiting"
    PROVE  fut'[m] = fut[m]
<1>1. IInv /\ TypeOK /\ LineInv /\ ResolvedIsBehind /\ HeldIsUnresolved /\ TaskInv /\ Open(batch)
  BY DEF AllInv, IInv, PromiseInv
<1>2. CASE Submits \/ Passes \/ Resumes \/ Queues \/ Fills \/ Joins
  BY <1>2 DEF Submits, Passes, Resumes, Queues, Fills, Joins, messages
<1>3. CASE Rejects
  <2>1. Taken /\ fut' = Rejected({Head(rx).id})
    BY <1>3 DEF Rejects
  <2>2. m # Head(rx).id
    BY <1>1, <2>1, HeadFacts DEF ResolvedIsBehind, Ids
  <2> QED BY <2>1, <2>2 DEF Rejected
<1>4. CASE Pauses
  <2>1. m \notin IdsOf(pending_msgs)
    BY <1>1 DEF HeldIsUnresolved, Unresolved, IdsOf
  <2> QED BY <1>4, <2>1 DEF Pauses, Rejected
<1>5. ASSUME NEW o \in {"ok", "err", "panic"}, Ends(o) PROVE fut'[m] = fut[m]
  <2>1. inflight # NoTask /\ inflight.status = "running"
    BY <1>5 DEF Ends, NoTask
  <2>2. m \notin IdsOf(inflight.msgs)
    BY <1>1, <2>1 DEF TaskInv
  <2> QED BY <1>5, <2>2 DEF Ends
<1> QED BY <1>1, <1>2, <1>3, <1>4, <1>5, Shapes

\* A future is resolved only after its command was received.
LEMMA NextBehind == AllInv /\ PromiseInv /\ [Next]_vars => ResolvedIsBehind'
<1> SUFFICES ASSUME AllInv, PromiseInv, [Next]_vars, NEW m \in Ids, fut'[m] # "waiting"
             PROVE  m \in DOMAIN hist' /\ \A i \in DOMAIN rx' : m < rx'[i].id
  BY DEF ResolvedIsBehind, Ids
<1>1. IInv /\ TypeOK /\ LineInv /\ ResolvedIsBehind /\ HeldIsUnresolved /\ TaskInv /\ Open(batch)
  BY DEF AllInv, IInv, PromiseInv
<1>2. \A n \in DOMAIN hist : n \in DOMAIN hist'
  BY <1>1, HistGrows
<1>3. CASE Submits
  <2>1. PICK c \in Commands : /\ c.id = Len(hist) + 1 /\ hist' = Append(hist, c)
                              /\ rx' = Append(rx, c) /\ fut' = fut
    BY <1>3 DEF Submits
  <2>2. m \in DOMAIN hist /\ \A i \in DOMAIN rx : m < rx[i].id
    BY <1>1, <2>1 DEF ResolvedIsBehind
  <2>3. hist \in Seq(Commands) /\ rx \in Seq(Commands)
    BY <1>1 DEF TypeOK
  <2>4. m < c.id
    BY <2>1, <2>2, <2>3
  <2>5. \A i \in DOMAIN rx' : rx'[i] = c \/ (i \in DOMAIN rx /\ rx'[i] = rx[i])
    BY <2>1, <2>3, AppendElems
  <2> QED BY <1>2, <2>2, <2>4, <2>5
<1>4. ASSUME m \in DOMAIN hist, \A i \in DOMAIN rx : m < rx[i].id, rx' = rx \/ Taken
      PROVE  m \in DOMAIN hist' /\ \A i \in DOMAIN rx' : m < rx'[i].id
  BY <1>2, <1>4, HeadFacts
<1>5. CASE Passes \/ Resumes \/ Queues \/ Fills \/ Joins
  <2>1. fut' = fut /\ (rx' = rx \/ Taken)
    BY <1>5 DEF Passes, Resumes, Queues, Fills, Joins, messages
  <2> QED BY <1>1, <1>4, <2>1 DEF ResolvedIsBehind
<1>6. CASE Rejects
  <2>1. Taken /\ fut' = Rejected({Head(rx).id})
    BY <1>6 DEF Rejects
  <2>2. CASE m = Head(rx).id
    BY <1>2, <2>1, <2>2, HeadFacts
  <2>3. CASE m # Head(rx).id
    <3>1. fut[m] # "waiting"
      BY <2>1, <2>3 DEF Rejected
    <3> QED BY <1>1, <1>4, <2>1, <3>1 DEF ResolvedIsBehind
  <2> QED BY <2>2, <2>3
<1>7. CASE Pauses
  <2>1. fut' = Rejected(IdsOf(pending_msgs)) /\ rx' = rx
    BY <1>7 DEF Pauses
  <2>2. CASE m \in IdsOf(pending_msgs)
    <3>1. PICK i \in DOMAIN pending_msgs : m = pending_msgs[i].id
      BY <2>2 DEF IdsOf
    <3>2. m \in DOMAIN hist /\ Follows(m, rx)
      BY <1>1, <3>1, HeldPrecedes DEF HeldIsUnresolved, Unresolved
    <3> QED BY <1>4, <2>1, <3>2 DEF Follows
  <2>3. CASE m \notin IdsOf(pending_msgs)
    <3>1. fut[m] # "waiting"
      BY <2>1, <2>3 DEF Rejected
    <3> QED BY <1>1, <1>4, <2>1, <3>1 DEF ResolvedIsBehind
  <2> QED BY <2>2, <2>3
<1>8. ASSUME NEW o \in {"ok", "err", "panic"}, Ends(o)
      PROVE  m \in DOMAIN hist' /\ \A i \in DOMAIN rx' : m < rx'[i].id
  <2>1. inflight # NoTask /\ rx' = rx
    BY <1>8 DEF Ends, NoTask
  <2>2. CASE m \in IdsOf(inflight.msgs)
    <3>1. m \in DOMAIN hist /\ Follows(m, rx)
      BY <1>1, <2>1, <2>2, TaskPrecedes
    <3> QED BY <1>4, <2>1, <3>1 DEF Follows
  <2>3. CASE m \notin IdsOf(inflight.msgs)
    <3>1. fut[m] # "waiting"
      BY <1>8, <2>3 DEF Ends
    <3> QED BY <1>1, <1>4, <2>1, <3>1 DEF ResolvedIsBehind
  <2> QED BY <2>2, <2>3
<1> QED BY <1>1, <1>3, <1>5, <1>6, <1>7, <1>8, Shapes

\* Messages taken from unresolved ones are unresolved.
LEMMA FromUnresolved ==
    ASSUME NEW s, NEW t, NEW u, From(s, t, u), Unresolved(t), Unresolved(u)
    PROVE  Unresolved(s)
  BY DEF From, Unresolved

\* A step that keeps the futures of the messages of s keeps s unresolved.
LEMMA StaysUnresolved ==
    ASSUME TypeOK, [Next]_vars, NEW s, Unresolved(s),
           \A i \in DOMAIN s : fut'[s[i].id] = fut[s[i].id]
    PROVE  /\ \A i \in DOMAIN s : /\ s[i].id \in DOMAIN hist' /\ s[i] = hist'[s[i].id]
                                  /\ s[i].op = "publish" /\ fut'[s[i].id] = "waiting"
<1>1. \A m \in DOMAIN hist : m \in DOMAIN hist' /\ hist'[m] = hist[m]
  BY HistGrows
<1> QED BY <1>1 DEF Unresolved

\* The message at the head of the queue is unresolved, and so are the pending
\* messages with it.
LEMMA HeadIsUnresolved ==
    ASSUME AllInv, PromiseInv, Taken, Head(rx).op = "publish"
    PROVE  Unresolved(Append(pending_msgs, Head(rx)))
<1>1. TypeOK /\ ResolvedIsBehind /\ Unresolved(pending_msgs)
  BY DEF AllInv, IInv, PromiseInv, HeldIsUnresolved
<1>2. /\ Head(rx) \in Commands /\ Head(rx).id \in DOMAIN hist /\ hist[Head(rx).id] = Head(rx)
      /\ 1 \in DOMAIN rx /\ Head(rx) = rx[1] /\ Head(rx).id \in Ids
  BY HeadFacts
<1>3. fut[Head(rx).id] = "waiting"
  BY <1>1, <1>2 DEF ResolvedIsBehind, Ids
<1>4. pending_msgs \in Seq(Commands)
  BY <1>1 DEF TypeOK
<1>5. \A i \in DOMAIN Append(pending_msgs, Head(rx)) :
         \/ Append(pending_msgs, Head(rx))[i] = Head(rx)
         \/ i \in DOMAIN pending_msgs /\ Append(pending_msgs, Head(rx))[i] = pending_msgs[i]
  BY <1>2, <1>4, AppendElems
<1> QED BY <1>1, <1>2, <1>3, <1>5 DEF Unresolved

\* Messages move between unresolved places, and into the request.
LEMMA MovesUnresolved ==
    ASSUME NEW p, Moves(p), Unresolved(batch), Unresolved(p), hist' = hist, fut' = fut
    PROVE  /\ HeldIsUnresolved'
           /\ \/ \E b \in Seq(Commands) : Sends(b) /\ Unresolved(b) /\ From(b, batch, p)
              \/ sent' = sent /\ inflight' = NoTask
<1>1. PICK b \in Seq(Commands) : From(b, batch, p) /\ (Sends(b) \/ Keeps(b))
  BY DEF Moves
<1>2. Unresolved(b) /\ Unresolved(pending_msgs')
  BY <1>1, FromUnresolved DEF Moves
<1>3. batch' = <<>> \/ batch' = b
  BY <1>1 DEF Sends, Keeps
<1>4. HeldIsUnresolved'
  BY <1>2, <1>3 DEF HeldIsUnresolved, Unresolved
<1> QED BY <1>1, <1>2, <1>4 DEF Keeps

\* The messages in the hands of the actor are unresolved.
LEMMA NextHeld == AllInv /\ PromiseInv /\ [Next]_vars => HeldIsUnresolved'
<1> SUFFICES ASSUME AllInv, PromiseInv, [Next]_vars PROVE HeldIsUnresolved'
  OBVIOUS
<1>1. /\ IInv /\ TypeOK /\ LineInv /\ Unresolved(batch) /\ Unresolved(pending_msgs)
      /\ TaskInv /\ Open(batch)
  BY DEF AllInv, IInv, PromiseInv, HeldIsUnresolved
<1>2. CASE Submits \/ Passes \/ Resumes
  <2>1. fut' = fut /\ pending_msgs' = pending_msgs /\ batch' = batch
    BY <1>2 DEF Submits, Passes, Resumes, messages
  <2> QED BY <1>1, <2>1, StaysUnresolved DEF HeldIsUnresolved, Unresolved
<1>3. CASE Rejects
  BY <1>1, <1>3, PausedHoldsNothing DEF Rejects, HeldIsUnresolved, Unresolved
<1>4. CASE Queues
  <2>1. /\ Taken /\ Head(rx).op = "publish" /\ pending_msgs' = Append(pending_msgs, Head(rx))
        /\ UNCHANGED <<hist, fut, batch>>
    BY <1>4 DEF Queues
  <2>2. Unresolved(Append(pending_msgs, Head(rx)))
    BY <2>1, HeadIsUnresolved
  <2> QED BY <1>1, <2>1, <2>2 DEF HeldIsUnresolved, Unresolved
<1>5. CASE Fills
  BY <1>1, <1>5, HeadIsUnresolved, MovesUnresolved DEF Fills
<1>6. CASE Joins
  BY <1>1, <1>6, MovesUnresolved DEF Joins
<1>7. CASE Pauses
  BY <1>7 DEF Pauses, HeldIsUnresolved, Unresolved
<1>8. ASSUME NEW o \in {"ok", "err", "panic"}, Ends(o) PROVE HeldIsUnresolved'
  <2>1. inflight # NoTask /\ UNCHANGED <<hist, pending_msgs, batch>>
    BY <1>8 DEF Ends, NoTask
  <2>2. \A m \in IdsOf(batch) \cup IdsOf(pending_msgs) : m \notin IdsOf(inflight.msgs)
    BY <1>1, <2>1, TaskPrecedes
  <2>3. \A m \in Ids : m \notin IdsOf(inflight.msgs) => fut'[m] = fut[m]
    BY <1>8 DEF Ends
  <2>4. DOMAIN hist \subseteq Ids
    BY <1>1, HistIds
  <2>5. \A i \in DOMAIN batch : fut'[batch[i].id] = fut[batch[i].id]
    BY <1>1, <2>2, <2>3, <2>4 DEF IdsOf, Unresolved
  <2>6. \A i \in DOMAIN pending_msgs : fut'[pending_msgs[i].id] = fut[pending_msgs[i].id]
    BY <1>1, <2>2, <2>3, <2>4 DEF IdsOf, Unresolved
  <2> QED BY <1>1, <2>1, <2>5, <2>6, StaysUnresolved DEF HeldIsUnresolved, Unresolved
<1> QED BY <1>1, <1>2, <1>3, <1>4, <1>5, <1>6, <1>7, <1>8, Shapes

\* Whether a task is running after a request was sent.
LEMMA MovesTask ==
    ASSUME AllInv, PromiseInv, NEW p, Moves(p), Unresolved(p), hist' = hist, fut' = fut,
           inflight.status # "running"
    PROVE  TaskInv' /\ SentIsResolved' /\ Open(batch)'
<1>1. TypeOK /\ Unresolved(batch) /\ SentIsResolved /\ sent \in Seq(Seq(Commands))
  BY DEF AllInv, IInv, PromiseInv, HeldIsUnresolved, TypeOK
<1>2. Open(batch)'
  BY DEF Moves, Open
<1>3. ASSUME sent' = sent, inflight' = NoTask PROVE TaskInv' /\ SentIsResolved'
  BY <1>1, <1>3 DEF TaskInv, SentIsResolved, Running
<1>4. ASSUME NEW b \in Seq(Commands), Sends(b), Unresolved(b)
      PROVE  TaskInv' /\ SentIsResolved'
  <2>1. /\ b # <<>> /\ sent' = Append(sent, b) /\ inflight' = [status |-> "running", msgs |-> b]
    BY <1>4 DEF Sends
  <2>2. \A m \in IdsOf(b) : fut'[m] = "waiting"
    BY <1>4 DEF Unresolved, IdsOf
  <2>3. Len(sent') \in DOMAIN sent' /\ sent'[Len(sent')] = b /\ sent' # <<>>
    BY <1>1, <1>4, <2>1
  <2>4. TaskInv'
    BY <2>1, <2>2, <2>3 DEF TaskInv, JoinFailed
  <2>5. Running' = IdsOf(b)
    BY <2>1 DEF Running, IdsOf
  <2>6. ASSUME NEW i \in DOMAIN sent', NEW m \in IdsOf(sent'[i]), fut'[m] = "waiting"
        PROVE  m \in Running'
    <3>1. CASE sent'[i] = b
      BY <2>5, <2>6, <3>1
    <3>2. CASE i \in DOMAIN sent /\ sent'[i] = sent[i]
      BY <1>1, <2>6, <3>2 DEF SentIsResolved, Running
    <3>3. sent'[i] = b \/ (i \in DOMAIN sent /\ sent'[i] = sent[i])
      BY <1>1, <1>4, <2>1
    <3> QED BY <3>1, <3>2, <3>3
  <2>7. SentIsResolved'
    BY <2>6 DEF SentIsResolved, IdsOf
  <2> QED BY <2>4, <2>7
<1>5. \/ \E b \in Seq(Commands) : Sends(b) /\ Unresolved(b)
      \/ sent' = sent /\ inflight' = NoTask
  BY <1>1, MovesUnresolved
<1> QED BY <1>2, <1>3, <1>4, <1>5

\* The task works on the last request, the only one that may be unresolved, and
\* the batch is never full.
LEMMA NextTask == AllInv /\ PromiseInv /\ [Next]_vars => TaskInv' /\ SentIsResolved' /\ Open(batch)'
<1> SUFFICES ASSUME AllInv, PromiseInv, [Next]_vars
             PROVE  TaskInv' /\ SentIsResolved' /\ Open(batch)'
  OBVIOUS
<1>1. /\ IInv /\ TypeOK /\ LineInv /\ Unresolved(batch) /\ Unresolved(pending_msgs)
      /\ TaskInv /\ SentIsResolved /\ Open(batch)
  BY DEF AllInv, IInv, PromiseInv, HeldIsUnresolved
<1>2. CASE Submits \/ Passes \/ Resumes \/ Queues
  <2>1. UNCHANGED <<fut, sent, inflight, batch>>
    BY <1>2 DEF Submits, Passes, Resumes, Queues, messages
  <2> QED BY <1>1, <2>1 DEF TaskInv, SentIsResolved, Running, JoinFailed, Open
<1>3. CASE Rejects
  <2>1. inflight = NoTask /\ UNCHANGED <<sent, inflight, batch>>
    BY <1>1, <1>3, PausedHoldsNothing DEF Rejects
  <2>2. ASSUME NEW i \in DOMAIN sent, NEW m \in IdsOf(sent[i]), fut'[m] = "waiting"
        PROVE  fut[m] = "waiting"
    <3>1. m \in Ids
      BY <1>1, SentPrecedes
    <3> QED BY <1>1, <2>2, <3>1, FutureStays
  <2> QED BY <1>1, <2>1, <2>2 DEF TaskInv, SentIsResolved, Running, Open
<1>4. CASE Fills
  BY <1>1, <1>4, HeadIsUnresolved, MovesTask DEF Fills, NoTask
<1>5. CASE Joins
  BY <1>1, <1>5, MovesTask DEF Joins, Joinable
<1>6. CASE Pauses
  <2>1. inflight.status # "running" /\ sent' = sent /\ inflight' = NoTask /\ batch' = <<>>
    BY <1>6 DEF Pauses, JoinFailed
  <2>2. ASSUME NEW i \in DOMAIN sent, NEW m \in IdsOf(sent[i]) PROVE fut'[m] # "waiting"
    <3>1. m \in Ids
      BY <1>1, SentPrecedes
    <3>2. fut[m] # "waiting"
      BY <1>1, <2>1 DEF SentIsResolved, Running
    <3> QED BY <1>1, <3>1, <3>2, FutureStays
  <2> QED BY <2>1, <2>2 DEF TaskInv, SentIsResolved, Open
<1>7. ASSUME NEW o \in {"ok", "err", "panic"}, Ends(o)
      PROVE  TaskInv' /\ SentIsResolved' /\ Open(batch)'
  <2>1. /\ inflight.status = "running" /\ inflight # NoTask /\ UNCHANGED <<sent, batch>>
        /\ inflight' = [status |-> o, msgs |-> inflight.msgs]
    BY <1>7 DEF Ends, NoTask
  <2>2. \A m \in IdsOf(inflight.msgs) : m \in Ids /\ fut'[m] = FutureOf(o)
    BY <1>1, <1>7, <2>1, TaskPrecedes DEF Ends
  <2>3. FutureOf(o) # "waiting" /\ (o \in {"err", "panic"} => FutureOf(o) \in {"rpc", "shutdown"})
    BY DEF FutureOf
  <2>4. TaskInv'
    BY <1>1, <2>1, <2>2, <2>3 DEF TaskInv, JoinFailed
  <2>5. ASSUME NEW i \in DOMAIN sent, NEW m \in IdsOf(sent[i]) PROVE fut'[m] # "waiting"
    <3>1. m \in Ids
      BY <1>1, SentPrecedes
    <3>2. fut[m] = "waiting" => m \in IdsOf(inflight.msgs)
      BY <1>1 DEF SentIsResolved, Running
    <3> QED BY <1>1, <2>2, <2>3, <3>1, <3>2, FutureStays
  <2>6. SentIsResolved' /\ Open(batch)'
    BY <1>1, <2>1, <2>5 DEF SentIsResolved, Open
  <2> QED BY <2>4, <2>6
<1> QED BY <1>1, <1>2, <1>3, <1>4, <1>5, <1>6, <1>7, Shapes

\* A key is paused because a request failed.
LEMMA NextPaused == AllInv /\ PromiseInv /\ [Next]_vars => PausedByFailure'
<1> SUFFICES ASSUME AllInv, PromiseInv, [Next]_vars, paused'
             PROVE  \E m \in Ids : fut'[m] \in {"rpc", "shutdown"}
  BY DEF PausedByFailure, Ids
<1>1. IInv /\ TypeOK /\ LineInv /\ TaskInv /\ PausedByFailure /\ Open(batch)
  BY DEF AllInv, IInv, PromiseInv
<1>2. CASE paused
  <2>1. PICK m \in Ids : fut[m] \in {"rpc", "shutdown"}
    BY <1>1, <1>2 DEF PausedByFailure
  <2>2. fut'[m] = fut[m]
    BY <2>1, OutcomesStay
  <2> QED BY <2>1, <2>2
<1>3. CASE ~paused
  <2>1. Pauses
    BY <1>1, <1>3, Shapes
       DEF Submits, Passes, Resumes, Rejects, Queues, Fills, Joins, Ends
  <2>2. JoinFailed /\ inflight # NoTask
    BY <2>1 DEF Pauses, JoinFailed, NoTask
  <2>3. inflight.msgs # <<>> /\ inflight.msgs \in Seq(Commands)
    BY <1>1, <2>2 DEF TaskInv, TypeOK
  <2>4. inflight.msgs[1].id \in IdsOf(inflight.msgs)
    BY <2>3 DEF IdsOf
  <2>5. PICK m \in IdsOf(inflight.msgs) : TRUE
    BY <2>4
  <2>6. m \in Ids /\ fut[m] \in {"rpc", "shutdown"}
    BY <1>1, <2>2, TaskPrecedes DEF TaskInv
  <2>7. fut'[m] = fut[m]
    BY <2>6, OutcomesStay
  <2> QED BY <2>6, <2>7
<1> QED BY <1>2, <1>3

\* What follows a Resume still follows it when it moves.
LEMMA FromFollows ==
    ASSUME NEW r, NEW s, NEW t, NEW u, From(s, t, u), Follows(r, t), Follows(r, u)
    PROVE  Follows(r, s)
  BY DEF From, Follows

LEMMA MovesFollows ==
    ASSUME NEW r, NEW p, Moves(p), Follows(r, batch), Follows(r, p)
    PROVE  Follows(r, batch') /\ Follows(r, pending_msgs')
<1>1. PICK b \in Seq(Commands) : From(b, batch, p) /\ (Sends(b) \/ Keeps(b))
  BY DEF Moves
<1>2. Follows(r, b) /\ Follows(r, pending_msgs')
  BY <1>1, FromFollows DEF Moves
<1>3. batch' = <<>> \/ batch' = b
  BY <1>1 DEF Sends, Keeps
<1> QED BY <1>2, <1>3 DEF Follows

\* The pending messages and the one received follow what the queue followed.
LEMMA TakenFollows ==
    ASSUME AllInv, Taken, NEW r, Follows(r, rx), Follows(r, pending_msgs)
    PROVE  Follows(r, rx') /\ Follows(r, Append(pending_msgs, Head(rx)))
<1>1. /\ Head(rx) \in Commands /\ 1 \in DOMAIN rx /\ Head(rx) = rx[1]
      /\ \A i \in DOMAIN rx' : i + 1 \in DOMAIN rx /\ rx'[i] = rx[i + 1]
  BY HeadFacts
<1>2. Follows(r, rx') /\ r < Head(rx).id
  BY <1>1 DEF Follows
<1>3. pending_msgs \in Seq(Commands)
  BY DEF AllInv, IInv, TypeOK
<1> QED BY <1>1, <1>2, <1>3, AppendElems DEF Follows

\* A Resume that was received stays received.
LEMMA ResumedStays ==
    ASSUME AllInv, [Next]_vars, NEW m, ResumedAfter(m),
           \A r \in DOMAIN hist :
               Follows(r, pending_msgs) /\ Follows(r, batch) /\ Follows(r, rx) =>
               Follows(r, pending_msgs') /\ Follows(r, batch') /\ Follows(r, rx')
    PROVE  ResumedAfter(m)'
<1>1. PICK r \in DOMAIN hist : /\ hist[r].op = "resume" /\ m < r
                               /\ Follows(r, pending_msgs) /\ Follows(r, batch) /\ Follows(r, rx)
  BY DEF ResumedAfter
<1>2. r \in DOMAIN hist' /\ hist'[r] = hist[r]
  BY HistGrows DEF AllInv, IInv
<1> QED BY <1>1, <1>2 DEF ResumedAfter, Follows

\* Every failure is handled before anything can overtake the message.
LEMMA NextHandled == AllInv /\ PromiseInv /\ [Next]_vars => FailureIsHandled'
<1> SUFFICES ASSUME AllInv, PromiseInv, [Next]_vars, NEW m \in Ids, fut'[m] \in Failures, ~paused'
             PROVE  (Joining(m) \/ ResumedAfter(m))'
  BY DEF FailureIsHandled, Ids, Failures
<1>1. IInv /\ TypeOK /\ LineInv /\ TaskInv /\ FailureIsHandled /\ ResolvedIsBehind /\ Open(batch)
  BY DEF AllInv, IInv, PromiseInv
<1>2. CASE Submits
  <2>1. PICK c \in Commands : /\ c.id = Len(hist) + 1 /\ rx' = Append(rx, c)
                              /\ UNCHANGED <<fut, pending_msgs, batch, inflight, paused>>
    BY <1>2 DEF Submits
  <2>2. \A r \in DOMAIN hist : Follows(r, rx) => Follows(r, rx')
    <3>1. hist \in Seq(Commands) /\ rx \in Seq(Commands)
      BY <1>1 DEF TypeOK
    <3>2. \A r \in DOMAIN hist : r < c.id
      BY <2>1, <3>1
    <3> QED BY <2>1, <3>1, <3>2, AppendElems DEF Follows
  <2>3. JoinFailed' = JoinFailed
    BY <2>1 DEF JoinFailed
  <2>4. Joining(m) \/ ResumedAfter(m)
    BY <1>1, <2>1 DEF FailureIsHandled
  <2>5. ResumedAfter(m) => ResumedAfter(m)'
    BY <2>1, <2>2, ResumedStays
  <2> QED BY <2>1, <2>3, <2>4, <2>5 DEF Joining
<1>3. CASE Passes \/ Queues
  <2>1. /\ UNCHANGED <<fut, batch, inflight, paused>> /\ (rx' = rx \/ Taken)
        /\ \/ pending_msgs' = pending_msgs
           \/ Taken /\ pending_msgs' = Append(pending_msgs, Head(rx))
    <3>1. CASE Passes
      BY <3>1 DEF Passes, messages
    <3>2. CASE Queues
      BY <3>2 DEF Queues
    <3> QED BY <1>3, <3>1, <3>2
  <2>2. JoinFailed' = JoinFailed
    BY <2>1 DEF JoinFailed
  <2>3. Joining(m) \/ ResumedAfter(m)
    BY <1>1, <2>1 DEF FailureIsHandled
  <2>4. ResumedAfter(m) => ResumedAfter(m)'
    BY <2>1, TakenFollows, ResumedStays
  <2> QED BY <2>1, <2>2, <2>3, <2>4 DEF Joining
<1>4. CASE Resumes
  <2>1. paused /\ Taken /\ Head(rx).op = "resume" /\ UNCHANGED <<hist, fut, pending_msgs, batch>>
    BY <1>4 DEF Resumes, messages
  <2>2. pending_msgs' = <<>> /\ batch' = <<>>
    BY <1>1, <2>1, PausedHoldsNothing
  <2>3. /\ Head(rx).id \in DOMAIN hist /\ hist[Head(rx).id] = Head(rx)
        /\ 1 \in DOMAIN rx /\ Head(rx) = rx[1] /\ Follows(Head(rx).id, rx')
    BY <2>1, HeadFacts DEF Follows
  <2>4. m < Head(rx).id
    BY <1>1, <2>1, <2>3 DEF ResolvedIsBehind, Failures
  <2> QED BY <2>1, <2>2, <2>3, <2>4 DEF ResumedAfter, Follows
<1>5. CASE Fills
  <2>1. /\ ~paused /\ Taken /\ fut' = fut /\ inflight = NoTask
        /\ Moves(Append(pending_msgs, Head(rx)))
    BY <1>5 DEF Fills
  <2>2. ResumedAfter(m)
    BY <1>1, <2>1 DEF FailureIsHandled, Joining, JoinFailed, NoTask
  <2> QED BY <2>1, <2>2, TakenFollows, MovesFollows, ResumedStays
<1>6. CASE Joins
  <2>1. ~JoinFailed /\ Moves(pending_msgs) /\ fut' = fut /\ rx' = rx /\ paused' = paused
    BY <1>6 DEF Joins
  <2>2. ResumedAfter(m)
    BY <1>1, <2>1 DEF FailureIsHandled, Joining
  <2> QED BY <2>1, <2>2, MovesFollows, ResumedStays
<1>7. CASE Rejects \/ Pauses
  BY <1>7 DEF Rejects, Pauses
<1>8. ASSUME NEW o \in {"ok", "err", "panic"}, Ends(o)
      PROVE  (Joining(m) \/ ResumedAfter(m))'
  <2>1. /\ inflight.status = "running" /\ UNCHANGED <<hist, rx, pending_msgs, batch, paused>>
        /\ inflight' = [status |-> o, msgs |-> inflight.msgs]
        /\ fut'[m] = IF m \in IdsOf(inflight.msgs) THEN FutureOf(o) ELSE fut[m]
    BY <1>8 DEF Ends
  <2>2. CASE m \in IdsOf(inflight.msgs)
    <3>1. o \in {"err", "panic"}
      BY <2>1, <2>2 DEF FutureOf, Failures
    <3>2. JoinFailed' /\ inflight'.msgs = inflight.msgs
      BY <2>1, <3>1 DEF JoinFailed
    <3> QED BY <2>2, <3>2 DEF Joining
  <2>3. CASE m \notin IdsOf(inflight.msgs)
    <3>1. ResumedAfter(m)
      BY <1>1, <2>1, <2>3 DEF FailureIsHandled, Joining, JoinFailed
    <3> QED BY <2>1, <3>1, ResumedStays
  <2> QED BY <2>2, <2>3
<1> QED BY <1>1, <1>2, <1>3, <1>4, <1>5, <1>6, <1>7, <1>8, Shapes

\* A request that is sent follows a Resume received after every failure.
LEMMA SendsFollows ==
    ASSUME AllInv, PromiseInv, NEW p, NEW b \in Seq(Commands), b # <<>>, From(b, batch, p),
           ~JoinFailed, NEW m \in Ids, fut[m] \in Failures,
           \/ p = pending_msgs
           \/ Taken /\ ~paused /\ p = Append(pending_msgs, Head(rx))
    PROVE  \E r \in DOMAIN hist : hist[r].op = "resume" /\ m < r /\ Follows(r, b)
<1>1. IInv /\ TypeOK /\ FailureIsHandled
  BY DEF AllInv, IInv, PromiseInv
<1>2. ~paused
  <2> SUFFICES ASSUME paused PROVE FALSE
    OBVIOUS
  <2>1. From(b, <<>>, <<>>)
    BY <1>1, PausedHoldsNothing
  <2>2. 1 \in DOMAIN b
    OBVIOUS
  <2> QED BY <2>1, <2>2 DEF From
<1>3. PICK r \in DOMAIN hist : /\ hist[r].op = "resume" /\ m < r
                               /\ Follows(r, pending_msgs) /\ Follows(r, batch) /\ Follows(r, rx)
  BY <1>1, <1>2 DEF FailureIsHandled, Joining, ResumedAfter
<1>4. Follows(r, p)
  BY <1>3, TakenFollows
<1> QED BY <1>3, <1>4, FromFollows

\* Nothing overtakes a failed message.
LEMMA NextNoOvertake == AllInv /\ PromiseInv /\ [Next]_vars => NoOvertake'
<1> SUFFICES ASSUME AllInv, PromiseInv, [Next]_vars, NEW m \in Ids, fut'[m] \in Failures,
                    NEW i \in DOMAIN sent', m \notin IdsOf(sent'[i]),
                    NEW n \in IdsOf(sent'[i]), m < n
             PROVE  \E r \in (m + 1)..(n - 1) : hist'[r].op = "resume"
  BY DEF NoOvertake, Ids, IdsOf, Failures
<1>1. /\ IInv /\ TypeOK /\ LineInv /\ TaskInv /\ NoOvertake /\ HeldIsUnresolved /\ Open(batch)
      /\ sent \in Seq(Seq(Commands)) /\ DOMAIN hist \subseteq Nat
  BY DEF AllInv, IInv, PromiseInv, TypeOK
<1>2. m \in Nat
  BY DEF Ids
<1>3. \A r \in DOMAIN hist : r \in DOMAIN hist' /\ hist'[r] = hist[r]
  BY <1>1, HistGrows
<1>4. CASE i \in DOMAIN sent /\ sent'[i] = sent[i]
  <2>1. /\ n \in DOMAIN hist /\ n \in Nat /\ Follows(n, pending_msgs) /\ Follows(n, rx)
    BY <1>1, <1>4, SentPrecedes
  <2>2. CASE fut[m] \in Failures
    <3>1. PICK r \in (m + 1)..(n - 1) : hist[r].op = "resume"
      BY <1>1, <1>4, <2>2 DEF NoOvertake
    <3>2. r \in DOMAIN hist
      BY <1>1, <1>2, <2>1 DEF TypeOK
    <3> QED BY <1>3, <3>1, <3>2
  <2>3. CASE fut[m] \notin Failures
    <3>1. CASE Submits \/ Passes \/ Resumes \/ Queues \/ Fills \/ Joins
      BY <2>3, <3>1 DEF Submits, Passes, Resumes, Queues, Fills, Joins, messages
    <3>2. CASE Rejects
      <4>1. Taken /\ m = Head(rx).id
        BY <2>3, <3>2 DEF Rejects, Rejected
      <4>2. n < m
        BY <2>1, <4>1, HeadFacts DEF Follows
      <4> QED BY <1>2, <2>1, <4>2
    <3>3. CASE Pauses
      <4>1. m \in IdsOf(pending_msgs)
        BY <2>3, <3>3 DEF Pauses, Rejected
      <4>2. n < m
        BY <2>1, <4>1 DEF Follows, IdsOf
      <4> QED BY <1>2, <2>1, <4>2
    <3>4. ASSUME NEW o \in {"ok", "err", "panic"}, Ends(o) PROVE FALSE
      <4>1. m \in IdsOf(inflight.msgs) /\ inflight # NoTask
        <5>1. inflight # NoTask
          BY <3>4 DEF Ends, NoTask
        <5>2. fut'[m] = IF m \in IdsOf(inflight.msgs) THEN FutureOf(o) ELSE fut[m]
          BY <3>4 DEF Ends
        <5> QED BY <2>3, <5>1, <5>2
      <4>2. sent # <<>> /\ inflight.msgs = sent[Len(sent)]
        BY <1>1, <4>1 DEF TaskInv
      <4>3. i < Len(sent) /\ Len(sent) \in DOMAIN sent
        <5>1. i # Len(sent)
          BY <1>4, <4>1, <4>2
        <5> QED BY <1>1, <1>4, <4>2, <5>1
      <4>4. n < m
        <5>1. Before(sent[i], sent[Len(sent)])
          BY <1>1, <1>4, <4>3 DEF LineInv, Line, InOrder
        <5>2. n \in IdsOf(sent[i]) /\ m \in IdsOf(sent[Len(sent)])
          BY <1>4, <4>1, <4>2
        <5> QED BY <5>1, <5>2 DEF Before, IdsOf
      <4> QED BY <1>2, <2>1, <4>4
    <3> QED BY <1>1, <3>1, <3>2, <3>3, <3>4, Shapes
  <2> QED BY <2>2, <2>3
<1>5. ASSUME NEW p, Moves(p), fut' = fut, hist' = hist, ~JoinFailed,
             \/ p = pending_msgs
             \/ Taken /\ ~paused /\ p = Append(pending_msgs, Head(rx)),
             ~(i \in DOMAIN sent /\ sent'[i] = sent[i])
      PROVE  \E r \in (m + 1)..(n - 1) : hist'[r].op = "resume"
  <2>1. PICK b \in Seq(Commands) : From(b, batch, p) /\ (Sends(b) \/ Keeps(b))
    BY <1>5 DEF Moves
  <2>2. Sends(b)
    BY <1>5, <2>1 DEF Keeps
  <2>3. sent' = Append(sent, b) /\ b # <<>>
    BY <2>2 DEF Sends
  <2>4. sent'[i] = b
    BY <1>1, <1>5, <2>3
  <2>5. PICK r \in DOMAIN hist : hist[r].op = "resume" /\ m < r /\ Follows(r, b)
    BY <1>5, <2>1, <2>3, SendsFollows
  <2>6. r < n /\ n \in Nat
    <3>1. PICK k \in DOMAIN b : n = b[k].id
      BY <2>4 DEF IdsOf
    <3> QED BY <2>5, <3>1, ElemIsNat DEF Follows
  <2> QED BY <1>1, <1>2, <1>5, <2>5, <2>6
<1>6. CASE ~(i \in DOMAIN sent /\ sent'[i] = sent[i])
  <2>1. CASE Fills
    BY <1>5, <1>6, <2>1 DEF Fills, JoinFailed, NoTask
  <2>2. CASE Joins
    BY <1>5, <1>6, <2>2 DEF Joins
  <2>3. CASE sent' = sent
    BY <1>6, <2>3
  <2>4. Fills \/ Joins \/ sent' = sent
    BY <1>1, Shapes DEF Submits, Passes, Resumes, Rejects, Queues, Pauses, Ends, messages
  <2> QED BY <2>1, <2>2, <2>3, <2>4
<1> QED BY <1>4, <1>6

\* The invariant holds in every reachable state.
THEOREM PromiseInvariance == Spec => []PromiseInv
<1>1. Init => PromiseInv
  BY DEF Init, PromiseInv, ResolvedIsBehind, HeldIsUnresolved, Unresolved, TaskInv,
         SentIsResolved, PausedByFailure, FailureIsHandled, NoOvertake, Open, Failures
<1>2. AllInv /\ PromiseInv /\ [Next]_vars => PromiseInv'
  BY NextBehind, NextHeld, NextTask, NextPaused, NextHandled, NextNoOvertake DEF PromiseInv
<1>3. AllInv <=> IInv /\ LineInv /\ BarrierInv
  BY DEF AllInv
<1> QED BY <1>1, <1>2, <1>3, Invariance, LineInvariance, BarrierInvariance, PTL DEF Spec

\* Once a message of an ordering key failed, no later message is sent, unless the
\* application asked in between to resume (client.rs:97-99).
THEOREM NothingOvertakes == Spec => []NoOvertake
<1>1. PromiseInv => NoOvertake
  BY DEF PromiseInv
<1> QED BY <1>1, PromiseInvariance, PTL

-----------------------------------------------------------------------------
(***************************************************************************)
(* The abstract specification's backlog: what is published, not sent and   *)
(* not resolved, in the order of submission.                               *)
(***************************************************************************)
\* The recursion that defines it, over the first n commands.
IsBacklog(n, f) ==
    f = [i \in 0..n |-> IF i = 0 THEN <<>>
                        ELSE IF Promise!Unsent(hist[i]) THEN Append(f[i - 1], hist[i])
                                                        ELSE f[i - 1]]

\* It has a solution for every number of commands.
LEMMA BacklogExists == \A n \in Nat : \E f : IsBacklog(n, f)
<1> DEFINE T == {n \in Nat : \E f : IsBacklog(n, f)}
<1>1. 0 \in T
  <2>1. IsBacklog(0, [i \in 0..0 |-> <<>>])
    BY DEF IsBacklog
  <2> QED BY <2>1
<1>2. ASSUME NEW n \in Nat, n \in T PROVE n + 1 \in T
  <2>1. PICK f : IsBacklog(n, f)
    BY <1>2
  <2> DEFINE Next1(x, i) == IF Promise!Unsent(hist[i]) THEN Append(x, hist[i]) ELSE x
             g == [i \in 0..(n + 1) |-> IF i = n + 1 THEN Next1(f[n], n + 1) ELSE f[i]]
  <2>2. ASSUME NEW i \in 0..(n + 1)
        PROVE  g[i] = IF i = 0 THEN <<>> ELSE Next1(g[i - 1], i)
    <3>1. CASE i = n + 1
      BY <3>1
    <3>2. CASE i # n + 1
      <4>1. i \in 0..n /\ g[i] = f[i]
        BY <3>2
      <4>2. f[i] = IF i = 0 THEN <<>> ELSE Next1(f[i - 1], i)
        BY <2>1, <4>1 DEF IsBacklog
      <4>3. i # 0 => i - 1 \in 0..(n + 1) /\ g[i - 1] = f[i - 1]
        BY <4>1
      <4> QED BY <4>1, <4>2, <4>3
    <3> QED BY <3>1, <3>2
  <2>3. g = [i \in 0..(n + 1) |-> g[i]]
    OBVIOUS
  <2> HIDE DEF g
  <2>4. IsBacklog(n + 1, g)
    BY <2>2, <2>3 DEF IsBacklog
  <2> QED BY <2>4
<1> HIDE DEF T
<1>3. Nat \subseteq T
  BY <1>1, <1>2, NatSetInduction
<1> QED BY <1>3 DEF T

\* The backlog is the last value of a solution.
LEMMA BacklogIsLast ==
    ASSUME hist \in Seq(Commands)
    PROVE  \E f : IsBacklog(Len(hist), f) /\ Promise!Backlog = f[Len(hist)]
<1> DEFINE f == CHOOSE f : IsBacklog(Len(hist), f)
<1>1. IsBacklog(Len(hist), f)
  <2>1. Len(hist) \in Nat
    OBVIOUS
  <2> QED BY <2>1, BacklogExists
<1>2. Promise!Backlog = f[Len(hist)]
  BY DEF Promise!Backlog, IsBacklog
<1> QED BY <1>1, <1>2

\* Unsent messages x that are in order, and precede every other one, are the
\* beginning of the backlog.
LEMMA OldestFirst ==
    ASSUME hist \in Seq(Commands), NEW x \in Seq(Commands), Increasing(x),
           \A l \in DOMAIN x : /\ x[l].id \in DOMAIN hist /\ x[l] = hist[x[l].id]
                               /\ Promise!Unsent(x[l]),
           \A m \in DOMAIN hist : Promise!Unsent(hist[m]) =>
               m \in IdsOf(x) \/ \A l \in DOMAIN x : x[l].id < m
    PROVE  /\ Promise!Backlog \in Seq(Commands)
           /\ Len(x) <= Len(Promise!Backlog) /\ SubSeq(Promise!Backlog, 1, Len(x)) = x
<1>1. PICK f : IsBacklog(Len(hist), f) /\ Promise!Backlog = f[Len(hist)]
  BY BacklogIsLast
<1> DEFINE Within(i) ==
             \E j \in 0..Len(x) :
                 /\ f[i] = SubSeq(x, 1, j)
                 /\ \A l \in 1..j : x[l].id <= i
                 /\ \A l \in (j + 1)..Len(x) : i < x[l].id
           Past(i) ==
             /\ Len(x) <= Len(f[i]) /\ \A l \in 1..Len(x) : f[i][l] = x[l] /\ x[l].id <= i
           T == {i \in Nat : i <= Len(hist) => f[i] \in Seq(Commands) /\ (Within(i) \/ Past(i))}
<1>2. /\ Len(x) \in Nat /\ DOMAIN x = 1..Len(x) /\ Len(hist) \in Nat /\ DOMAIN hist = 1..Len(hist)
      /\ \A l \in 1..Len(x) : x[l] \in Commands /\ x[l].id \in Nat \ {0}
      /\ <<>> \in Seq(Commands)
  BY ElemIsNat
<1>3. 0 \in T
  <2>1. f[0] = <<>>
    BY <1>1, <1>2 DEF IsBacklog
  <2>2. SubSeq(x, 1, 0) = <<>> /\ 0 \in 0..Len(x)
    BY <1>2
  <2>3. Within(0)
    BY <1>2, <2>1, <2>2
  <2> QED BY <1>2, <2>1, <2>3
<1>4. ASSUME NEW i \in Nat, i \in T PROVE i + 1 \in T
  <2> SUFFICES ASSUME i + 1 <= Len(hist)
               PROVE  f[i + 1] \in Seq(Commands) /\ (Within(i + 1) \/ Past(i + 1))
    <3> HIDE DEF Within, Past
    <3> QED OBVIOUS
  <2>1. f[i] \in Seq(Commands) /\ (Within(i) \/ Past(i))
    BY <1>2, <1>4
  <2>2. f[i + 1] = IF Promise!Unsent(hist[i + 1]) THEN Append(f[i], hist[i + 1]) ELSE f[i]
    <3>1. i + 1 \in 0..Len(hist) /\ i + 1 # 0 /\ (i + 1) - 1 = i
      BY <1>2
    <3> QED BY <1>1, <3>1 DEF IsBacklog
  <2>3. hist[i + 1] \in Commands /\ i + 1 \in DOMAIN hist
    BY <1>2
  <2>4. f[i + 1] \in Seq(Commands)
    BY <2>1, <2>2, <2>3
  <2>5. CASE Past(i)
    <3>1. Len(f[i]) <= Len(f[i + 1]) /\ \A l \in 1..Len(f[i]) : f[i + 1][l] = f[i][l]
      BY <2>1, <2>2, <2>3
    <3>2. Past(i + 1)
      <4>1. Len(x) <= Len(f[i]) /\ \A l \in 1..Len(x) : f[i][l] = x[l] /\ x[l].id <= i
        BY <2>5
      <4>2. Len(f[i]) \in Nat /\ Len(f[i + 1]) \in Nat
        BY <2>1, <2>4
      <4>3. ASSUME NEW l \in 1..Len(x) PROVE f[i + 1][l] = x[l] /\ x[l].id <= i + 1
        <5>1. l \in 1..Len(f[i])
          BY <1>2, <4>1, <4>2
        <5> QED BY <1>2, <3>1, <4>1, <5>1
      <4>4. Len(x) <= Len(f[i + 1])
        BY <1>2, <3>1, <4>1, <4>2
      <4> QED BY <4>3, <4>4
    <3> QED BY <2>4, <3>2
  <2>6. CASE Within(i)
    <3>1. PICK j \in 0..Len(x) : /\ f[i] = SubSeq(x, 1, j)
                                 /\ \A l \in 1..j : x[l].id <= i
                                 /\ \A l \in (j + 1)..Len(x) : i < x[l].id
      BY <2>6
    <3>2. CASE ~Promise!Unsent(hist[i + 1])
      <4>1. \A l \in 1..Len(x) : x[l].id # i + 1
        BY <1>2, <3>2
      <4>2. /\ \A l \in 1..j : x[l].id <= i + 1
            /\ \A l \in (j + 1)..Len(x) : i + 1 < x[l].id
        BY <1>2, <3>1, <4>1
      <4>3. Within(i + 1)
        BY <2>2, <3>1, <3>2, <4>2
      <4> QED BY <2>4, <4>3
    <3>3. CASE Promise!Unsent(hist[i + 1]) /\ i + 1 \in IdsOf(x)
      <4>1. PICK l \in 1..Len(x) : x[l].id = i + 1
        BY <1>2, <3>3 DEF IdsOf
      <4>2. l = j + 1
        <5>1. l >= j + 1
          BY <1>2, <3>1, <4>1
        <5>2. l > j + 1 => x[j + 1].id < x[l].id
          BY <1>2, <4>1 DEF Increasing
        <5>3. l > j + 1 => i < x[j + 1].id /\ x[j + 1].id \in Nat
          BY <1>2, <3>1, <4>1
        <5> QED BY <1>2, <4>1, <5>1, <5>2, <5>3
      <4>3. x[j + 1] = hist[i + 1] /\ j + 1 \in 1..Len(x)
        BY <1>2, <4>1, <4>2
      <4>4. f[i + 1] = SubSeq(x, 1, j + 1)
        <5>1. SubSeq(x, 1, j + 1) = Append(SubSeq(x, 1, j), x[j + 1])
          BY <1>2, <4>3
        <5> QED BY <2>2, <3>1, <3>3, <4>3, <5>1
      <4>5. \A k \in 1..(j + 1) : x[k].id <= i + 1
        BY <1>2, <3>1, <4>1, <4>2, <4>3
      <4>6. \A k \in (j + 2)..Len(x) : i + 1 < x[k].id
        BY <1>2, <4>1, <4>2, <4>3 DEF Increasing
      <4>7. Within(i + 1)
        <5>1. (j + 1) + 1 = j + 2 /\ j + 1 \in 0..Len(x)
          BY <4>3
        <5> QED BY <4>4, <4>5, <4>6, <5>1
      <4> QED BY <2>4, <4>7
    <3>4. CASE Promise!Unsent(hist[i + 1]) /\ i + 1 \notin IdsOf(x)
      <4>1. \A l \in 1..Len(x) : x[l].id < i + 1
        BY <1>2, <2>3, <3>4
      <4>2. j = Len(x)
        <5> SUFFICES ASSUME j # Len(x) PROVE FALSE
          OBVIOUS
        <5> HIDE DEF Within, Past
        <5>1. j + 1 \in 1..Len(x) /\ j + 1 \in (j + 1)..Len(x)
          <6>1. Len(x) \in Nat
            BY <1>2
          <6> QED BY <6>1
        <5>2. i < x[j + 1].id /\ x[j + 1].id < i + 1 /\ x[j + 1].id \in Nat
          BY <1>2, <3>1, <4>1, <5>1
        <5> QED BY <5>2
      <4>3. f[i] = x
        BY <3>1, <4>2
      <4>4. Len(f[i + 1]) = Len(x) + 1 /\ \A l \in 1..Len(x) : f[i + 1][l] = x[l]
        BY <2>2, <2>3, <3>4, <4>3
      <4>5. Past(i + 1)
        BY <1>2, <4>1, <4>4
      <4> QED BY <2>4, <4>5
    <3> QED BY <3>2, <3>3, <3>4
  <2> QED BY <2>1, <2>5, <2>6
<1> HIDE DEF T
<1>5. Len(hist) \in T
  BY <1>2, <1>3, <1>4, NatSetInduction
<1>6. /\ f[Len(hist)] \in Seq(Commands) /\ (Within(Len(hist)) \/ Past(Len(hist)))
  BY <1>2, <1>5 DEF T
<1> DEFINE g == f[Len(hist)]
<1>7. CASE Past(Len(hist))
  <2>1. Len(x) <= Len(g) /\ g \in Seq(Commands) /\ \A l \in 1..Len(x) : g[l] = x[l]
    BY <1>6, <1>7
  <2> HIDE DEF g
  <2>2. SubSeq(g, 1, Len(x)) = x
    BY <1>2, <2>1
  <2> QED BY <1>1, <2>1, <2>2 DEF g
<1>8. CASE Within(Len(hist))
  <2>1. PICK j \in 0..Len(x) : /\ g = SubSeq(x, 1, j)
                               /\ \A l \in (j + 1)..Len(x) : Len(hist) < x[l].id
    BY <1>8
  <2>2. j = Len(x)
    <3>1. j < Len(x) => Len(hist) < x[j + 1].id /\ x[j + 1].id \in 1..Len(hist)
      BY <1>2, <2>1
    <3> QED BY <1>2, <3>1
  <2>3. g = x
    BY <2>1, <2>2
  <2> HIDE DEF g
  <2>4. SubSeq(x, 1, Len(x)) = x
    OBVIOUS
  <2> QED BY <1>1, <1>2, <2>3, <2>4 DEF g
<1> QED BY <1>6, <1>7, <1>8

-----------------------------------------------------------------------------
(***************************************************************************)
(* The refinement, step by step.                                           *)
(***************************************************************************)
\* flush_all answers a Flush.
FlushInProgress == cont.kind = "flush" => hist[cont.tx].op = "flush"

LEMMA NextFlushInProgress == AllInv /\ FlushInProgress /\ [Next]_vars => FlushInProgress'
<1> SUFFICES ASSUME AllInv, FlushInProgress, [Next]_vars, cont'.kind = "flush"
             PROVE  hist'[cont'.tx].op = "flush"
  BY DEF FlushInProgress
<1>1. TypeOK /\ FlushPrecedesQueue /\ QueueIsHistory
  BY DEF AllInv, IInv, BarrierInv
<1>2. \A m \in DOMAIN hist : m \in DOMAIN hist' /\ hist'[m] = hist[m]
  BY <1>1, HistGrows
<1>3. CASE cont' = cont
  BY <1>1, <1>2, <1>3 DEF FlushInProgress, FlushPrecedesQueue
<1>4. CASE RecvFlush
  <2>1. Recv("flush") /\ cont'.tx = Head(rx).id
    BY <1>4 DEF RecvFlush, StartFlushAll
  <2> QED BY <1>1, <1>2, <2>1, RecvHolds
<1>5. CASE TimerFires \/ RecvClosed \/ FlushAllLast
  BY <1>5 DEF TimerFires, RecvClosed, StartFlushAll, FlushAllLast, Idle
<1>6. cont' = cont \/ RecvFlush \/ TimerFires \/ RecvClosed \/ FlushAllLast
  <2>1. CASE Application \/ Rpc \/ Terminated \/ UNCHANGED vars
    BY <2>1 DEF Application, Submit, Close, Rpc, RpcDone, Terminated, vars, actor
  <2>2. CASE PausedPublish \/ PausedFlush \/ PausedResume \/ PausedClosed
               \/ JoinInflight \/ RecvPublish \/ RecvResume \/ FlushAllJoin
    BY <2>2 DEF PausedPublish, PausedFlush, PausedResume, PausedClosed, JoinInflight,
                RecvPublish, RecvResume, FlushAllJoin, actor
  <2> QED BY <2>1, <2>2 DEF Next, Select, FlushAll
<1> QED BY <1>3, <1>4, <1>5, <1>6

\* A command is identified by its position in the order of submission.
Numbered == \A m \in DOMAIN hist : hist[m].id = m

LEMMA NextNumbered == TypeOK /\ Numbered /\ [Next]_vars => Numbered'
<1> SUFFICES ASSUME TypeOK, Numbered, [Next]_vars PROVE Numbered'
  OBVIOUS
<1>1. hist \in Seq(Commands)
  BY DEF TypeOK
<1>2. CASE hist' = hist
  BY <1>2 DEF Numbered
<1>3. ASSUME NEW op \in {"publish", "flush", "resume"}, NEW b \in Nat, Submit(op, b)
      PROVE  Numbered'
  <2> DEFINE cmd == [op |-> op, id |-> Len(hist) + 1, bytes |-> b]
  <2>1. hist' = Append(hist, cmd) /\ Len(hist) < MaxCmds
    BY <1>3 DEF Submit
  <2>2. cmd \in Commands /\ cmd.id = Len(hist) + 1
    BY <1>1, <2>1, SequentialAssumption DEF Commands, Ids
  <2> HIDE DEF cmd
  <2>3. \A m \in DOMAIN hist' : \/ m = Len(hist) + 1 /\ hist'[m] = cmd
                                \/ m \in DOMAIN hist /\ hist'[m] = hist[m]
    BY <1>1, <2>1, <2>2
  <2> QED BY <2>2, <2>3 DEF Numbered
<1>4. CASE Application
  BY <1>2, <1>3, <1>4, SequentialAssumption DEF Application, Close, client
<1>5. CASE Select \/ FlushAll \/ Rpc \/ Terminated \/ UNCHANGED vars
  <2>1. hist' = hist
    BY <1>5 DEF Select, FlushAll, Rpc, Terminated, vars, client, RpcDone, PausedPublish,
                PausedFlush, PausedResume, PausedClosed, JoinInflight, TimerFires,
                RecvPublish, RecvFlush, RecvResume, RecvClosed, StartFlushAll,
                FlushAllJoin, FlushAllLast
  <2> QED BY <2>1, <1>2
<1> QED BY <1>4, <1>5 DEF Next

RefinementInv == AllInv /\ PromiseInv /\ FlushInProgress /\ Numbered

\* What the abstract specification calls sent, inflight and unsent.
LEMMA PromiseIds ==
    /\ Promise!Ids = Ids /\ \A s : Promise!IdsOf(s) = IdsOf(s)
    /\ \A m : m \in Promise!SentIds <=> \E i \in DOMAIN sent : m \in IdsOf(sent[i])
<1>1. Promise!Ids = Ids /\ \A s : Promise!IdsOf(s) = IdsOf(s)
  BY DEF Promise!Ids, Ids, Promise!IdsOf, IdsOf
<1> QED BY <1>1 DEF Promise!SentIds

LEMMA InflightIsRunning ==
    ASSUME AllInv, PromiseInv
    PROVE  Promise!Inflight = Running
<1>1. TypeOK /\ LineInv /\ TaskInv /\ SentIsResolved
  BY DEF AllInv, IInv, PromiseInv
<1>2. \A m \in Promise!Inflight : m \in Running
  BY <1>1, PromiseIds DEF Promise!Inflight, SentIsResolved
<1>3. ASSUME NEW m \in Running PROVE m \in Promise!Inflight
  <2>1. inflight.status = "running" /\ m \in IdsOf(inflight.msgs)
    BY <1>3 DEF Running
  <2>2. inflight # NoTask
    BY <2>1 DEF NoTask
  <2>3. fut[m] = "waiting" /\ inflight.msgs = sent[Len(sent)] /\ sent # <<>>
    BY <1>1, <2>1, <2>2 DEF TaskInv
  <2>4. Len(sent) \in DOMAIN sent
    BY <1>1, <2>3 DEF TypeOK
  <2> QED BY <2>1, <2>3, <2>4, PromiseIds DEF Promise!Inflight
<1> QED BY <1>2, <1>3

\* Messages that are in order, unresolved and not sent, and that precede all
\* others without an outcome, are the beginning of the backlog.
LEMMA OldestUnresolved ==
    ASSUME TypeOK, NEW x \in Seq(Commands), Increasing(x), Unresolved(x), x # <<>>,
           \A i \in DOMAIN sent : \A m \in IdsOf(sent[i]) : Follows(m, x),
           \A m \in DOMAIN hist : hist[m].op = "publish" /\ fut[m] = "waiting" =>
               \/ m \in IdsOf(x)
               \/ \E i \in DOMAIN sent : m \in IdsOf(sent[i])
               \/ \A l \in DOMAIN x : x[l].id < m,
           \A m \in DOMAIN hist : hist[m].id = m
    PROVE  \E k \in 1..Len(Promise!Backlog) : SubSeq(Promise!Backlog, 1, k) = x
<1>1. hist \in Seq(Commands)
  BY DEF TypeOK
<1>2. \A l \in DOMAIN x : /\ x[l].id \in DOMAIN hist /\ x[l] = hist[x[l].id]
                          /\ Promise!Unsent(x[l])
  <2> SUFFICES ASSUME NEW l \in DOMAIN x
               PROVE  /\ x[l].id \in DOMAIN hist /\ x[l] = hist[x[l].id]
                      /\ Promise!Unsent(x[l])
    OBVIOUS
  <2>1. /\ x[l].id \in DOMAIN hist /\ x[l] = hist[x[l].id]
        /\ x[l].op = "publish" /\ fut[x[l].id] = "waiting"
    BY DEF Unresolved
  <2>2. \A i \in DOMAIN sent : x[l].id \notin IdsOf(sent[i])
    <3>1. x[l].id \in IdsOf(x)
      BY DEF IdsOf
    <3> QED BY <3>1, FollowsExcludes
  <2> QED BY <2>1, <2>2, PromiseIds DEF Promise!Unsent
<1>3. ASSUME NEW m \in DOMAIN hist, Promise!Unsent(hist[m])
      PROVE  m \in IdsOf(x) \/ \A l \in DOMAIN x : x[l].id < m
  <2>1. hist[m].op = "publish" /\ fut[m] = "waiting" /\ m \notin Promise!SentIds
    BY <1>3 DEF Promise!Unsent
  <2> QED BY <2>1, PromiseIds
<1>4. /\ Promise!Backlog \in Seq(Commands)
      /\ Len(x) <= Len(Promise!Backlog) /\ SubSeq(Promise!Backlog, 1, Len(x)) = x
  BY <1>1, <1>2, <1>3, OldestFirst
<1>5. Len(x) \in 1..Len(Promise!Backlog)
  BY <1>4
<1> QED BY <1>4, <1>5

\* A message without an outcome is in the queue, pending, in the batch or in the
\* request of the running task.
LEMMA WhereItWaits ==
    ASSUME AllInv, NEW m \in DOMAIN hist, hist[m].op = "publish", fut[m] = "waiting"
    PROVE  m \in IdsOf(rx) \cup IdsOf(pending_msgs) \cup IdsOf(batch) \cup Running
  BY DEF AllInv, BarrierInv, WaitingIsHeld, Held

\* Messages that precede a sequence precede what is in it.
LEMMA FollowsIds ==
    ASSUME NEW r, NEW s, Follows(r, s), NEW m \in IdsOf(s)
    PROVE  r < m
  BY DEF Follows, IdsOf

\* The futures and the request of the actor are those of the promise: a batch that
\* is sent is the beginning of the backlog, and may follow what failed.
LEMMA SendStep ==
    ASSUME RefinementInv, RefinementInv', NEW b \in Seq(Commands), Sends(b), Unresolved(b),
           Running = {}, UNCHANGED <<hist, fut, replied>>
    PROVE  Promise!Send
<1>1. /\ AllInv /\ AllInv' /\ PromiseInv /\ TypeOK /\ LineInv' /\ NoOvertake' /\ Numbered
      /\ sent \in Seq(Seq(Commands))
  BY DEF RefinementInv, AllInv, IInv, PromiseInv, TypeOK
<1>2. /\ b # <<>> /\ WithinLimits(b) /\ sent' = Append(sent, b) /\ batch' = <<>>
      /\ inflight' = [status |-> "running", msgs |-> b]
  BY DEF Sends
<1>3. /\ Len(sent) + 1 \in DOMAIN sent' /\ sent'[Len(sent) + 1] = b
      /\ \A i \in DOMAIN sent : i \in DOMAIN sent' /\ sent'[i] = sent[i] /\ i < Len(sent) + 1
  BY <1>1, <1>2
<1>4. Increasing(b)
  BY <1>1, <1>3 DEF LineInv, Line, InOrder
<1>5. \A i \in DOMAIN sent : Before(sent[i], b)
  BY <1>1, <1>3 DEF LineInv, Line, InOrder
<1>6. \A i \in DOMAIN sent : \A m \in IdsOf(sent[i]) : Follows(m, b)
  BY <1>5 DEF Before, Follows, IdsOf
<1>7. Before(b, pending_msgs') /\ Before(b, rx')
  BY <1>1, <1>3 DEF LineInv, Line
<1>8. Running' = IdsOf(b) /\ IdsOf(batch') = {}
  BY <1>2, EmptyIds DEF Running, IdsOf
<1>9. ASSUME NEW m \in DOMAIN hist, hist[m].op = "publish", fut[m] = "waiting"
      PROVE  m \in IdsOf(b) \/ \A l \in DOMAIN b : b[l].id < m
  <2>1. m \in IdsOf(rx') \cup IdsOf(pending_msgs') \cup IdsOf(batch') \cup Running'
    <3>1. (WaitingIsHeld)'
      BY <1>1 DEF AllInv, BarrierInv
    <3> QED BY <1>9, <3>1 DEF WaitingIsHeld, Held
  <2>2. ASSUME m \in IdsOf(rx') \cup IdsOf(pending_msgs')
        PROVE  \A l \in DOMAIN b : b[l].id < m
    BY <1>7, <2>2 DEF Before, IdsOf
  <2> QED BY <1>8, <2>1, <2>2
<1>10. PICK k \in 1..Len(Promise!Backlog) : SubSeq(Promise!Backlog, 1, k) = b
  BY <1>1, <1>2, <1>4, <1>6, <1>9, OldestUnresolved DEF Numbered
<1>11. ASSUME NEW m \in Ids, NEW n \in IdsOf(b), fut[m] \in Failures, m < n
       PROVE  \E r \in (m + 1)..(n - 1) : hist[r].op = "resume"
  <2>1. m \notin IdsOf(b)
    BY <1>11 DEF Unresolved, IdsOf, Failures
  <2>2. \E r \in (m + 1)..(n - 1) : hist'[r].op = "resume"
    BY <1>1, <1>3, <1>11, <2>1 DEF NoOvertake
  <2> QED BY <2>2
<1>12. \A m \in Promise!Ids, n \in Promise!IdsOf(b) : Promise!MayFollow(m, n)
  BY <1>11, PromiseIds DEF Promise!MayFollow, Promise!Failures, Failures
<1>13. Promise!Inflight = {}
  BY <1>1, InflightIsRunning
<1> QED BY <1>2, <1>10, <1>12, <1>13 DEF Promise!Send

\* Messages x that are rejected are the beginning of the backlog.
LEMMA RejectStep ==
    ASSUME RefinementInv, NEW x \in Seq(Commands), x # <<>>, Increasing(x), Unresolved(x),
           Running = {},
           \A i \in DOMAIN sent : \A m \in IdsOf(sent[i]) : Follows(m, x),
           \A m \in DOMAIN hist : hist[m].op = "publish" /\ fut[m] = "waiting" =>
               m \in IdsOf(x) \/ \A l \in DOMAIN x : x[l].id < m,
           NEW d \in Ids, fut[d] \in {"rpc", "shutdown"}, Follows(d, x),
           fut' = Rejected(IdsOf(x)), UNCHANGED <<hist, sent, replied>>
    PROVE  Promise!Reject
<1>1. AllInv /\ PromiseInv /\ TypeOK /\ Numbered
  BY DEF RefinementInv, AllInv, IInv
<1>2. PICK k \in 1..Len(Promise!Backlog) : SubSeq(Promise!Backlog, 1, k) = x
  BY <1>1, OldestUnresolved DEF Numbered
<1>3. ASSUME NEW n \in IdsOf(x) PROVE \E m \in 1..(n - 1) : fut[m] \in {"rpc", "shutdown"}
  <2>1. PICK l \in DOMAIN x : n = x[l].id
    BY DEF IdsOf
  <2>2. n \in Nat /\ d < n /\ d \in Nat \ {0}
    BY <2>1, ElemIsNat, FollowsIds DEF Ids
  <2>3. d \in 1..(n - 1)
    BY <2>2
  <2> QED BY <2>3
<1>4. Promise!Inflight = {}
  BY <1>1, InflightIsRunning
<1>5. /\ fut' = [i \in Promise!Ids |-> IF i \in Promise!IdsOf(x) THEN "paused" ELSE fut[i]]
      /\ Promise!IdsOf(x) = IdsOf(x)
  BY PromiseIds DEF Rejected
<1> QED BY <1>2, <1>3, <1>4, <1>5 DEF Promise!Reject

\* A paused key rejects the message at the head of the queue.
LEMMA RejectsStep ==
    ASSUME RefinementInv, Rejects, replied' = replied
    PROVE  Promise!Reject
<1>1. /\ AllInv /\ PromiseInv /\ IInv /\ TypeOK /\ LineInv /\ ResolvedIsBehind /\ PausedByFailure
  BY DEF RefinementInv, AllInv, IInv, PromiseInv
<1>2. paused /\ Taken /\ Head(rx).op = "publish" /\ fut' = Rejected({Head(rx).id})
        /\ UNCHANGED <<hist, sent>>
  BY DEF Rejects
<1>3. pending_msgs = <<>> /\ batch = <<>> /\ inflight = NoTask
  BY <1>1, <1>2, PausedHoldsNothing
<1>4. Running = {} /\ IdsOf(pending_msgs) = {} /\ IdsOf(batch) = {}
  BY <1>3, EmptyIds DEF Running, NoTask
<1>5. /\ Head(rx) \in Commands /\ 1 \in DOMAIN rx /\ Head(rx) = rx[1] /\ Head(rx).id \in Ids
      /\ \A i \in DOMAIN rx' : Head(rx).id < rx'[i].id
  BY <1>1, <1>2, HeadFacts
<1> DEFINE x == Append(pending_msgs, Head(rx))
<1>6. x \in Seq(Commands) /\ x # <<>> /\ DOMAIN x = {1} /\ x[1] = Head(rx)
  BY <1>3, <1>5
<1>7. Unresolved(x)
  BY <1>1, <1>2, HeadIsUnresolved
<1> HIDE DEF x
<1>8. IdsOf(x) = {Head(rx).id} /\ Increasing(x)
  BY <1>5, <1>6 DEF IdsOf, Increasing
<1>9. \A r : Follows(r, rx) => Follows(r, x)
  BY <1>5, <1>6 DEF Follows
<1>10. \A i \in DOMAIN sent : \A m \in IdsOf(sent[i]) : Follows(m, x)
  BY <1>1, <1>9, SentPrecedes
<1>11. ASSUME NEW m \in DOMAIN hist, hist[m].op = "publish", fut[m] = "waiting"
       PROVE  m \in IdsOf(x) \/ \A l \in DOMAIN x : x[l].id < m
  <2>1. m \in IdsOf(rx)
    BY <1>1, <1>4, <1>11, WhereItWaits
  <2>2. rx \in Seq(Commands) /\ rx # <<>> /\ rx' = Tail(rx)
    BY <1>1, <1>2 DEF TypeOK, Taken
  <2>3. CASE m # Head(rx).id
    <3>1. m \in IdsOf(Tail(rx))
      BY <2>1, <2>2, <2>3, HeadTailIds
    <3>2. Head(rx).id < m
      BY <1>5, <2>2, <3>1 DEF IdsOf
    <3> QED BY <1>6, <3>2
  <2> QED BY <1>8, <2>3
<1>12. PICK d \in Ids : fut[d] \in {"rpc", "shutdown"}
  BY <1>1, <1>2 DEF PausedByFailure
<1>13. Follows(d, x)
  <2>1. fut[d] # "waiting"
    BY <1>12
  <2> QED BY <1>1, <1>9, <2>1 DEF ResolvedIsBehind, Follows
<1> QED BY <1>2, <1>4, <1>6, <1>7, <1>8, <1>10, <1>11, <1>12, <1>13, RejectStep

\* A failed task rejects what is pending.
LEMMA PausesStep ==
    ASSUME RefinementInv, Pauses, replied' = replied
    PROVE  Promise!Reject \/ UNCHANGED <<hist, fut, replied, sent>>
<1>1. /\ AllInv /\ PromiseInv /\ IInv /\ TypeOK /\ LineInv /\ TaskInv /\ HeldIsUnresolved
      /\ BatchEmptyWhileInflight
  BY DEF RefinementInv, AllInv, IInv, PromiseInv
<1>2. JoinFailed /\ fut' = Rejected(IdsOf(pending_msgs)) /\ UNCHANGED <<hist, sent>>
  BY DEF Pauses
<1>3. inflight # NoTask /\ inflight.status # "running"
  BY <1>2 DEF JoinFailed, NoTask
<1>4. Running = {} /\ IdsOf(batch) = {} /\ pending_msgs \in Seq(Commands)
  BY <1>1, <1>3, EmptyIds DEF Running, BatchEmptyWhileInflight, TypeOK
<1>5. CASE pending_msgs = <<>>
  <2>1. fut' = fut
    BY <1>1, <1>2, <1>5, EmptyIds DEF Rejected, TypeOK
  <2> QED BY <1>2, <2>1
<1>6. CASE pending_msgs # <<>>
  <2>1. Increasing(pending_msgs) /\ Unresolved(pending_msgs)
    BY <1>1 DEF LineInv, Line, HeldIsUnresolved
  <2>2. \A i \in DOMAIN sent : \A m \in IdsOf(sent[i]) : Follows(m, pending_msgs)
    BY <1>1, SentPrecedes
  <2>3. ASSUME NEW m \in DOMAIN hist, hist[m].op = "publish", fut[m] = "waiting"
        PROVE  m \in IdsOf(pending_msgs) \/ \A l \in DOMAIN pending_msgs : pending_msgs[l].id < m
    <3>1. m \in IdsOf(rx) \cup IdsOf(pending_msgs)
      BY <1>1, <1>4, <2>3, WhereItWaits
    <3>2. m \in IdsOf(rx) => \A l \in DOMAIN pending_msgs : pending_msgs[l].id < m
      BY <1>1, HeldPrecedes, FollowsIds
    <3> QED BY <3>1, <3>2
  <2>4. PICK d \in IdsOf(inflight.msgs) : TRUE
    <3>1. inflight.msgs # <<>> /\ inflight.msgs \in Seq(Commands)
      BY <1>1, <1>3 DEF TaskInv, TypeOK
    <3>2. inflight.msgs[1].id \in IdsOf(inflight.msgs)
      BY <3>1 DEF IdsOf
    <3> QED BY <3>2
  <2>5. d \in Ids /\ fut[d] \in {"rpc", "shutdown"} /\ Follows(d, pending_msgs)
    BY <1>1, <1>2, <1>3, TaskPrecedes DEF TaskInv
  <2>6. Promise!Reject
    BY <1>2, <1>4, <1>6, <2>1, <2>2, <2>3, <2>5, RejectStep
  <2> QED BY <2>6
<1> QED BY <1>5, <1>6

\* The running task resolves its request.
LEMMA EndsStep ==
    ASSUME RefinementInv, NEW o \in {"ok", "err", "panic"}, Ends(o), replied' = replied
    PROVE  Promise!Resolve
<1>1. AllInv /\ PromiseInv /\ TypeOK /\ TaskInv
  BY DEF RefinementInv, AllInv, IInv, PromiseInv
<1>2. /\ inflight.status = "running" /\ UNCHANGED <<hist, sent>>
      /\ fut' = [i \in Ids |-> IF i \in IdsOf(inflight.msgs) THEN FutureOf(o) ELSE fut[i]]
  BY DEF Ends
<1>3. inflight # NoTask
  BY <1>2 DEF NoTask
<1>4. Promise!Inflight = IdsOf(inflight.msgs)
  BY <1>1, <1>2, InflightIsRunning DEF Running
<1>5. inflight.msgs # <<>> /\ inflight.msgs \in Seq(Commands)
  BY <1>1, <1>3 DEF TaskInv, TypeOK
<1>6. inflight.msgs[1].id \in IdsOf(inflight.msgs)
  BY <1>5 DEF IdsOf
<1>7. FutureOf(o) \in {"ok", "rpc", "shutdown"}
  BY DEF FutureOf
<1>8. fut' = [i \in Promise!Ids |-> IF i \in Promise!Inflight THEN FutureOf(o) ELSE fut[i]]
  BY <1>2, <1>4, PromiseIds
<1> QED BY <1>2, <1>4, <1>6, <1>7, <1>8 DEF Promise!Resolve

\* A join or a received message may send the batch.
LEMMA MovesStep ==
    ASSUME RefinementInv, RefinementInv', Fills \/ Joins, replied' = replied
    PROVE  Promise!Send \/ UNCHANGED <<hist, fut, replied, sent>>
<1>1. AllInv /\ PromiseInv /\ HeldIsUnresolved
  BY DEF RefinementInv, PromiseInv
<1>2. hist' = hist /\ fut' = fut
  BY DEF Fills, Joins
<1>3. Running = {}
  BY DEF Fills, Joins, Joinable, Running, NoTask
<1>4. \E p : Moves(p) /\ Unresolved(p)
  <2>1. CASE Fills
    BY <1>1, <2>1, HeadIsUnresolved DEF Fills
  <2>2. CASE Joins
    BY <1>1, <2>2 DEF Joins, HeldIsUnresolved
  <2> QED BY <2>1, <2>2
<1>5. \/ \E b \in Seq(Commands) : Sends(b) /\ Unresolved(b)
      \/ sent' = sent
  BY <1>1, <1>2, <1>4, MovesUnresolved DEF HeldIsUnresolved
<1> QED BY <1>2, <1>3, <1>5, SendStep

\* An answered Flush.
LEMMA ReplyStep ==
    ASSUME RefinementInv, [Next]_vars, replied' # replied
    PROVE  Promise!Reply
<1>1. /\ AllInv /\ IInv /\ TypeOK /\ LastIsDrained /\ QueueIsHistory /\ FlushPrecedesQueue
      /\ FlushInProgress
  BY DEF RefinementInv, AllInv, IInv, BarrierInv
<1>2. PausedFlush \/ FlushAllLast
  <2>1. CASE Application \/ Rpc \/ Terminated \/ UNCHANGED vars
    BY <2>1 DEF Application, Submit, Close, Rpc, RpcDone, Terminated, vars, client
  <2>2. CASE PausedPublish \/ PausedResume \/ PausedClosed \/ JoinInflight \/ TimerFires
               \/ RecvPublish \/ RecvFlush \/ RecvResume \/ RecvClosed \/ FlushAllJoin
    BY <2>2 DEF PausedPublish, PausedResume, PausedClosed, JoinInflight, TimerFires,
                RecvPublish, RecvFlush, RecvResume, RecvClosed, StartFlushAll, FlushAllJoin,
                client
  <2> QED BY <2>1, <2>2 DEF Next, Select, FlushAll
<1>3. \E f : replied' = replied \cup {f} /\ hist[f].op = "flush"
  <2>1. CASE PausedFlush
    <3>1. Recv("flush") /\ replied' = replied \cup {Head(rx).id}
      BY <2>1 DEF PausedFlush
    <3>2. hist[Head(rx).id].op = "flush"
      BY <1>1, <3>1, RecvHolds
    <3> QED BY <3>1, <3>2
  <2>2. CASE FlushAllLast
    <3>1. cont.kind = "flush" /\ replied' = replied \cup {cont.tx}
      BY <2>2 DEF FlushAllLast
    <3> QED BY <1>1, <3>1 DEF FlushInProgress
  <2> QED BY <1>2, <2>1, <2>2
<1>4. PICK f : replied' = replied \cup {f} /\ hist[f].op = "flush"
  BY <1>3
<1>5. f \in replied' \ replied
  BY <1>4
<1>6. /\ f \in DOMAIN hist
      /\ \A m \in 1..(f - 1) : hist[m].op = "publish" => fut[m] # "waiting"
  BY <1>1, <1>5, AnswerIsBarrier
<1>7. UNCHANGED <<hist, fut, sent>>
  <2>1. CASE PausedFlush
    BY <2>1 DEF PausedFlush
  <2>2. CASE FlushAllLast
    <3>1. handle_inflight_join /\ pending_msgs = <<>> /\ UNCHANGED <<hist, sent>>
      BY <1>1, <2>2 DEF FlushAllLast, LastIsDrained
    <3>2. fut' = fut
      BY <1>1, <3>1, EmptyIds DEF handle_inflight_join, Rejected, TypeOK
    <3> QED BY <3>1, <3>2
  <2> QED BY <1>2, <2>1, <2>2
<1> QED BY <1>4, <1>5, <1>6, <1>7 DEF Promise!Reply

\* The application submits to the actor as it submits to the key.
LEMMA SubmitStep ==
    ASSUME Application
    PROVE  Promise!Submit \/ UNCHANGED <<hist, fut, replied, sent>>
<1>1. ASSUME NEW op \in {"publish", "flush", "resume"}, NEW b \in MsgBytes \cup {0}, Submit(op, b)
      PROVE  Promise!Submit
  <2>1. /\ Len(hist) < MaxCmds /\ UNCHANGED <<fut, replied, sent>>
        /\ hist' = Append(hist, [op |-> op, id |-> Len(hist) + 1, bytes |-> b])
    BY <1>1 DEF Submit
  <2> QED BY <2>1 DEF Promise!Submit
<1>2. CASE Close
  BY <1>2 DEF Close, client
<1> QED BY <1>1, <1>2 DEF Application

\* Every step of the actor and of its environment is a step of the promise, or
\* cannot be seen from outside.
LEMMA StepRefines ==
    ASSUME RefinementInv, RefinementInv', [Next]_vars
    PROVE  [Promise!Next]_(Promise!vars)
<1>1. IInv /\ Open(batch)
  BY DEF RefinementInv, AllInv, PromiseInv
<1>2. CASE replied' # replied
  BY <1>2, ReplyStep DEF Promise!Next
<1>3. CASE Application
  BY <1>3, SubmitStep DEF Promise!Next, Promise!vars
<1>4. CASE replied' = replied /\ ~Application
  <2>1. CASE Submits
    <3>1. rx' # rx /\ hist' # hist
      BY <1>1, <2>1 DEF Submits, IInv, TypeOK
    <3>2. hist' = hist
      BY <1>4 DEF Next, Select, FlushAll, Rpc, Terminated, vars, client, RpcDone, PausedPublish,
                PausedFlush, PausedResume, PausedClosed, JoinInflight, TimerFires,
                RecvPublish, RecvFlush, RecvResume, RecvClosed, StartFlushAll,
                FlushAllJoin, FlushAllLast
    <3> QED BY <3>1, <3>2
  <2>2. CASE Passes \/ Resumes \/ Queues
    BY <1>4, <2>2 DEF Passes, Resumes, Queues, messages, Promise!vars
  <2>3. CASE Fills \/ Joins
    BY <1>4, <2>3, MovesStep DEF Promise!Next, Promise!vars
  <2>4. CASE Rejects
    BY <1>4, <2>4, RejectsStep DEF Promise!Next
  <2>5. CASE Pauses
    BY <1>4, <2>5, PausesStep DEF Promise!Next, Promise!vars
  <2>6. ASSUME NEW o \in {"ok", "err", "panic"}, Ends(o) PROVE Promise!Next
    BY <1>4, <2>6, EndsStep DEF Promise!Next
  <2> QED BY <1>1, <2>1, <2>2, <2>3, <2>4, <2>5, <2>6, Shapes
<1> QED BY <1>2, <1>3, <1>4

\* Seen from outside, the actor with its queue, batch, timer and RPC task does what
\* an ordering key promises (OrderingKey), and nothing else: one request at a time,
\* the oldest messages first, within the batching options, nothing after a failure
\* before a Resume, rejections only of the oldest messages after a failure, and a
\* Flush that returns only when everything before it has its outcome.
THEOREM ActorKeepsPromise == Spec => ImplementsOrderingKey
<1>1. Init => Promise!Init
  BY DEF Init, Promise!Init, Promise!Ids, Ids
<1>2. Init => FlushInProgress /\ Numbered
  BY DEF Init, FlushInProgress, Numbered, Idle
<1>3. AllInv /\ FlushInProgress /\ Numbered /\ [Next]_vars => FlushInProgress' /\ Numbered'
  BY NextFlushInProgress, NextNumbered DEF AllInv, IInv
<1>4. AllInv <=> IInv /\ LineInv /\ BarrierInv
  BY DEF AllInv
<1>5. RefinementInv <=> AllInv /\ PromiseInv /\ FlushInProgress /\ Numbered
  BY DEF RefinementInv
<1>6. Spec => []RefinementInv
  BY <1>2, <1>3, <1>4, <1>5, Invariance, LineInvariance, BarrierInvariance,
     PromiseInvariance, PTL DEF Spec
<1>7. RefinementInv /\ RefinementInv' /\ [Next]_vars => [Promise!Next]_(Promise!vars)
  BY StepRefines
<1> QED BY <1>1, <1>6, <1>7, PTL DEF Spec, ImplementsOrderingKey, Promise!Spec
=============================================================================
