--------------------------- MODULE PublisherProofs ---------------------------
(***************************************************************************)
(* Proofs about the whole publisher, for every number of commands, every   *)
(* set of message sizes and every batching option: a flush covers every    *)
(* key, nothing overtakes a failed message of the ordering key, and a      *)
(* graceful shutdown loses nothing.                                        *)
(***************************************************************************)
EXTENDS Publisher, SequenceTheorems, TLAPS

Cmds == [op : {"publish", "flush", "resume"}, key : Keys, id : Ids, bytes : Nat]
Cmd  == [op : {"publish", "flush", "resume"}, id : Ids, bytes : Nat]

IdsOf(s)      == {s[i].id : i \in DOMAIN s}
Increasing(s) == \A i, j \in DOMAIN s : i < j => s[i].id < s[j].id
Precede(A, B) == \A a \in A, b \in B : a < b

\* The messages of a key, of those submitted so far.
MessagesOf(key) == {m \in DOMAIN hist : hist[m].op = "publish" /\ hist[m].key = key}

-----------------------------------------------------------------------------
(***************************************************************************)
(* The Dispatcher and its queue.                                           *)
(***************************************************************************)
HistoryInv ==
    /\ hist \in Seq(Cmds) /\ Len(hist) <= MaxCmds
    /\ \A m \in DOMAIN hist : hist[m].id = m
    /\ \A m \in Ids : fut[m] # "waiting" => m \in MessagesOf("key") \cup MessagesOf("")

DispatchQueueInv ==
    /\ drx \in Seq(Cmds) /\ Increasing(drx)
    /\ \A i \in DOMAIN drx : drx[i].id \in DOMAIN hist /\ drx[i] = hist[drx[i].id]

PhaseInv ==
    /\ dpc # "run" => drx = <<>>
    /\ dpc \in {"wait", "stopped"} => ~alive

\* A message that was dispatched has an actor.
DispatchedInv ==
    dpc # "aborted" => \A key \in Keys : MessagesOf(key) \subseteq IdsOf(drx)
                                          \/ key \in actors

\* A flush that was dispatched waits for the actor of every message before it.
WaitersInv ==
    \A f \in IdsWith(hist, "flush") \ abandoned :
        \/ f \in IdsOf(drx)
        \/ \A key \in Keys : \A m \in MessagesOf(key) :
              m < f => fut[m] # "waiting" \/ key \in waiters[f]

ReturnedInv == returned \subseteq DOMAIN hist /\ FlushCoversEveryKey

DispatcherInv ==
    /\ TypeOK /\ HistoryInv /\ DispatchQueueInv /\ PhaseInv
    /\ DispatchedInv /\ WaitersInv /\ ReturnedInv

-----------------------------------------------------------------------------
(***************************************************************************)
(* What both actors have in common.                                        *)
(***************************************************************************)
\* The queue s of the actor of key: commands as they were submitted, in order,
\* ahead of what the Dispatcher still has.
QueueOf(s, key) ==
    /\ s \in Seq(Cmd) /\ Increasing(s) /\ Precede(IdsOf(s), IdsOf(drx))
    /\ \A i \in DOMAIN s :
          /\ s[i].id \in DOMAIN hist /\ s[i].op = hist[s[i].id].op
          /\ s[i].op # "flush" => hist[s[i].id].key = key

\* A message without an outcome is queued or in the hands of the actor of its key.
HeldOrQueued(key, held) ==
    \A m \in MessagesOf(key) : fut[m] = "waiting" => m \in IdsOf(drx) \cup held

\* The flushes an actor answered came after no message that waits.
Barrier(key, replies) ==
    /\ replies \subseteq DOMAIN hist
    /\ \A f \in replies : \A m \in MessagesOf(key) : m < f => fut[m] # "waiting"

\* The flush an actor works on came before all that is queued.
InProgress(f, s) == f \in DOMAIN hist /\ Precede({f}, IdsOf(s) \cup IdsOf(drx))

\* A message tells the outcome of a request only if it was in one.
SentIds(s) == UNION {IdsOf(s[i]) : i \in DOMAIN s}
Told(key, s) ==
    dpc # "aborted" /\ pcC # "dead" =>
        \A m \in MessagesOf(key) : fut[m] \in {"ok", "rpc", "shutdown"} => m \in SentIds(s)

-----------------------------------------------------------------------------
(***************************************************************************)
(* The actor of the ordering key.                                          *)
(***************************************************************************)
OrderedTasks == [status : {"none", "running", "ok", "err", "panic"}, msgs : Seq(Cmd)]

OrderedType ==
    /\ pending_msgs \in Seq(Cmd) /\ batchS \in Seq(Cmd) /\ sentS \in Seq(Seq(Cmd))
    /\ paused \in BOOLEAN
    /\ inflightS \in OrderedTasks
    /\ inflightS.status = "none" => inflightS = S!NoTask
    /\ pcS \in {"select", "join", "last", "done"}
    /\ contS \in [kind : {"none", "timer", "flush", "stop"}, tx : 0..MaxCmds]

\* What the actor can rely on where it stands.
OrderedLocal ==
    /\ inflightS # S!NoTask => batchS = <<>>
    /\ pcS = "last" => pending_msgs = <<>> /\ batchS = <<>>
    /\ paused => /\ pcS # "join"
                 /\ pending_msgs = <<>> /\ batchS = <<>> /\ inflightS = S!NoTask
    /\ pcS = "done" => /\ rxS = <<>> /\ pending_msgs = <<>> /\ batchS = <<>>
                       /\ inflightS = S!NoTask
    /\ contS.kind = "flush" => InProgress(contS.tx, rxS)

\* The Dispatcher drops its sender only when it sends no more.
ClosedS ==
    /\ openS \/ dpc # "run"
    /\ contS.kind = "stop" => rxS = <<>> /\ dpc # "run"

Running == IF inflightS.status = "running" THEN IdsOf(inflightS.msgs) ELSE {}
Kept    == IdsOf(pending_msgs) \cup IdsOf(batchS)
HeldS   == IdsOf(rxS) \cup Kept \cup Running

\* The messages leave in the order in which they were published.
OrderedLine ==
    /\ Kept \subseteq MessagesOf("key")
    /\ Increasing(pending_msgs) /\ Precede(IdsOf(batchS), IdsOf(pending_msgs))
    /\ Precede(Kept, IdsOf(rxS) \cup IdsOf(drx))
    /\ \A i \in DOMAIN sentS :
          /\ IdsOf(sentS[i]) \subseteq MessagesOf("key")
          /\ Precede(IdsOf(sentS[i]), Kept \cup IdsOf(rxS) \cup IdsOf(drx))
    /\ \A i, j \in DOMAIN sentS : i < j => Precede(IdsOf(sentS[i]), IdsOf(sentS[j]))
    /\ inflightS # S!NoTask => sentS # <<>> /\ inflightS.msgs = sentS[Len(sentS)]

OrderedInv ==
    /\ OrderedType /\ QueueOf(rxS, "key") /\ OrderedLocal /\ ClosedS
    /\ OrderedLine
    /\ HeldOrQueued("key", HeldS) /\ Barrier("key", repliedS) /\ Told("key", sentS)

(***************************************************************************)
(* Why nothing overtakes a failed message m of the key: the key is paused, *)
(* or will be when the failed task is joined, or between m and all that    *)
(* may still be sent after it the application resumed the key.             *)
(***************************************************************************)
ResumedBetween(m, n) ==
    \E r \in (m + 1)..(n - 1) : hist[r].op = "resume" /\ hist[r].key = "key"

Queued == IdsOf(rxS) \cup IdsOf(drx) \cup (IF dpc = "run" THEN {Len(hist) + 1} ELSE {})
Ahead  == Kept \cup Queued

Joining(m) == inflightS.status \in {"err", "panic"} /\ m \in IdsOf(inflightS.msgs)
Covered(m) == \A n \in Ahead : m < n => ResumedBetween(m, n)

Failed == {m \in MessagesOf("key") : fut[m] \in {"rpc", "paused", "shutdown"}}

\* A message that has an outcome was received before all that is queued, or was
\* dropped by the Dispatcher after all of it.
ReceivedOrDropped ==
    \A m \in Failed : Precede({m}, Queued) \/ Precede(Ahead, {m})

FailureInv == \A m \in Failed : paused \/ Joining(m) \/ Covered(m)

KeyInv == ReceivedOrDropped /\ FailureInv /\ KeyOrderSurvivesFailure

-----------------------------------------------------------------------------
(***************************************************************************)
(* The actor of the messages without a key.                                *)
(***************************************************************************)
UnorderedTasks == [status : {"running", "aborting", "ok", "err", "panic"}, msgs : Seq(Cmd)]

Live == {t \in inflightC : t.status \in {"running", "aborting"}}
HeldC == IdsOf(rxC) \cup IdsOf(batchC) \cup UNION {IdsOf(t.msgs) : t \in Live}

UnorderedType ==
    /\ batchC \in Seq(Cmd) /\ sentC \in Seq(Seq(Cmd)) /\ inflightC \subseteq UnorderedTasks
    /\ pcC \in {"select", "join", "done", "dead"} /\ contC \in 0..MaxCmds

UnorderedLocal ==
    /\ pcC # "select" => batchC = <<>>
    /\ pcC \in {"done", "dead"} => rxC = <<>>
    /\ pcC = "done" => inflightC = {}
    /\ pcC # "dead" => \A t \in inflightC : t.status # "aborting"
    /\ pcC = "join" /\ contC # 0 => InProgress(contC, rxC)

ClosedC ==
    /\ openC \/ dpc # "run"
    /\ pcC = "join" /\ contC = 0 => rxC = <<>> /\ dpc # "run"

UnorderedLine ==
    /\ IdsOf(batchC) \subseteq MessagesOf("")
    /\ SentIds(sentC) \subseteq MessagesOf("")
    /\ \A t \in inflightC : IdsOf(t.msgs) \subseteq SentIds(sentC)

UnorderedInv ==
    /\ UnorderedType /\ QueueOf(rxC, "") /\ UnorderedLocal /\ ClosedC
    /\ UnorderedLine
    /\ HeldOrQueued("", HeldC) /\ Barrier("", repliedC) /\ Told("", sentC)

IInv == DispatcherInv /\ OrderedInv /\ KeyInv /\ UnorderedInv

-----------------------------------------------------------------------------
(***************************************************************************)
(* Sequences of commands and the numbers in them.                          *)
(***************************************************************************)
\* What has a number.
Numbered(T) == \A c \in T : c.id \in Nat

\* Commands are numbered by their position in the history.
LEMMA CommandsNumbered == Numbered(Cmds) /\ Numbered(Cmd) /\ Ids \subseteq Nat
  BY PublisherAssumption DEF Numbered, Cmds, Cmd, Ids

\* The numbers of the elements, of an empty sequence and of a longer one.
LEMMA ElemIds ==
    ASSUME NEW T, NEW s \in Seq(T), NEW i \in DOMAIN s
    PROVE  s[i] \in T /\ s[i].id \in IdsOf(s)
  BY DEF IdsOf

\* The empty queue names no command and is in order.
LEMMA EmptyIds == IdsOf(<<>>) = {} /\ Increasing(<<>>)
  BY DEF IdsOf, Increasing

\* The elements of an extended sequence.
LEMMA AppendElems ==
    ASSUME NEW T, NEW s \in Seq(T), NEW c \in T
    PROVE  /\ Append(s, c) \in Seq(T) /\ Append(s, c) # <<>>
           /\ Len(Append(s, c)) = Len(s) + 1 /\ Len(s) \in Nat
           /\ \A i \in DOMAIN Append(s, c) :
                \/ i \in DOMAIN s /\ Append(s, c)[i] = s[i]
                \/ i = Len(s) + 1 /\ Append(s, c)[i] = c
           /\ \A i \in DOMAIN s : /\ i \in DOMAIN Append(s, c) /\ Append(s, c)[i] = s[i]
                                  /\ i \in Nat /\ i < Len(s) + 1
           /\ Len(s) + 1 \in DOMAIN Append(s, c) /\ Append(s, c)[Len(s) + 1] = c
  OBVIOUS

\* A sequence extended by one command names that command besides.
LEMMA AppendIds ==
    ASSUME NEW T, NEW s \in Seq(T), NEW c \in T
    PROVE  /\ Append(s, c) \in Seq(T) /\ Append(s, c) # <<>>
           /\ IdsOf(Append(s, c)) = IdsOf(s) \cup {c.id}
           /\ \A i \in DOMAIN Append(s, c) :
                \/ i \in DOMAIN s /\ Append(s, c)[i] = s[i]
                \/ i = Len(s) + 1 /\ Append(s, c)[i] = c
           /\ \A i \in DOMAIN s : i \in DOMAIN Append(s, c) /\ Append(s, c)[i] = s[i]
           /\ Len(s) + 1 \in DOMAIN Append(s, c) /\ Append(s, c)[Len(s) + 1] = c
<1> DEFINE a == Append(s, c)
<1>1. /\ a \in Seq(T) /\ a # <<>>
      /\ \A i \in DOMAIN a : \/ i \in DOMAIN s /\ a[i] = s[i]
                             \/ i = Len(s) + 1 /\ a[i] = c
      /\ \A i \in DOMAIN s : i \in DOMAIN a /\ a[i] = s[i]
      /\ Len(s) + 1 \in DOMAIN a /\ a[Len(s) + 1] = c
  OBVIOUS
<1> HIDE DEF a
<1>2. IdsOf(a) \subseteq IdsOf(s) \cup {c.id}
  BY <1>1 DEF IdsOf
<1>3. IdsOf(s) \cup {c.id} \subseteq IdsOf(a)
  BY <1>1 DEF IdsOf
<1> QED BY <1>1, <1>2, <1>3 DEF a

\* A queue that is extended by what follows it stays in order.
LEMMA AppendIncreasing ==
    ASSUME NEW T, Numbered(T), NEW s \in Seq(T), NEW c \in T,
           Increasing(s), Precede(IdsOf(s), {c.id})
    PROVE  Increasing(Append(s, c))
<1> DEFINE a == Append(s, c)
<1>1. /\ \A i \in DOMAIN a : \/ i \in DOMAIN s /\ a[i] = s[i]
                             \/ i = Len(s) + 1 /\ a[i] = c
      /\ \A i \in DOMAIN s : i \in Nat /\ i < Len(s) + 1 /\ s[i].id \in IdsOf(s)
      /\ Len(s) \in Nat
  BY AppendIds, ElemIds
<1> HIDE DEF a
<1>2. Increasing(a)
  <2> SUFFICES ASSUME NEW i \in DOMAIN a, NEW j \in DOMAIN a, i < j
               PROVE  a[i].id < a[j].id
    BY DEF Increasing
  <2>1. i \in DOMAIN s /\ a[i] = s[i]
    BY <1>1
  <2> QED BY <1>1, <2>1 DEF Increasing, Precede
<1> QED BY <1>2 DEF a

\* The head of a queue and what is left.
LEMMA TailIds ==
    ASSUME NEW T, Numbered(T), NEW s \in Seq(T), s # <<>>
    PROVE  /\ Head(s) \in T /\ Tail(s) \in Seq(T)
           /\ 1 \in DOMAIN s /\ Head(s) = s[1]
           /\ IdsOf(s) = {Head(s).id} \cup IdsOf(Tail(s))
           /\ \A i \in DOMAIN Tail(s) : i + 1 \in DOMAIN s /\ Tail(s)[i] = s[i + 1]
           /\ Increasing(s) => /\ Increasing(Tail(s))
                               /\ Precede({Head(s).id}, IdsOf(Tail(s)))
<1> DEFINE t == Tail(s)
<1>1. /\ Head(s) \in T /\ t \in Seq(T) /\ Len(t) = Len(s) - 1 /\ Head(s) = s[1]
      /\ Len(s) \in Nat /\ Len(s) # 0
  BY HeadTailProperties
<1>2. /\ 1 \in DOMAIN s
      /\ \A i \in DOMAIN t : i \in Nat /\ i + 1 \in DOMAIN s /\ t[i] = s[i + 1] /\ 1 < i + 1
      /\ \A i \in DOMAIN s : i # 1 => i - 1 \in DOMAIN t /\ t[i - 1] = s[i]
  BY <1>1
<1> HIDE DEF t
<1>3. IdsOf(s) \subseteq {Head(s).id} \cup IdsOf(t)
  <2> SUFFICES ASSUME NEW i \in DOMAIN s, i # 1 PROVE s[i].id \in IdsOf(t)
    BY <1>1 DEF IdsOf
  <2>1. i - 1 \in DOMAIN t /\ t[i - 1] = s[i]
    BY <1>2
  <2> QED BY <2>1 DEF IdsOf
<1>4. {Head(s).id} \cup IdsOf(t) \subseteq IdsOf(s)
  BY <1>1, <1>2 DEF IdsOf
<1>5. ASSUME Increasing(s) PROVE Increasing(t) /\ Precede({Head(s).id}, IdsOf(t))
  <2>1. \A i \in DOMAIN t : Head(s).id < t[i].id
    BY <1>1, <1>2, <1>5 DEF Increasing
  <2>2. ASSUME NEW i \in DOMAIN t, NEW j \in DOMAIN t, i < j PROVE t[i].id < t[j].id
    <3>1. i + 1 \in DOMAIN s /\ j + 1 \in DOMAIN s /\ i + 1 < j + 1
      BY <1>2, <2>2
    <3> QED BY <1>2, <1>5, <3>1 DEF Increasing
  <2> QED BY <2>1, <2>2 DEF Increasing, Precede, IdsOf
<1> QED BY <1>1, <1>2, <1>3, <1>4, <1>5 DEF t

\* Messages moved from the front of p to the end of b.
LEMMA MovedIds ==
    ASSUME NEW T, Numbered(T), NEW b \in Seq(T), NEW p \in Seq(T), NEW n \in 0..Len(p)
    PROVE  LET a == b \o SubSeq(p, 1, n)
               q == SubSeq(p, n + 1, Len(p))
           IN  /\ a \in Seq(T) /\ q \in Seq(T)
               /\ IdsOf(a) \cup IdsOf(q) = IdsOf(b) \cup IdsOf(p)
               /\ Increasing(p) => Increasing(q)
               /\ Increasing(p) /\ Precede(IdsOf(b), IdsOf(p)) => Precede(IdsOf(a), IdsOf(q))
<1> DEFINE x == SubSeq(p, 1, n)
           a == b \o x
           q == SubSeq(p, n + 1, Len(p))
<1>1. /\ x \in Seq(T) /\ q \in Seq(T) /\ Len(x) = n /\ Len(p) \in Nat /\ n \in Nat
      /\ \A i \in DOMAIN x : i \in DOMAIN p /\ x[i] = p[i] /\ i <= n /\ i \in Nat
      /\ \A i \in DOMAIN q : i + n \in DOMAIN p /\ q[i] = p[i + n] /\ i + n > n /\ i \in Nat
      /\ \A i \in DOMAIN p : \/ i \in DOMAIN x /\ x[i] = p[i]
                             \/ i - n \in DOMAIN q /\ q[i - n] = p[i]
  OBVIOUS
<1> HIDE DEF x, q
<1>2. /\ a \in Seq(T)
      /\ \A i \in DOMAIN a : \/ i \in DOMAIN b /\ a[i] = b[i]
                             \/ i - Len(b) \in DOMAIN x /\ a[i] = x[i - Len(b)]
      /\ \A i \in DOMAIN b : i \in DOMAIN a /\ a[i] = b[i]
      /\ \A i \in DOMAIN x : i + Len(b) \in DOMAIN a /\ a[i + Len(b)] = x[i]
  BY <1>1
<1> HIDE DEF a
<1>3. IdsOf(a) = IdsOf(b) \cup IdsOf(x)
  <2>1. IdsOf(a) \subseteq IdsOf(b) \cup IdsOf(x)
    BY <1>2 DEF IdsOf
  <2>2. IdsOf(b) \subseteq IdsOf(a)
    BY <1>2 DEF IdsOf
  <2>3. IdsOf(x) \subseteq IdsOf(a)
    BY <1>2 DEF IdsOf
  <2> QED BY <2>1, <2>2, <2>3
<1>4. IdsOf(p) = IdsOf(x) \cup IdsOf(q)
  <2>1. IdsOf(p) \subseteq IdsOf(x) \cup IdsOf(q)
    BY <1>1 DEF IdsOf
  <2>2. IdsOf(x) \cup IdsOf(q) \subseteq IdsOf(p)
    BY <1>1 DEF IdsOf
  <2> QED BY <2>1, <2>2
<1>5. ASSUME Increasing(p) PROVE Increasing(q) /\ Precede(IdsOf(x), IdsOf(q))
  <2>1. ASSUME NEW i \in DOMAIN q, NEW j \in DOMAIN q, i < j PROVE q[i].id < q[j].id
    <3>1. i + n \in DOMAIN p /\ j + n \in DOMAIN p /\ i + n < j + n
      BY <1>1, <2>1
    <3> QED BY <1>1, <1>5, <3>1 DEF Increasing
  <2>2. ASSUME NEW i \in DOMAIN x, NEW j \in DOMAIN q PROVE x[i].id < q[j].id
    <3>1. i \in DOMAIN p /\ j + n \in DOMAIN p /\ i < j + n
      BY <1>1
    <3> QED BY <1>1, <1>5, <3>1 DEF Increasing
  <2> QED BY <2>1, <2>2 DEF Increasing, Precede, IdsOf
<1>6. ASSUME Increasing(p), Precede(IdsOf(b), IdsOf(p)) PROVE Precede(IdsOf(a), IdsOf(q))
  BY <1>3, <1>4, <1>5, <1>6 DEF Precede
<1>7. IdsOf(a) \cup IdsOf(q) = IdsOf(b) \cup IdsOf(p)
  BY <1>3, <1>4
<1> QED BY <1>1, <1>2, <1>5, <1>6, <1>7 DEF a, q, x

-----------------------------------------------------------------------------
(***************************************************************************)
(* What a step of the ordering key's actor, or of its RPC task, does to    *)
(* the messages.                                                           *)
(***************************************************************************)
TakenS == rxS # <<>> /\ rxS' = Tail(rxS)

Passes ==
    /\ rxS' = rxS \/ (TakenS /\ Head(rxS).op # "publish")
    /\ UNCHANGED <<fut, sentS, pending_msgs, batchS, inflightS, paused>>

Resumes ==
    /\ paused /\ TakenS /\ Head(rxS).op = "resume" /\ ~paused'
    /\ UNCHANGED <<fut, sentS, pending_msgs, batchS, inflightS>>

Rejects ==
    /\ paused /\ TakenS /\ Head(rxS).op = "publish"
    /\ fut' = Resolve({Head(rxS).id}, "paused")
    /\ UNCHANGED <<sentS, pending_msgs, batchS, inflightS, paused>>

\* Of the messages in pool some go into a request, the older ones, or none.
Keeps(pool) ==
    /\ Kept' = pool /\ sentS' = sentS
    /\ inflightS' = inflightS \/ inflightS' = S!NoTask
Sends(pool) ==
    /\ ~paused
    /\ \E b \in Seq(Cmd) : /\ IdsOf(b) \cup Kept' = pool /\ Precede(IdsOf(b), Kept')
                           /\ sentS' = Append(sentS, b)
                           /\ inflightS' = [status |-> "running", msgs |-> b]
Moves(pool) ==
    /\ UNCHANGED <<fut, paused>>
    /\ Increasing(pending_msgs') /\ Precede(IdsOf(batchS'), IdsOf(pending_msgs'))
    /\ inflightS' = inflightS \/ inflightS.status \in {"none", "ok"}
    /\ Keeps(pool) \/ (inflightS.status \in {"none", "ok"} /\ Sends(pool))

Takes ==
    /\ ~paused /\ TakenS /\ Head(rxS).op = "publish"
    /\ Moves(Kept \cup {Head(rxS).id})

Joins == rxS' = rxS /\ Moves(Kept)

Pauses ==
    /\ inflightS.status \in {"err", "panic"}
    /\ fut' = Resolve(IdsOf(pending_msgs), "paused")
    /\ pending_msgs' = <<>> /\ batchS' = <<>> /\ inflightS' = S!NoTask /\ paused'
    /\ UNCHANGED <<rxS, sentS>>

Ends(o) ==
    /\ inflightS.status = "running"
    /\ inflightS' = [status |-> o, msgs |-> inflightS.msgs]
    /\ fut' = Resolve(IdsOf(inflightS.msgs), S!FutureOf(o))
    /\ UNCHANGED <<rxS, sentS, pending_msgs, batchS, paused>>

Shape ==
    \/ Passes \/ Resumes \/ Rejects \/ Takes \/ Joins \/ Pauses
    \/ \E o \in {"ok", "err", "panic"} : Ends(o)

\* The empty JoinSet.
LEMMA NoTaskType ==
    /\ S!NoTask \in OrderedTasks /\ S!NoTask.status = "none" /\ S!NoTask.msgs = <<>>
    /\ <<>> \in Seq(Cmd)
<1>1. <<>> \in Seq(Cmd)
  OBVIOUS
<1> QED BY <1>1 DEF S!NoTask, OrderedTasks

\* flush sends the batch it is given, if there is anything to send.
LEMMA FlushS ==
    ASSUME OrderedType, NEW b \in Seq(Cmd), S!flush(b, S!NoTask)
    PROVE  /\ batchS' = <<>>
           /\ sentS' \in Seq(Seq(Cmd)) /\ inflightS' \in OrderedTasks
           /\ inflightS'.status = "none" => inflightS' = S!NoTask
           /\ \/ b = <<>> /\ inflightS' = S!NoTask /\ sentS' = sentS
              \/ /\ b # <<>> /\ inflightS' = [status |-> "running", msgs |-> b]
                 /\ sentS' = Append(sentS, b)
<1>1. CASE b = <<>>
  <2>1. batchS' = <<>> /\ inflightS' = S!NoTask /\ sentS' = sentS
    BY <1>1 DEF S!flush
  <2> QED BY <1>1, <2>1, NoTaskType DEF OrderedType
<1>2. CASE b # <<>>
  <2>1. /\ sentS' = Append(sentS, b) /\ inflightS' = [status |-> "running", msgs |-> b]
        /\ batchS' = <<>>
    BY <1>2 DEF S!flush, S!send
  <2>2. Append(sentS, b) \in Seq(Seq(Cmd))
    BY DEF OrderedType
  <2> QED BY <1>2, <2>1, <2>2 DEF OrderedTasks
<1> QED BY <1>1, <1>2

\* move_to_batch_and_flush on an empty JoinSet moves the oldest of the pending
\* messages p, and sends the batch or keeps it.
LEMMA MoveS ==
    ASSUME OrderedType, NEW p \in Seq(Cmd), Increasing(p), Precede(IdsOf(batchS), IdsOf(p)),
           S!move_to_batch_and_flush(p, S!NoTask)
    PROVE  /\ pending_msgs' \in Seq(Cmd) /\ batchS' \in Seq(Cmd)
           /\ sentS' \in Seq(Seq(Cmd)) /\ inflightS' \in OrderedTasks
           /\ inflightS'.status = "none" => inflightS' = S!NoTask
           /\ inflightS' # S!NoTask => batchS' = <<>>
           /\ Increasing(pending_msgs') /\ Precede(IdsOf(batchS'), IdsOf(pending_msgs'))
           /\ \/ Kept' = IdsOf(batchS) \cup IdsOf(p) /\ sentS' = sentS /\ inflightS' = S!NoTask
              \/ \E b \in Seq(Cmd) : /\ IdsOf(b) \cup Kept' = IdsOf(batchS) \cup IdsOf(p)
                                     /\ Precede(IdsOf(b), Kept')
                                     /\ sentS' = Append(sentS, b)
                                     /\ inflightS' = [status |-> "running", msgs |-> b]
           /\ p = <<>> /\ batchS = <<>> =>
                pending_msgs' = <<>> /\ batchS' = <<>> /\ inflightS' = S!NoTask /\ sentS' = sentS
<1>1. PICK n \in 0..Len(p) :
        /\ pending_msgs' = SubSeq(p, n + 1, Len(p))
        /\ IF S!FullAfter(p, batchS, n) \/ S!NextDoesNotFit(p, batchS, n)
              THEN S!flush(batchS \o SubSeq(p, 1, n), S!NoTask)
              ELSE /\ batchS' = batchS \o SubSeq(p, 1, n)
                   /\ inflightS' = S!NoTask
                   /\ UNCHANGED sentS
  BY DEF S!move_to_batch_and_flush
<1> DEFINE b == batchS \o SubSeq(p, 1, n)
<1>2. /\ b \in Seq(Cmd) /\ pending_msgs' \in Seq(Cmd)
      /\ IdsOf(b) \cup IdsOf(pending_msgs') = IdsOf(batchS) \cup IdsOf(p)
      /\ Increasing(pending_msgs') /\ Precede(IdsOf(b), IdsOf(pending_msgs'))
  BY <1>1, MovedIds, CommandsNumbered DEF OrderedType
<1>3. p = <<>> => /\ SubSeq(p, n + 1, Len(p)) = <<>> /\ SubSeq(p, 1, n) = <<>>
                  /\ ~S!FullAfter(p, batchS, n) /\ ~S!NextDoesNotFit(p, batchS, n)
  BY DEF S!FullAfter, S!NextDoesNotFit
<1>4. p = <<>> /\ batchS = <<>> =>
        pending_msgs' = <<>> /\ batchS' = <<>> /\ inflightS' = S!NoTask /\ sentS' = sentS
  BY <1>1, <1>3
<1>5. CASE S!FullAfter(p, batchS, n) \/ S!NextDoesNotFit(p, batchS, n)
  <2>1. S!flush(b, S!NoTask)
    BY <1>1, <1>5
  <2> HIDE DEF b
  <2>2. /\ batchS' = <<>>
        /\ sentS' \in Seq(Seq(Cmd)) /\ inflightS' \in OrderedTasks
        /\ inflightS'.status = "none" => inflightS' = S!NoTask
        /\ \/ b = <<>> /\ inflightS' = S!NoTask /\ sentS' = sentS
           \/ /\ b # <<>> /\ inflightS' = [status |-> "running", msgs |-> b]
              /\ sentS' = Append(sentS, b)
    BY <1>2, <2>1, FlushS
  <2>3. /\ Kept' = IdsOf(pending_msgs') /\ Precede(IdsOf(batchS'), IdsOf(pending_msgs'))
        /\ batchS' \in Seq(Cmd)
    BY <2>2, EmptyIds, NoTaskType DEF Kept, Precede
  <2>4. b = <<>> => IdsOf(b) = {}
    BY EmptyIds
  <2> QED BY <1>2, <1>4, <2>2, <2>3, <2>4
<1>6. CASE ~(S!FullAfter(p, batchS, n) \/ S!NextDoesNotFit(p, batchS, n))
  <2>1. batchS' = b /\ inflightS' = S!NoTask /\ sentS' = sentS
    BY <1>1, <1>6
  <2> HIDE DEF b
  <2> QED BY <1>2, <1>4, <2>1, NoTaskType DEF Kept, OrderedType
<1> QED BY <1>5, <1>6

-----------------------------------------------------------------------------
(***************************************************************************)
(* The steps of the ordering key's actor.                                  *)
(***************************************************************************)
\* Everything but the ordered actor and the futures stays.
StaysS == UNCHANGED <<dispatcher, unordered>>

\* The queue of an actor, shorter by its head.
LEMMA QueueTail ==
    ASSUME NEW key, NEW s, QueueOf(s, key), s # <<>>
    PROVE  /\ Head(s) \in Cmd /\ Head(s).id \in Ids /\ Head(s).id \in DOMAIN hist
           /\ Head(s).op = hist[Head(s).id].op
           /\ Head(s).op # "flush" => hist[Head(s).id].key = key
           /\ Precede({Head(s).id}, IdsOf(Tail(s)) \cup IdsOf(drx))
           /\ IdsOf(s) = {Head(s).id} \cup IdsOf(Tail(s))
           /\ QueueOf(Tail(s), key)
<1>1. s \in Seq(Cmd) /\ Increasing(s) /\ Precede(IdsOf(s), IdsOf(drx))
  BY DEF QueueOf
<1>2. /\ Head(s) \in Cmd /\ Tail(s) \in Seq(Cmd)
      /\ 1 \in DOMAIN s /\ Head(s) = s[1]
      /\ IdsOf(s) = {Head(s).id} \cup IdsOf(Tail(s))
      /\ \A i \in DOMAIN Tail(s) : i + 1 \in DOMAIN s /\ Tail(s)[i] = s[i + 1]
      /\ Increasing(Tail(s)) /\ Precede({Head(s).id}, IdsOf(Tail(s)))
  BY <1>1, TailIds, CommandsNumbered
<1>3. Head(s).id \in Ids
  BY <1>2 DEF Cmd
<1>4. QueueOf(Tail(s), key)
  BY <1>1, <1>2 DEF QueueOf, Precede
<1> QED BY <1>1, <1>2, <1>3, <1>4 DEF QueueOf, Precede

\* Answering a flush f: nothing the actor or the Dispatcher holds came before f.
Answers ==
    \/ repliedS' = repliedS
    \/ \E f \in DOMAIN hist : /\ repliedS' = repliedS \cup {f}
                              /\ \A m \in HeldS \cup IdsOf(drx) : ~(m < f)

EffectS == OrderedType' /\ OrderedLocal' /\ Shape /\ Answers

\* The flush in progress stays ahead of what is queued.
LEMMA ProgressS ==
    ASSUME StaysS, QueueOf(rxS, "key"), rxS' = rxS \/ TakenS, NEW f, InProgress(f, rxS)
    PROVE  f \in DOMAIN hist' /\ Precede({f}, IdsOf(rxS') \cup IdsOf(drx'))
<1>1. hist' = hist /\ drx' = drx
  BY DEF StaysS, dispatcher
<1>2. IdsOf(rxS') \subseteq IdsOf(rxS)
  BY QueueTail DEF TakenS
<1> QED BY <1>1, <1>2 DEF InProgress, Precede

\* The branches of the loop while the key is paused.
LEMMA PausedS ==
    ASSUME DispatcherInv, OrderedInv, StaysS,
           S!PausedPublish \/ S!PausedFlush \/ S!PausedResume \/ S!PausedClosed
    PROVE  EffectS
<1> USE DEF OrderedInv
<1>1. CASE S!PausedPublish
  <2>1. /\ paused /\ pcS = "select" /\ TakenS /\ Head(rxS).op = "publish"
        /\ fut' = Resolve({Head(rxS).id}, "paused")
        /\ UNCHANGED <<sentS, pending_msgs, batchS, inflightS, paused, pcS, contS, repliedS>>
    BY <1>1 DEF S!PausedPublish, S!Recv, S!actor, S!Rejected, S!Ids, Ids, Resolve, TakenS
  <2>2. OrderedLocal'
    BY <2>1, ProgressS DEF OrderedLocal, InProgress
  <2> QED BY <2>1, <2>2 DEF EffectS, OrderedType, Shape, Rejects, Answers
<1>2. CASE S!PausedFlush
  <2>1. /\ paused /\ pcS = "select" /\ TakenS /\ Head(rxS).op = "flush"
        /\ repliedS' = repliedS \cup {Head(rxS).id}
        /\ UNCHANGED <<fut, sentS, pending_msgs, batchS, inflightS, paused, pcS, contS>>
    BY <1>2 DEF S!PausedFlush, S!Recv, S!actor, TakenS
  <2>2. OrderedLocal'
    BY <2>1, ProgressS DEF OrderedLocal, InProgress
  <2>3. HeldS = IdsOf(rxS)
    BY <2>1, EmptyIds, NoTaskType DEF OrderedLocal, HeldS, Kept, Running
  <2>4. /\ Head(rxS).id \in DOMAIN hist /\ Head(rxS).id \in Ids
        /\ Precede({Head(rxS).id}, IdsOf(rxS') \cup IdsOf(drx))
        /\ IdsOf(rxS) = {Head(rxS).id} \cup IdsOf(rxS')
    BY <2>1, QueueTail DEF TakenS
  <2>5. rxS \in Seq(Cmd) /\ drx \in Seq(Cmds) /\ Head(rxS).id \in Nat
    BY <2>4, CommandsNumbered DEF QueueOf, DispatcherInv, DispatchQueueInv
  <2>6. \A m \in HeldS \cup IdsOf(drx) : ~(m < Head(rxS).id)
    <3>1. \A m \in IdsOf(rxS) \cup IdsOf(drx) : m \in Nat
      BY <2>5, CommandsNumbered DEF IdsOf, Numbered
    <3> QED BY <2>3, <2>4, <2>5, <3>1 DEF Precede
  <2> QED BY <2>1, <2>2, <2>4, <2>6 DEF EffectS, OrderedType, Shape, Passes, Answers
<1>3. CASE S!PausedResume
  <2>1. /\ paused /\ pcS = "select" /\ TakenS /\ Head(rxS).op = "resume" /\ paused' = FALSE
        /\ UNCHANGED <<fut, sentS, pending_msgs, batchS, inflightS, pcS, contS, repliedS>>
    BY <1>3 DEF S!PausedResume, S!Recv, S!client, TakenS
  <2>2. OrderedLocal'
    BY <2>1, ProgressS DEF OrderedLocal, InProgress
  <2> QED BY <2>1, <2>2 DEF EffectS, OrderedType, Shape, Resumes, Answers
<1>4. CASE S!PausedClosed
  <2>1. /\ paused /\ pcS = "select" /\ rxS = <<>> /\ rxS' = rxS /\ pcS' = "done"
        /\ UNCHANGED <<fut, sentS, pending_msgs, batchS, inflightS, paused, contS, repliedS>>
    BY <1>4 DEF S!PausedClosed, S!RxClosed, S!client, S!queue
  <2>2. OrderedLocal'
    BY <2>1, ProgressS DEF OrderedLocal, InProgress
  <2> QED BY <2>1, <2>2 DEF EffectS, OrderedType, Shape, Passes, Answers
<1> QED BY <1>1, <1>2, <1>3, <1>4

\* The branches that enter flush_all, and the one that does nothing.
LEMMA EnterS ==
    ASSUME DispatcherInv, OrderedInv, StaysS,
           S!TimerFires \/ S!RecvFlush \/ S!RecvResume \/ S!RecvClosed
    PROVE  EffectS
<1> USE DEF OrderedInv
<1>1. CASE S!TimerFires \/ S!RecvClosed
  <2>1. PICK k \in {"timer", "stop"} :
        /\ ~paused /\ pcS = "select" /\ rxS' = rxS /\ pcS' = "join"
        /\ contS' = [kind |-> k, tx |-> 0]
        /\ UNCHANGED <<fut, sentS, pending_msgs, batchS, inflightS, paused, repliedS>>
    BY <1>1 DEF S!TimerFires, S!RecvClosed, S!RxClosed, S!StartFlushAll, S!client
  <2>2. /\ contS' \in [kind : {"none", "timer", "flush", "stop"}, tx : 0..MaxCmds]
        /\ contS'.kind # "flush"
    BY <2>1, PublisherAssumption
  <2>3. OrderedLocal'
    BY <2>1, <2>2 DEF OrderedLocal
  <2> QED BY <2>1, <2>2, <2>3 DEF EffectS, OrderedType, Shape, Passes, Answers
<1>2. CASE S!RecvFlush
  <2>1. /\ ~paused /\ pcS = "select" /\ TakenS /\ Head(rxS).op = "flush" /\ pcS' = "join"
        /\ contS' = [kind |-> "flush", tx |-> Head(rxS).id]
        /\ UNCHANGED <<fut, sentS, pending_msgs, batchS, inflightS, paused, repliedS>>
    BY <1>2 DEF S!RecvFlush, S!Recv, S!StartFlushAll, S!client, TakenS
  <2>2. /\ Head(rxS).id \in Ids /\ Head(rxS).id \in DOMAIN hist
        /\ Precede({Head(rxS).id}, IdsOf(rxS') \cup IdsOf(drx))
    BY <2>1, QueueTail DEF TakenS
  <2>3. contS' \in [kind : {"none", "timer", "flush", "stop"}, tx : 0..MaxCmds]
    BY <2>1, <2>2, PublisherAssumption DEF Ids
  <2>4. InProgress(contS.tx, rxS)'
    BY <2>1, <2>2 DEF InProgress, StaysS, dispatcher
  <2>5. OrderedLocal'
    BY <2>1, <2>4 DEF OrderedLocal
  <2> QED BY <2>1, <2>3, <2>5 DEF EffectS, OrderedType, Shape, Passes, Answers
<1>3. CASE S!RecvResume
  <2>1. /\ ~paused /\ pcS = "select" /\ TakenS /\ Head(rxS).op = "resume"
        /\ UNCHANGED <<fut, sentS, pending_msgs, batchS, inflightS, paused, pcS, contS,
                       repliedS>>
    BY <1>3 DEF S!RecvResume, S!Recv, S!client, S!actor, TakenS
  <2>2. OrderedLocal'
    BY <2>1, ProgressS DEF OrderedLocal, InProgress
  <2> QED BY <2>1, <2>2 DEF EffectS, OrderedType, Shape, Passes, Answers
<1> QED BY <1>1, <1>2, <1>3

\* handle_inflight_join: what it means for the pending messages.
LEMMA JoinS ==
    ASSUME OrderedType, S!handle_inflight_join
    PROVE  \/ /\ inflightS.status \in {"err", "panic"} /\ paused'
              /\ S!PendingAfterJoin = <<>>
              /\ fut' = Resolve(IdsOf(pending_msgs), "paused")
           \/ /\ inflightS.status \notin {"err", "panic"} /\ paused' = paused /\ fut' = fut
              /\ S!PendingAfterJoin = pending_msgs
  BY DEF OrderedType, S!handle_inflight_join, S!PendingAfterJoin, S!JoinFailed, S!Rejected,
         S!Ids, Ids, Resolve, S!IdsOf, IdsOf

\* A join of a failed task finds the batch empty, because it was inflight, so that
\* pausing leaves nothing behind.
LEMMA JoinInflightS ==
    ASSUME DispatcherInv, OrderedInv, StaysS, S!JoinInflight
    PROVE  EffectS
<1> USE DEF OrderedInv
<1>1. /\ ~paused /\ pcS = "select" /\ inflightS.status \notin {"none", "running"}
      /\ S!handle_inflight_join
      /\ S!move_to_batch_and_flush(S!PendingAfterJoin, S!NoTask)
      /\ UNCHANGED <<repliedS, rxS, pcS, contS>>
  BY DEF S!JoinInflight, S!Joinable, S!queue
<1>2. inflightS # S!NoTask /\ batchS = <<>>
  BY <1>1, NoTaskType DEF OrderedLocal
<1>3. /\ S!PendingAfterJoin \in Seq(Cmd) /\ Increasing(S!PendingAfterJoin)
      /\ Precede(IdsOf(batchS), IdsOf(S!PendingAfterJoin))
  BY <1>1, <1>2, JoinS, EmptyIds, NoTaskType DEF OrderedType, OrderedLine, Precede
<1> DEFINE p == S!PendingAfterJoin
<1> HIDE DEF p
<1>4. /\ pending_msgs' \in Seq(Cmd) /\ batchS' \in Seq(Cmd)
      /\ sentS' \in Seq(Seq(Cmd)) /\ inflightS' \in OrderedTasks
      /\ inflightS'.status = "none" => inflightS' = S!NoTask
      /\ inflightS' # S!NoTask => batchS' = <<>>
      /\ Increasing(pending_msgs') /\ Precede(IdsOf(batchS'), IdsOf(pending_msgs'))
      /\ \/ Kept' = IdsOf(batchS) \cup IdsOf(p) /\ sentS' = sentS /\ inflightS' = S!NoTask
         \/ \E b \in Seq(Cmd) : /\ IdsOf(b) \cup Kept' = IdsOf(batchS) \cup IdsOf(p)
                                /\ Precede(IdsOf(b), Kept')
                                /\ sentS' = Append(sentS, b)
                                /\ inflightS' = [status |-> "running", msgs |-> b]
      /\ p = <<>> /\ batchS = <<>> =>
           pending_msgs' = <<>> /\ batchS' = <<>> /\ inflightS' = S!NoTask /\ sentS' = sentS
  BY <1>1, <1>3, MoveS DEF p
<1>5. contS.kind = "flush" => InProgress(contS.tx, rxS)'
  BY <1>1, ProgressS DEF OrderedLocal, InProgress
<1>6. CASE inflightS.status \in {"err", "panic"}
  <2>1. /\ paused' /\ fut' = Resolve(IdsOf(pending_msgs), "paused")
        /\ pending_msgs' = <<>> /\ batchS' = <<>> /\ inflightS' = S!NoTask /\ sentS' = sentS
    BY <1>1, <1>2, <1>4, <1>6, JoinS DEF p
  <2>2. Shape /\ Answers
    BY <1>1, <1>6, <2>1 DEF Shape, Pauses, Answers
  <2>3. paused' \in BOOLEAN
    BY <1>1 DEF S!handle_inflight_join, S!JoinFailed
  <2> QED BY <1>1, <1>4, <1>5, <2>1, <2>2, <2>3 DEF EffectS, OrderedType, OrderedLocal
<1>7. CASE inflightS.status \notin {"err", "panic"}
  <2>1. paused' = paused /\ fut' = fut /\ p = pending_msgs /\ inflightS.status = "ok"
    BY <1>1, <1>7, JoinS DEF p, OrderedType, OrderedTasks
  <2>2. Kept = IdsOf(batchS) \cup IdsOf(p)
    BY <2>1 DEF Kept
  <2>3. Joins
    BY <1>1, <1>4, <2>1, <2>2 DEF Joins, Moves, Keeps, Sends
  <2> QED BY <1>1, <1>4, <1>5, <2>1, <2>3
        DEF EffectS, OrderedType, OrderedLocal, Shape, Answers
<1> QED BY <1>6, <1>7

\* A published message is queued, and batched if no batch is inflight.
LEMMA PublishS ==
    ASSUME DispatcherInv, OrderedInv, StaysS, S!RecvPublish
    PROVE  EffectS
<1> USE DEF OrderedInv
<1> DEFINE p == Append(pending_msgs, Head(rxS))
<1>1. /\ ~paused /\ pcS = "select" /\ TakenS /\ Head(rxS).op = "publish"
      /\ IF inflightS = S!NoTask
            THEN S!move_to_batch_and_flush(p, S!NoTask)
            ELSE pending_msgs' = p /\ UNCHANGED <<batchS, inflightS, sentS>>
      /\ UNCHANGED <<fut, repliedS, paused, pcS, contS>>
  BY DEF S!RecvPublish, S!Recv, TakenS
<1>2. /\ Head(rxS) \in Cmd /\ IdsOf(rxS) = {Head(rxS).id} \cup IdsOf(rxS')
  BY <1>1, QueueTail DEF TakenS
<1>3. p \in Seq(Cmd) /\ IdsOf(p) = IdsOf(pending_msgs) \cup {Head(rxS).id}
  BY <1>2, AppendIds DEF OrderedType
<1>4. Precede(Kept, {Head(rxS).id})
  BY <1>2 DEF OrderedLine, Precede
<1>5. Increasing(p)
  <2>1. Precede(IdsOf(pending_msgs), {Head(rxS).id})
    BY <1>4 DEF Kept, Precede
  <2> QED BY <1>2, <2>1, AppendIncreasing, CommandsNumbered DEF OrderedType, OrderedLine
<1>6. Precede(IdsOf(batchS), IdsOf(p))
  BY <1>3, <1>4 DEF OrderedLine, Precede, Kept
<1>7. IdsOf(batchS) \cup IdsOf(p) = Kept \cup {Head(rxS).id}
  BY <1>3 DEF Kept
<1>8. contS.kind = "flush" => InProgress(contS.tx, rxS)'
  BY <1>1, ProgressS DEF OrderedLocal, InProgress
<1> HIDE DEF p
<1>9. CASE inflightS = S!NoTask
  <2>1. /\ pending_msgs' \in Seq(Cmd) /\ batchS' \in Seq(Cmd)
        /\ sentS' \in Seq(Seq(Cmd)) /\ inflightS' \in OrderedTasks
        /\ inflightS'.status = "none" => inflightS' = S!NoTask
        /\ inflightS' # S!NoTask => batchS' = <<>>
        /\ Increasing(pending_msgs') /\ Precede(IdsOf(batchS'), IdsOf(pending_msgs'))
        /\ \/ Kept' = IdsOf(batchS) \cup IdsOf(p) /\ sentS' = sentS /\ inflightS' = S!NoTask
           \/ \E b \in Seq(Cmd) : /\ IdsOf(b) \cup Kept' = IdsOf(batchS) \cup IdsOf(p)
                                  /\ Precede(IdsOf(b), Kept')
                                  /\ sentS' = Append(sentS, b)
                                  /\ inflightS' = [status |-> "running", msgs |-> b]
    BY <1>1, <1>3, <1>5, <1>6, <1>9, MoveS
  <2>2. Takes
    BY <1>1, <1>7, <1>9, <2>1, NoTaskType DEF Takes, Moves, Keeps, Sends
  <2> QED BY <1>1, <1>8, <2>1, <2>2 DEF EffectS, OrderedType, OrderedLocal, Shape, Answers
<1>10. CASE inflightS # S!NoTask
  <2>1. pending_msgs' = p /\ UNCHANGED <<batchS, inflightS, sentS>>
    BY <1>1, <1>10
  <2>2. Kept' = Kept \cup {Head(rxS).id}
    BY <2>1, <1>7 DEF Kept
  <2>3. Takes
    BY <1>1, <1>5, <1>6, <2>1, <2>2 DEF Takes, Moves, Keeps
  <2> QED BY <1>1, <1>3, <1>8, <2>1, <2>3
        DEF EffectS, OrderedType, OrderedLocal, Shape, Answers
<1> QED BY <1>9, <1>10

\* A join inside flush_all: a failure leaves the loop, because nothing is pending
\* any more.
LEMMA FlushAllJoinS ==
    ASSUME DispatcherInv, OrderedInv, StaysS, S!FlushAllJoin
    PROVE  EffectS
<1> USE DEF OrderedInv
<1>1. /\ ~paused /\ pcS = "join" /\ inflightS.status # "running"
      /\ S!handle_inflight_join
      /\ IF S!PendingAfterJoin # <<>>
            THEN S!move_to_batch_and_flush(S!PendingAfterJoin, S!NoTask) /\ UNCHANGED pcS
            ELSE S!flush(batchS, S!NoTask) /\ pending_msgs' = <<>> /\ pcS' = "last"
      /\ UNCHANGED <<repliedS, rxS, contS>>
  BY DEF S!FlushAllJoin, S!Joinable, S!queue, OrderedLocal
<1>2. contS.kind = "flush" => InProgress(contS.tx, rxS)'
  BY <1>1, ProgressS DEF OrderedLocal, InProgress
<1>3. CASE inflightS.status \in {"err", "panic"}
  <2>1. /\ paused' /\ S!PendingAfterJoin = <<>> /\ batchS = <<>>
        /\ fut' = Resolve(IdsOf(pending_msgs), "paused")
    BY <1>1, <1>3, JoinS, NoTaskType DEF OrderedLocal
  <2>2. S!flush(batchS, S!NoTask) /\ pending_msgs' = <<>> /\ pcS' = "last"
    BY <1>1, <2>1
  <2>3. batchS' = <<>> /\ inflightS' = S!NoTask /\ sentS' = sentS
    BY <2>1, <2>2, FlushS DEF OrderedType
  <2>4. paused' \in BOOLEAN
    BY <1>1 DEF S!handle_inflight_join, S!JoinFailed
  <2>5. Shape /\ Answers
    BY <1>1, <1>3, <2>1, <2>2, <2>3 DEF Shape, Pauses, Answers
  <2> QED BY <1>1, <1>2, <2>2, <2>3, <2>4, <2>5, NoTaskType DEF EffectS, OrderedType, OrderedLocal
<1>4. CASE inflightS.status \notin {"err", "panic"}
  <2>1. /\ paused' = paused /\ fut' = fut /\ S!PendingAfterJoin = pending_msgs
        /\ inflightS.status \in {"none", "ok"}
    BY <1>1, <1>4, JoinS DEF OrderedType, OrderedTasks
  <2>2. CASE pending_msgs # <<>>
    <3>1. S!move_to_batch_and_flush(pending_msgs, S!NoTask) /\ pcS' = pcS
      BY <1>1, <2>1, <2>2
    <3>2. /\ pending_msgs' \in Seq(Cmd) /\ batchS' \in Seq(Cmd)
          /\ sentS' \in Seq(Seq(Cmd)) /\ inflightS' \in OrderedTasks
          /\ inflightS'.status = "none" => inflightS' = S!NoTask
          /\ inflightS' # S!NoTask => batchS' = <<>>
          /\ Increasing(pending_msgs') /\ Precede(IdsOf(batchS'), IdsOf(pending_msgs'))
          /\ \/ /\ Kept' = IdsOf(batchS) \cup IdsOf(pending_msgs) /\ sentS' = sentS
                /\ inflightS' = S!NoTask
             \/ \E b \in Seq(Cmd) :
                  /\ IdsOf(b) \cup Kept' = IdsOf(batchS) \cup IdsOf(pending_msgs)
                  /\ Precede(IdsOf(b), Kept')
                  /\ sentS' = Append(sentS, b)
                  /\ inflightS' = [status |-> "running", msgs |-> b]
      BY <3>1, MoveS DEF OrderedType, OrderedLine
    <3>3. Kept = IdsOf(batchS) \cup IdsOf(pending_msgs)
      BY DEF Kept
    <3>4. Joins
      BY <1>1, <2>1, <3>2, <3>3 DEF Joins, Moves, Keeps, Sends
    <3> QED BY <1>1, <1>2, <2>1, <3>1, <3>2, <3>4
          DEF EffectS, OrderedType, OrderedLocal, Shape, Answers
  <2>3. CASE pending_msgs = <<>>
    <3>1. S!flush(batchS, S!NoTask) /\ pending_msgs' = <<>> /\ pcS' = "last"
      BY <1>1, <2>1, <2>3
    <3>2. /\ batchS' = <<>>
          /\ sentS' \in Seq(Seq(Cmd)) /\ inflightS' \in OrderedTasks
          /\ inflightS'.status = "none" => inflightS' = S!NoTask
          /\ \/ batchS = <<>> /\ inflightS' = S!NoTask /\ sentS' = sentS
             \/ /\ batchS # <<>> /\ inflightS' = [status |-> "running", msgs |-> batchS]
                /\ sentS' = Append(sentS, batchS)
      BY <3>1, FlushS DEF OrderedType
    <3>3. Kept = IdsOf(batchS) /\ Kept' = {} /\ (batchS = <<>> => Kept = {})
      BY <2>3, <3>1, <3>2, EmptyIds DEF Kept
    <3>4. Increasing(pending_msgs') /\ Precede(IdsOf(batchS'), IdsOf(pending_msgs'))
      BY <3>1, EmptyIds DEF Precede
    <3>5. Keeps(Kept) \/ Sends(Kept)
      <4>1. Precede(IdsOf(batchS), Kept') /\ IdsOf(batchS) \cup Kept' = Kept
        BY <3>3 DEF Precede
      <4> QED BY <1>1, <3>2, <3>3, <4>1 DEF Keeps, Sends, OrderedType
    <3>6. Joins
      BY <1>1, <2>1, <3>4, <3>5 DEF Joins, Moves
    <3> QED BY <1>1, <1>2, <2>1, <3>1, <3>2, <3>6, NoTaskType
          DEF EffectS, OrderedType, OrderedLocal, Shape, Answers
  <2> QED BY <2>2, <2>3
<1> QED BY <1>3, <1>4

\* The last join of flush_all: the flush in progress is answered when nothing that
\* came before it is left.
LEMMA FlushAllLastS ==
    ASSUME DispatcherInv, OrderedInv, StaysS, S!FlushAllLast
    PROVE  EffectS
<1> USE DEF OrderedInv
<1>1. /\ pcS = "last" /\ inflightS.status # "running"
      /\ S!handle_inflight_join
      /\ pending_msgs' = S!PendingAfterJoin /\ inflightS' = S!NoTask
      /\ pcS' = IF contS.kind = "stop" THEN "done" ELSE "select"
      /\ repliedS' = IF contS.kind = "flush" THEN repliedS \cup {contS.tx} ELSE repliedS
      /\ contS' = S!Idle
      /\ UNCHANGED <<sentS, rxS, batchS>>
  BY DEF S!FlushAllLast, S!Joinable, S!queue
<1>2. pending_msgs = <<>> /\ batchS = <<>> /\ pending_msgs' = <<>> /\ batchS' = <<>>
  BY <1>1, JoinS DEF OrderedLocal
<1>3. /\ contS' \in [kind : {"none", "timer", "flush", "stop"}, tx : 0..MaxCmds]
      /\ contS'.kind # "flush"
  BY <1>1, PublisherAssumption DEF S!Idle
<1>4. Kept = {} /\ Kept' = {} /\ Running = {}
  BY <1>1, <1>2, EmptyIds DEF Kept, Running
<1>5. Answers
  <2> SUFFICES ASSUME contS.kind = "flush" PROVE Answers
    BY <1>1 DEF Answers
  <2>1. HeldS = IdsOf(rxS) /\ InProgress(contS.tx, rxS)
    BY <1>4 DEF HeldS, OrderedLocal
  <2>2. rxS \in Seq(Cmd) /\ drx \in Seq(Cmds) /\ contS.tx \in Nat
    BY PublisherAssumption DEF QueueOf, DispatcherInv, DispatchQueueInv, OrderedType
  <2>3. \A m \in IdsOf(rxS) \cup IdsOf(drx) : m \in Nat
    BY <2>2, CommandsNumbered DEF IdsOf, Numbered
  <2> QED BY <1>1, <2>1, <2>2, <2>3 DEF Answers, InProgress, Precede
<1>6. Shape
  <2>1. CASE inflightS.status \in {"err", "panic"}
    BY <1>1, <1>2, <2>1, JoinS DEF Shape, Pauses
  <2>2. CASE inflightS.status \notin {"err", "panic"}
    <3>1. /\ paused' = paused /\ fut' = fut /\ inflightS.status \in {"none", "ok"}
      BY <1>1, <2>2, JoinS DEF OrderedType, OrderedTasks
    <3>2. Increasing(pending_msgs') /\ Precede(IdsOf(batchS'), IdsOf(pending_msgs'))
      BY <1>2, EmptyIds DEF Precede
    <3>3. Joins
      BY <1>1, <1>4, <3>1, <3>2 DEF Joins, Moves, Keeps
    <3> QED BY <3>3 DEF Shape
  <2> QED BY <2>1, <2>2
<1>7. paused' \in BOOLEAN
  BY <1>1 DEF S!handle_inflight_join, S!JoinFailed, OrderedType
<1>8. pcS' = "done" => rxS' = <<>>
  BY <1>1 DEF ClosedS
<1> QED BY <1>1, <1>2, <1>3, <1>5, <1>6, <1>7, <1>8, NoTaskType DEF EffectS, OrderedType, OrderedLocal

\* The RPC task ends.
LEMMA RpcS ==
    ASSUME DispatcherInv, OrderedInv, StaysS, S!Rpc
    PROVE  EffectS
<1> USE DEF OrderedInv
<1>1. PICK o \in {"ok", "err", "panic"} : S!RpcDone(o)
  BY DEF S!Rpc
<1>2. /\ inflightS.status = "running"
      /\ inflightS' = [status |-> o, msgs |-> inflightS.msgs]
      /\ fut' = Resolve(IdsOf(inflightS.msgs), S!FutureOf(o))
      /\ UNCHANGED <<repliedS, sentS, rxS, pending_msgs, batchS, paused, pcS, contS>>
  BY <1>1 DEF S!RpcDone, OrderedType, OrderedTasks, S!queue, S!Ids, Ids, S!IdsOf, IdsOf, Resolve
<1>3. inflightS # S!NoTask /\ inflightS' \in OrderedTasks /\ inflightS'.status = o
  BY <1>2, NoTaskType DEF OrderedType, OrderedTasks
<1>4. contS.kind = "flush" => InProgress(contS.tx, rxS)'
  BY <1>2, ProgressS DEF OrderedLocal, InProgress
<1>5. Shape /\ Answers
  BY <1>2 DEF Shape, Ends, Answers
<1> QED BY <1>2, <1>3, <1>4, <1>5 DEF EffectS, OrderedType, OrderedLocal

\* Every step of the actor and of its task.
LEMMA StepEffectS ==
    ASSUME DispatcherInv, OrderedInv, OrderedActor \/ OrderedRpc
    PROVE  StaysS /\ EffectS /\ ClosedS'
<1>1. StaysS /\ (S!Select \/ S!FlushAll \/ S!Rpc)
  BY DEF OrderedActor, OrderedRpc, StaysS
<1>2. EffectS
  BY <1>1, PausedS, EnterS, JoinInflightS, PublishS, FlushAllJoinS, FlushAllLastS, RpcS
     DEF S!Select, S!FlushAll
<1>3. dpc' = dpc
  BY <1>1 DEF StaysS, dispatcher
<1>4. /\ openS' = openS
      /\ contS'.kind = "stop" =>
           \/ contS.kind = "stop" /\ (rxS' = rxS \/ TakenS)
           \/ rxS' = <<>> /\ ~openS
  <2>1. CASE S!Rpc
    BY <2>1 DEF S!Rpc, S!RpcDone, S!queue, TakenS
  <2>2. CASE S!FlushAll
    BY <2>2 DEF S!FlushAll, S!FlushAllJoin, S!FlushAllLast, S!queue, S!Idle, TakenS
  <2>3. CASE S!PausedPublish \/ S!PausedFlush \/ S!PausedResume \/ S!PausedClosed
    BY <2>3 DEF S!PausedPublish, S!PausedFlush, S!PausedResume, S!PausedClosed, S!Recv,
                S!actor, S!queue, S!client, TakenS
  <2>4. CASE S!JoinInflight \/ S!TimerFires \/ S!RecvPublish
    BY <2>4 DEF S!JoinInflight, S!TimerFires, S!RecvPublish, S!Recv, S!StartFlushAll,
                S!queue, S!client, TakenS
  <2>5. CASE S!RecvFlush \/ S!RecvResume \/ S!RecvClosed
    BY <2>5 DEF S!RecvFlush, S!RecvResume, S!RecvClosed, S!RxClosed, S!Recv, S!StartFlushAll,
                S!actor, S!queue, S!client, TakenS
  <2> QED BY <1>1, <2>1, <2>2, <2>3, <2>4, <2>5 DEF S!Select
<1>5. ClosedS'
  BY <1>3, <1>4 DEF ClosedS, OrderedInv, TakenS
<1> QED BY <1>1, <1>2, <1>5

-----------------------------------------------------------------------------
(***************************************************************************)
(* What those shapes mean for the invariants.                              *)
(***************************************************************************)
\* What stays when neither the Dispatcher nor the other actor moves.
LEMMA StaysFacts ==
    ASSUME StaysS
    PROVE  /\ hist' = hist /\ drx' = drx /\ dpc' = dpc /\ pcC' = pcC
           /\ \A key : MessagesOf(key)' = MessagesOf(key)
           /\ \A m, n : ResumedBetween(m, n)' = ResumedBetween(m, n)
  BY DEF StaysS, dispatcher, unordered, MessagesOf, ResumedBetween

\* Resolving futures.
LEMMA ResolveFacts ==
    ASSUME NEW ids, NEW o, o # "waiting", NEW m \in Ids, fut' = Resolve(ids, o)
    PROVE  (m \in ids => fut'[m] = o) /\ (m \notin ids => fut'[m] = fut[m])
  BY DEF Resolve

\* The messages of the task are those of the last request.
LEMMA TaskMessages ==
    ASSUME OrderedType, OrderedLine, inflightS # S!NoTask
    PROVE  /\ Len(sentS) \in DOMAIN sentS
           /\ IdsOf(inflightS.msgs) = IdsOf(sentS[Len(sentS)])
           /\ IdsOf(inflightS.msgs) \subseteq MessagesOf("key")
           /\ IdsOf(inflightS.msgs) \subseteq SentIds(sentS)
           /\ Precede(IdsOf(inflightS.msgs), Kept \cup IdsOf(rxS) \cup IdsOf(drx))
<1>1. sentS # <<>> /\ inflightS.msgs = sentS[Len(sentS)]
  BY DEF OrderedLine
<1>2. Len(sentS) \in DOMAIN sentS
  BY <1>1 DEF OrderedType
<1> QED BY <1>1, <1>2 DEF OrderedLine, SentIds

\* The numbers of messages and of commands in the queues.
LEMMA IdsAreNumbers ==
    ASSUME DispatcherInv, OrderedInv
    PROVE  /\ \A key : MessagesOf(key) \subseteq Ids /\ MessagesOf(key) \subseteq DOMAIN hist
           /\ DOMAIN hist = 1..Len(hist) /\ Len(hist) \in Nat /\ DOMAIN hist \subseteq Ids
           /\ IdsOf(rxS) \subseteq DOMAIN hist /\ IdsOf(drx) \subseteq DOMAIN hist
           /\ Kept \subseteq DOMAIN hist
           /\ \A m \in Ids : m \in Nat
<1>1. DOMAIN hist = 1..Len(hist) /\ Len(hist) \in Nat /\ DOMAIN hist \subseteq Ids
  <2>1. hist \in Seq(Cmds) /\ Len(hist) <= MaxCmds
    BY DEF DispatcherInv, HistoryInv
  <2>2. DOMAIN hist = 1..Len(hist) /\ Len(hist) \in Nat
    BY <2>1
  <2> QED BY <2>1, <2>2, PublisherAssumption DEF Ids
<1>2. IdsOf(rxS) \subseteq DOMAIN hist /\ IdsOf(drx) \subseteq DOMAIN hist
  BY DEF OrderedInv, QueueOf, DispatcherInv, DispatchQueueInv, IdsOf
<1>3. \A key : MessagesOf(key) \subseteq DOMAIN hist
  BY DEF MessagesOf
<1> QED BY <1>1, <1>2, <1>3, CommandsNumbered DEF OrderedInv, OrderedLine

\* The command the actor receives.
LEMMA TakenFacts ==
    ASSUME DispatcherInv, OrderedInv, TakenS
    PROVE  /\ Head(rxS).id \in DOMAIN hist /\ Head(rxS).op = hist[Head(rxS).id].op
           /\ Head(rxS).op # "flush" => hist[Head(rxS).id].key = "key"
           /\ Head(rxS).op = "publish" => Head(rxS).id \in MessagesOf("key")
           /\ Head(rxS).op # "publish" => Head(rxS).id \notin MessagesOf("key")
           /\ Precede({Head(rxS).id}, IdsOf(rxS') \cup IdsOf(drx))
           /\ Precede(Kept, {Head(rxS).id})
           /\ \A i \in DOMAIN sentS : Precede(IdsOf(sentS[i]), {Head(rxS).id})
           /\ IdsOf(rxS) = {Head(rxS).id} \cup IdsOf(rxS')
<1>1. /\ Head(rxS).id \in DOMAIN hist /\ Head(rxS).op = hist[Head(rxS).id].op
      /\ Head(rxS).op # "flush" => hist[Head(rxS).id].key = "key"
      /\ Precede({Head(rxS).id}, IdsOf(rxS') \cup IdsOf(drx))
      /\ IdsOf(rxS) = {Head(rxS).id} \cup IdsOf(rxS')
  BY QueueTail DEF OrderedInv, TakenS
<1>2. /\ Precede(Kept, {Head(rxS).id})
      /\ \A i \in DOMAIN sentS : Precede(IdsOf(sentS[i]), {Head(rxS).id})
  BY <1>1 DEF OrderedInv, OrderedLine, Precede
<1>3. /\ Head(rxS).op = "publish" => Head(rxS).id \in MessagesOf("key")
      /\ Head(rxS).op # "publish" => Head(rxS).id \notin MessagesOf("key")
  BY <1>1 DEF MessagesOf
<1> QED BY <1>1, <1>2, <1>3

\* A step of the actor resolves messages of its key only.
LEMMA FutureS ==
    ASSUME DispatcherInv, OrderedInv, StaysS, Shape
    PROVE  /\ fut' \in [Ids -> {"waiting", "ok", "rpc", "paused", "shutdown"}]
           /\ \A m \in Ids : fut'[m] # fut[m] => m \in MessagesOf("key") /\ fut'[m] # "waiting"
<1>1. fut \in [Ids -> {"waiting", "ok", "rpc", "paused", "shutdown"}]
  BY DEF DispatcherInv, TypeOK
<1>2. CASE fut' = fut
  BY <1>1, <1>2
<1>3. CASE Rejects
  <2>1. fut' = Resolve({Head(rxS).id}, "paused") /\ Head(rxS).id \in MessagesOf("key")
    BY <1>3, TakenFacts DEF Rejects
  <2> QED BY <1>1, <2>1 DEF Resolve
<1>4. CASE Pauses
  <2>1. fut' = Resolve(IdsOf(pending_msgs), "paused") /\ IdsOf(pending_msgs) \subseteq MessagesOf("key")
    BY <1>4 DEF Pauses, OrderedInv, OrderedLine, Kept
  <2> QED BY <1>1, <2>1 DEF Resolve
<1>5. ASSUME NEW o \in {"ok", "err", "panic"}, Ends(o)
      PROVE  /\ fut' \in [Ids -> {"waiting", "ok", "rpc", "paused", "shutdown"}]
             /\ \A m \in Ids : fut'[m] # fut[m] => m \in MessagesOf("key") /\ fut'[m] # "waiting"
  <2>1. fut' = Resolve(IdsOf(inflightS.msgs), S!FutureOf(o)) /\ inflightS # S!NoTask
    BY <1>5, NoTaskType DEF Ends
  <2>2. IdsOf(inflightS.msgs) \subseteq MessagesOf("key")
    BY <2>1, TaskMessages DEF OrderedInv
  <2>3. S!FutureOf(o) \in {"ok", "rpc", "shutdown"}
    BY DEF S!FutureOf
  <2> QED BY <1>1, <2>1, <2>2, <2>3 DEF Resolve
<1> QED BY <1>2, <1>3, <1>4, <1>5 DEF Shape, Passes, Resumes, Takes, Joins, Moves

\* The queue of the actor stays a queue.
LEMMA QueueS ==
    ASSUME DispatcherInv, OrderedInv, StaysS, Shape
    PROVE  QueueOf(rxS, "key")' /\ IdsOf(rxS') \subseteq IdsOf(rxS)
<1>1. rxS' = rxS \/ TakenS
  BY DEF Shape, Passes, Resumes, Rejects, Takes, Joins, Pauses, Ends
<1>2. QueueOf(rxS', "key")
  BY <1>1, QueueTail DEF OrderedInv, TakenS
<1>3. QueueOf(rxS, "key")'
  BY <1>2, StaysFacts DEF QueueOf
<1> QED BY <1>1, <1>3, TakenFacts

\* Messages of the pool that move on stay in line.
LEMMA MovesLine ==
    ASSUME DispatcherInv, OrderedInv, StaysS, OrderedType', NEW pool, Moves(pool),
           pool \subseteq MessagesOf("key"),
           Precede(pool, IdsOf(rxS') \cup IdsOf(drx)),
           \A i \in DOMAIN sentS :
                Precede(IdsOf(sentS[i]), pool \cup IdsOf(rxS') \cup IdsOf(drx))
    PROVE  OrderedLine'
<1>1. /\ MessagesOf("key")' = MessagesOf("key") /\ drx' = drx
      /\ \A i \in DOMAIN sentS : IdsOf(sentS[i]) \subseteq MessagesOf("key")
      /\ \A i, j \in DOMAIN sentS : i < j => Precede(IdsOf(sentS[i]), IdsOf(sentS[j]))
      /\ Increasing(pending_msgs') /\ Precede(IdsOf(batchS'), IdsOf(pending_msgs'))
  BY StaysFacts DEF OrderedInv, OrderedLine, Moves
<1>2. CASE Keeps(pool)
  <2>1. Kept' = pool /\ sentS' = sentS /\ (inflightS' = inflightS \/ inflightS' = S!NoTask)
    BY <1>2 DEF Keeps
  <2> QED BY <1>1, <2>1 DEF OrderedInv, OrderedLine
<1>3. CASE Sends(pool)
  <2>1. PICK b \in Seq(Cmd) : /\ IdsOf(b) \cup Kept' = pool /\ Precede(IdsOf(b), Kept')
                              /\ sentS' = Append(sentS, b)
                              /\ inflightS' = [status |-> "running", msgs |-> b]
    BY <1>3 DEF Sends
  <2>2. /\ \A i \in DOMAIN sentS' : \/ i \in DOMAIN sentS /\ sentS'[i] = sentS[i]
                                    \/ i = Len(sentS) + 1 /\ sentS'[i] = b
        /\ sentS' # <<>> /\ sentS'[Len(sentS')] = b
        /\ \A i \in DOMAIN sentS : i \in Nat /\ i < Len(sentS) + 1
        /\ Len(sentS) \in Nat
    BY <2>1, AppendElems DEF OrderedInv, OrderedType
  <2>3. inflightS' # S!NoTask => sentS' # <<>> /\ inflightS'.msgs = sentS'[Len(sentS')]
    BY <2>1, <2>2
  <2>4. ASSUME NEW i \in DOMAIN sentS'
        PROVE  /\ IdsOf(sentS'[i]) \subseteq MessagesOf("key")
               /\ Precede(IdsOf(sentS'[i]), Kept' \cup IdsOf(rxS') \cup IdsOf(drx))
    <3>1. CASE i \in DOMAIN sentS /\ sentS'[i] = sentS[i]
      BY <1>1, <2>1, <3>1 DEF Precede
    <3>2. CASE sentS'[i] = b
      BY <2>1, <3>2 DEF Precede
    <3> QED BY <2>2, <3>1, <3>2
  <2>5. ASSUME NEW i \in DOMAIN sentS', NEW j \in DOMAIN sentS', i < j
        PROVE  Precede(IdsOf(sentS'[i]), IdsOf(sentS'[j]))
    <3>1. i \in DOMAIN sentS /\ sentS'[i] = sentS[i]
      BY <2>2, <2>5
    <3>2. CASE j \in DOMAIN sentS /\ sentS'[j] = sentS[j]
      BY <1>1, <2>5, <3>1, <3>2
    <3>3. CASE sentS'[j] = b
      BY <2>1, <3>1, <3>3 DEF Precede
    <3> QED BY <2>2, <3>2, <3>3
  <2>6. Kept' \subseteq MessagesOf("key") /\ Precede(Kept', IdsOf(rxS') \cup IdsOf(drx))
    BY <2>1 DEF Precede
  <2> QED BY <1>1, <2>3, <2>4, <2>5, <2>6 DEF OrderedLine
<1> QED BY <1>2, <1>3 DEF Moves

\* The messages stay in line.
LEMMA LineS ==
    ASSUME DispatcherInv, OrderedInv, StaysS, Shape, OrderedType'
    PROVE  OrderedLine'
<1>1. /\ MessagesOf("key")' = MessagesOf("key") /\ drx' = drx
      /\ IdsOf(rxS') \subseteq IdsOf(rxS) /\ OrderedLine
  BY StaysFacts, QueueS DEF OrderedInv
<1>2. CASE UNCHANGED <<sentS, pending_msgs, batchS>> /\ (inflightS' = inflightS \/ inflightS' = S!NoTask)
  <2>1. Kept' = Kept
    BY <1>2 DEF Kept
  <2> QED BY <1>1, <1>2, <2>1 DEF OrderedLine, Precede
<1>3. CASE Takes
  <2>1. TakenS /\ Head(rxS).op = "publish" /\ Moves(Kept \cup {Head(rxS).id})
    BY <1>3 DEF Takes
  <2>2. /\ Kept \cup {Head(rxS).id} \subseteq MessagesOf("key")
        /\ Precede(Kept \cup {Head(rxS).id}, IdsOf(rxS') \cup IdsOf(drx))
        /\ \A i \in DOMAIN sentS :
             Precede(IdsOf(sentS[i]), Kept \cup {Head(rxS).id} \cup IdsOf(rxS') \cup IdsOf(drx))
    BY <1>1, <2>1, TakenFacts DEF OrderedLine, Precede
  <2> QED BY <2>1, <2>2, MovesLine
<1>4. CASE Joins
  <2>1. rxS' = rxS /\ Moves(Kept)
    BY <1>4 DEF Joins
  <2> QED BY <1>1, <2>1, MovesLine DEF OrderedLine
<1>5. CASE Pauses
  <2>1. /\ Kept' = {} /\ sentS' = sentS /\ inflightS' = S!NoTask
        /\ Increasing(pending_msgs') /\ IdsOf(batchS') = {}
    BY <1>5, EmptyIds DEF Pauses, Kept
  <2> QED BY <1>1, <2>1 DEF OrderedLine, Precede
<1>6. ASSUME NEW o \in {"ok", "err", "panic"}, Ends(o) PROVE OrderedLine'
  <2>1. /\ Kept' = Kept /\ inflightS # S!NoTask /\ inflightS'.msgs = inflightS.msgs
        /\ UNCHANGED <<sentS, pending_msgs, batchS>>
    BY <1>6, NoTaskType DEF Ends, Kept
  <2> QED BY <1>1, <2>1 DEF OrderedLine, Precede
<1> QED BY <1>2, <1>3, <1>4, <1>5, <1>6 DEF Shape, Passes, Resumes, Rejects

\* No message is lost: one that leaves the actor is resolved.
LEMMA HeldStep ==
    ASSUME DispatcherInv, OrderedInv, StaysS, Shape, OrderedType'
    PROVE  HeldOrQueued("key", HeldS)'
<1> SUFFICES ASSUME NEW m \in MessagesOf("key"), fut'[m] = "waiting"
             PROVE  m \in IdsOf(drx) \cup HeldS'
  BY StaysFacts DEF HeldOrQueued
<1>1. m \in Ids /\ fut[m] = "waiting" /\ m \in IdsOf(drx) \cup HeldS
  BY FutureS, IdsAreNumbers DEF OrderedInv, HeldOrQueued
<1> SUFFICES ASSUME m \in HeldS PROVE m \in HeldS'
  BY <1>1
<1>2. m \in IdsOf(rxS) \/ m \in Kept \/ (inflightS.status = "running" /\ m \in IdsOf(inflightS.msgs))
  BY DEF HeldS, Running
<1>3. TakenS => m \in IdsOf(rxS') \/ m = Head(rxS).id \/ m \in Kept
                  \/ (inflightS.status = "running" /\ m \in IdsOf(inflightS.msgs))
  BY <1>2, TakenFacts
<1>4. TakenS /\ Head(rxS).op # "publish" => m # Head(rxS).id
  BY TakenFacts
<1>5. CASE Passes \/ Resumes
  <2>1. /\ Kept' = Kept /\ inflightS' = inflightS
        /\ rxS' = rxS \/ (TakenS /\ Head(rxS).op # "publish")
    BY <1>5 DEF Passes, Resumes, Kept
  <2> QED BY <1>2, <1>3, <1>4, <2>1 DEF HeldS, Running
<1>6. CASE Rejects
  <2>1. /\ Kept' = Kept /\ inflightS' = inflightS /\ TakenS
        /\ fut' = Resolve({Head(rxS).id}, "paused")
    BY <1>6 DEF Rejects, Kept
  <2>2. m # Head(rxS).id
    BY <1>1, <2>1 DEF Resolve
  <2> QED BY <1>3, <2>1, <2>2 DEF HeldS, Running
<1>7. ASSUME NEW pool, Moves(pool), Kept \subseteq pool,
             m \in IdsOf(rxS') \cup pool \/ (inflightS.status = "running" /\ m \in IdsOf(inflightS.msgs))
      PROVE  m \in HeldS'
  <2>1. CASE Keeps(pool)
    <3>1. Kept' = pool /\ (inflightS' = inflightS \/ inflightS.status # "running")
      BY <1>7, <2>1 DEF Keeps, Moves
    <3> QED BY <1>7, <3>1 DEF HeldS, Running
  <2>2. CASE Sends(pool) /\ inflightS.status # "running"
    <3>1. PICK b \in Seq(Cmd) : /\ IdsOf(b) \cup Kept' = pool
                                /\ inflightS' = [status |-> "running", msgs |-> b]
      BY <2>2 DEF Sends
    <3>2. Running' = IdsOf(b)
      BY <3>1 DEF Running
    <3> QED BY <1>7, <2>2, <3>1, <3>2 DEF HeldS
  <2> QED BY <1>7, <2>1, <2>2 DEF Moves
<1>8. CASE Takes
  BY <1>3, <1>7, <1>8 DEF Takes
<1>9. CASE Joins
  BY <1>2, <1>7, <1>9 DEF Joins
<1>10. CASE Pauses
  <2>1. /\ rxS' = rxS /\ fut' = Resolve(IdsOf(pending_msgs), "paused")
        /\ inflightS.status \in {"err", "panic"} /\ batchS = <<>>
    BY <1>10, NoTaskType DEF Pauses, OrderedInv, OrderedLocal
  <2>2. m \notin IdsOf(pending_msgs)
    BY <1>1, <2>1 DEF Resolve
  <2> QED BY <1>2, <2>1, <2>2, EmptyIds DEF HeldS, Kept
<1>11. ASSUME NEW o \in {"ok", "err", "panic"}, Ends(o) PROVE m \in HeldS'
  <2>1. /\ Kept' = Kept /\ rxS' = rxS /\ S!FutureOf(o) # "waiting"
        /\ fut' = Resolve(IdsOf(inflightS.msgs), S!FutureOf(o))
    BY <1>11 DEF Ends, Kept, S!FutureOf
  <2>2. m \notin IdsOf(inflightS.msgs)
    BY <1>1, <2>1 DEF Resolve
  <2> QED BY <1>2, <2>1, <2>2 DEF HeldS
<1> QED BY <1>5, <1>6, <1>8, <1>9, <1>10, <1>11 DEF Shape

\* An answered flush is a barrier.
LEMMA BarrierStep ==
    ASSUME DispatcherInv, OrderedInv, StaysS, Shape, Answers
    PROVE  Barrier("key", repliedS)'
<1>1. hist' = hist /\ MessagesOf("key")' = MessagesOf("key")
  BY StaysFacts
<1>2. \A m \in MessagesOf("key") : fut'[m] = "waiting" => fut[m] = "waiting"
  BY FutureS, IdsAreNumbers
<1>3. \A f \in repliedS : \A m \in MessagesOf("key") : m < f => fut[m] # "waiting"
  BY DEF OrderedInv, Barrier
<1>4. \A m \in MessagesOf("key") : fut[m] = "waiting" => m \in HeldS \cup IdsOf(drx)
  BY DEF OrderedInv, HeldOrQueued
<1> QED BY <1>1, <1>2, <1>3, <1>4 DEF Answers, Barrier, OrderedInv

\* An outcome of a request is told to messages of that request.
LEMMA ToldStep ==
    ASSUME DispatcherInv, OrderedInv, StaysS, Shape, OrderedType'
    PROVE  Told("key", sentS)'
<1>1. /\ hist' = hist /\ MessagesOf("key")' = MessagesOf("key") /\ dpc' = dpc /\ pcC' = pcC
  BY StaysFacts
<1>2. SentIds(sentS) \subseteq SentIds(sentS')
  <2>1. sentS' = sentS \/ \E b \in Seq(Cmd) : sentS' = Append(sentS, b)
    BY DEF Shape, Passes, Resumes, Rejects, Takes, Joins, Moves, Keeps, Sends, Pauses, Ends
  <2>2. \A i \in DOMAIN sentS : i \in DOMAIN sentS' /\ sentS'[i] = sentS[i]
    <3>1. sentS \in Seq(Seq(Cmd))
      BY DEF OrderedInv, OrderedType
    <3>2. ASSUME NEW b \in Seq(Cmd), sentS' = Append(sentS, b)
          PROVE  \A i \in DOMAIN sentS : i \in DOMAIN sentS' /\ sentS'[i] = sentS[i]
      BY <3>1, <3>2, AppendElems
    <3> QED BY <2>1, <3>2
  <2> QED BY <2>2 DEF SentIds
<1>3. \A m \in MessagesOf("key") : fut'[m] \in {"ok", "rpc", "shutdown"} =>
         fut'[m] = fut[m] \/ m \in SentIds(sentS)
  <2> SUFFICES ASSUME NEW m \in MessagesOf("key"), fut'[m] \in {"ok", "rpc", "shutdown"},
                      fut'[m] # fut[m]
               PROVE  m \in SentIds(sentS)
    OBVIOUS
  <2>1. m \in Ids
    BY IdsAreNumbers
  <2>2. ~Rejects /\ ~Pauses
    BY <2>1 DEF Rejects, Pauses, Resolve
  <2>3. PICK o \in {"ok", "err", "panic"} : Ends(o)
    BY <2>2 DEF Shape, Passes, Resumes, Takes, Joins, Moves
  <2>4. m \in IdsOf(inflightS.msgs) /\ inflightS # S!NoTask
    BY <2>1, <2>3, NoTaskType DEF Ends, Resolve
  <2> QED BY <2>4, TaskMessages DEF OrderedInv
<1> QED BY <1>1, <1>2, <1>3 DEF Told, OrderedInv

\* What lies ahead of the actor only shrinks.
LEMMA AheadShrinks ==
    ASSUME DispatcherInv, OrderedInv, StaysS, Shape
    PROVE  /\ Queued' \subseteq Queued /\ Ahead' \subseteq Ahead
           /\ Kept' \subseteq Kept \cup IdsOf(rxS)
<1>1. IdsOf(rxS') \subseteq IdsOf(rxS) /\ drx' = drx /\ dpc' = dpc /\ hist' = hist
  BY QueueS, StaysFacts
<1>2. Queued' \subseteq Queued
  BY <1>1 DEF Queued
<1>3. Kept' \subseteq Kept \cup IdsOf(rxS)
  <2>1. \A pool : Moves(pool) => Kept' \subseteq pool
    BY DEF Moves, Keeps, Sends
  <2>2. CASE Takes
    BY <2>1, <2>2, TakenFacts DEF Takes
  <2>3. CASE Joins
    BY <2>1, <2>3 DEF Joins
  <2>4. CASE Pauses
    BY <2>4, EmptyIds DEF Pauses, Kept
  <2> QED BY <2>2, <2>3, <2>4 DEF Shape, Passes, Resumes, Rejects, Ends, Kept
<1> QED BY <1>2, <1>3 DEF Ahead, Queued

\* The failed messages, and how they come to fail.
LEMMA NewlyFailed ==
    ASSUME DispatcherInv, OrderedInv, StaysS, Shape,
           NEW m \in MessagesOf("key"), fut'[m] \in {"rpc", "paused", "shutdown"}, m \notin Failed
    PROVE  /\ Precede({m}, IdsOf(rxS') \cup IdsOf(drx))
           /\ paused' \/ Joining(m)'
           /\ sentS' = sentS
           /\ \A i \in DOMAIN sentS : m \notin IdsOf(sentS[i]) => Precede(IdsOf(sentS[i]), {m})
<1>1. fut'[m] # fut[m] /\ m \in Ids
  BY IdsAreNumbers DEF Failed
<1>2. CASE Rejects
  <2>1. m = Head(rxS).id /\ TakenS /\ paused' /\ sentS' = sentS
    BY <1>1, <1>2 DEF Rejects, Resolve
  <2> QED BY <2>1, TakenFacts
<1>3. CASE Pauses
  <2>1. m \in Kept /\ paused' /\ sentS' = sentS /\ rxS' = rxS
    BY <1>1, <1>3 DEF Pauses, Resolve, Kept
  <2> QED BY <2>1 DEF OrderedInv, OrderedLine, Precede
<1>4. ASSUME NEW o \in {"ok", "err", "panic"}, Ends(o)
      PROVE  /\ Precede({m}, IdsOf(rxS') \cup IdsOf(drx))
             /\ paused' \/ Joining(m)'
             /\ sentS' = sentS
             /\ \A i \in DOMAIN sentS : m \notin IdsOf(sentS[i]) => Precede(IdsOf(sentS[i]), {m})
  <2>1. /\ m \in IdsOf(inflightS.msgs) /\ inflightS # S!NoTask /\ sentS' = sentS /\ rxS' = rxS
        /\ fut'[m] = S!FutureOf(o) /\ inflightS' = [status |-> o, msgs |-> inflightS.msgs]
    BY <1>1, <1>4, NoTaskType DEF Ends, Resolve
  <2>2. o \in {"err", "panic"}
    BY <2>1 DEF S!FutureOf
  <2>3. /\ Len(sentS) \in DOMAIN sentS /\ m \in IdsOf(sentS[Len(sentS)])
        /\ Precede({m}, IdsOf(rxS') \cup IdsOf(drx))
    BY <2>1, TaskMessages DEF OrderedInv, Precede
  <2>4. ASSUME NEW i \in DOMAIN sentS, m \notin IdsOf(sentS[i])
        PROVE  Precede(IdsOf(sentS[i]), {m})
    <3>1. i < Len(sentS)
      BY <2>3, <2>4 DEF OrderedInv, OrderedType
    <3> QED BY <2>3, <3>1 DEF OrderedInv, OrderedLine, Precede
  <2> QED BY <2>1, <2>2, <2>3, <2>4 DEF Joining
<1> QED BY <1>1, <1>2, <1>3, <1>4 DEF Shape, Passes, Resumes, Takes, Joins, Moves

\* A failed message was received before all that is queued.
LEMMA ReceivedStep ==
    ASSUME DispatcherInv, OrderedInv, KeyInv, StaysS, Shape
    PROVE  ReceivedOrDropped'
<1> SUFFICES ASSUME NEW m \in Failed' PROVE Precede({m}, Queued') \/ Precede(Ahead', {m})
  BY DEF ReceivedOrDropped
<1>1. m \in MessagesOf("key") /\ fut'[m] \in {"rpc", "paused", "shutdown"}
  BY StaysFacts DEF Failed
<1>2. CASE m \in Failed
  BY <1>2, AheadShrinks DEF KeyInv, ReceivedOrDropped, Precede
<1>3. CASE m \notin Failed
  <2>1. Precede({m}, IdsOf(rxS') \cup IdsOf(drx))
    BY <1>1, <1>3, NewlyFailed
  <2>2. m < Len(hist) + 1
    BY <1>1, IdsAreNumbers
  <2> QED BY <2>1, <2>2, StaysFacts DEF Queued, Precede
<1> QED BY <1>2, <1>3

\* A Resume covers all the messages that failed before it.
LEMMA ResumeCovers ==
    ASSUME DispatcherInv, OrderedInv, KeyInv, StaysS, Resumes, NEW m \in Failed
    PROVE  Covered(m)'
<1>1. Shape /\ TakenS /\ Head(rxS).op = "resume" /\ paused
  BY DEF Shape, Resumes
<1>2. /\ Head(rxS).id \in DOMAIN hist /\ hist[Head(rxS).id].op = "resume"
      /\ hist[Head(rxS).id].key = "key"
      /\ Precede({Head(rxS).id}, IdsOf(rxS') \cup IdsOf(drx))
      /\ Head(rxS).id \in IdsOf(rxS)
  BY <1>1, TakenFacts
<1>3. Kept' = {}
  BY <1>1, EmptyIds DEF OrderedInv, OrderedLocal, Kept, Resumes
<1> SUFFICES ASSUME NEW n \in Ahead', m < n PROVE ResumedBetween(m, n)
  BY StaysFacts DEF Covered
<1>4. n \in Queued' /\ n \in Ahead
  BY <1>1, <1>3, AheadShrinks DEF Ahead
<1>5. m \in Nat /\ n \in Nat
  BY <1>4, IdsAreNumbers DEF Ahead, Queued, Failed
<1>6. ~Precede(Ahead, {m})
  BY <1>4, <1>5 DEF Precede
<1>7. m < Head(rxS).id
  BY <1>2, <1>6 DEF KeyInv, ReceivedOrDropped, Queued, Precede
<1>8. Head(rxS).id < n /\ Head(rxS).id \in Nat
  BY <1>2, <1>4, IdsAreNumbers, StaysFacts DEF Queued, Precede
<1>9. Head(rxS).id \in (m + 1)..(n - 1)
  BY <1>5, <1>7, <1>8
<1> QED BY <1>2, <1>9 DEF ResumedBetween

\* Every failure is still handled.
LEMMA FailureStep ==
    ASSUME DispatcherInv, OrderedInv, KeyInv, StaysS, Shape
    PROVE  FailureInv'
<1> SUFFICES ASSUME NEW m \in Failed' PROVE paused' \/ Joining(m)' \/ Covered(m)'
  BY DEF FailureInv
<1>1. m \in MessagesOf("key") /\ fut'[m] \in {"rpc", "paused", "shutdown"}
  BY StaysFacts DEF Failed
<1>2. CASE m \notin Failed
  BY <1>1, <1>2, NewlyFailed
<1>3. CASE m \in Failed /\ Covered(m)
  BY <1>3, AheadShrinks, StaysFacts DEF Covered
<1>4. CASE m \in Failed /\ Resumes
  BY <1>4, ResumeCovers
<1>5. CASE paused /\ ~Resumes
  BY <1>5 DEF Shape, Passes, Rejects, Takes, Joins, Moves, Pauses, Ends
<1>6. CASE Joining(m) /\ ~Resumes
  <2>1. paused' \/ inflightS' = inflightS
    BY <1>6 DEF Joining, Shape, Passes, Rejects, Takes, Joins, Moves, Pauses, Ends
  <2> QED BY <1>6, <2>1 DEF Joining
<1> QED BY <1>2, <1>3, <1>4, <1>5, <1>6 DEF KeyInv, FailureInv

\* Nothing overtakes a failed message.
LEMMA OvertakeStep ==
    ASSUME DispatcherInv, OrderedInv, KeyInv, StaysS, Shape
    PROVE  KeyOrderSurvivesFailure'
<1> SUFFICES ASSUME NEW m \in Ids, fut'[m] \in {"rpc", "paused", "shutdown"}, hist[m].key = "key",
                    NEW i \in DOMAIN sentS', m \notin IdsOf(sentS'[i]),
                    NEW n \in IdsOf(sentS'[i]), m < n
             PROVE  ResumedBetween(m, n)
  BY StaysFacts DEF KeyOrderSurvivesFailure, ResumedBetween, S!IdsOf, IdsOf
<1>1. m \in MessagesOf("key")
  BY FutureS DEF DispatcherInv, HistoryInv, MessagesOf
<1>2. CASE m \notin Failed
  <2>1. sentS' = sentS /\ n < m
    BY <1>1, <1>2, NewlyFailed DEF Precede
  <2>2. m \in Nat /\ n \in Nat
    BY <1>1, <2>1, IdsAreNumbers DEF OrderedInv, OrderedLine
  <2> QED BY <2>1, <2>2
<1>3. CASE m \in Failed /\ i \in DOMAIN sentS /\ sentS'[i] = sentS[i]
  BY <1>3 DEF KeyInv, KeyOrderSurvivesFailure, ResumedBetween, S!IdsOf, IdsOf, Failed, MessagesOf
<1>4. CASE m \in Failed /\ ~(i \in DOMAIN sentS /\ sentS'[i] = sentS[i])
  <2>1. PICK pool : /\ Moves(pool) /\ Sends(pool) /\ inflightS.status \in {"none", "ok"}
                    /\ pool \subseteq Kept \cup IdsOf(rxS)
    <3>1. sentS' # sentS
      BY <1>4
    <3>2. CASE Takes
      <4>1. Head(rxS).id \in IdsOf(rxS)
        BY <3>2, TakenFacts DEF Takes
      <4> QED BY <3>1, <3>2, <4>1 DEF Takes, Moves, Keeps
    <3>3. CASE Joins
      BY <3>1, <3>3 DEF Joins, Moves, Keeps
    <3> QED BY <3>1, <3>2, <3>3 DEF Shape, Passes, Resumes, Rejects, Pauses, Ends
  <2>2. PICK b \in Seq(Cmd) : sentS' = Append(sentS, b) /\ IdsOf(b) \subseteq pool
    BY <2>1 DEF Sends
  <2>3. sentS'[i] = b
    BY <1>4, <2>2, AppendElems DEF OrderedInv, OrderedType
  <2>4. n \in Ahead
    BY <2>1, <2>2, <2>3 DEF Ahead, Queued
  <2>5. ~paused /\ ~Joining(m)
    BY <2>1 DEF Sends, Joining
  <2> QED BY <1>4, <2>4, <2>5 DEF KeyInv, FailureInv, Covered
<1> QED BY <1>2, <1>3, <1>4

-----------------------------------------------------------------------------
(***************************************************************************)
(* A step of one actor, seen by the Dispatcher and by the other actor.     *)
(***************************************************************************)
\* Only messages of key get an outcome, and none loses it.
Resolves(key) ==
    /\ fut' \in [Ids -> {"waiting", "ok", "rpc", "paused", "shutdown"}]
    /\ \A m \in Ids : fut'[m] # fut[m] => m \in MessagesOf(key) /\ fut'[m] # "waiting"

\* The Dispatcher does not notice.
LEMMA DispatcherFrame ==
    ASSUME DispatcherInv, UNCHANGED dispatcher, NEW key \in Keys, Resolves(key)
    PROVE  DispatcherInv'
<1>1. /\ UNCHANGED <<hist, alive, drx, dpc, actors, waiters, returned, abandoned>>
      /\ \A k : MessagesOf(k)' = MessagesOf(k)
      /\ IdsWith(hist, "flush")' = IdsWith(hist, "flush")
  BY DEF dispatcher, MessagesOf, IdsWith
<1>2. /\ DOMAIN hist = 1..Len(hist) /\ Len(hist) <= MaxCmds /\ Len(hist) \in Nat
      /\ DOMAIN hist \subseteq Ids
  <2>1. hist \in Seq(Cmds) /\ Len(hist) <= MaxCmds
    BY DEF DispatcherInv, HistoryInv
  <2>2. DOMAIN hist = 1..Len(hist) /\ Len(hist) \in Nat
    BY <2>1
  <2> QED BY <2>1, <2>2, PublisherAssumption DEF Ids
<1>3. \A m \in DOMAIN hist : fut[m] # "waiting" => fut'[m] # "waiting"
  BY <1>2 DEF Resolves
<1>4. TypeOK'
  BY <1>1 DEF DispatcherInv, TypeOK, Resolves
<1>5. HistoryInv'
  <2>1. \A m \in Ids : fut'[m] # "waiting" => m \in MessagesOf("key") \cup MessagesOf("")
    BY DEF DispatcherInv, HistoryInv, Resolves, Keys
  <2> QED BY <1>1, <2>1 DEF DispatcherInv, HistoryInv
<1>6. DispatchQueueInv' /\ PhaseInv' /\ DispatchedInv'
  BY <1>1 DEF DispatcherInv, DispatchQueueInv, PhaseInv, DispatchedInv
<1>7. WaitersInv'
  <2>1. \A k : MessagesOf(k) \subseteq DOMAIN hist
    BY DEF MessagesOf
  <2> QED BY <1>1, <1>3, <2>1 DEF DispatcherInv, WaitersInv
<1>8. ReturnedInv'
  <2>1. ASSUME NEW f \in returned, NEW m \in 1..(f - 1) PROVE m \in DOMAIN hist
    BY <1>2 DEF DispatcherInv, ReturnedInv
  <2> QED BY <1>1, <1>3, <2>1 DEF DispatcherInv, ReturnedInv, FlushCoversEveryKey
<1> QED BY <1>4, <1>5, <1>6, <1>7, <1>8 DEF DispatcherInv

\* Messages have one key.
LEMMA OneKey == MessagesOf("key") \cap MessagesOf("") = {}
  BY DEF MessagesOf

\* The numbers of messages.
LEMMA MessageIds ==
    ASSUME DispatcherInv, NEW key
    PROVE  MessagesOf(key) \subseteq Ids /\ MessagesOf(key) \subseteq DOMAIN hist
           /\ DOMAIN hist = 1..Len(hist) /\ Len(hist) \in Nat /\ DOMAIN hist \subseteq Ids
<1>1. hist \in Seq(Cmds) /\ Len(hist) <= MaxCmds
  BY DEF DispatcherInv, HistoryInv
<1>2. DOMAIN hist = 1..Len(hist) /\ Len(hist) \in Nat
  BY <1>1
<1>3. DOMAIN hist \subseteq Ids
  BY <1>1, <1>2, PublisherAssumption DEF Ids
<1> QED BY <1>2, <1>3 DEF MessagesOf

\* Nor does the actor without a key, when one with the key resolves its own.
LEMMA UnorderedFrame ==
    ASSUME DispatcherInv, UnorderedInv, StaysS, Resolves("key")
    PROVE  UnorderedInv'
<1>1. /\ UNCHANGED <<hist, drx, dpc, rxC, openC, batchC, inflightC, pcC, contC, repliedC, sentC>>
      /\ MessagesOf("")' = MessagesOf("")
  BY DEF StaysS, dispatcher, unordered, MessagesOf
<1>2. \A m \in MessagesOf("") : fut'[m] = fut[m]
  BY OneKey, MessageIds DEF Resolves
<1>3. UnorderedType' /\ QueueOf(rxC, "")' /\ UnorderedLocal' /\ ClosedC' /\ UnorderedLine'
  BY <1>1 DEF UnorderedInv, UnorderedType, QueueOf, UnorderedLocal, InProgress, ClosedC,
              UnorderedLine
<1>4. HeldC' = HeldC
  BY <1>1 DEF HeldC, Live
<1>5. HeldOrQueued("", HeldC)' /\ Barrier("", repliedC)' /\ Told("", sentC)'
  BY <1>1, <1>2, <1>4 DEF UnorderedInv, HeldOrQueued, Barrier, Told
<1> QED BY <1>3, <1>5 DEF UnorderedInv

\* Everything but the actor without a key and the futures stays.
StaysC == UNCHANGED <<dispatcher, ordered>>

\* And the other way round; a dead actor stays dead.
LEMMA OrderedFrame ==
    ASSUME DispatcherInv, OrderedInv, KeyInv, StaysC, Resolves(""), pcC = "dead" => pcC' = "dead"
    PROVE  OrderedInv' /\ KeyInv'
<1>1. /\ UNCHANGED <<hist, drx, dpc, rxS, openS, pending_msgs, batchS, paused, inflightS, pcS,
                     contS, repliedS, sentS>>
      /\ MessagesOf("key")' = MessagesOf("key")
  BY DEF StaysC, dispatcher, ordered, MessagesOf
<1>2. \A m \in MessagesOf("key") : fut'[m] = fut[m]
  BY OneKey, MessageIds DEF Resolves
<1>3. OrderedType' /\ QueueOf(rxS, "key")' /\ OrderedLocal' /\ ClosedS'
  BY <1>1 DEF OrderedInv, OrderedType, QueueOf, OrderedLocal, InProgress, ClosedS
<1>4. HeldS' = HeldS /\ Kept' = Kept
  BY <1>1 DEF HeldS, Kept, Running
<1>5. OrderedLine'
  BY <1>1, <1>4 DEF OrderedInv, OrderedLine
<1>6. HeldOrQueued("key", HeldS)' /\ Barrier("key", repliedS)' /\ Told("key", sentS)'
  BY <1>1, <1>2, <1>4 DEF OrderedInv, HeldOrQueued, Barrier, Told
<1>7. Failed' = Failed /\ Queued' = Queued /\ Ahead' = Ahead
  BY <1>1, <1>2, <1>4 DEF Failed, Queued, Ahead
<1>8. ReceivedOrDropped' /\ FailureInv'
  BY <1>1, <1>7 DEF KeyInv, ReceivedOrDropped, FailureInv, Joining, Covered, ResumedBetween
<1>9. KeyOrderSurvivesFailure'
  <2>1. hist' = hist /\ sentS' = sentS /\ (\A m, n : ResumedBetween(m, n)' = ResumedBetween(m, n))
    BY <1>1 DEF ResumedBetween
  <2>2. ASSUME NEW m \in Ids, fut'[m] \in {"rpc", "paused", "shutdown"}, hist[m].key = "key"
        PROVE  fut[m] \in {"rpc", "paused", "shutdown"}
    <3>1. m \notin MessagesOf("")
      BY <2>2 DEF MessagesOf
    <3> QED BY <2>2, <3>1 DEF Resolves
  <2>3. ASSUME NEW m \in Ids, fut[m] \in {"rpc", "paused", "shutdown"}, hist[m].key = "key",
               NEW i \in DOMAIN sentS, m \notin IdsOf(sentS[i]),
               NEW n \in IdsOf(sentS[i]), m < n
        PROVE  ResumedBetween(m, n)
    BY <2>3 DEF KeyInv, KeyOrderSurvivesFailure, ResumedBetween, S!IdsOf, IdsOf
  <2> SUFFICES ASSUME NEW m \in Ids, fut'[m] \in {"rpc", "paused", "shutdown"}, hist'[m].key = "key",
                      NEW i \in DOMAIN sentS', m \notin IdsOf(sentS'[i]),
                      NEW n \in IdsOf(sentS'[i]), m < n
               PROVE  ResumedBetween(m, n)'
    BY DEF KeyOrderSurvivesFailure, ResumedBetween, S!IdsOf, IdsOf
  <2> QED BY <2>1, <2>2, <2>3
<1> QED BY <1>3, <1>5, <1>6, <1>8, <1>9 DEF OrderedInv, KeyInv

\* A step of the actor of the ordering key keeps all the invariants.
LEMMA OrderedStep ==
    ASSUME IInv, OrderedActor \/ OrderedRpc
    PROVE  IInv'
<1>1. DispatcherInv /\ OrderedInv /\ KeyInv /\ UnorderedInv
  BY DEF IInv
<1>2. StaysS /\ OrderedType' /\ OrderedLocal' /\ Shape /\ Answers /\ ClosedS'
  BY <1>1, StepEffectS DEF EffectS
<1>3. Resolves("key")
  BY <1>1, <1>2, FutureS DEF Resolves
<1>4. DispatcherInv'
  BY <1>1, <1>2, <1>3, DispatcherFrame DEF StaysS, Keys
<1>5. UnorderedInv'
  BY <1>1, <1>2, <1>3, UnorderedFrame
<1>6. OrderedInv'
  BY <1>1, <1>2, QueueS, LineS, HeldStep, BarrierStep, ToldStep DEF OrderedInv
<1>7. KeyInv'
  BY <1>1, <1>2, ReceivedStep, FailureStep, OvertakeStep DEF KeyInv
<1> QED BY <1>4, <1>5, <1>6, <1>7 DEF IInv

-----------------------------------------------------------------------------
(***************************************************************************)
(* The steps of the actor without a key.                                   *)
(***************************************************************************)
ElemsOf(s) == {s[i] : i \in DOMAIN s}
LiveIds    == UNION {IdsOf(t.msgs) : t \in Live}

\* The elements of two sequences put together, of one and of none.
LEMMA ConcatElems ==
    ASSUME NEW T, NEW s \in Seq(T), NEW t \in Seq(T)
    PROVE  s \o t \in Seq(T) /\ ElemsOf(s \o t) = ElemsOf(s) \cup ElemsOf(t)
<1> DEFINE a == s \o t
<1>1. /\ a \in Seq(T) /\ Len(s) \in Nat
      /\ \A i \in DOMAIN a : \/ i \in DOMAIN s /\ a[i] = s[i]
                             \/ i - Len(s) \in DOMAIN t /\ a[i] = t[i - Len(s)]
      /\ \A i \in DOMAIN s : i \in DOMAIN a /\ a[i] = s[i]
      /\ \A i \in DOMAIN t : i + Len(s) \in DOMAIN a /\ a[i + Len(s)] = t[i]
  OBVIOUS
<1> HIDE DEF a
<1>2. ElemsOf(a) \subseteq ElemsOf(s) \cup ElemsOf(t)
  BY <1>1 DEF ElemsOf
<1>3. ElemsOf(s) \subseteq ElemsOf(a)
  BY <1>1 DEF ElemsOf
<1>4. ElemsOf(t) \subseteq ElemsOf(a)
  BY <1>1 DEF ElemsOf
<1> QED BY <1>1, <1>2, <1>3, <1>4 DEF a

\* The elements of the empty sequence and of one of a single element.
LEMMA FewElems ==
    ASSUME NEW T, NEW x \in T
    PROVE  ElemsOf(<<>>) = {} /\ <<x>> \in Seq(T) /\ ElemsOf(<<x>>) = {x} /\ <<>> \in Seq(T)
<1>1. <<x>> \in Seq(T) /\ DOMAIN <<x>> = {1} /\ <<x>>[1] = x /\ DOMAIN <<>> = {} /\ <<>> \in Seq(T)
  OBVIOUS
<1> DEFINE o == <<x>>
<1>2. ElemsOf(<<>>) = {}
  BY <1>1 DEF ElemsOf
<1>3. o \in Seq(T) /\ DOMAIN o = {1} /\ o[1] = x
  BY <1>1
<1> HIDE DEF o
<1>4. ElemsOf(o) = {x}
  BY <1>3 DEF ElemsOf
<1> QED BY <1>1, <1>2, <1>4 DEF o

\* The messages of all the requests.
LEMMA SentElems == ASSUME NEW s PROVE SentIds(s) = UNION {IdsOf(b) : b \in ElemsOf(s)}
  BY DEF SentIds, ElemsOf

\* The messages of pool are sent in the requests out, or stay in the batch.
MovesC(pool) ==
    /\ sentC' \in Seq(Seq(Cmd)) /\ batchC' \in Seq(Cmd)
    /\ \E out \in SUBSET Seq(Cmd) :
          /\ ElemsOf(sentC') = ElemsOf(sentC) \cup out
          /\ inflightC' = inflightC \cup {C!Spawn(b) : b \in out}
          /\ IdsOf(batchC') \cup UNION {IdsOf(b) : b \in out} = pool

\* flush sends the batch, if there is one.
LEMMA FlushC ==
    ASSUME UnorderedType, C!flush
    PROVE  MovesC(IdsOf(batchC)) /\ batchC' = <<>>
<1>1. batchC' = <<>> /\ batchC \in Seq(Cmd) /\ sentC \in Seq(Seq(Cmd)) /\ <<>> \in Seq(Cmd)
  BY DEF C!flush, UnorderedType
<1>2. CASE batchC = <<>>
  <2>1. sentC' = sentC /\ inflightC' = inflightC
    BY <1>2 DEF C!flush
  <2> DEFINE out == {}
  <2>2. /\ out \in SUBSET Seq(Cmd) /\ {C!Spawn(b) : b \in out} = {}
        /\ UNION {IdsOf(b) : b \in out} = {} /\ IdsOf(batchC') = IdsOf(batchC)
    BY <1>1, <1>2
  <2>3. /\ ElemsOf(sentC') = ElemsOf(sentC) \cup out
        /\ inflightC' = inflightC \cup {C!Spawn(b) : b \in out}
        /\ IdsOf(batchC') \cup UNION {IdsOf(b) : b \in out} = IdsOf(batchC)
    BY <2>1, <2>2
  <2>4. sentC' \in Seq(Seq(Cmd)) /\ batchC' \in Seq(Cmd)
    BY <1>1, <2>1
  <2> HIDE DEF out
  <2> QED BY <1>1, <2>2, <2>3, <2>4 DEF MovesC
<1>3. CASE batchC # <<>>
  <2>1. sentC' = Append(sentC, batchC) /\ inflightC' = inflightC \cup {C!Spawn(batchC)}
    BY <1>3 DEF C!flush
  <2>2. sentC' \in Seq(Seq(Cmd)) /\ ElemsOf(sentC') = ElemsOf(sentC) \cup {batchC}
    <3>1. /\ sentC' \in Seq(Seq(Cmd))
          /\ \A i \in DOMAIN sentC' : \/ i \in DOMAIN sentC /\ sentC'[i] = sentC[i]
                                      \/ sentC'[i] = batchC
          /\ \A i \in DOMAIN sentC : i \in DOMAIN sentC' /\ sentC'[i] = sentC[i]
          /\ Len(sentC) + 1 \in DOMAIN sentC' /\ sentC'[Len(sentC) + 1] = batchC
      BY <1>1, <2>1, AppendElems
    <3>2. ElemsOf(sentC') \subseteq ElemsOf(sentC) \cup {batchC}
      BY <3>1 DEF ElemsOf
    <3>3. ElemsOf(sentC) \cup {batchC} \subseteq ElemsOf(sentC')
      BY <3>1 DEF ElemsOf
    <3> QED BY <3>1, <3>2, <3>3
  <2> DEFINE out == {batchC}
  <2>3. /\ out \in SUBSET Seq(Cmd) /\ {C!Spawn(b) : b \in out} = {C!Spawn(batchC)}
        /\ UNION {IdsOf(b) : b \in out} = IdsOf(batchC) /\ IdsOf(batchC') = {}
    BY <1>1, EmptyIds
  <2>4. /\ ElemsOf(sentC') = ElemsOf(sentC) \cup out
        /\ inflightC' = inflightC \cup {C!Spawn(b) : b \in out}
        /\ IdsOf(batchC') \cup UNION {IdsOf(b) : b \in out} = IdsOf(batchC)
    BY <2>1, <2>2, <2>3
  <2> HIDE DEF out
  <2> QED BY <1>1, <2>2, <2>3, <2>4 DEF MovesC
<1> QED BY <1>2, <1>3

\* add_msg_and_flush adds a message, and sends one or two batches, or none.
LEMMA AddC ==
    ASSUME UnorderedType, NEW msg \in Cmd, C!add_msg_and_flush(msg)
    PROVE  MovesC(IdsOf(batchC) \cup {msg.id})
<1> DEFINE fits  == C!can_add(batchC, msg)
           first == IF fits \/ batchC = <<>> THEN <<>> ELSE <<batchC>>
           b     == IF fits THEN Append(batchC, msg) ELSE <<msg>>
           full  == IF C!at_threshold(b) THEN <<b>> ELSE <<>>
           out   == first \o full
<1>1. /\ sentC' = sentC \o out
      /\ inflightC' = inflightC \cup {C!Spawn(out[i]) : i \in DOMAIN out}
      /\ batchC' = IF full = <<>> THEN b ELSE <<>>
  BY DEF C!add_msg_and_flush
<1>2. batchC \in Seq(Cmd) /\ sentC \in Seq(Seq(Cmd)) /\ <<>> \in Seq(Cmd)
  BY DEF UnorderedType
<1>3. b \in Seq(Cmd) /\ b # <<>> /\ IdsOf(b) = IF fits THEN IdsOf(batchC) \cup {msg.id} ELSE {msg.id}
  <2>1. CASE fits
    BY <1>2, <2>1, AppendIds
  <2>2. CASE ~fits
    <3> DEFINE o == <<msg>>
    <3>1. o \in Seq(Cmd) /\ DOMAIN o = {1} /\ o[1] = msg /\ o # <<>>
      OBVIOUS
    <3> HIDE DEF o
    <3>2. IdsOf(o) = {msg.id}
      BY <3>1 DEF IdsOf
    <3> USE DEF o
    <3> QED BY <2>2, <3>1, <3>2
  <2> QED BY <2>1, <2>2
<1> HIDE DEF b, fits
<1>4. first \in Seq(Seq(Cmd)) /\ ElemsOf(first) = IF fits \/ batchC = <<>> THEN {} ELSE {batchC}
  BY <1>2, FewElems
<1>5. /\ full \in Seq(Seq(Cmd)) /\ ElemsOf(full) = IF full = <<>> THEN {} ELSE {b}
      /\ full = <<>> \/ full = <<b>>
  BY <1>3, FewElems
<1> HIDE DEF first, full
<1>6. out \in Seq(Seq(Cmd)) /\ ElemsOf(out) = ElemsOf(first) \cup ElemsOf(full)
  BY <1>4, <1>5, ConcatElems
<1> HIDE DEF out
<1>7. sentC' \in Seq(Seq(Cmd)) /\ ElemsOf(sentC') = ElemsOf(sentC) \cup ElemsOf(out)
  BY <1>1, <1>2, <1>6, ConcatElems
<1>8. {C!Spawn(out[i]) : i \in DOMAIN out} = {C!Spawn(x) : x \in ElemsOf(out)}
  BY DEF ElemsOf
<1>9. ElemsOf(out) \in SUBSET Seq(Cmd)
  BY <1>2, <1>3, <1>4, <1>5, <1>6
<1>10. IdsOf(batchC') \cup UNION {IdsOf(x) : x \in ElemsOf(out)} = IdsOf(batchC) \cup {msg.id}
  <2>1. UNION {IdsOf(x) : x \in ElemsOf(out)} =
          (IF fits \/ batchC = <<>> THEN {} ELSE IdsOf(batchC))
            \cup (IF full = <<>> THEN {} ELSE IdsOf(b))
    BY <1>4, <1>5, <1>6
  <2>2. IdsOf(batchC') = IF full = <<>> THEN IdsOf(b) ELSE {}
    BY <1>1, EmptyIds
  <2>3. batchC = <<>> => IdsOf(batchC) = {}
    BY EmptyIds
  <2> QED BY <1>3, <2>1, <2>2, <2>3
<1>11. batchC' \in Seq(Cmd)
  BY <1>1, <1>2, <1>3
<1> QED BY <1>1, <1>7, <1>8, <1>9, <1>10, <1>11 DEF MovesC

\* What that means for the messages.
LEMMA MovedC ==
    ASSUME UnorderedType, UnorderedLine, StaysC, NEW pool, MovesC(pool),
           pool \subseteq MessagesOf("")
    PROVE  /\ UnorderedLine' /\ inflightC' \subseteq UnorderedTasks
           /\ \A t \in inflightC' : t \in inflightC \/ t.status = "running"
           /\ pool \subseteq IdsOf(batchC') \cup LiveIds' /\ LiveIds \subseteq LiveIds'
           /\ SentIds(sentC) \subseteq SentIds(sentC')
<1>1. PICK out \in SUBSET Seq(Cmd) :
          /\ ElemsOf(sentC') = ElemsOf(sentC) \cup out
          /\ inflightC' = inflightC \cup {C!Spawn(b) : b \in out}
          /\ IdsOf(batchC') \cup UNION {IdsOf(b) : b \in out} = pool
  BY DEF MovesC
<1>2. SentIds(sentC') = SentIds(sentC) \cup UNION {IdsOf(b) : b \in out}
  BY <1>1, SentElems
<1>3. \A b \in out : /\ C!Spawn(b) \in UnorderedTasks /\ C!Spawn(b).status = "running"
                     /\ C!Spawn(b).msgs = b
  BY DEF C!Spawn, UnorderedTasks
<1>4. \A t \in inflightC' : t \in inflightC \/ \E b \in out : t = C!Spawn(b)
  BY <1>1
<1>5. inflightC' \subseteq UnorderedTasks /\ (\A t \in inflightC' : t \in inflightC \/ t.status = "running")
  BY <1>3, <1>4 DEF UnorderedType
<1>6. MessagesOf("")' = MessagesOf("")
  BY DEF MessagesOf, StaysC, dispatcher
<1>7. ASSUME NEW t \in inflightC' PROVE IdsOf(t.msgs) \subseteq SentIds(sentC')
  <2>1. CASE t \in inflightC
    BY <1>2, <2>1 DEF UnorderedLine
  <2>2. ASSUME NEW b \in out, t = C!Spawn(b) PROVE IdsOf(t.msgs) \subseteq SentIds(sentC')
    BY <1>2, <1>3, <2>2
  <2> QED BY <1>4, <2>1, <2>2
<1>8. UnorderedLine'
  BY <1>1, <1>2, <1>6, <1>7 DEF UnorderedLine
<1>9. LiveIds \subseteq LiveIds'
  BY <1>1 DEF LiveIds, Live
<1>10. ASSUME NEW b \in out PROVE IdsOf(b) \subseteq LiveIds'
  <2>1. C!Spawn(b) \in Live' /\ IdsOf(C!Spawn(b).msgs) = IdsOf(b)
    BY <1>1, <1>3 DEF Live
  <2> QED BY <2>1 DEF LiveIds
<1> QED BY <1>1, <1>2, <1>5, <1>8, <1>9, <1>10

-----------------------------------------------------------------------------
\* The actor receives a command.
TakenC == rxC # <<>> /\ rxC' = Tail(rxC)

\* Answering a flush f: nothing the actor or the Dispatcher holds came before f.
AnswersC ==
    \/ repliedC' = repliedC
    \/ \E f \in DOMAIN hist : /\ repliedC' = repliedC \cup {f}
                              /\ \A m \in HeldC \cup IdsOf(drx) : ~(m < f)

\* What a step of the actor does: a message stays in its hands until it has an
\* outcome, which only a message of a request gets, unless the actor dies.
EffectC ==
    /\ UnorderedType' /\ UnorderedLocal' /\ ClosedC' /\ UnorderedLine'
    /\ Resolves("") /\ AnswersC
    /\ rxC' = rxC \/ TakenC \/ rxC' = <<>>
    /\ \A m \in HeldC \cap MessagesOf("") : m \in HeldC' \/ fut'[m] # "waiting"
    /\ SentIds(sentC) \subseteq SentIds(sentC')
    /\ \A m \in Ids : fut'[m] # fut[m] => m \in SentIds(sentC') \/ pcC' = "dead"
    /\ pcC = "dead" => pcC' = "dead"

\* What a flush in progress may be.
LEMMA Conts == 0 \in 0..MaxCmds /\ \A f \in Ids : f \in 0..MaxCmds /\ f # 0
  BY PublisherAssumption DEF Ids

\* What stays when the Dispatcher and the other actor do not move.
LEMMA StaysCFacts ==
    ASSUME StaysC
    PROVE  /\ hist' = hist /\ drx' = drx /\ dpc' = dpc /\ repliedS' = repliedS
           /\ \A key : MessagesOf(key)' = MessagesOf(key)
  BY DEF StaysC, dispatcher, ordered, MessagesOf

\* The numbers of messages and of commands in the queue of the actor.
LEMMA UnorderedNumbers ==
    ASSUME DispatcherInv, UnorderedInv
    PROVE  /\ IdsOf(rxC) \subseteq DOMAIN hist /\ IdsOf(drx) \subseteq DOMAIN hist
           /\ DOMAIN hist = 1..Len(hist) /\ Len(hist) \in Nat
           /\ HeldC = IdsOf(rxC) \cup IdsOf(batchC) \cup LiveIds
<1>1. IdsOf(rxC) \subseteq DOMAIN hist /\ IdsOf(drx) \subseteq DOMAIN hist
  BY DEF UnorderedInv, QueueOf, DispatcherInv, DispatchQueueInv, IdsOf
<1>2. HeldC = IdsOf(rxC) \cup IdsOf(batchC) \cup LiveIds
  BY DEF HeldC, LiveIds
<1> QED BY <1>1, <1>2, MessageIds

\* A step that resolves nothing.
LEMMA QuietC ==
    ASSUME DispatcherInv, fut' = fut
    PROVE  Resolves("")
  BY DEF Resolves, DispatcherInv, TypeOK

\* The command the actor receives.
LEMMA TakenCFacts ==
    ASSUME DispatcherInv, UnorderedInv, TakenC
    PROVE  /\ Head(rxC) \in Cmd /\ Head(rxC).id \in Ids /\ Head(rxC).id \in DOMAIN hist
           /\ Head(rxC).op = hist[Head(rxC).id].op
           /\ Head(rxC).op = "publish" => Head(rxC).id \in MessagesOf("")
           /\ Head(rxC).op # "publish" => Head(rxC).id \notin MessagesOf("")
           /\ Precede({Head(rxC).id}, IdsOf(rxC') \cup IdsOf(drx))
           /\ IdsOf(rxC) = {Head(rxC).id} \cup IdsOf(rxC')
<1>1. /\ Head(rxC) \in Cmd /\ Head(rxC).id \in Ids /\ Head(rxC).id \in DOMAIN hist
      /\ Head(rxC).op = hist[Head(rxC).id].op
      /\ Head(rxC).op # "flush" => hist[Head(rxC).id].key = ""
      /\ Precede({Head(rxC).id}, IdsOf(rxC') \cup IdsOf(drx))
      /\ IdsOf(rxC) = {Head(rxC).id} \cup IdsOf(rxC')
  BY QueueTail DEF UnorderedInv, TakenC
<1> QED BY <1>1 DEF MessagesOf

\* A step that moves messages into requests, and resolves and answers nothing.
LEMMA MovingC ==
    ASSUME DispatcherInv, UnorderedInv, StaysC, fut' = fut, repliedC' = repliedC,
           rxC' = rxC \/ TakenC, NEW pool, MovesC(pool), IdsOf(batchC) \subseteq pool,
           pool \subseteq MessagesOf(""), (IdsOf(rxC) \ IdsOf(rxC')) \cap MessagesOf("") \subseteq pool,
           pcC = "select", pcC' \in {"select", "join"}, contC' \in 0..MaxCmds,
           pcC' = "join" => batchC' = <<>>,
           pcC' = "join" /\ contC' # 0 => InProgress(contC, rxC)', ClosedC'
    PROVE  EffectC
<1>1. /\ UnorderedLine' /\ inflightC' \subseteq UnorderedTasks
      /\ \A t \in inflightC' : t \in inflightC \/ t.status = "running"
      /\ pool \subseteq IdsOf(batchC') \cup LiveIds' /\ LiveIds \subseteq LiveIds'
      /\ SentIds(sentC) \subseteq SentIds(sentC')
  BY MovedC DEF UnorderedInv
<1>2. UnorderedType'
  BY <1>1 DEF UnorderedType, MovesC
<1>3. UnorderedLocal'
  BY <1>1 DEF UnorderedLocal, UnorderedInv
<1>4. \A m \in HeldC \cap MessagesOf("") : m \in HeldC'
  <2>1. HeldC = IdsOf(rxC) \cup IdsOf(batchC) \cup LiveIds
    BY UnorderedNumbers
  <2>2. HeldC' = IdsOf(rxC') \cup IdsOf(batchC') \cup LiveIds'
    BY DEF HeldC, LiveIds
  <2> QED BY <1>1, <2>1, <2>2
<1> QED BY <1>1, <1>2, <1>3, <1>4, QuietC DEF EffectC, AnswersC

\* The delay timer fires.
LEMMA TimerC ==
    ASSUME DispatcherInv, UnorderedInv, StaysC, C!TimerFires
    PROVE  EffectC
<1>1. pcC = "select" /\ C!flush /\ UNCHANGED <<fut, repliedC, rxC, openC, pcC, contC>>
  BY DEF C!TimerFires, C!queue
<1>2. MovesC(IdsOf(batchC))
  BY <1>1, FlushC DEF UnorderedInv
<1>3. ClosedC'
  BY <1>1, StaysCFacts DEF UnorderedInv, ClosedC
<1>4. contC' \in 0..MaxCmds /\ IdsOf(batchC) \subseteq MessagesOf("")
  BY <1>1 DEF UnorderedInv, UnorderedType, UnorderedLine
<1> QED BY <1>1, <1>2, <1>3, <1>4, MovingC

\* A message is received.
LEMMA RecvPublishC ==
    ASSUME DispatcherInv, UnorderedInv, StaysC, C!RecvPublish
    PROVE  EffectC
<1>1. /\ pcC = "select" /\ TakenC /\ Head(rxC).op = "publish"
      /\ C!add_msg_and_flush(Head(rxC)) /\ UNCHANGED <<fut, repliedC, openC, pcC, contC>>
  BY DEF C!RecvPublish, C!Recv, TakenC
<1>2. /\ Head(rxC) \in Cmd /\ Head(rxC).id \in MessagesOf("")
      /\ IdsOf(rxC) = {Head(rxC).id} \cup IdsOf(rxC')
  BY <1>1, TakenCFacts
<1> DEFINE pool == IdsOf(batchC) \cup {Head(rxC).id}
<1>3. MovesC(pool)
  BY <1>1, <1>2, AddC DEF UnorderedInv
<1>4. ClosedC'
  BY <1>1, StaysCFacts DEF UnorderedInv, ClosedC
<1>5. contC' \in 0..MaxCmds /\ pool \subseteq MessagesOf("") /\ IdsOf(batchC) \subseteq pool
  BY <1>1, <1>2 DEF UnorderedInv, UnorderedType, UnorderedLine
<1>6. (IdsOf(rxC) \ IdsOf(rxC')) \cap MessagesOf("") \subseteq pool
  BY <1>2
<1> HIDE DEF pool
<1> QED BY <1>1, <1>3, <1>4, <1>5, <1>6, MovingC

\* A flush is received: what it waits for is in requests.
LEMMA RecvFlushC ==
    ASSUME DispatcherInv, UnorderedInv, StaysC, C!RecvFlush
    PROVE  EffectC
<1>1. /\ pcC = "select" /\ TakenC /\ Head(rxC).op = "flush" /\ C!flush
      /\ pcC' = "join" /\ contC' = Head(rxC).id /\ UNCHANGED <<fut, repliedC, openC>>
  BY DEF C!RecvFlush, C!Recv, TakenC
<1>2. /\ Head(rxC).id \in Ids /\ Head(rxC).id \in DOMAIN hist /\ Head(rxC).id \notin MessagesOf("")
      /\ Precede({Head(rxC).id}, IdsOf(rxC') \cup IdsOf(drx))
      /\ IdsOf(rxC) = {Head(rxC).id} \cup IdsOf(rxC')
  BY <1>1, TakenCFacts
<1>3. MovesC(IdsOf(batchC)) /\ batchC' = <<>>
  BY <1>1, FlushC DEF UnorderedInv
<1>4. contC' \in 0..MaxCmds /\ contC' # 0
  BY <1>1, <1>2, Conts
<1>5. InProgress(contC, rxC)'
  BY <1>1, <1>2, StaysCFacts DEF InProgress
<1>6. ClosedC'
  BY <1>1, <1>4, StaysCFacts DEF UnorderedInv, ClosedC
<1>7. IdsOf(batchC) \subseteq MessagesOf("")
  BY DEF UnorderedInv, UnorderedLine
<1>8. (IdsOf(rxC) \ IdsOf(rxC')) \cap MessagesOf("") \subseteq IdsOf(batchC)
  BY <1>2
<1> QED BY <1>1, <1>3, <1>4, <1>5, <1>6, <1>7, <1>8, MovingC

\* The queue is closed and empty.
LEMMA RecvClosedC ==
    ASSUME DispatcherInv, UnorderedInv, StaysC, C!RecvClosed
    PROVE  EffectC
<1>1. /\ pcC = "select" /\ rxC = <<>> /\ ~openC /\ C!flush
      /\ pcC' = "join" /\ contC' = 0 /\ UNCHANGED <<fut, repliedC, rxC, openC>>
  BY DEF C!RecvClosed, C!queue
<1>2. MovesC(IdsOf(batchC)) /\ batchC' = <<>>
  BY <1>1, FlushC DEF UnorderedInv
<1>3. contC' \in 0..MaxCmds
  BY <1>1, Conts
<1>4. ClosedC'
  BY <1>1, StaysCFacts DEF UnorderedInv, ClosedC
<1>5. IdsOf(batchC) \subseteq MessagesOf("")
  BY DEF UnorderedInv, UnorderedLine
<1> QED BY <1>1, <1>2, <1>3, <1>4, <1>5, MovingC

\* A step that leaves the batch and the requests alone.
LEMMA IdleC ==
    ASSUME DispatcherInv, UnorderedInv, StaysC, UNCHANGED <<batchC, sentC>>,
           \A t \in inflightC' : \E u \in inflightC : t.msgs = u.msgs
    PROVE  UnorderedLine' /\ SentIds(sentC) \subseteq SentIds(sentC')
<1>1. batchC' = batchC /\ sentC' = sentC /\ MessagesOf("")' = MessagesOf("")
  BY StaysCFacts
<1>2. \A t \in inflightC' : IdsOf(t.msgs) \subseteq SentIds(sentC)
  BY DEF UnorderedInv, UnorderedLine
<1> QED BY <1>1, <1>2 DEF UnorderedInv, UnorderedLine

\* A Resume is ignored.
LEMMA RecvResumeC ==
    ASSUME DispatcherInv, UnorderedInv, StaysC, C!RecvResume
    PROVE  EffectC
<1>1. /\ pcC = "select" /\ TakenC /\ Head(rxC).op = "resume"
      /\ UNCHANGED <<fut, repliedC, sentC, openC, batchC, inflightC, pcC, contC>>
  BY DEF C!RecvResume, C!Recv, TakenC, C!client, C!actor
<1>2. Head(rxC).id \notin MessagesOf("") /\ IdsOf(rxC) = {Head(rxC).id} \cup IdsOf(rxC')
  BY <1>1, TakenCFacts
<1>3. UnorderedType' /\ UnorderedLocal' /\ ClosedC'
  BY <1>1, StaysCFacts DEF UnorderedInv, UnorderedType, UnorderedLocal, ClosedC
<1>4. UnorderedLine' /\ SentIds(sentC) \subseteq SentIds(sentC')
  BY <1>1, IdleC
<1>5. \A m \in HeldC \cap MessagesOf("") : m \in HeldC'
  BY <1>1, <1>2 DEF HeldC, Live
<1> QED BY <1>1, <1>3, <1>4, <1>5, QuietC DEF EffectC, AnswersC

\* A finished task is joined and its result ignored.
LEMMA JoinInflightC ==
    ASSUME DispatcherInv, UnorderedInv, StaysC, C!JoinInflight
    PROVE  EffectC
<1>1. /\ pcC = "select"
      /\ UNCHANGED <<fut, repliedC, sentC, rxC, openC, batchC, pcC, contC>>
  BY DEF C!JoinInflight, C!client, C!queue
<1>2. PICK task \in inflightC : task.status # "running" /\ inflightC' = inflightC \ {task}
  BY DEF C!JoinInflight
<1>3. UnorderedType' /\ UnorderedLocal' /\ ClosedC'
  BY <1>1, <1>2, StaysCFacts DEF UnorderedInv, UnorderedType, UnorderedLocal, ClosedC
<1>4. UnorderedLine' /\ SentIds(sentC) \subseteq SentIds(sentC')
  BY <1>1, <1>2, IdleC
<1>5. task \notin Live
  BY <1>1, <1>2 DEF Live, UnorderedInv, UnorderedLocal
<1>6. Live' = Live
  BY <1>2, <1>5 DEF Live
<1>7. HeldC' = HeldC
  BY <1>1, <1>6 DEF HeldC
<1> QED BY <1>1, <1>3, <1>4, <1>7, QuietC DEF EffectC, AnswersC

\* join_all returns: the actor holds nothing but its queue, so that it may answer.
LEMMA JoinAllC ==
    ASSUME DispatcherInv, UnorderedInv, StaysC, C!JoinAll
    PROVE  EffectC
<1>1. /\ pcC = "join" /\ (\A task \in inflightC : task.status \in {"ok", "err"})
      /\ inflightC' = {} /\ pcC' = IF contC = 0 THEN "done" ELSE "select"
      /\ repliedC' = IF contC = 0 THEN repliedC ELSE repliedC \cup {contC}
      /\ contC' = 0 /\ UNCHANGED <<fut, sentC, rxC, openC, batchC>>
  BY DEF C!JoinAll, C!queue
<1>2. Live = {} /\ batchC = <<>>
  BY <1>1 DEF Live, UnorderedInv, UnorderedLocal
<1>3. HeldC = IdsOf(rxC)
  BY <1>2, EmptyIds DEF HeldC
<1>4. UnorderedType' /\ ClosedC'
  BY <1>1, StaysCFacts, Conts DEF UnorderedInv, UnorderedType, ClosedC
<1>5. UnorderedLocal'
  <2>1. contC = 0 => rxC' = <<>>
    BY <1>1 DEF UnorderedInv, ClosedC
  <2> QED BY <1>1, <1>2, <2>1 DEF UnorderedLocal
<1>6. UnorderedLine' /\ SentIds(sentC) \subseteq SentIds(sentC')
  BY <1>1, IdleC
<1>7. IdsOf(rxC) \subseteq HeldC'
  BY <1>1 DEF HeldC
<1>8. AnswersC
  <2>1. CASE contC # 0
    <3>1. contC \in DOMAIN hist /\ Precede({contC}, IdsOf(rxC) \cup IdsOf(drx))
      BY <1>1, <2>1 DEF UnorderedInv, UnorderedLocal, InProgress
    <3>2. \A m \in HeldC \cup IdsOf(drx) : ~(m < contC)
      BY <1>3, <3>1, UnorderedNumbers DEF Precede
    <3> QED BY <1>1, <2>1, <3>1, <3>2 DEF AnswersC
  <2> QED BY <1>1, <2>1 DEF AnswersC
<1> QED BY <1>1, <1>3, <1>4, <1>5, <1>6, <1>7, <1>8, QuietC DEF EffectC

\* join_all panics: the queue is dropped, the tasks still running are aborted.
LEMMA JoinAllPanicsC ==
    ASSUME DispatcherInv, UnorderedInv, StaysC, C!JoinAllPanics
    PROVE  EffectC
<1> DEFINE dropped == {rxC[i].id : i \in {j \in DOMAIN rxC : rxC[j].op = "publish"}}
<1>1. /\ pcC = "join" /\ fut' = Resolve(dropped, "shutdown") /\ rxC' = <<>>
      /\ inflightC' = {[t EXCEPT !.status = "aborting"] :
                           t \in {u \in inflightC : u.status = "running"}}
      /\ pcC' = "dead" /\ contC' = 0 /\ UNCHANGED <<repliedC, sentC, openC, batchC>>
  BY DEF C!JoinAllPanics, C!Resolve, Resolve, C!Ids, Ids, C!Queued
<1>2. dropped = IdsOf(rxC) \cap MessagesOf("")
  <2>1. QueueOf(rxC, "")
    BY DEF UnorderedInv
  <2>2. \A i \in DOMAIN rxC : rxC[i].id \in MessagesOf("") <=> rxC[i].op = "publish"
    BY <2>1 DEF QueueOf, MessagesOf
  <2> QED BY <2>2 DEF IdsOf
<1> HIDE DEF dropped
<1>3. Resolves("")
  BY <1>1, <1>2 DEF Resolves, Resolve, DispatcherInv, TypeOK
<1>4. ASSUME NEW t \in inflightC
      PROVE  /\ [t EXCEPT !.status = "aborting"] \in UnorderedTasks
             /\ [t EXCEPT !.status = "aborting"].msgs = t.msgs
             /\ [t EXCEPT !.status = "aborting"].status = "aborting"
  BY DEF UnorderedInv, UnorderedType, UnorderedTasks
<1>5. UnorderedType' /\ ClosedC'
  <2>1. inflightC' \subseteq UnorderedTasks
    BY <1>1, <1>4
  <2> QED BY <1>1, <2>1, StaysCFacts, Conts DEF UnorderedInv, UnorderedType, ClosedC
<1>6. UnorderedLocal'
  BY <1>1 DEF UnorderedInv, UnorderedLocal
<1>7. UnorderedLine' /\ SentIds(sentC) \subseteq SentIds(sentC')
  BY <1>1, <1>4, IdleC
<1>8. ASSUME NEW m \in HeldC \cap MessagesOf("") PROVE m \in HeldC' \/ fut'[m] # "waiting"
  <2>1. m \in Ids
    BY MessageIds
  <2>2. CASE m \in IdsOf(rxC)
    BY <1>1, <1>2, <2>1, <2>2 DEF Resolve
  <2>3. CASE m \in LiveIds
    <3>1. PICK t \in inflightC : t.status \in {"running", "aborting"} /\ m \in IdsOf(t.msgs)
      BY <2>3 DEF LiveIds, Live
    <3>2. t.status = "running"
      BY <1>1, <3>1 DEF UnorderedInv, UnorderedLocal
    <3>3. [t EXCEPT !.status = "aborting"] \in Live'
      BY <1>1, <1>4, <3>2 DEF Live
    <3> QED BY <1>4, <3>1, <3>3 DEF HeldC
  <2>4. IdsOf(batchC) = {}
    BY <1>1, EmptyIds DEF UnorderedInv, UnorderedLocal
  <2> QED BY <2>2, <2>3, <2>4, UnorderedNumbers
<1> QED BY <1>1, <1>3, <1>5, <1>6, <1>7, <1>8 DEF EffectC, AnswersC

\* A task ends or is dropped: its messages get their outcome.
LEMMA TaskEndsC ==
    ASSUME DispatcherInv, UnorderedInv, StaysC, NEW task \in Live, NEW o \in {"ok", "rpc", "shutdown"},
           NEW more \in SUBSET UnorderedTasks,
           \A t \in more : t.msgs = task.msgs /\ t.status \in {"ok", "err", "panic"},
           inflightC' = (inflightC \ {task}) \cup more, fut' = Resolve(IdsOf(task.msgs), o),
           UNCHANGED <<repliedC, sentC, rxC, openC, batchC, pcC, contC>>
    PROVE  EffectC
<1>1. task \in inflightC /\ IdsOf(task.msgs) \subseteq SentIds(sentC)
      /\ IdsOf(task.msgs) \subseteq MessagesOf("") /\ IdsOf(task.msgs) \subseteq Ids
  BY MessageIds DEF Live, UnorderedInv, UnorderedLine
<1>2. Resolves("")
  BY <1>1 DEF Resolves, Resolve, DispatcherInv, TypeOK
<1>3. UnorderedType' /\ ClosedC'
  BY StaysCFacts DEF UnorderedInv, UnorderedType, ClosedC
<1>4. UnorderedLocal'
  <2>1. pcC # "done"
    BY <1>1 DEF UnorderedInv, UnorderedLocal
  <2>2. contC' = contC /\ rxC' = rxC /\ hist' = hist /\ drx' = drx
    BY StaysCFacts
  <2> QED BY <2>1, <2>2 DEF UnorderedInv, UnorderedLocal, InProgress
<1>5. UnorderedLine' /\ SentIds(sentC) \subseteq SentIds(sentC')
  BY <1>1, IdleC
<1>6. ASSUME NEW m \in HeldC \cap MessagesOf("") PROVE m \in HeldC' \/ fut'[m] # "waiting"
  <2>1. CASE m \in IdsOf(rxC) \cup IdsOf(batchC)
    BY <2>1 DEF HeldC
  <2>2. CASE m \in IdsOf(task.msgs)
    BY <1>1, <2>2 DEF Resolve
  <2>3. ASSUME NEW t \in Live, t # task, m \in IdsOf(t.msgs) PROVE m \in HeldC'
    <3>1. t \in Live'
      BY <2>3 DEF Live
    <3> QED BY <2>3, <3>1 DEF HeldC
  <2> QED BY <2>1, <2>2, <2>3 DEF HeldC
<1>7. \A m \in Ids : fut'[m] # fut[m] => m \in SentIds(sentC')
  BY <1>1 DEF Resolve
<1> QED BY <1>2, <1>3, <1>4, <1>5, <1>6, <1>7 DEF EffectC, AnswersC

\* The end of an RPC, and of a task that was aborted.
LEMMA RpcC ==
    ASSUME DispatcherInv, UnorderedInv, StaysC, C!Rpc
    PROVE  EffectC
<1>1. ASSUME NEW task \in inflightC, NEW o \in {"ok", "err", "panic"}, C!RpcDone(task, o)
      PROVE  EffectC
  <2> DEFINE t == [task EXCEPT !.status = o]
  <2>1. /\ task \in Live /\ inflightC' = (inflightC \ {task}) \cup {t}
        /\ fut' = Resolve(IdsOf(task.msgs), C!FutureOf(o))
        /\ UNCHANGED <<repliedC, sentC, rxC, openC, batchC, pcC, contC>>
    BY <1>1 DEF C!RpcDone, C!queue, Live, C!Resolve, Resolve, C!Ids, Ids, C!IdsOf, IdsOf
  <2>2. C!FutureOf(o) \in {"ok", "rpc", "shutdown"}
    BY DEF C!FutureOf
  <2>3. {t} \in SUBSET UnorderedTasks /\ t.msgs = task.msgs /\ t.status \in {"ok", "err", "panic"}
    BY DEF UnorderedInv, UnorderedType, UnorderedTasks
  <2> HIDE DEF t
  <2> QED BY <2>1, <2>2, <2>3, TaskEndsC
<1>2. CASE C!TaskAborted
  <2>1. PICK task \in inflightC : /\ task.status = "aborting" /\ inflightC' = inflightC \ {task}
                                  /\ fut' = Resolve(IdsOf(task.msgs), "shutdown")
    BY <1>2 DEF C!TaskAborted, C!Resolve, Resolve, C!Ids, Ids, C!IdsOf, IdsOf
  <2>2. task \in Live /\ UNCHANGED <<repliedC, sentC, rxC, openC, batchC, pcC, contC>>
    BY <1>2, <2>1 DEF C!TaskAborted, C!queue, Live
  <2>3. inflightC' = (inflightC \ {task}) \cup {} /\ {} \in SUBSET UnorderedTasks
    BY <2>1
  <2> QED BY <2>1, <2>2, <2>3, TaskEndsC
<1> QED BY <1>1, <1>2 DEF C!Rpc

\* A step of the actor without a key keeps all the invariants.
LEMMA UnorderedStep ==
    ASSUME IInv, UnorderedActor \/ UnorderedRpc
    PROVE  IInv'
<1>1. DispatcherInv /\ OrderedInv /\ KeyInv /\ UnorderedInv
  BY DEF IInv
<1>2. StaysC
  BY DEF UnorderedActor, UnorderedRpc, StaysC
<1>3. EffectC
  <2>1. CASE UnorderedRpc
    BY <1>1, <1>2, <2>1, RpcC DEF UnorderedRpc
  <2>2. CASE UnorderedActor
    BY <1>1, <1>2, <2>2, TimerC, RecvPublishC, RecvFlushC, RecvClosedC, RecvResumeC,
       JoinInflightC, JoinAllC, JoinAllPanicsC DEF UnorderedActor, C!Actor
  <2> QED BY <2>1, <2>2
<1>4. /\ Resolves("") /\ AnswersC /\ (pcC = "dead" => pcC' = "dead")
      /\ rxC' = rxC \/ TakenC \/ rxC' = <<>>
      /\ UnorderedType' /\ UnorderedLocal' /\ ClosedC' /\ UnorderedLine'
  BY <1>3 DEF EffectC
<1>5. DispatcherInv'
  BY <1>1, <1>2, <1>4, DispatcherFrame DEF StaysC, Keys
<1>6. OrderedInv' /\ KeyInv'
  BY <1>1, <1>2, <1>4, OrderedFrame
<1>7. hist' = hist /\ drx' = drx /\ dpc' = dpc /\ MessagesOf("")' = MessagesOf("")
  BY <1>2, StaysCFacts
<1>8. QueueOf(rxC, "")'
  <2>1. QueueOf(rxC, "")
    BY <1>1 DEF UnorderedInv
  <2>2. QueueOf(<<>>, "")
    BY EmptyIds DEF QueueOf, Precede
  <2>3. QueueOf(rxC', "")
    BY <1>4, <2>1, <2>2, QueueTail DEF TakenC
  <2> QED BY <1>7, <2>3 DEF QueueOf
<1>9. \A m \in MessagesOf("") : fut'[m] = "waiting" => fut[m] = "waiting"
  BY <1>1, <1>4, MessageIds DEF Resolves
<1>10. HeldOrQueued("", HeldC)'
  <2>1. \A m \in MessagesOf("") : fut'[m] = "waiting" => m \in IdsOf(drx) \cup HeldC'
    BY <1>1, <1>3, <1>9 DEF EffectC, UnorderedInv, HeldOrQueued
  <2> QED BY <1>7, <2>1 DEF HeldOrQueued
<1>11. Barrier("", repliedC)'
  <2>1. \A m \in MessagesOf("") : fut[m] = "waiting" => m \in HeldC \cup IdsOf(drx)
    BY <1>1 DEF UnorderedInv, HeldOrQueued
  <2>2. \A f \in repliedC : \A m \in MessagesOf("") : m < f => fut[m] # "waiting"
    BY <1>1 DEF UnorderedInv, Barrier
  <2> QED BY <1>1, <1>4, <1>7, <1>9, <2>1, <2>2 DEF AnswersC, Barrier, UnorderedInv
<1>12. Told("", sentC)'
  BY <1>1, <1>3, <1>7, MessageIds DEF EffectC, Told, UnorderedInv
<1>13. UnorderedInv'
  BY <1>4, <1>8, <1>10, <1>11, <1>12 DEF UnorderedInv
<1> QED BY <1>5, <1>6, <1>13 DEF IInv

-----------------------------------------------------------------------------
(***************************************************************************)
(* The steps of the application and of the Dispatcher.                     *)
(***************************************************************************)
\* What the actors do not notice: the Dispatcher ends, or waits, or drops its
\* senders, or a call of flush returns.
LEMMA ActorsFrame ==
    ASSUME OrderedInv, KeyInv, UnorderedInv,
           UNCHANGED <<hist, drx, fut, rxS, pending_msgs, batchS, paused, inflightS, pcS, contS,
                       repliedS, sentS, rxC, batchC, inflightC, pcC, contC, repliedC, sentC>>,
           openS' = openS \/ dpc' # "run", openC' = openC \/ dpc' # "run",
           dpc # "run" => dpc' # "run", dpc = "aborted" => dpc' = "aborted"
    PROVE  OrderedInv' /\ KeyInv' /\ UnorderedInv'
<1>1. /\ \A key : MessagesOf(key)' = MessagesOf(key)
      /\ \A m, n : ResumedBetween(m, n)' = ResumedBetween(m, n)
      /\ Kept' = Kept /\ HeldS' = HeldS /\ HeldC' = HeldC /\ Failed' = Failed
  BY DEF MessagesOf, ResumedBetween, Kept, HeldS, Running, HeldC, Live, Failed
<1>2. Queued' \subseteq Queued /\ Ahead' \subseteq Ahead
  BY <1>1 DEF Queued, Ahead
<1>3. OrderedType' /\ QueueOf(rxS, "key")' /\ OrderedLocal' /\ ClosedS'
  BY DEF OrderedInv, OrderedType, QueueOf, OrderedLocal, InProgress, ClosedS
<1>4. OrderedLine'
  BY <1>1 DEF OrderedInv, OrderedLine
<1>5. HeldOrQueued("key", HeldS)' /\ Barrier("key", repliedS)' /\ Told("key", sentS)'
  BY <1>1 DEF OrderedInv, HeldOrQueued, Barrier, Told
<1>6. ReceivedOrDropped'
  BY <1>1, <1>2 DEF KeyInv, ReceivedOrDropped, Precede
<1>7. FailureInv'
  BY <1>1, <1>2 DEF KeyInv, FailureInv, Joining, Covered
<1>8. KeyOrderSurvivesFailure'
  BY DEF KeyInv, KeyOrderSurvivesFailure
<1>9. UnorderedType' /\ QueueOf(rxC, "")' /\ UnorderedLocal' /\ ClosedC'
  BY DEF UnorderedInv, UnorderedType, QueueOf, UnorderedLocal, InProgress, ClosedC
<1>10. UnorderedLine'
  BY <1>1 DEF UnorderedInv, UnorderedLine
<1>11. HeldOrQueued("", HeldC)' /\ Barrier("", repliedC)' /\ Told("", sentC)'
  BY <1>1 DEF UnorderedInv, HeldOrQueued, Barrier, Told
<1>12. OrderedInv'
  BY <1>3, <1>4, <1>5 DEF OrderedInv
<1>13. KeyInv'
  BY <1>6, <1>7, <1>8 DEF KeyInv
<1>14. UnorderedInv'
  BY <1>9, <1>10, <1>11 DEF UnorderedInv
<1> QED BY <1>12, <1>13, <1>14

\* A step that changes the phase of the Dispatcher only.
LEMMA PhaseStep ==
    ASSUME IInv, DropPublisher \/ DispatcherCloses \/ DispatcherEnds
    PROVE  IInv'
<1>1. /\ DispatcherInv /\ OrderedInv /\ KeyInv /\ UnorderedInv
      /\ UNCHANGED <<hist, drx, fut, actors, waiters, returned, abandoned,
                     rxS, pending_msgs, batchS, paused, inflightS, pcS, contS,
                     repliedS, sentS, rxC, batchC, inflightC, pcC, contC, repliedC, sentC>>
  BY DEF IInv, DropPublisher, DispatcherCloses, DispatcherEnds, ordered, unordered
<1>2. \/ alive' = FALSE /\ UNCHANGED <<dpc, openS, openC>>
      \/ /\ dpc = "run" /\ drx = <<>> /\ ~alive /\ dpc' = "wait" /\ alive' = alive
         /\ openS' = FALSE /\ openC' = FALSE
      \/ dpc = "wait" /\ dpc' = "stopped" /\ UNCHANGED <<alive, openS, openC>>
  BY DEF DropPublisher, DispatcherCloses, DispatcherEnds, ordered, unordered
<1>3. OrderedInv' /\ KeyInv' /\ UnorderedInv'
  <2>1. /\ (openS' = openS \/ dpc' # "run") /\ (openC' = openC \/ dpc' # "run")
        /\ dpc # "run" => dpc' # "run"
        /\ dpc = "aborted" => dpc' = "aborted"
    BY <1>2
  <2> QED BY <1>1, <2>1, ActorsFrame
<1>4. TypeOK' /\ PhaseInv'
  <2>1. alive \in BOOLEAN /\ PhaseInv /\ TypeOK
    BY <1>1 DEF DispatcherInv, TypeOK
  <2>2. alive' \in BOOLEAN /\ dpc' \in {"run", "wait", "stopped", "aborted"}
    BY <1>2, <2>1 DEF TypeOK
  <2>3. TypeOK'
    BY <1>1, <2>1, <2>2 DEF TypeOK
  <2>4. dpc' # "run" => drx' = <<>>
    BY <1>1, <1>2, <2>1 DEF PhaseInv
  <2>5. dpc' \in {"wait", "stopped"} => ~alive'
    BY <1>2, <2>1 DEF PhaseInv
  <2> QED BY <2>3, <2>4, <2>5 DEF PhaseInv
<1>5. HistoryInv' /\ DispatchQueueInv' /\ DispatchedInv'
  BY <1>1, <1>2 DEF DispatcherInv, HistoryInv, MessagesOf, DispatchQueueInv, DispatchedInv
<1>6. WaitersInv' /\ ReturnedInv'
  BY <1>1 DEF DispatcherInv, WaitersInv, MessagesOf, IdsWith, ReturnedInv, FlushCoversEveryKey
<1> QED BY <1>3, <1>4, <1>5, <1>6 DEF IInv, DispatcherInv

\* The flush commands of the history and of the queue.
LEMMA FlushIds ==
    ASSUME HistoryInv, DispatchQueueInv
    PROVE  /\ \A f \in IdsWith(hist, "flush") : f \in DOMAIN hist /\ hist[f].op = "flush"
           /\ \A f \in IdsWith(hist, "flush") : f \in IdsOf(drx) => f \in IdsWith(drx, "flush")
<1>1. \A f \in IdsWith(hist, "flush") : f \in DOMAIN hist /\ hist[f].op = "flush"
  BY DEF HistoryInv, IdsWith
<1>2. ASSUME NEW f \in IdsWith(hist, "flush"), f \in IdsOf(drx) PROVE f \in IdsWith(drx, "flush")
  <2>1. PICK i \in DOMAIN drx : drx[i].id = f
    BY <1>2 DEF IdsOf
  <2>2. drx[i].op = "flush"
    BY <1>1, <2>1 DEF DispatchQueueInv
  <2> QED BY <2>1, <2>2 DEF IdsWith
<1> QED BY <1>1, <1>2

\* A submitted message has a key.
LEMMA HasKey ==
    ASSUME DispatcherInv, NEW m \in DOMAIN hist
    PROVE  /\ hist[m] \in Cmds /\ hist[m].id = m
           /\ hist[m].op = "publish" => hist[m].key \in Keys /\ m \in MessagesOf(hist[m].key)
<1>1. hist \in Seq(Cmds) /\ hist[m].id = m
  BY DEF DispatcherInv, HistoryInv
<1>2. hist[m] \in Cmds
  BY <1>1
<1>3. hist[m].key \in Keys
  BY <1>2 DEF Cmds
<1> QED BY <1>1, <1>2, <1>3 DEF MessagesOf

\* A call of flush returns: every actor it waited for has answered, and the flush
\* is a barrier in each of them.
LEMMA FlushReturnsStep ==
    ASSUME IInv, NEW f \in Ids, FlushReturns(f)
    PROVE  IInv'
<1>1. /\ DispatcherInv /\ OrderedInv /\ KeyInv /\ UnorderedInv
      /\ UNCHANGED <<hist, alive, drx, dpc, fut, actors, waiters, ordered, unordered>>
      /\ f \in IdsWith(hist, "flush") \ (returned \cup abandoned)
      /\ f \notin IdsWith(drx, "flush")
  BY DEF IInv, FlushReturns
<1>2. OrderedInv' /\ KeyInv' /\ UnorderedInv'
  BY <1>1, ActorsFrame DEF ordered, unordered
<1>3. f \in DOMAIN hist /\ f \notin IdsOf(drx) /\ f \in IdsWith(hist, "flush") \ abandoned
  BY <1>1, FlushIds DEF DispatcherInv
<1>4. HistoryInv' /\ DispatchQueueInv' /\ DispatchedInv' /\ PhaseInv'
  BY <1>1 DEF DispatcherInv, HistoryInv, MessagesOf, DispatchQueueInv, DispatchedInv, PhaseInv
<1>5. CASE returned' = returned \cup {f} /\ abandoned' = abandoned
                /\ \A key \in waiters[f] : Answered(f, key)
  <2>1. TypeOK' /\ WaitersInv'
    BY <1>1, <1>5 DEF DispatcherInv, TypeOK, WaitersInv, MessagesOf, IdsWith
  <2>2. ASSUME NEW m \in 1..(f - 1), hist[m].op = "publish" PROVE fut[m] # "waiting"
    <3>1. m \in DOMAIN hist /\ m < f
      BY <1>1, <1>3, MessageIds
    <3>2. PICK key \in Keys : m \in MessagesOf(key)
      BY <1>1, <2>2, <3>1, HasKey
    <3>3. fut[m] # "waiting" \/ key \in waiters[f]
      BY <1>1, <1>3, <3>1, <3>2 DEF DispatcherInv, WaitersInv
    <3>4. CASE key \in waiters[f]
      <4>1. Answered(f, key)
        BY <1>5, <3>4
      <4>2. CASE key = "key"
        BY <1>1, <3>1, <3>2, <4>1, <4>2 DEF Answered, OrderedInv, Barrier
      <4>3. CASE key = ""
        BY <1>1, <3>1, <3>2, <4>1, <4>3 DEF Answered, UnorderedInv, Barrier
      <4> QED BY <4>2, <4>3 DEF Keys
    <3> QED BY <3>3, <3>4
  <2>3. ReturnedInv'
    BY <1>1, <1>3, <1>5, <2>2 DEF DispatcherInv, ReturnedInv, FlushCoversEveryKey
  <2> QED BY <1>2, <1>4, <2>1, <2>3 DEF IInv, DispatcherInv
<1>6. CASE returned' = returned /\ abandoned' = abandoned \cup {f}
  <2>1. TypeOK' /\ WaitersInv' /\ ReturnedInv'
    BY <1>1, <1>6 DEF DispatcherInv, TypeOK, WaitersInv, MessagesOf, IdsWith, ReturnedInv,
                      FlushCoversEveryKey
  <2> QED BY <1>2, <1>4, <2>1 DEF IInv, DispatcherInv
<1> QED BY <1>5, <1>6 DEF FlushReturns

-----------------------------------------------------------------------------
\* The Dispatcher forwards the command at the head of its queue to the actors of
\* keys, which receive: of every flush, and of a message of their key.
Sending(keys) ==
    /\ dpc = "run" /\ drx # <<>> /\ drx' = Tail(drx) /\ keys \subseteq Keys
    /\ SendTo(keys, Head(drx)) /\ UNCHANGED <<hist, dpc, fut>>
    /\ \A key \in keys : ~Finished(key)
    /\ Head(drx).op # "flush" => keys \subseteq {Head(drx).key}
    /\ Head(drx).op = "publish" => Head(drx).key \in keys

\* The command at the head of the Dispatcher's queue.
LEMMA HeadFacts ==
    ASSUME DispatcherInv, drx # <<>>
    PROVE  /\ Head(drx).id \in DOMAIN hist /\ Head(drx) = hist[Head(drx).id]
           /\ Tail(drx) \in Seq(Cmds) /\ Increasing(Tail(drx))
           /\ \A i \in DOMAIN Tail(drx) : /\ Tail(drx)[i].id \in DOMAIN hist
                                          /\ Tail(drx)[i] = hist[Tail(drx)[i].id]
           /\ IdsOf(drx) = {Head(drx).id} \cup IdsOf(Tail(drx))
           /\ Precede({Head(drx).id}, IdsOf(Tail(drx)))
           /\ Head(drx).id \in Ids /\ Head(drx).key \in Keys
           /\ Forward(Head(drx)) \in Cmd /\ Forward(Head(drx)).id = Head(drx).id
           /\ Forward(Head(drx)).op = Head(drx).op
<1>1. /\ drx \in Seq(Cmds) /\ Increasing(drx)
      /\ \A i \in DOMAIN drx : drx[i].id \in DOMAIN hist /\ drx[i] = hist[drx[i].id]
  BY DEF DispatcherInv, DispatchQueueInv
<1>2. /\ Head(drx) \in Cmds /\ Tail(drx) \in Seq(Cmds)
      /\ 1 \in DOMAIN drx /\ Head(drx) = drx[1]
      /\ IdsOf(drx) = {Head(drx).id} \cup IdsOf(Tail(drx))
      /\ \A i \in DOMAIN Tail(drx) : i + 1 \in DOMAIN drx /\ Tail(drx)[i] = drx[i + 1]
      /\ Increasing(Tail(drx)) /\ Precede({Head(drx).id}, IdsOf(Tail(drx)))
  BY <1>1, TailIds, CommandsNumbered
<1>3. /\ Head(drx).id \in Ids /\ Head(drx).key \in Keys
      /\ Forward(Head(drx)) \in Cmd /\ Forward(Head(drx)).id = Head(drx).id
      /\ Forward(Head(drx)).op = Head(drx).op
  BY <1>2 DEF Cmds, Cmd, Forward
<1> QED BY <1>1, <1>2, <1>3

\* The queue t continues the queue s of the actor of key, while the Dispatcher's
\* gets shorter: nothing of the key is lost and the order is kept.
Continues(key, s, t) ==
    /\ t \in Seq(Cmd) /\ Increasing(t) /\ Precede(IdsOf(t), IdsOf(drx'))
    /\ \A i \in DOMAIN t :
          /\ t[i].id \in DOMAIN hist /\ t[i].op = hist[t[i].id].op
          /\ t[i].op # "flush" => hist[t[i].id].key = key
    /\ IdsOf(t) \cup IdsOf(drx') \subseteq IdsOf(s) \cup IdsOf(drx)
    /\ \A m \in MessagesOf(key) :
          m \in IdsOf(s) \cup IdsOf(drx) => m \in IdsOf(t) \cup IdsOf(drx')

\* The queue of an actor after that.
LEMMA SentQueue ==
    ASSUME DispatcherInv, NEW keys, Sending(keys), NEW key, NEW s, NEW t, QueueOf(s, key),
           \/ key \in keys /\ t = Append(s, Forward(Head(drx)))
           \/ key \notin keys /\ t = s
    PROVE  Continues(key, s, t)
<1>1. /\ Head(drx).id \in DOMAIN hist /\ Head(drx) = hist[Head(drx).id]
      /\ IdsOf(drx) = {Head(drx).id} \cup IdsOf(drx')
      /\ Precede({Head(drx).id}, IdsOf(drx'))
      /\ Forward(Head(drx)) \in Cmd /\ Forward(Head(drx)).id = Head(drx).id
      /\ Forward(Head(drx)).op = Head(drx).op
      /\ Head(drx).op # "flush" => keys \subseteq {Head(drx).key}
      /\ Head(drx).op = "publish" => Head(drx).key \in keys
  BY HeadFacts DEF Sending
<1>2. /\ s \in Seq(Cmd) /\ Increasing(s) /\ Precede(IdsOf(s), IdsOf(drx))
      /\ \A i \in DOMAIN s :
            /\ s[i].id \in DOMAIN hist /\ s[i].op = hist[s[i].id].op
            /\ s[i].op # "flush" => hist[s[i].id].key = key
  BY DEF QueueOf
<1>3. CASE key \in keys
  <2> DEFINE c == Forward(Head(drx))
  <2>1. /\ c \in Cmd /\ c.id = Head(drx).id /\ c.op = Head(drx).op /\ t = Append(s, c)
        /\ Head(drx).op # "flush" => Head(drx).key = key
    BY <1>1, <1>3
  <2> HIDE DEF c
  <2>2. /\ t \in Seq(Cmd) /\ IdsOf(t) = IdsOf(s) \cup {c.id}
        /\ \A i \in DOMAIN t : (i \in DOMAIN s /\ t[i] = s[i]) \/ t[i] = c
    BY <1>2, <2>1, AppendIds
  <2>3. Precede(IdsOf(s), {c.id})
    BY <1>1, <1>2, <2>1 DEF Precede
  <2>4. Increasing(t)
    BY <1>2, <2>1, <2>3, AppendIncreasing, CommandsNumbered
  <2>5. Precede(IdsOf(t), IdsOf(drx'))
    BY <1>1, <1>2, <2>1, <2>2 DEF Precede
  <2>6. \A i \in DOMAIN t :
           /\ t[i].id \in DOMAIN hist /\ t[i].op = hist[t[i].id].op
           /\ t[i].op # "flush" => hist[t[i].id].key = key
    BY <1>1, <1>2, <2>1, <2>2
  <2> QED BY <1>1, <2>1, <2>2, <2>4, <2>5, <2>6 DEF Continues
<1>4. CASE key \notin keys
  <2>1. t = s /\ Head(drx).id \notin MessagesOf(key)
    BY <1>1, <1>4 DEF MessagesOf
  <2> QED BY <1>1, <1>2, <2>1 DEF Precede, Continues
<1> QED BY <1>3, <1>4

\* The actor of the ordering key after that.
LEMMA SendingOrdered ==
    ASSUME DispatcherInv, OrderedInv, KeyInv, NEW keys, Sending(keys)
    PROVE  OrderedInv' /\ KeyInv'
<1>1. /\ hist' = hist /\ dpc' = dpc /\ fut' = fut /\ dpc = "run"
      /\ rxS' = IF "key" \in keys THEN Append(rxS, Forward(Head(drx))) ELSE rxS
      /\ UNCHANGED <<openS, pending_msgs, batchS, paused, inflightS, pcS, contS, repliedS,
                     sentS, pcC>>
  BY DEF Sending, SendTo
<1>2. /\ \A key : MessagesOf(key)' = MessagesOf(key)
      /\ \A m, n : ResumedBetween(m, n)' = ResumedBetween(m, n)
      /\ Kept' = Kept /\ Running' = Running /\ Failed' = Failed
  BY <1>1 DEF MessagesOf, ResumedBetween, Kept, Running, Failed
<1>3. QueueOf(rxS, "key")
  BY DEF OrderedInv
<1>4. /\ rxS' \in Seq(Cmd) /\ Increasing(rxS') /\ Precede(IdsOf(rxS'), IdsOf(drx'))
      /\ \A i \in DOMAIN rxS' :
            /\ rxS'[i].id \in DOMAIN hist /\ rxS'[i].op = hist[rxS'[i].id].op
            /\ rxS'[i].op # "flush" => hist[rxS'[i].id].key = "key"
      /\ IdsOf(rxS') \cup IdsOf(drx') \subseteq IdsOf(rxS) \cup IdsOf(drx)
      /\ \A m \in MessagesOf("key") :
            m \in IdsOf(rxS) \cup IdsOf(drx) => m \in IdsOf(rxS') \cup IdsOf(drx')
  <2>1. \/ "key" \in keys /\ rxS' = Append(rxS, Forward(Head(drx)))
        \/ "key" \notin keys /\ rxS' = rxS
    BY <1>1
  <2>2. Continues("key", rxS, rxS')
    BY <1>3, <2>1, SentQueue
  <2> QED BY <2>2 DEF Continues
<1>5. QueueOf(rxS, "key")'
  BY <1>1, <1>4 DEF QueueOf
<1>6. OrderedType' /\ ClosedS'
  BY <1>1 DEF OrderedInv, OrderedType, ClosedS
<1>7. OrderedLocal'
  <2>1. pcS = "done" => rxS' = rxS
    BY <1>1 DEF Sending, Finished
  <2>2. contS.kind = "flush" => InProgress(contS.tx, rxS)'
    BY <1>1, <1>4 DEF OrderedInv, OrderedLocal, InProgress, Precede
  <2> QED BY <1>1, <2>1, <2>2 DEF OrderedInv, OrderedLocal
<1>8. OrderedLine'
  <2>1. Precede(Kept, IdsOf(rxS') \cup IdsOf(drx'))
    BY <1>4 DEF OrderedInv, OrderedLine, Precede
  <2>2. \A i \in DOMAIN sentS : Precede(IdsOf(sentS[i]), Kept \cup IdsOf(rxS') \cup IdsOf(drx'))
    BY <1>4 DEF OrderedInv, OrderedLine, Precede
  <2> QED BY <1>1, <1>2, <2>1, <2>2 DEF OrderedInv, OrderedLine
<1>9. HeldOrQueued("key", HeldS)'
  <2>1. \A m \in MessagesOf("key") : m \in IdsOf(drx) \cup HeldS => m \in IdsOf(drx') \cup HeldS'
    BY <1>2, <1>4 DEF HeldS
  <2> QED BY <1>1, <1>2, <2>1 DEF OrderedInv, HeldOrQueued
<1>10. Barrier("key", repliedS)' /\ Told("key", sentS)'
  BY <1>1, <1>2 DEF OrderedInv, Barrier, Told
<1>11. Queued' \subseteq Queued /\ Ahead' \subseteq Ahead
  BY <1>1, <1>2, <1>4 DEF Queued, Ahead
<1>12. ReceivedOrDropped'
  BY <1>2, <1>11 DEF KeyInv, ReceivedOrDropped, Precede
<1>13. FailureInv'
  BY <1>1, <1>2, <1>11 DEF KeyInv, FailureInv, Joining, Covered
<1>14. KeyOrderSurvivesFailure'
  BY <1>1 DEF KeyInv, KeyOrderSurvivesFailure
<1>15. OrderedInv'
  BY <1>5, <1>6, <1>7, <1>8, <1>9, <1>10 DEF OrderedInv
<1> QED BY <1>12, <1>13, <1>14, <1>15 DEF KeyInv

\* And the actor without a key.
LEMMA SendingUnordered ==
    ASSUME DispatcherInv, UnorderedInv, NEW keys, Sending(keys)
    PROVE  UnorderedInv'
<1>1. /\ hist' = hist /\ dpc' = dpc /\ fut' = fut /\ dpc = "run"
      /\ rxC' = IF "" \in keys THEN Append(rxC, Forward(Head(drx))) ELSE rxC
      /\ UNCHANGED <<openC, batchC, inflightC, pcC, contC, repliedC, sentC>>
  BY DEF Sending, SendTo
<1>2. MessagesOf("")' = MessagesOf("") /\ Live' = Live
  BY <1>1 DEF MessagesOf, Live
<1>3. QueueOf(rxC, "")
  BY DEF UnorderedInv
<1>4. /\ rxC' \in Seq(Cmd) /\ Increasing(rxC') /\ Precede(IdsOf(rxC'), IdsOf(drx'))
      /\ \A i \in DOMAIN rxC' :
            /\ rxC'[i].id \in DOMAIN hist /\ rxC'[i].op = hist[rxC'[i].id].op
            /\ rxC'[i].op # "flush" => hist[rxC'[i].id].key = ""
      /\ IdsOf(rxC') \cup IdsOf(drx') \subseteq IdsOf(rxC) \cup IdsOf(drx)
      /\ \A m \in MessagesOf("") :
            m \in IdsOf(rxC) \cup IdsOf(drx) => m \in IdsOf(rxC') \cup IdsOf(drx')
  <2>1. \/ "" \in keys /\ rxC' = Append(rxC, Forward(Head(drx)))
        \/ "" \notin keys /\ rxC' = rxC
    BY <1>1
  <2>2. Continues("", rxC, rxC')
    BY <1>3, <2>1, SentQueue
  <2> QED BY <2>2 DEF Continues
<1>5. QueueOf(rxC, "")'
  BY <1>1, <1>4 DEF QueueOf
<1>6. UnorderedType' /\ ClosedC' /\ UnorderedLine'
  BY <1>1, <1>2 DEF UnorderedInv, UnorderedType, ClosedC, UnorderedLine
<1>7. UnorderedLocal'
  <2>1. pcC \in {"done", "dead"} => rxC' = rxC
    BY <1>1 DEF Sending, Finished
  <2>2. pcC = "join" /\ contC # 0 => InProgress(contC, rxC)'
    BY <1>1, <1>4 DEF UnorderedInv, UnorderedLocal, InProgress, Precede
  <2> QED BY <1>1, <2>1, <2>2 DEF UnorderedInv, UnorderedLocal
<1>8. HeldOrQueued("", HeldC)'
  <2>1. \A m \in MessagesOf("") : m \in IdsOf(drx) \cup HeldC => m \in IdsOf(drx') \cup HeldC'
    BY <1>1, <1>2, <1>4 DEF HeldC
  <2> QED BY <1>1, <1>2, <2>1 DEF UnorderedInv, HeldOrQueued
<1>9. Barrier("", repliedC)' /\ Told("", sentC)'
  BY <1>1, <1>2 DEF UnorderedInv, Barrier, Told
<1> QED BY <1>5, <1>6, <1>7, <1>8, <1>9 DEF UnorderedInv

\* The Dispatcher itself: it creates the actor of a key with its first message, so
\* that a flush meets the actor of every message dispatched before it.
LEMMA DispatchStep ==
    ASSUME IInv, DispatchPublish \/ DispatchFlush \/ DispatchResume
    PROVE  IInv'
<1> DEFINE h == Head(drx)
<1>1. DispatcherInv /\ OrderedInv /\ KeyInv /\ UnorderedInv
  BY DEF IInv
<1>2. /\ dpc = "run" /\ drx # <<>> /\ drx' = Tail(drx)
      /\ UNCHANGED <<hist, alive, dpc, returned, abandoned, fut>>
  BY DEF DispatchPublish, DispatchFlush, DispatchResume, Received
<1>3. \/ /\ h.op = "publish" /\ actors' = actors \cup {h.key} /\ waiters' = waiters
      \/ /\ h.op = "flush" /\ actors' = actors /\ waiters' = [waiters EXCEPT ![h.id] = actors]
      \/ /\ h.op = "resume" /\ actors' = actors /\ waiters' = waiters
  BY DEF DispatchPublish, DispatchFlush, DispatchResume, Received
<1>4. /\ h.id \in DOMAIN hist /\ h = hist[h.id] /\ h.id \in Ids /\ h.key \in Keys
      /\ drx' \in Seq(Cmds) /\ Increasing(drx')
      /\ \A i \in DOMAIN drx' : drx'[i].id \in DOMAIN hist /\ drx'[i] = hist[drx'[i].id]
      /\ IdsOf(drx) = {h.id} \cup IdsOf(drx') /\ Precede({h.id}, IdsOf(drx'))
  BY <1>1, <1>2, HeadFacts
<1>5. \E keys : Sending(keys)
  <2>1. actors \subseteq Keys
    BY <1>1 DEF DispatcherInv, TypeOK
  <2>2. CASE DispatchPublish
    <3>1. Sending({h.key})
      BY <1>2, <1>4, <2>2 DEF DispatchPublish, Sending, Received
    <3> QED BY <3>1
  <2>3. CASE DispatchFlush
    <3>1. Sending(actors)
      BY <1>2, <2>1, <2>3 DEF DispatchFlush, Sending, Received
    <3> QED BY <3>1
  <2>4. CASE DispatchResume
    <3>1. h.op = "resume" /\ Targets(h) = {h.key} \cap actors
      BY <2>4 DEF DispatchResume, Received, Targets
    <3>2. Sending({h.key} \cap actors)
      BY <1>2, <1>4, <2>1, <2>4, <3>1 DEF DispatchResume, Sending
    <3> QED BY <3>2
  <2> QED BY <2>2, <2>3, <2>4
<1>6. OrderedInv' /\ KeyInv' /\ UnorderedInv'
  BY <1>1, <1>5, SendingOrdered, SendingUnordered
<1> HIDE DEF h
<1>7. TypeOK /\ HistoryInv /\ DispatchedInv /\ WaitersInv /\ ReturnedInv
  BY <1>1 DEF DispatcherInv
<1>8. (\A key : MessagesOf(key)' = MessagesOf(key)) /\ IdsWith(hist, "flush")' = IdsWith(hist, "flush")
  BY <1>2 DEF MessagesOf, IdsWith
<1>9. TypeOK'
  <2>1. actors' \subseteq Keys /\ actors \subseteq actors'
    BY <1>3, <1>4, <1>7 DEF TypeOK
  <2>2. waiters' \in [Ids -> SUBSET actors']
    BY <1>3, <1>4, <1>7, <2>1 DEF TypeOK
  <2> QED BY <1>2, <1>7, <2>1, <2>2 DEF TypeOK
<1>10. HistoryInv' /\ DispatchQueueInv' /\ PhaseInv' /\ ReturnedInv'
  <2>1. HistoryInv'
    BY <1>2, <1>7, <1>8 DEF HistoryInv
  <2>2. DispatchQueueInv'
    BY <1>2, <1>4 DEF DispatchQueueInv
  <2>3. PhaseInv'
    BY <1>2 DEF PhaseInv
  <2>4. ReturnedInv'
    BY <1>2, <1>7 DEF ReturnedInv, FlushCoversEveryKey
  <2> QED BY <2>1, <2>2, <2>3, <2>4
<1>11. DispatchedInv'
  <2> SUFFICES ASSUME NEW key \in Keys PROVE MessagesOf(key) \subseteq IdsOf(drx') \/ key \in actors'
    BY <1>8 DEF DispatchedInv
  <2>1. CASE key \in actors
    BY <1>3, <2>1
  <2>2. CASE MessagesOf(key) \subseteq IdsOf(drx) /\ key \notin actors'
    <3>1. h.id \notin MessagesOf(key)
      BY <1>3, <1>4, <2>2 DEF MessagesOf
    <3> QED BY <1>4, <2>2, <3>1
  <2> QED BY <1>2, <1>7, <2>1, <2>2 DEF DispatchedInv
<1>12. WaitersInv'
  <2> SUFFICES ASSUME NEW f \in IdsWith(hist, "flush") \ abandoned, f \notin IdsOf(drx'),
                      NEW key \in Keys, NEW m \in MessagesOf(key), m < f
               PROVE  fut[m] # "waiting" \/ key \in waiters'[f]
    BY <1>2, <1>8 DEF WaitersInv
  <2>1. f \in DOMAIN hist /\ hist[f].op = "flush" /\ f \in Ids
    BY <1>1, FlushIds, HasKey DEF DispatcherInv, Cmds
  <2>2. CASE f = h.id
    <3>1. h.op = "flush" /\ waiters'[f] = actors
      BY <1>3, <1>4, <1>7, <2>1, <2>2 DEF TypeOK
    <3>2. m \notin IdsOf(drx)
      <4>1. m \in Nat /\ f \in Nat
        BY <1>1, <2>1, MessageIds
      <4> QED BY <1>4, <2>2, <4>1, CommandsNumbered DEF Precede
    <3> QED BY <1>2, <1>7, <3>1, <3>2 DEF DispatchedInv
  <2>3. CASE f # h.id
    <3>1. f \notin IdsOf(drx) /\ waiters'[f] = waiters[f]
      BY <1>3, <1>4, <1>7, <2>1, <2>3 DEF TypeOK
    <3> QED BY <1>7, <3>1 DEF WaitersInv
  <2> QED BY <2>2, <2>3
<1> QED BY <1>6, <1>9, <1>10, <1>11, <1>12 DEF IInv, DispatcherInv

-----------------------------------------------------------------------------
\* A send failed and the Dispatcher returns: the messages in its queue are dropped.
LEMMA ReturnsFacts ==
    ASSUME DispatcherInv, DispatcherReturns
    PROVE  /\ UNCHANGED <<hist, alive, actors, waiters, returned>>
           /\ dpc = "run" /\ dpc' = "aborted" /\ drx' = <<>> /\ IdsOf(drx') = {}
           /\ abandoned' = abandoned \cup IdsWith(drx, "flush")
           /\ \A key : MessagesOf(key)' = MessagesOf(key)
           /\ fut' \in [Ids -> {"waiting", "ok", "rpc", "paused", "shutdown"}]
           /\ \A m \in Ids : fut'[m] = IF m \in IdsWith(drx, "publish") THEN "shutdown" ELSE fut[m]
           /\ IdsWith(drx, "publish") \subseteq IdsOf(drx) /\ IdsWith(drx, "flush") \subseteq Ids
           /\ IdsWith(drx, "publish") \subseteq MessagesOf("key") \cup MessagesOf("")
           /\ \A key \in Keys : MessagesOf(key) \cap IdsOf(drx) \subseteq IdsWith(drx, "publish")
<1>1. /\ UNCHANGED <<hist, alive, actors, waiters, returned>>
      /\ dpc = "run" /\ dpc' = "aborted" /\ drx' = <<>>
      /\ abandoned' = abandoned \cup IdsWith(drx, "flush")
      /\ fut' = Resolve(IdsWith(drx, "publish"), "shutdown")
  BY DEF DispatcherReturns
<1>2. \A key : MessagesOf(key)' = MessagesOf(key)
  BY <1>1 DEF MessagesOf
<1>3. /\ fut' \in [Ids -> {"waiting", "ok", "rpc", "paused", "shutdown"}]
      /\ \A m \in Ids : fut'[m] = IF m \in IdsWith(drx, "publish") THEN "shutdown" ELSE fut[m]
  BY <1>1 DEF Resolve, DispatcherInv, TypeOK
<1>4. \A i \in DOMAIN drx : /\ drx[i].id \in DOMAIN hist /\ drx[i] = hist[drx[i].id]
                            /\ drx[i].id \in Ids
  BY MessageIds DEF DispatcherInv, DispatchQueueInv
<1>5. IdsWith(drx, "publish") \subseteq IdsOf(drx) /\ IdsWith(drx, "flush") \subseteq Ids
  BY <1>4 DEF IdsWith, IdsOf
<1>6. ASSUME NEW m \in IdsWith(drx, "publish") PROVE m \in MessagesOf("key") \cup MessagesOf("")
  <2>1. m \in DOMAIN hist /\ hist[m].op = "publish"
    BY <1>4 DEF IdsWith
  <2> QED BY <2>1, HasKey DEF Keys
<1>7. ASSUME NEW key \in Keys, NEW m \in MessagesOf(key) \cap IdsOf(drx)
      PROVE  m \in IdsWith(drx, "publish")
  <2>1. PICK i \in DOMAIN drx : drx[i].id = m
    BY DEF IdsOf
  <2>2. drx[i].op = "publish"
    BY <1>4, <2>1 DEF MessagesOf
  <2> QED BY <2>1, <2>2 DEF IdsWith
<1> QED BY <1>1, <1>2, <1>3, <1>5, <1>6, <1>7, EmptyIds

\* The Dispatcher's own invariant: the flushes of its queue are abandoned.
LEMMA ReturnsDispatcher ==
    ASSUME DispatcherInv, DispatcherReturns
    PROVE  DispatcherInv'
<1>1. TypeOK /\ HistoryInv /\ DispatchQueueInv /\ WaitersInv /\ ReturnedInv
  BY DEF DispatcherInv
<1>0. hist' = hist /\ drx' = <<>> /\ (\A key : MessagesOf(key)' = MessagesOf(key))
  BY ReturnsFacts
<1>2. TypeOK'
  BY <1>1, ReturnsFacts DEF TypeOK
<1>3. HistoryInv'
  <2>1. \A m \in Ids : fut'[m] # "waiting" => m \in MessagesOf("key") \cup MessagesOf("")
    BY <1>1, ReturnsFacts DEF HistoryInv
  <2> QED BY <1>0, <1>1, <2>1 DEF HistoryInv
<1>4. DispatchQueueInv'
  BY <1>0, EmptyIds DEF DispatchQueueInv
<1>5. PhaseInv' /\ DispatchedInv'
  BY ReturnsFacts DEF PhaseInv, DispatchedInv
<1>6. DOMAIN hist \subseteq Ids /\ \A m \in DOMAIN hist : fut[m] # "waiting" => fut'[m] # "waiting"
  <2>1. DOMAIN hist \subseteq Ids
    BY MessageIds
  <2> QED BY <2>1, ReturnsFacts
<1>7. WaitersInv'
  <2>1. IdsWith(hist, "flush")' = IdsWith(hist, "flush")
    BY <1>0 DEF IdsWith
  <2>2. ASSUME NEW f \in IdsWith(hist, "flush") \ abandoned' PROVE f \notin IdsOf(drx)
    BY <1>1, ReturnsFacts, FlushIds
  <2>3. \A key : MessagesOf(key) \subseteq DOMAIN hist
    BY DEF MessagesOf
  <2>4. \A f \in IdsWith(hist, "flush") \ abandoned' :
            \A key \in Keys : \A m \in MessagesOf(key) :
                m < f => fut'[m] # "waiting" \/ key \in waiters[f]
    BY <1>1, <1>6, <2>2, <2>3, ReturnsFacts DEF WaitersInv
  <2> QED BY <2>1, <2>4, ReturnsFacts DEF WaitersInv
<1>8. ReturnedInv'
  <2>1. ASSUME NEW f \in returned, NEW m \in 1..(f - 1) PROVE m \in DOMAIN hist
    BY <1>1, MessageIds DEF ReturnedInv
  <2> QED BY <1>1, <1>6, <2>1, ReturnsFacts DEF ReturnedInv, FlushCoversEveryKey
<1> QED BY <1>2, <1>3, <1>4, <1>5, <1>7, <1>8 DEF DispatcherInv

\* The actors: what the Dispatcher dropped came after all that they have.
LEMMA ReturnsActors ==
    ASSUME DispatcherInv, OrderedInv, KeyInv, UnorderedInv, DispatcherReturns
    PROVE  OrderedInv' /\ KeyInv' /\ UnorderedInv'
<1>1. UNCHANGED <<rxS, pending_msgs, batchS, paused, inflightS, pcS, contS, repliedS, sentS,
                  rxC, batchC, inflightC, pcC, contC, repliedC, sentC>>
  BY DEF DispatcherReturns
<1>2. /\ hist' = hist /\ dpc' = "aborted" /\ IdsOf(drx') = {}
      /\ \A key : MessagesOf(key)' = MessagesOf(key)
  BY ReturnsFacts
<1>3. /\ \A m, n : ResumedBetween(m, n)' = ResumedBetween(m, n)
      /\ Kept' = Kept /\ HeldS' = HeldS /\ HeldC' = HeldC
  BY <1>1, <1>2 DEF ResumedBetween, Kept, HeldS, Running, HeldC, Live
<1>4. \A key \in Keys : \A m \in MessagesOf(key) :
         fut'[m] = "waiting" => fut[m] = "waiting" /\ m \notin IdsOf(drx)
  BY MessageIds, ReturnsFacts
<1>5. OrderedType' /\ QueueOf(rxS, "key")' /\ OrderedLocal' /\ ClosedS'
  BY <1>1, <1>2 DEF OrderedInv, OrderedType, QueueOf, OrderedLocal, InProgress, ClosedS, Precede
<1>6. OrderedLine'
  BY <1>1, <1>2, <1>3 DEF OrderedInv, OrderedLine, Precede
<1>7. HeldOrQueued("key", HeldS)' /\ Barrier("key", repliedS)' /\ Told("key", sentS)'
  BY <1>1, <1>2, <1>3, <1>4 DEF OrderedInv, HeldOrQueued, Barrier, Told, Keys
<1>8. UnorderedType' /\ QueueOf(rxC, "")' /\ UnorderedLocal' /\ ClosedC'
  BY <1>1, <1>2 DEF UnorderedInv, UnorderedType, QueueOf, UnorderedLocal, InProgress, ClosedC, Precede
<1>9. UnorderedLine'
  BY <1>1, <1>2 DEF UnorderedInv, UnorderedLine
<1>10. HeldOrQueued("", HeldC)' /\ Barrier("", repliedC)' /\ Told("", sentC)'
  BY <1>1, <1>2, <1>3, <1>4 DEF UnorderedInv, HeldOrQueued, Barrier, Told, Keys
<1>11. Queued' = IdsOf(rxS) /\ Ahead' = Kept \cup IdsOf(rxS)
  BY <1>1, <1>2, <1>3 DEF Queued, Ahead
<1>12. \A m \in Failed' : m \in Failed \/ m \in IdsOf(drx)
  <2>1. ASSUME NEW m \in Failed' PROVE m \in Failed \/ m \in IdsOf(drx)
    <3>1. m \in MessagesOf("key") /\ fut'[m] \in {"rpc", "paused", "shutdown"} /\ m \in Ids
      BY <1>2, MessageIds DEF Failed
    <3> QED BY <3>1, ReturnsFacts DEF Failed
  <2> QED BY <2>1
<1>13. Precede(Kept \cup IdsOf(rxS), IdsOf(drx))
  BY DEF OrderedInv, OrderedLine, QueueOf, Precede
<1>14. ReceivedOrDropped'
  <2> SUFFICES ASSUME NEW m \in Failed' PROVE Precede({m}, Queued') \/ Precede(Ahead', {m})
    BY DEF ReceivedOrDropped
  <2>1. CASE m \in IdsOf(drx)
    BY <1>11, <1>13, <2>1 DEF Precede
  <2>2. CASE m \in Failed
    BY <1>11, <2>2 DEF KeyInv, ReceivedOrDropped, Precede, Queued, Ahead
  <2> QED BY <1>12, <2>1, <2>2
<1>15. FailureInv'
  <2> SUFFICES ASSUME NEW m \in Failed', ~paused, ~Joining(m), NEW n \in Ahead', m < n
               PROVE  ResumedBetween(m, n)
    BY <1>1, <1>3 DEF FailureInv, Joining, Covered
  <2>1. n \in Ahead /\ m \in Nat /\ n \in Nat
    <3>1. n \in Ahead /\ n \in DOMAIN hist
      BY <1>11, IdsAreNumbers DEF Ahead, Queued
    <3>2. m \in DOMAIN hist
      BY <1>12, IdsAreNumbers DEF Failed
    <3> QED BY <3>1, <3>2, IdsAreNumbers
  <2>2. m \notin IdsOf(drx)
    BY <1>11, <1>13, <2>1 DEF Precede
  <2> QED BY <1>12, <2>1, <2>2 DEF KeyInv, FailureInv, Covered
<1>16. KeyOrderSurvivesFailure'
  <2> SUFFICES ASSUME NEW m \in Ids, fut'[m] \in {"rpc", "paused", "shutdown"}, hist'[m].key = "key",
                      NEW i \in DOMAIN sentS', m \notin IdsOf(sentS'[i]),
                      NEW n \in IdsOf(sentS'[i]), m < n
               PROVE  ResumedBetween(m, n)'
    BY DEF KeyOrderSurvivesFailure, ResumedBetween, S!IdsOf, IdsOf
  <2>1. hist[m].key = "key" /\ i \in DOMAIN sentS /\ m \notin IdsOf(sentS[i]) /\ n \in IdsOf(sentS[i])
    BY <1>1, <1>2
  <2>2. n \in Nat /\ m \in Nat /\ Precede({n}, IdsOf(drx))
    BY <2>1, IdsAreNumbers DEF OrderedInv, OrderedLine, Precede
  <2>3. m \notin IdsOf(drx)
    BY <2>2 DEF Precede
  <2>4. fut[m] = fut'[m]
    BY <2>3, ReturnsFacts
  <2>5. ResumedBetween(m, n)
    BY <2>1, <2>4 DEF KeyInv, KeyOrderSurvivesFailure, ResumedBetween, S!IdsOf, IdsOf
  <2> QED BY <1>3, <2>5
<1>17. OrderedInv'
  BY <1>5, <1>6, <1>7 DEF OrderedInv
<1>18. KeyInv'
  BY <1>14, <1>15, <1>16 DEF KeyInv
<1>19. UnorderedInv'
  BY <1>8, <1>9, <1>10 DEF UnorderedInv
<1> QED BY <1>17, <1>18, <1>19

\* The runtime aborts the actor of the ordering key: all it held is dropped, and
\* nothing can be sent any more.
LEMMA AbortStep ==
    ASSUME IInv, AbortOrdered
    PROVE  IInv'
<1> DEFINE lost == {m \in IdsWith(rxS, "publish") \cup IdsOf(pending_msgs) \cup IdsOf(batchS)
                             \cup IdsOf(inflightS.msgs) : fut[m] = "waiting"}
<1>1. /\ DispatcherInv /\ OrderedInv /\ KeyInv /\ UnorderedInv
      /\ dpc = "aborted" /\ drx = <<>> /\ IdsOf(drx) = {}
  BY EmptyIds DEF IInv, AbortOrdered, DispatcherInv, PhaseInv
<1>2. /\ fut' = Resolve(lost, "shutdown")
      /\ rxS' = <<>> /\ pending_msgs' = <<>> /\ batchS' = <<>> /\ inflightS' = S!NoTask
      /\ pcS' = "done" /\ UNCHANGED <<openS, paused, contS, repliedS, sentS>> /\ StaysS
  BY DEF AbortOrdered, StaysS, S!IdsOf, IdsOf
<1>3. /\ \A m \in IdsWith(rxS, "publish") : m \in IdsOf(rxS) /\ m \in MessagesOf("key")
      /\ IdsOf(rxS) \cap MessagesOf("key") \subseteq IdsWith(rxS, "publish")
  <2>1. QueueOf(rxS, "key")
    BY <1>1 DEF OrderedInv
  <2>2. \A i \in DOMAIN rxS : rxS[i].id \in MessagesOf("key") <=> rxS[i].op = "publish"
    BY <2>1 DEF QueueOf, MessagesOf
  <2> QED BY <2>2 DEF IdsOf, IdsWith
<1>4. /\ Kept \subseteq MessagesOf("key") /\ IdsOf(inflightS.msgs) \subseteq MessagesOf("key")
  <2>1. inflightS = S!NoTask => IdsOf(inflightS.msgs) = {}
    BY EmptyIds DEF S!NoTask
  <2> QED BY <1>1, <2>1, TaskMessages DEF OrderedInv, OrderedLine
<1>5. lost \subseteq MessagesOf("key")
  BY <1>3, <1>4 DEF Kept
<1>6. \A m \in MessagesOf("key") : m \in HeldS /\ fut[m] = "waiting" => m \in lost
  BY <1>3 DEF HeldS, Kept, Running
<1>7. ASSUME NEW m \in lost, NEW i \in DOMAIN sentS, m \notin IdsOf(sentS[i])
      PROVE  Precede(IdsOf(sentS[i]), {m})
  <2>1. CASE m \in IdsOf(rxS) \cup Kept
    BY <1>1, <2>1 DEF OrderedInv, OrderedLine, Precede
  <2>2. CASE m \in IdsOf(inflightS.msgs)
    <3>1. inflightS # S!NoTask
      BY <2>2, EmptyIds DEF S!NoTask
    <3>2. Len(sentS) \in DOMAIN sentS /\ m \in IdsOf(sentS[Len(sentS)])
      BY <1>1, <2>2, <3>1, TaskMessages DEF OrderedInv
    <3>3. i < Len(sentS)
      BY <1>1, <1>7, <3>2 DEF OrderedInv, OrderedType
    <3> QED BY <1>1, <3>2, <3>3 DEF OrderedInv, OrderedLine, Precede
  <2> QED BY <1>3, <2>1, <2>2 DEF Kept
<1> HIDE DEF lost
<1>8. /\ fut' \in [Ids -> {"waiting", "ok", "rpc", "paused", "shutdown"}]
      /\ \A m \in Ids : fut'[m] = IF m \in lost THEN "shutdown" ELSE fut[m]
  BY <1>1, <1>2 DEF Resolve, DispatcherInv, TypeOK
<1>9. Resolves("key")
  BY <1>5, <1>8 DEF Resolves
<1>10. DispatcherInv'
  BY <1>1, <1>2, <1>9, DispatcherFrame DEF StaysS, Keys
<1>11. UnorderedInv'
  BY <1>1, <1>2, <1>9, UnorderedFrame
<1>12. /\ hist' = hist /\ dpc' = dpc /\ drx' = drx
       /\ \A key : MessagesOf(key)' = MessagesOf(key)
       /\ \A m, n : ResumedBetween(m, n)' = ResumedBetween(m, n)
  BY <1>2, StaysFacts
<1>13. Kept' = {} /\ IdsOf(rxS') = {} /\ Queued' = {} /\ Ahead' = {}
  BY <1>1, <1>2, <1>12, EmptyIds DEF Kept, Queued, Ahead
<1>14. OrderedType' /\ QueueOf(rxS, "key")'
  <2>1. S!NoTask \in OrderedTasks /\ S!NoTask.status = "none"
    BY NoTaskType
  <2>2. OrderedType'
    BY <1>1, <1>2, <2>1 DEF OrderedInv, OrderedType
  <2>3. QueueOf(rxS, "key")'
    BY <1>2, <1>13, EmptyIds DEF QueueOf, Precede
  <2> QED BY <2>2, <2>3
<1>15. OrderedLocal' /\ ClosedS'
  <2>1. contS.kind = "flush" => InProgress(contS.tx, rxS)'
    BY <1>1, <1>2, <1>12, <1>13 DEF OrderedInv, OrderedLocal, InProgress, Precede
  <2>2. OrderedLocal'
    BY <1>2, <2>1 DEF OrderedLocal
  <2>3. ClosedS'
    BY <1>1, <1>2, <1>12 DEF ClosedS
  <2> QED BY <2>2, <2>3
<1>16. OrderedLine'
  <2>1. Increasing(pending_msgs') /\ IdsOf(pending_msgs') = {} /\ IdsOf(drx') = {}
    BY <1>1, <1>2, <1>12, EmptyIds
  <2> QED BY <1>1, <1>2, <1>12, <1>13, <2>1 DEF OrderedInv, OrderedLine, Precede
<1>17. \A m \in MessagesOf("key") : m \in Ids
  BY <1>1, MessageIds
<1>18. HeldOrQueued("key", HeldS)' /\ Barrier("key", repliedS)' /\ Told("key", sentS)'
  <2>1. \A m \in MessagesOf("key") : fut'[m] # "waiting"
    BY <1>1, <1>6, <1>8, <1>17 DEF OrderedInv, HeldOrQueued
  <2> QED BY <1>1, <1>2, <1>12, <2>1 DEF OrderedInv, HeldOrQueued, Barrier, Told
<1>19. ReceivedOrDropped' /\ FailureInv'
  BY <1>13 DEF ReceivedOrDropped, FailureInv, Covered, Precede
<1>20. KeyOrderSurvivesFailure'
  <2> SUFFICES ASSUME NEW m \in Ids, fut'[m] \in {"rpc", "paused", "shutdown"}, hist'[m].key = "key",
                      NEW i \in DOMAIN sentS', m \notin IdsOf(sentS'[i]),
                      NEW n \in IdsOf(sentS'[i]), m < n
               PROVE  ResumedBetween(m, n)'
    BY DEF KeyOrderSurvivesFailure, ResumedBetween, S!IdsOf, IdsOf
  <2>1. hist[m].key = "key" /\ i \in DOMAIN sentS /\ m \notin IdsOf(sentS[i]) /\ n \in IdsOf(sentS[i])
    BY <1>2, <1>12
  <2>2. n \in Nat /\ m \in Nat
    BY <1>1, <2>1, IdsAreNumbers DEF OrderedInv, OrderedLine
  <2>3. m \notin lost
    BY <1>7, <2>1, <2>2 DEF Precede
  <2>4. fut[m] = fut'[m]
    BY <1>8, <2>3
  <2>5. ResumedBetween(m, n)
    BY <1>1, <2>1, <2>4 DEF KeyInv, KeyOrderSurvivesFailure, ResumedBetween, S!IdsOf, IdsOf
  <2> QED BY <1>12, <2>5
<1>21. OrderedInv' /\ KeyInv'
  BY <1>14, <1>15, <1>16, <1>18, <1>19, <1>20 DEF OrderedInv, KeyInv
<1> QED BY <1>10, <1>11, <1>21 DEF IInv

-----------------------------------------------------------------------------
\* The number of the next command.
Fresh == Len(hist) + 1

\* What the call adds for the actors: a command later than all the others.
Grows ==
    /\ Fresh \in Ids /\ Fresh \in Nat /\ Len(hist') = Fresh
    /\ \A m \in DOMAIN hist : m < Fresh /\ m \in Nat
    /\ DOMAIN hist' = DOMAIN hist \cup {Fresh}
    /\ \A m \in DOMAIN hist : hist'[m] = hist[m]
    /\ \A key : MessagesOf(key) \subseteq MessagesOf(key)'
    /\ \A key : MessagesOf(key)' \subseteq MessagesOf(key) \cup {Fresh}
    /\ IdsOf(drx') = IdsOf(drx) \cup (IF dpc = "run" THEN {Fresh} ELSE {})
    /\ dpc' = dpc /\ fut' \in [Ids -> {"waiting", "ok", "rpc", "paused", "shutdown"}]
    /\ \A m \in Ids : m # Fresh => fut'[m] = fut[m]
    /\ fut[Fresh] = "waiting" /\ fut'[Fresh] \in {"waiting", "shutdown"}
    /\ dpc = "run" => fut'[Fresh] = "waiting"
    /\ dpc \in {"run", "aborted"}
    /\ dpc # "run" => \A key : Fresh \in MessagesOf(key)' => fut'[Fresh] = "shutdown"

\* The history after a call of the application.
LEMMA SubmitHistory ==
    ASSUME DispatcherInv, NEW op \in {"publish", "flush", "resume"}, NEW key \in Keys,
           NEW bytes \in Nat, Submit(op, key, bytes)
    PROVE  LET cmd == [op |-> op, key |-> key, id |-> Fresh, bytes |-> bytes]
           IN  /\ cmd \in Cmds /\ hist' \in Seq(Cmds) /\ hist'[Fresh] = cmd
               /\ Fresh \in Ids /\ Fresh \in Nat /\ Len(hist') = Fresh
               /\ \A m \in DOMAIN hist : m < Fresh /\ m \in Nat
               /\ DOMAIN hist' = DOMAIN hist \cup {Fresh}
               /\ \A m \in DOMAIN hist : hist'[m] = hist[m]
<1> DEFINE cmd == [op |-> op, key |-> key, id |-> Fresh, bytes |-> bytes]
<1>1. Len(hist) < MaxCmds /\ hist' = Append(hist, cmd)
  BY DEF Submit, Fresh
<1>2. hist \in Seq(Cmds) /\ DOMAIN hist = 1..Len(hist) /\ Len(hist) \in Nat
  BY MessageIds DEF DispatcherInv, HistoryInv
<1>3. Fresh \in Ids /\ Fresh \in Nat /\ (\A m \in DOMAIN hist : m < Fresh /\ m \in Nat)
  BY <1>1, <1>2, PublisherAssumption DEF Fresh, Ids
<1>4. cmd \in Cmds
  BY <1>3 DEF Cmds
<1> HIDE DEF cmd
<1>5. /\ hist' \in Seq(Cmds) /\ hist'[Fresh] = cmd /\ Len(hist') = Fresh
      /\ DOMAIN hist' = DOMAIN hist \cup {Fresh}
      /\ \A m \in DOMAIN hist : hist'[m] = hist[m]
  BY <1>1, <1>2, <1>4 DEF Fresh
<1> QED BY <1>3, <1>4, <1>5 DEF cmd

\* Only a Dispatcher that runs, or that returned early, is called: the other ones
\* have no Publisher left.
LEMMA SubmitPhase ==
    ASSUME DispatcherInv, NEW op, NEW key, NEW bytes, Submit(op, key, bytes)
    PROVE  dpc \in {"run", "aborted"}
<1>1. alive /\ PhaseInv /\ dpc \in {"run", "wait", "stopped", "aborted"}
  BY DEF Submit, DispatcherInv, TypeOK
<1> QED BY <1>1 DEF PhaseInv

\* What a call of the application adds.
LEMMA SubmitGrows ==
    ASSUME DispatcherInv, NEW op \in {"publish", "flush", "resume"}, NEW key \in Keys,
           NEW bytes \in Nat, Submit(op, key, bytes)
    PROVE  /\ Grows /\ Fresh \notin DOMAIN hist
           /\ IdsWith(hist, "flush")' \subseteq IdsWith(hist, "flush") \cup {Fresh}
           /\ op # "flush" => Fresh \notin IdsWith(hist, "flush")'
           /\ op = "flush" /\ dpc # "run" => Fresh \in abandoned'
           /\ fut'[Fresh] # "waiting" => Fresh \in MessagesOf(key)'
           /\ DispatchQueueInv'
<1> DEFINE cmd == [op |-> op, key |-> key, id |-> Fresh, bytes |-> bytes]
<1>1. /\ cmd \in Cmds /\ hist' \in Seq(Cmds) /\ hist'[Fresh] = cmd
      /\ Fresh \in Ids /\ Fresh \in Nat /\ Len(hist') = Fresh
      /\ \A m \in DOMAIN hist : m < Fresh /\ m \in Nat
      /\ DOMAIN hist' = DOMAIN hist \cup {Fresh}
      /\ \A m \in DOMAIN hist : hist'[m] = hist[m]
  BY SubmitHistory
<1>2. /\ dpc \in {"run", "aborted"} /\ dpc' = dpc
      /\ drx' = IF dpc = "run" THEN Append(drx, cmd) ELSE drx
      /\ fut' = IF dpc # "run" /\ op = "publish" THEN Resolve({Fresh}, "shutdown") ELSE fut
      /\ abandoned' = IF dpc # "run" /\ op = "flush" THEN abandoned \cup {Fresh} ELSE abandoned
  <2>1. dpc \in {"run", "aborted"}
    BY SubmitPhase
  <2> QED BY <2>1 DEF Submit, Fresh
<1>3. cmd.op = op /\ cmd.key = key /\ cmd.id = Fresh
  OBVIOUS
<1> HIDE DEF cmd
<1>4. Fresh \notin DOMAIN hist
  BY <1>1
<1>5. /\ \A k : MessagesOf(k) \subseteq MessagesOf(k)'
      /\ \A k : MessagesOf(k)' \subseteq MessagesOf(k) \cup {Fresh}
      /\ \A k : Fresh \in MessagesOf(k)' => op = "publish"
      /\ op = "publish" => Fresh \in MessagesOf(key)'
  BY <1>1, <1>3 DEF MessagesOf
<1>6. fut \in [Ids -> {"waiting", "ok", "rpc", "paused", "shutdown"}] /\ fut[Fresh] = "waiting"
  BY <1>1, <1>4, MessageIds DEF DispatcherInv, TypeOK, HistoryInv
<1>7. /\ fut' \in [Ids -> {"waiting", "ok", "rpc", "paused", "shutdown"}]
      /\ \A m \in Ids : m # Fresh => fut'[m] = fut[m]
      /\ fut'[Fresh] = IF dpc # "run" /\ op = "publish" THEN "shutdown" ELSE "waiting"
  BY <1>1, <1>2, <1>6 DEF Resolve
<1>8. /\ drx \in Seq(Cmds) /\ Increasing(drx) /\ IdsOf(drx) \subseteq DOMAIN hist
      /\ \A i \in DOMAIN drx : drx[i].id \in DOMAIN hist /\ drx[i] = hist[drx[i].id]
  BY DEF DispatcherInv, DispatchQueueInv, IdsOf
<1>9. DispatchQueueInv' /\ IdsOf(drx') = IdsOf(drx) \cup (IF dpc = "run" THEN {Fresh} ELSE {})
  <2>1. CASE dpc = "run"
    <3>1. drx' = Append(drx, cmd) /\ Precede(IdsOf(drx), {cmd.id})
      BY <1>1, <1>2, <1>3, <1>8, <2>1 DEF Precede
    <3>2. drx' \in Seq(Cmds) /\ IdsOf(drx') = IdsOf(drx) \cup {Fresh}
          /\ \A i \in DOMAIN drx' : (i \in DOMAIN drx /\ drx'[i] = drx[i]) \/ drx'[i] = cmd
      BY <1>1, <1>3, <1>8, <3>1, AppendIds
    <3>3. Increasing(drx')
      BY <1>1, <1>8, <3>1, AppendIncreasing, CommandsNumbered
    <3>4. \A i \in DOMAIN drx' : drx'[i].id \in DOMAIN hist' /\ drx'[i] = hist'[drx'[i].id]
      BY <1>1, <1>3, <1>8, <3>2
    <3> QED BY <2>1, <3>2, <3>3, <3>4 DEF DispatchQueueInv
  <2>2. CASE dpc # "run"
    <3>1. drx' = drx
      BY <1>2, <2>2
    <3> QED BY <1>1, <1>8, <2>2, <3>1 DEF DispatchQueueInv
  <2> QED BY <2>1, <2>2
<1>10. /\ IdsWith(hist, "flush")' \subseteq IdsWith(hist, "flush") \cup {Fresh}
       /\ op # "flush" => Fresh \notin IdsWith(hist, "flush")'
  <2>1. \A m \in DOMAIN hist : hist[m].id = m
    BY DEF DispatcherInv, HistoryInv
  <2>2. ASSUME NEW f \in IdsWith(hist', "flush")
        PROVE  f \in IdsWith(hist, "flush") \/ (f = Fresh /\ op = "flush")
    <3>1. PICK j \in DOMAIN hist' : hist'[j].op = "flush" /\ f = hist'[j].id
      BY DEF IdsWith
    <3>2. CASE j \in DOMAIN hist
      BY <1>1, <3>1, <3>2 DEF IdsWith
    <3>3. CASE j = Fresh
      BY <1>1, <1>3, <3>1, <3>3
    <3> QED BY <1>1, <3>2, <3>3
  <2>3. \A f \in IdsWith(hist, "flush") : f \in DOMAIN hist
    BY <2>1 DEF IdsWith
  <2>4. IdsWith(hist, "flush")' = IdsWith(hist', "flush")
    BY DEF IdsWith
  <2> QED BY <1>4, <2>2, <2>3, <2>4
<1>11. Grows
  BY <1>1, <1>2, <1>5, <1>6, <1>7, <1>9 DEF Grows
<1> QED BY <1>2, <1>4, <1>5, <1>7, <1>9, <1>10, <1>11

\* The Dispatcher after a call of the application.
LEMMA SubmitDispatcher ==
    ASSUME DispatcherInv, NEW op \in {"publish", "flush", "resume"}, NEW key \in Keys,
           NEW bytes \in Nat, Submit(op, key, bytes)
    PROVE  DispatcherInv'
<1>1. TypeOK /\ HistoryInv /\ PhaseInv /\ DispatchedInv /\ WaitersInv /\ ReturnedInv
  BY DEF DispatcherInv
<1>2. /\ UNCHANGED <<alive, dpc, actors, waiters, returned>> /\ alive
      /\ abandoned' = abandoned \/ abandoned' = abandoned \cup {Fresh}
      /\ dpc # "run" => drx' = drx
  <2>1. dpc \in {"run", "aborted"}
    BY SubmitPhase
  <2> QED BY <2>1 DEF Submit, Fresh
<1>3. /\ Fresh \in Ids /\ Fresh \in Nat /\ Len(hist') = Fresh
      /\ \A m \in DOMAIN hist : m < Fresh /\ m \in Nat
      /\ DOMAIN hist' = DOMAIN hist \cup {Fresh}
      /\ \A m \in DOMAIN hist : hist'[m] = hist[m]
      /\ \A k : MessagesOf(k) \subseteq MessagesOf(k)'
      /\ \A k : MessagesOf(k)' \subseteq MessagesOf(k) \cup {Fresh}
      /\ IdsOf(drx') = IdsOf(drx) \cup (IF dpc = "run" THEN {Fresh} ELSE {})
      /\ fut' \in [Ids -> {"waiting", "ok", "rpc", "paused", "shutdown"}]
      /\ \A m \in Ids : m # Fresh => fut'[m] = fut[m]
      /\ dpc \in {"run", "aborted"}
  BY SubmitGrows DEF Grows
<1>4. /\ IdsWith(hist, "flush")' \subseteq IdsWith(hist, "flush") \cup {Fresh}
      /\ op # "flush" => Fresh \notin IdsWith(hist, "flush")'
      /\ op = "flush" /\ dpc # "run" => Fresh \in abandoned'
      /\ fut'[Fresh] # "waiting" => Fresh \in MessagesOf(key)'
      /\ DispatchQueueInv' /\ Fresh \notin DOMAIN hist
  BY SubmitGrows
<1>5. TypeOK'
  BY <1>1, <1>2, <1>3 DEF TypeOK
<1>6. HistoryInv'
  <2>1. hist' \in Seq(Cmds) /\ hist'[Fresh].id = Fresh
    <3>1. LET cmd == [op |-> op, key |-> key, id |-> Fresh, bytes |-> bytes]
          IN  hist' \in Seq(Cmds) /\ hist'[Fresh] = cmd
      BY SubmitHistory
    <3> QED BY <3>1
  <2>2. Len(hist') <= MaxCmds
    BY <1>3, PublisherAssumption DEF Ids
  <2>3. ASSUME NEW m \in Ids, fut'[m] # "waiting"
        PROVE  m \in MessagesOf("key")' \cup MessagesOf("")'
    <3>1. CASE m = Fresh
      BY <1>4, <2>3, <3>1 DEF Keys
    <3>2. CASE m # Fresh
      BY <1>1, <1>3, <2>3, <3>2 DEF HistoryInv
    <3> QED BY <3>1, <3>2
  <2> QED BY <1>1, <1>3, <2>1, <2>2, <2>3 DEF HistoryInv
<1>7. PhaseInv'
  BY <1>1, <1>2, <1>3 DEF PhaseInv
<1>8. DispatchedInv'
  BY <1>1, <1>2, <1>3 DEF DispatchedInv
<1>9. WaitersInv'
  <2> SUFFICES ASSUME NEW f \in IdsWith(hist, "flush")' \ abandoned', f \notin IdsOf(drx'),
                      NEW k \in Keys, NEW m \in MessagesOf(k)', m < f
               PROVE  fut'[m] # "waiting" \/ k \in waiters[f]
    BY <1>2 DEF WaitersInv
  <2>1. f \in IdsWith(hist, "flush") \ abandoned /\ f \notin IdsOf(drx)
    BY <1>2, <1>3, <1>4
  <2>2. f \in DOMAIN hist
    BY <2>1, FlushIds DEF DispatcherInv
  <2>3. m \in MessagesOf(k)
    BY <1>3, <2>2
  <2>4. m \in DOMAIN hist /\ m \in Ids
    BY <2>3, MessageIds
  <2>5. fut'[m] = fut[m]
    BY <1>3, <1>4, <2>4
  <2> QED BY <1>1, <2>1, <2>3, <2>5 DEF WaitersInv
<1>10. ReturnedInv'
  <2>1. ASSUME NEW f \in returned, NEW m \in 1..(f - 1)
        PROVE  hist'[m] = hist[m] /\ fut'[m] = fut[m]
    <3>1. m \in DOMAIN hist /\ m \in Ids
      BY <1>1, MessageIds DEF ReturnedInv
    <3> QED BY <1>3, <1>4, <3>1
  <2> QED BY <1>1, <1>2, <1>3, <2>1 DEF ReturnedInv, FlushCoversEveryKey
<1> QED BY <1>4, <1>5, <1>6, <1>7, <1>8, <1>9, <1>10 DEF DispatcherInv

\* What the queue of an actor, the flush it works on and the flushes it answered
\* see of a call of the application.
LEMMA GrowsCommon ==
    ASSUME DispatcherInv, Grows, NEW key \in Keys
    PROVE  /\ \A s : QueueOf(s, key) =>
                 /\ Precede(IdsOf(s), IdsOf(drx'))
                 /\ \A i \in DOMAIN s :
                      /\ s[i].id \in DOMAIN hist' /\ s[i].op = hist'[s[i].id].op
                      /\ s[i].op # "flush" => hist'[s[i].id].key = key
           /\ \A f, s : InProgress(f, s) =>
                 f \in DOMAIN hist' /\ Precede({f}, IdsOf(s) \cup IdsOf(drx'))
           /\ \A ids : Barrier(key, ids) =>
                 /\ ids \subseteq DOMAIN hist'
                 /\ \A f \in ids : \A m \in MessagesOf(key)' : m < f => fut'[m] # "waiting"
           /\ \A held : HeldOrQueued(key, held) =>
                 \A m \in MessagesOf(key)' : fut'[m] = "waiting" => m \in IdsOf(drx') \cup held
           /\ \A m \in MessagesOf(key) : fut'[m] = fut[m]
<1>1. /\ Fresh \in Ids /\ Fresh \in Nat /\ Fresh \notin DOMAIN hist
      /\ \A m \in DOMAIN hist : m < Fresh /\ m \in Nat
      /\ DOMAIN hist' = DOMAIN hist \cup {Fresh}
      /\ \A m \in DOMAIN hist : hist'[m] = hist[m]
      /\ MessagesOf(key)' \subseteq MessagesOf(key) \cup {Fresh}
      /\ IdsOf(drx') = IdsOf(drx) \cup (IF dpc = "run" THEN {Fresh} ELSE {})
      /\ \A m \in Ids : m # Fresh => fut'[m] = fut[m]
      /\ dpc # "run" => (Fresh \in MessagesOf(key)' => fut'[Fresh] = "shutdown")
  BY DEF Grows
<1>2. MessagesOf(key) \subseteq DOMAIN hist /\ MessagesOf(key) \subseteq Ids
  BY MessageIds
<1>3. \A m \in MessagesOf(key) : fut'[m] = fut[m]
  BY <1>1, <1>2
<1>4. ASSUME NEW s, QueueOf(s, key)
      PROVE  /\ Precede(IdsOf(s), IdsOf(drx'))
             /\ \A i \in DOMAIN s :
                  /\ s[i].id \in DOMAIN hist' /\ s[i].op = hist'[s[i].id].op
                  /\ s[i].op # "flush" => hist'[s[i].id].key = key
  <2>1. /\ Precede(IdsOf(s), IdsOf(drx))
        /\ \A i \in DOMAIN s :
              /\ s[i].id \in DOMAIN hist /\ s[i].op = hist[s[i].id].op
              /\ s[i].op # "flush" => hist[s[i].id].key = key
    BY <1>4 DEF QueueOf
  <2>2. IdsOf(s) \subseteq DOMAIN hist
    BY <2>1 DEF IdsOf
  <2>3. Precede(IdsOf(s), IdsOf(drx'))
    BY <1>1, <2>1, <2>2 DEF Precede
  <2> QED BY <1>1, <2>1, <2>3
<1>5. ASSUME NEW f, NEW s, InProgress(f, s)
      PROVE  f \in DOMAIN hist' /\ Precede({f}, IdsOf(s) \cup IdsOf(drx'))
  BY <1>1, <1>5 DEF InProgress, Precede
<1>6. ASSUME NEW ids, Barrier(key, ids)
      PROVE  /\ ids \subseteq DOMAIN hist'
             /\ \A f \in ids : \A m \in MessagesOf(key)' : m < f => fut'[m] # "waiting"
  <2>1. ASSUME NEW f \in ids, NEW m \in MessagesOf(key)', m < f PROVE m \in MessagesOf(key)
    BY <1>1, <1>6, <2>1 DEF Barrier
  <2> QED BY <1>1, <1>3, <1>6, <2>1 DEF Barrier
<1>7. ASSUME NEW held, HeldOrQueued(key, held),
             NEW m \in MessagesOf(key)', fut'[m] = "waiting"
      PROVE  m \in IdsOf(drx') \cup held
  <2>1. CASE m = Fresh
    BY <1>1, <1>7, <2>1
  <2>2. CASE m \in MessagesOf(key)
    BY <1>1, <1>3, <1>7, <2>2 DEF HeldOrQueued
  <2> QED BY <1>1, <2>1, <2>2
<1> QED BY <1>3, <1>4, <1>5, <1>6, <1>7

\* The actor without a key.
LEMMA GrowsUnordered ==
    ASSUME DispatcherInv, UnorderedInv, Grows, UNCHANGED unordered
    PROVE  UnorderedInv'
<1>1. UNCHANGED <<rxC, openC, batchC, inflightC, pcC, contC, repliedC, sentC>>
  BY DEF unordered
<1>2. "" \in Keys /\ dpc' = dpc /\ MessagesOf("") \subseteq MessagesOf("")'
      /\ MessagesOf("")' \subseteq MessagesOf("") \cup {Fresh}
      /\ (dpc = "run" => fut'[Fresh] = "waiting") /\ dpc \in {"run", "aborted"}
  BY DEF Grows, Keys
<1>3. HeldC' = HeldC
  BY <1>1 DEF HeldC, Live
<1>4. QueueOf(rxC, "")'
  <2>1. QueueOf(rxC, "")
    BY DEF UnorderedInv
  <2>2. /\ Precede(IdsOf(rxC), IdsOf(drx'))
        /\ \A i \in DOMAIN rxC :
              /\ rxC[i].id \in DOMAIN hist' /\ rxC[i].op = hist'[rxC[i].id].op
              /\ rxC[i].op # "flush" => hist'[rxC[i].id].key = ""
    BY <1>2, <2>1, GrowsCommon
  <2> QED BY <1>1, <2>1, <2>2 DEF QueueOf
<1>5. UnorderedType' /\ ClosedC' /\ UnorderedLine'
  BY <1>1, <1>2 DEF UnorderedInv, UnorderedType, ClosedC, UnorderedLine
<1>6. UnorderedLocal'
  <2>1. pcC = "join" /\ contC # 0 => InProgress(contC, rxC)'
    BY <1>1, <1>2, GrowsCommon DEF UnorderedInv, UnorderedLocal, InProgress
  <2> QED BY <1>1, <2>1 DEF UnorderedInv, UnorderedLocal
<1>7. HeldOrQueued("", HeldC)'
  BY <1>2, <1>3, GrowsCommon DEF UnorderedInv, HeldOrQueued
<1>8. Barrier("", repliedC)'
  BY <1>1, <1>2, GrowsCommon DEF UnorderedInv, Barrier
<1>9. Told("", sentC)'
  BY <1>1, <1>2, GrowsCommon DEF UnorderedInv, Told
<1> QED BY <1>4, <1>5, <1>6, <1>7, <1>8, <1>9 DEF UnorderedInv

\* The actor of the ordering key.
LEMMA GrowsOrdered ==
    ASSUME DispatcherInv, OrderedInv, Grows, UNCHANGED <<ordered, unordered>>
    PROVE  OrderedInv'
<1>1. UNCHANGED <<rxS, openS, pending_msgs, batchS, paused, inflightS, pcS, contS, repliedS,
                  sentS, pcC>>
  BY DEF ordered, unordered
<1>2. "key" \in Keys /\ dpc' = dpc /\ MessagesOf("key") \subseteq MessagesOf("key")'
      /\ MessagesOf("key")' \subseteq MessagesOf("key") \cup {Fresh}
      /\ (dpc = "run" => fut'[Fresh] = "waiting") /\ dpc \in {"run", "aborted"}
  BY DEF Grows, Keys
<1>3. HeldS' = HeldS /\ Kept' = Kept
  BY <1>1 DEF HeldS, Kept, Running
<1>4. QueueOf(rxS, "key")'
  <2>1. QueueOf(rxS, "key")
    BY DEF OrderedInv
  <2>2. /\ Precede(IdsOf(rxS), IdsOf(drx'))
        /\ \A i \in DOMAIN rxS :
              /\ rxS[i].id \in DOMAIN hist' /\ rxS[i].op = hist'[rxS[i].id].op
              /\ rxS[i].op # "flush" => hist'[rxS[i].id].key = "key"
    BY <1>2, <2>1, GrowsCommon
  <2> QED BY <1>1, <2>1, <2>2 DEF QueueOf
<1>5. OrderedType' /\ ClosedS'
  BY <1>1, <1>2 DEF OrderedInv, OrderedType, ClosedS
<1>6. OrderedLocal'
  <2>1. contS.kind = "flush" => InProgress(contS.tx, rxS)'
    BY <1>1, <1>2, GrowsCommon DEF OrderedInv, OrderedLocal, InProgress
  <2> QED BY <1>1, <2>1 DEF OrderedInv, OrderedLocal
<1>7. OrderedLine'
  <2>1. /\ \A m \in DOMAIN hist : m < Fresh
        /\ IdsOf(drx') \subseteq IdsOf(drx) \cup {Fresh}
    BY DEF Grows
  <2>2. Precede(Kept, IdsOf(rxS) \cup IdsOf(drx'))
    BY <2>1, IdsAreNumbers DEF OrderedInv, OrderedLine, Precede
  <2>3. \A i \in DOMAIN sentS : /\ IdsOf(sentS[i]) \subseteq MessagesOf("key")'
                                /\ Precede(IdsOf(sentS[i]), Kept \cup IdsOf(rxS) \cup IdsOf(drx'))
    BY <1>2, <2>1, IdsAreNumbers DEF OrderedInv, OrderedLine, Precede
  <2> QED BY <1>1, <1>2, <1>3, <2>2, <2>3 DEF OrderedInv, OrderedLine
<1>8. HeldOrQueued("key", HeldS)'
  BY <1>2, <1>3, GrowsCommon DEF OrderedInv, HeldOrQueued
<1>9. Barrier("key", repliedS)'
  BY <1>1, <1>2, GrowsCommon DEF OrderedInv, Barrier
<1>10. Told("key", sentS)'
  BY <1>1, <1>2, GrowsCommon DEF OrderedInv, Told
<1> QED BY <1>4, <1>5, <1>6, <1>7, <1>8, <1>9, <1>10 DEF OrderedInv

\* A Resume between two commands stays between them, and before all that follows.
LEMMA GrowsResumed ==
    ASSUME DispatcherInv, Grows, NEW m \in Nat, NEW n \in Nat, NEW k \in Nat,
           n <= Fresh, n <= k, ResumedBetween(m, n)
    PROVE  ResumedBetween(m, k)'
<1>1. PICK r \in (m + 1)..(n - 1) : hist[r].op = "resume" /\ hist[r].key = "key"
  BY DEF ResumedBetween
<1>2. r \in DOMAIN hist
  BY <1>1, MessageIds DEF Fresh
<1>3. hist'[r] = hist[r] /\ r \in (m + 1)..(k - 1)
  BY <1>1, <1>2 DEF Grows
<1> QED BY <1>1, <1>3 DEF ResumedBetween

\* A call leaves the requests alone, and its message comes after all of theirs.
LEMMA GrowsOrder ==
    ASSUME DispatcherInv, OrderedInv, KeyInv, Grows, UNCHANGED <<ordered, unordered>>
    PROVE  KeyOrderSurvivesFailure'
<1>1. sentS' = sentS
  BY DEF ordered
<1>2. /\ Fresh \in Nat /\ (\A m \in DOMAIN hist : m < Fresh /\ m \in Nat)
      /\ (\A m \in DOMAIN hist : hist'[m] = hist[m])
      /\ (\A m \in Ids : m # Fresh => fut'[m] = fut[m])
  BY DEF Grows
<1> SUFFICES ASSUME NEW m \in Ids, fut'[m] \in {"rpc", "paused", "shutdown"}, hist'[m].key = "key",
                    NEW i \in DOMAIN sentS', m \notin IdsOf(sentS'[i]),
                    NEW n \in IdsOf(sentS'[i]), m < n
             PROVE  ResumedBetween(m, n)'
  BY DEF KeyOrderSurvivesFailure, ResumedBetween, S!IdsOf, IdsOf
<1>3. i \in DOMAIN sentS /\ m \notin IdsOf(sentS[i]) /\ n \in IdsOf(sentS[i])
  BY <1>1
<1>4. n \in DOMAIN hist /\ m \in Nat
  BY <1>3, IdsAreNumbers DEF OrderedInv, OrderedLine
<1>5. n < Fresh /\ n \in Nat
  BY <1>2, <1>4
<1>6. fut[m] = fut'[m]
  BY <1>2, <1>4, <1>5
<1>7. m \in DOMAIN hist
  BY <1>6, IdsAreNumbers DEF DispatcherInv, HistoryInv
<1>8. ResumedBetween(m, n)
  BY <1>2, <1>3, <1>6, <1>7 DEF KeyInv, KeyOrderSurvivesFailure, ResumedBetween, S!IdsOf, IdsOf
<1> QED BY <1>2, <1>4, <1>5, <1>8, GrowsResumed

\* Why nothing overtakes a failed message.
LEMMA GrowsKey ==
    ASSUME DispatcherInv, OrderedInv, KeyInv, Grows, UNCHANGED <<ordered, unordered>>
    PROVE  KeyInv'
<1>1. UNCHANGED <<rxS, pending_msgs, batchS, paused, inflightS, sentS>>
  BY DEF ordered
<1>2. /\ Fresh \in Ids /\ Fresh \in Nat /\ Len(hist') = Fresh /\ Fresh = Len(hist) + 1
      /\ Fresh \notin DOMAIN hist /\ (\A m \in DOMAIN hist : m < Fresh /\ m \in Nat)
      /\ (\A m \in DOMAIN hist : hist'[m] = hist[m])
      /\ IdsOf(drx') = IdsOf(drx) \cup (IF dpc = "run" THEN {Fresh} ELSE {})
      /\ dpc' = dpc /\ (\A m \in Ids : m # Fresh => fut'[m] = fut[m])
      /\ (dpc = "run" => fut'[Fresh] = "waiting")
      /\ MessagesOf("key")' \subseteq MessagesOf("key") \cup {Fresh}
  BY DEF Grows, Fresh
<1>3. Kept' = Kept
  BY <1>1 DEF Kept
<1>4. /\ Kept \subseteq DOMAIN hist /\ IdsOf(rxS) \subseteq DOMAIN hist /\ IdsOf(drx) \subseteq DOMAIN hist
      /\ MessagesOf("key") \subseteq DOMAIN hist /\ MessagesOf("key") \subseteq Ids
  BY IdsAreNumbers
<1>5. CASE dpc = "run"
  <2>1. Failed' \subseteq Failed
    BY <1>2, <1>4, <1>5 DEF Failed
  <2>2. Queued' \subseteq Queued \cup {Fresh + 1} /\ Ahead' \subseteq Ahead \cup {Fresh + 1} /\ Fresh \in Queued
    BY <1>1, <1>2, <1>3, <1>5 DEF Queued, Ahead
  <2>3. \A m \in Failed : m \in DOMAIN hist /\ m < Fresh /\ m \in Nat
    BY <1>2, <1>4 DEF Failed
  <2>4. ReceivedOrDropped'
    <3> SUFFICES ASSUME NEW m \in Failed PROVE Precede({m}, Queued')
      BY <2>1 DEF ReceivedOrDropped
    <3>1. ~Precede(Ahead, {m})
      BY <1>2, <2>2, <2>3 DEF Precede, Ahead
    <3>2. Precede({m}, Queued)
      BY <3>1 DEF KeyInv, ReceivedOrDropped
    <3> QED BY <1>2, <2>2, <2>3, <3>2 DEF Precede
  <2>5. FailureInv'
    <3> SUFFICES ASSUME NEW m \in Failed, ~paused, ~Joining(m), NEW n \in Ahead', m < n
                 PROVE  ResumedBetween(m, n)'
      BY <1>1, <2>1 DEF FailureInv, Joining, Covered
    <3>1. \A k \in Ahead : m < k => ResumedBetween(m, k)
      BY DEF KeyInv, FailureInv, Covered
    <3>2. CASE n \in Ahead
      <4>1. n \in Nat /\ n <= Fresh
        BY <1>2, <1>4, <3>2 DEF Ahead, Queued
      <4> QED BY <2>3, <3>1, <3>2, <4>1, GrowsResumed
    <3>3. CASE n = Fresh + 1
      <4>1. ResumedBetween(m, Fresh)
        BY <2>2, <2>3, <3>1 DEF Ahead
      <4>2. n \in Nat /\ Fresh <= n
        BY <1>2, <3>3
      <4> QED BY <1>2, <2>3, <4>1, <4>2, GrowsResumed
    <3> QED BY <2>2, <3>2, <3>3
  <2> QED BY <2>4, <2>5, GrowsOrder DEF KeyInv
<1>6. CASE dpc # "run"
  <2>1. Queued' = Queued /\ Ahead' = Ahead /\ Ahead \subseteq DOMAIN hist
    BY <1>1, <1>2, <1>3, <1>4, <1>6 DEF Queued, Ahead
  <2>2. \A m \in Failed' : m = Fresh \/ m \in Failed
    BY <1>2, <1>4 DEF Failed
  <2>3. ReceivedOrDropped'
    <3> SUFFICES ASSUME NEW m \in Failed' PROVE Precede({m}, Queued) \/ Precede(Ahead, {m})
      BY <2>1 DEF ReceivedOrDropped
    <3>1. CASE m = Fresh
      BY <1>2, <2>1, <3>1 DEF Precede
    <3>2. CASE m \in Failed
      BY <3>2 DEF KeyInv, ReceivedOrDropped
    <3> QED BY <2>2, <3>1, <3>2
  <2>4. FailureInv'
    <3> SUFFICES ASSUME NEW m \in Failed', ~paused, ~Joining(m), NEW n \in Ahead, m < n
                 PROVE  ResumedBetween(m, n)'
      BY <1>1, <2>1 DEF FailureInv, Joining, Covered
    <3>1. n \in Nat /\ n < Fresh
      BY <1>2, <2>1
    <3>2. m \in Failed
      BY <1>2, <2>2, <3>1
    <3>3. ResumedBetween(m, n) /\ m \in Nat
      BY <1>2, <1>4, <3>2 DEF KeyInv, FailureInv, Covered, Failed
    <3> QED BY <1>2, <3>1, <3>3, GrowsResumed
  <2> QED BY <2>3, <2>4, GrowsOrder DEF KeyInv
<1> QED BY <1>5, <1>6

\* A call of the application keeps all the invariants.
LEMMA SubmitStep ==
    ASSUME IInv, NEW op \in {"publish", "flush", "resume"}, NEW key \in Keys,
           NEW bytes \in Nat, Submit(op, key, bytes)
    PROVE  IInv'
<1>1. DispatcherInv /\ OrderedInv /\ KeyInv /\ UnorderedInv
  BY DEF IInv
<1>2. Grows /\ UNCHANGED <<ordered, unordered>>
  BY <1>1, SubmitGrows DEF Submit
<1>3. UNCHANGED unordered
  BY <1>2
<1> QED BY <1>1, <1>2, <1>3, SubmitDispatcher, GrowsOrdered, GrowsKey, GrowsUnordered DEF IInv

-----------------------------------------------------------------------------
(***************************************************************************)
(* The theorems.                                                           *)
(***************************************************************************)
\* The publisher as it is built.
LEMMA Initially == Init => IInv
<1> SUFFICES ASSUME Init PROVE IInv
  OBVIOUS
<1>1. /\ hist = <<>> /\ fut = [i \in Ids |-> "waiting"] /\ alive = TRUE /\ drx = <<>>
      /\ dpc = "run" /\ actors = {} /\ waiters = [f \in Ids |-> {}]
      /\ returned = {} /\ abandoned = {}
  BY DEF Init, S!Init, S!Ids, Ids
<1>2. /\ rxS = <<>> /\ openS = TRUE /\ pending_msgs = <<>> /\ batchS = <<>> /\ paused = FALSE
      /\ inflightS = S!NoTask /\ pcS = "select" /\ repliedS = {} /\ sentS = <<>>
      /\ contS \in [kind : {"none"}, tx : {0}]
  BY DEF Init, S!Init, S!Idle
<1>3. /\ rxC = <<>> /\ openC = TRUE /\ batchC = <<>> /\ inflightC = {} /\ pcC = "select"
      /\ contC = 0 /\ repliedC = {} /\ sentC = <<>>
  BY DEF Init, C!Init
<1>4. /\ DOMAIN <<>> = {} /\ Len(<<>>) = 0
      /\ <<>> \in Seq(Cmds) /\ <<>> \in Seq(Cmd) /\ <<>> \in Seq(Seq(Cmd))
  OBVIOUS
<1>5. DOMAIN hist = {} /\ (\A key : MessagesOf(key) = {}) /\ IdsWith(hist, "flush") = {}
  BY <1>1, <1>4 DEF MessagesOf, IdsWith
<1>6. IdsOf(drx) = {} /\ Increasing(drx) /\ IdsOf(rxS) = {} /\ IdsOf(rxC) = {} /\ IdsOf(batchC) = {}
      /\ IdsOf(pending_msgs) = {} /\ IdsOf(batchS) = {} /\ Increasing(<<>>)
  BY <1>1, <1>2, <1>3, EmptyIds
<1>7. DispatcherInv
  <2>1. TypeOK
    BY <1>1 DEF TypeOK
  <2>2. HistoryInv
    <3>1. Len(hist) <= MaxCmds
      BY <1>1, <1>4, PublisherAssumption
    <3>2. \A m \in Ids : fut[m] = "waiting"
      BY <1>1
    <3> QED BY <1>1, <1>4, <1>5, <3>1, <3>2 DEF HistoryInv
  <2>3. DispatchQueueInv /\ PhaseInv
    BY <1>1, <1>4, <1>6 DEF DispatchQueueInv, PhaseInv
  <2>4. DispatchedInv /\ WaitersInv
    BY <1>5 DEF DispatchedInv, WaitersInv
  <2>5. ReturnedInv
    BY <1>1 DEF ReturnedInv, FlushCoversEveryKey
  <2> QED BY <2>1, <2>2, <2>3, <2>4, <2>5 DEF DispatcherInv
<1>8. Kept = {} /\ Failed = {} /\ SentIds(<<>>) = {}
  BY <1>4, <1>5, <1>6 DEF Kept, Failed, SentIds
<1>9. OrderedInv
  <2>1. OrderedType
    <3>1. contS \in [kind : {"none", "timer", "flush", "stop"}, tx : 0..MaxCmds]
      BY <1>2, Conts
    <3> QED BY <1>2, <1>4, <3>1, NoTaskType DEF OrderedType
  <2>2. QueueOf(rxS, "key")
    BY <1>2, <1>4, <1>6 DEF QueueOf, Precede
  <2>3. OrderedLocal /\ ClosedS
    BY <1>2 DEF OrderedLocal, ClosedS
  <2>4. OrderedLine
    BY <1>2, <1>4, <1>6, <1>8 DEF OrderedLine, Precede
  <2>5. HeldOrQueued("key", HeldS) /\ Barrier("key", repliedS) /\ Told("key", sentS)
    BY <1>2, <1>5 DEF HeldOrQueued, Barrier, Told
  <2> QED BY <2>1, <2>2, <2>3, <2>4, <2>5 DEF OrderedInv
<1>10. KeyInv
  BY <1>2, <1>4, <1>8 DEF KeyInv, ReceivedOrDropped, FailureInv, KeyOrderSurvivesFailure
<1>11. UnorderedInv
  <2>1. UnorderedType
    BY <1>3, <1>4, Conts DEF UnorderedType
  <2>2. QueueOf(rxC, "")
    BY <1>3, <1>4, <1>6 DEF QueueOf, Precede
  <2>3. UnorderedLocal /\ ClosedC
    BY <1>3 DEF UnorderedLocal, ClosedC
  <2>4. UnorderedLine
    BY <1>3, <1>6, <1>8 DEF UnorderedLine
  <2>5. HeldOrQueued("", HeldC) /\ Barrier("", repliedC) /\ Told("", sentC)
    BY <1>3, <1>5 DEF HeldOrQueued, Barrier, Told
  <2> QED BY <2>1, <2>2, <2>3, <2>4, <2>5 DEF UnorderedInv
<1> QED BY <1>7, <1>9, <1>10, <1>11 DEF IInv

\* Nothing happens.
LEMMA StutterStep ==
    ASSUME IInv, UNCHANGED vars
    PROVE  IInv'
<1>1. DispatcherInv /\ OrderedInv /\ KeyInv /\ UnorderedInv
  BY DEF IInv
<1>2. /\ StaysS /\ StaysC /\ fut' = fut /\ UNCHANGED dispatcher
      /\ pcC = "dead" => pcC' = "dead"
  BY DEF vars, StaysS, StaysC, unordered
<1>3. Resolves("key") /\ Resolves("")
  BY <1>1, <1>2 DEF Resolves, DispatcherInv, TypeOK
<1>4. DispatcherInv'
  BY <1>1, <1>2, <1>3, DispatcherFrame DEF Keys
<1>5. UnorderedInv'
  BY <1>1, <1>2, <1>3, UnorderedFrame
<1>6. OrderedInv' /\ KeyInv'
  BY <1>1, <1>2, <1>3, OrderedFrame
<1> QED BY <1>4, <1>5, <1>6 DEF IInv

\* Every step of the publisher keeps the invariants.
LEMMA Inductive == IInv /\ [Next]_vars => IInv'
<1> SUFFICES ASSUME IInv, [Next]_vars PROVE IInv'
  OBVIOUS
<1>1. CASE Application
  <2>1. 0 \in Nat /\ "" \in Keys /\ MsgBytes \subseteq Nat
    BY PublisherAssumption DEF Keys
  <2>2. ASSUME NEW key \in Keys, NEW b \in MsgBytes, Submit("publish", key, b) PROVE IInv'
    BY <2>1, <2>2, SubmitStep
  <2>3. CASE Submit("flush", "", 0)
    BY <2>1, <2>3, SubmitStep
  <2>4. ASSUME NEW key \in Keys, Submit("resume", key, 0) PROVE IInv'
    BY <2>1, <2>4, SubmitStep
  <2>5. CASE DropPublisher
    BY <2>5, PhaseStep
  <2> QED BY <1>1, <2>2, <2>3, <2>4, <2>5 DEF Application
<1>2. CASE Dispatcher
  <2>1. CASE DispatcherReturns
    <3>1. DispatcherInv /\ OrderedInv /\ KeyInv /\ UnorderedInv
      BY DEF IInv
    <3> QED BY <2>1, <3>1, ReturnsDispatcher, ReturnsActors DEF IInv
  <2> QED BY <1>2, <2>1, DispatchStep, PhaseStep DEF Dispatcher
<1>3. ASSUME NEW f \in Ids, FlushReturns(f) PROVE IInv'
  BY <1>3, FlushReturnsStep
<1>4. CASE OrderedActor \/ OrderedRpc
  BY <1>4, OrderedStep
<1>5. CASE UnorderedActor \/ UnorderedRpc
  BY <1>5, UnorderedStep
<1>6. CASE AbortOrdered
  BY <1>6, AbortStep
<1>7. CASE UNCHANGED vars
  BY <1>7, StutterStep
<1> QED BY <1>1, <1>2, <1>3, <1>4, <1>5, <1>6, <1>7 DEF Next, Tasks, Terminated

\* The inductive invariant of the whole publisher.
THEOREM Invariance == Spec => []IInv
  BY Initially, Inductive, PTL DEF Spec

\* The variables of the Publisher and of the Dispatcher have the values the code
\* gives them; a flush waits only for actors that exist.
THEOREM TypeCorrect == Spec => []TypeOK
<1>1. IInv => TypeOK
  BY DEF IInv, DispatcherInv
<1> QED BY <1>1, Invariance, PTL

\* A call of Publisher::flush returns only when every message published before it,
\* on any key, has an outcome (client.rs:137-139), whatever the number of calls,
\* the batching options and the interleaving of the Dispatcher and the two actors.
THEOREM FlushCovers == Spec => []FlushCoversEveryKey
<1>1. IInv => FlushCoversEveryKey
  BY DEF IInv, DispatcherInv, ReturnedInv
<1> QED BY <1>1, Invariance, PTL

\* Nothing is sent on the ordering key after a message of it failed, unless the
\* application resumed that key in between (client.rs:97-99): whether the message
\* failed in an RPC, was rejected, or was dropped by the Dispatcher or by an abort.
THEOREM KeyOrder == Spec => []KeyOrderSurvivesFailure
<1>1. IInv => KeyOrderSurvivesFailure
  BY DEF IInv, KeyInv
<1> QED BY <1>1, Invariance, PTL

-----------------------------------------------------------------------------
\* The Dispatcher ends only after its actors, and they do not start again.
StoppedInv == dpc = "stopped" => \A key \in actors : Finished(key)

\* An actor that has returned takes no step.
LEMMA FinishedStays ==
    /\ OrderedActor \/ OrderedRpc => pcC' = pcC /\ (pcS = "done" => pcS' = "done")
    /\ UnorderedActor \/ UnorderedRpc =>
          pcS' = pcS /\ (pcC \in {"done", "dead"} => pcC' \in {"done", "dead"})
<1>1. ASSUME OrderedActor \/ OrderedRpc, pcS = "done" PROVE pcS' = "done"
  <2>1. ~S!Select /\ ~S!FlushAll
    BY <1>1 DEF S!Select, S!FlushAll, S!PausedPublish, S!PausedFlush, S!PausedResume, S!PausedClosed,
                S!JoinInflight, S!TimerFires, S!RecvPublish, S!RecvFlush, S!RecvResume, S!RecvClosed,
                S!Recv, S!RxClosed, S!FlushAllJoin, S!FlushAllLast
  <2> QED BY <1>1, <2>1 DEF OrderedActor, OrderedRpc, S!Rpc, S!RpcDone
<1>2. ASSUME UnorderedActor \/ UnorderedRpc, pcC \in {"done", "dead"} PROVE pcC' = pcC
  <2>1. ~C!Actor
    BY <1>2 DEF C!Actor, C!JoinInflight, C!TimerFires, C!RecvPublish, C!RecvFlush, C!RecvResume,
                C!RecvClosed, C!Recv, C!JoinAll, C!JoinAllPanics
  <2> QED BY <1>2, <2>1 DEF UnorderedActor, UnorderedRpc, C!Rpc, C!RpcDone, C!TaskAborted
<1>3. OrderedActor \/ OrderedRpc => pcC' = pcC
  BY DEF OrderedActor, OrderedRpc, unordered
<1>4. UnorderedActor \/ UnorderedRpc => pcS' = pcS
  BY DEF UnorderedActor, UnorderedRpc, ordered
<1> QED BY <1>1, <1>2, <1>3, <1>4

\* The Dispatcher ends after its actors.
LEMMA StoppedStep == StoppedInv /\ [Next]_vars => StoppedInv'
<1> SUFFICES ASSUME StoppedInv, [Next]_vars, dpc' = "stopped" PROVE \A key \in actors' : Finished(key)'
  BY DEF StoppedInv
<1>1. CASE OrderedActor \/ OrderedRpc
  <2>1. dpc' = dpc /\ actors' = actors
    BY <1>1 DEF OrderedActor, OrderedRpc, dispatcher
  <2> QED BY <1>1, <2>1, FinishedStays DEF StoppedInv, Finished
<1>2. CASE UnorderedActor \/ UnorderedRpc
  <2>1. dpc' = dpc /\ actors' = actors
    BY <1>2 DEF UnorderedActor, UnorderedRpc, dispatcher
  <2> QED BY <1>2, <2>1, FinishedStays DEF StoppedInv, Finished
<1>3. CASE Application
  <2>1. UNCHANGED <<dpc, actors, pcS, pcC>>
    BY <1>3 DEF Application, Submit, DropPublisher, ordered, unordered
  <2> QED BY <2>1 DEF StoppedInv, Finished
<1>4. CASE Dispatcher
  <2>1. DispatcherEnds
    BY <1>4 DEF Dispatcher, DispatchPublish, DispatchFlush, DispatchResume, Received,
                DispatcherReturns, DispatcherCloses
  <2> QED BY <2>1 DEF DispatcherEnds, Finished, ordered, unordered
<1>5. ASSUME NEW f \in Ids, FlushReturns(f) PROVE \A key \in actors' : Finished(key)'
  <2>1. UNCHANGED <<dpc, actors, pcS, pcC>>
    BY <1>5 DEF FlushReturns, ordered, unordered
  <2> QED BY <2>1 DEF StoppedInv, Finished
<1>6. CASE AbortOrdered
  BY <1>6 DEF AbortOrdered, dispatcher
<1>7. CASE UNCHANGED vars
  <2>1. UNCHANGED <<dpc, actors, pcS, pcC>>
    BY <1>7 DEF vars, dispatcher, ordered, unordered
  <2> QED BY <2>1 DEF StoppedInv, Finished
<1> QED BY <1>1, <1>2, <1>3, <1>4, <1>5, <1>6, <1>7 DEF Next, Tasks, Terminated

\* Then nothing is left in the hands of anybody.
LEMMA Drained ==
    ASSUME IInv, StoppedInv
    PROVE  GracefulShutdownDrains
<1> SUFFICES ASSUME dpc = "stopped", pcC # "dead", NEW m \in DOMAIN hist, hist[m].op = "publish"
             PROVE  \/ fut[m] = "paused"
                    \/ /\ fut[m] # "waiting"
                       /\ \/ \E i \in DOMAIN sentS : m \in S!IdsOf(sentS[i])
                          \/ \E i \in DOMAIN sentC : m \in C!IdsOf(sentC[i])
  BY DEF GracefulShutdownDrains
<1>1. DispatcherInv /\ OrderedInv /\ UnorderedInv
  BY DEF IInv
<1>2. IdsOf(drx) = {}
  BY <1>1, EmptyIds DEF DispatcherInv, PhaseInv
<1>3. PICK key \in Keys : m \in MessagesOf(key)
  BY <1>1, HasKey
<1>4. key \in actors
  BY <1>1, <1>2, <1>3 DEF DispatcherInv, DispatchedInv
<1>5. Finished(key) /\ m \in Ids /\ fut[m] \in {"waiting", "ok", "rpc", "paused", "shutdown"}
  BY <1>1, <1>3, <1>4, MessageIds DEF StoppedInv, DispatcherInv, TypeOK
<1>6. CASE key = "key"
  <2>1. pcS = "done"
    BY <1>5, <1>6 DEF Finished
  <2>2. HeldS = {}
    BY <1>1, <2>1, EmptyIds, NoTaskType DEF OrderedInv, OrderedLocal, HeldS, Kept, Running
  <2>3. fut[m] # "waiting"
    BY <1>1, <1>2, <1>3, <1>6, <2>2 DEF OrderedInv, HeldOrQueued
  <2>4. fut[m] # "paused" => m \in SentIds(sentS)
    BY <1>1, <1>3, <1>5, <1>6, <2>3 DEF OrderedInv, Told
  <2>5. m \in SentIds(sentS) => \E i \in DOMAIN sentS : m \in S!IdsOf(sentS[i])
    BY DEF SentIds, S!IdsOf, IdsOf
  <2> QED BY <2>3, <2>4, <2>5
<1>7. CASE key = ""
  <2>1. pcC = "done"
    BY <1>5, <1>7 DEF Finished
  <2>2. HeldC = {}
    BY <1>1, <2>1, EmptyIds DEF UnorderedInv, UnorderedLocal, HeldC, Live
  <2>3. fut[m] # "waiting"
    BY <1>1, <1>2, <1>3, <1>7, <2>2 DEF UnorderedInv, HeldOrQueued
  <2>4. fut[m] # "paused" => m \in SentIds(sentC)
    BY <1>1, <1>3, <1>5, <1>7, <2>3 DEF UnorderedInv, Told
  <2>5. m \in SentIds(sentC) => \E i \in DOMAIN sentC : m \in C!IdsOf(sentC[i])
    BY DEF SentIds, C!IdsOf, IdsOf
  <2> QED BY <2>3, <2>4, <2>5
<1> QED BY <1>6, <1>7 DEF Keys

\* When the Dispatcher has ended after waiting for its actors (actor.rs:185-196),
\* every message was sent or rejected on a paused key, and has an outcome.
THEOREM GracefulDrains == Spec => []GracefulShutdownDrains
<1>1. Init => StoppedInv
  BY DEF Init, StoppedInv
<1>2. Spec => []StoppedInv
  BY <1>1, StoppedStep, PTL DEF Spec
<1>3. IInv /\ StoppedInv => GracefulShutdownDrains
  BY Drained
<1> QED BY <1>2, <1>3, Invariance, PTL
=============================================================================
