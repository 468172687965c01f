--------------------------- MODULE HedgingProofs ---------------------------
(***************************************************************************)
(* Proofs about Hedging, for any number of batches, any delay and any      *)
(* token bucket: the extra load is bounded by what successes earned, the   *)
(* hedges of a batch are paced, the timer covers the queue, and a batch    *)
(* has one outcome.                                                        *)
(***************************************************************************)
EXTENDS Hedging, FiniteSetTheorems, TLAPS

-----------------------------------------------------------------------------
(* The inductive invariant.                                                *)

\* A batch goes through the channel and the queue once: it is in one place at a
\* time.
OnePlace ==
    /\ \A i \in DOMAIN rx : rx[i] \in dispatched
    /\ \A i \in DOMAIN queue : queue[i].batch \in dispatched
    /\ \A i, j \in DOMAIN rx : rx[i] = rx[j] => i = j
    /\ \A i, j \in DOMAIN queue : queue[i].batch = queue[j].batch => i = j
    /\ \A i \in DOMAIN rx, j \in DOMAIN queue : rx[i] # queue[j].batch

Spawned(b) == {h \in hedges : h.batch = b /\ h.st = "spawned"}

\* n hedges of batch b were taken out of the queue, one per delay and one per
\* token; those that are not spawned any more were sent or given up.
Reached(b, t) == t <= elapsed[b] \/ elapsed[b] = TotalTimeout
Issued(b, n) ==
    /\ n <= acquired
    /\ hedged[b] + Cardinality(Spawned(b)) <= n
    /\ Reached(b, n * Delay)
    /\ b \notin dispatched \/ (\E i \in DOMAIN rx : rx[i] = b) => n = 0
    /\ \A i \in DOMAIN queue : queue[i].batch = b =>
          /\ queue[i].attempt = n + 1
          /\ Reached(b, n * Delay + Delay - queue[i].left)
Pacing == \A b \in Batches : \E n \in Nat : Issued(b, n)

Budget == acquired * Scale + tokens <= oks * Refill

IInv ==
    /\ TypeOK /\ IsFiniteSet(hedges)
    /\ OnePlace /\ TimerCoversQueue
    /\ Budget /\ Pacing /\ HedgesArePaced

-----------------------------------------------------------------------------
(* Lemmas.                                                                 *)

\* Multiplication by a natural number is monotonic.
LEMMA TimesMonotonic ==
    ASSUME NEW m \in Nat, NEW n \in Nat, NEW d \in Nat, m <= n
    PROVE  m * d \in Nat /\ n * d \in Nat /\ m * d <= n * d
  OBVIOUS

\* The elements of a queue, of its tail and of a longer one.
LEMMA QueueItem ==
    ASSUME queue \in Seq(Items), NEW i \in DOMAIN queue
    PROVE  /\ queue[i] \in Items
           /\ queue[i].batch \in Batches /\ queue[i].attempt \in Nat
           /\ queue[i].left \in Nat /\ queue[i].left <= Delay
  <1>1. queue[i] \in Items
    OBVIOUS
  <1> QED
    BY <1>1, HedgingAssumption DEF Items

LEMMA AppendElems ==
    ASSUME NEW S, NEW q \in Seq(S), NEW e
    PROVE  /\ Len(Append(q, e)) = Len(q) + 1
           /\ DOMAIN Append(q, e) = 1..(Len(q) + 1) /\ DOMAIN q = 1..Len(q)
           /\ \A i \in DOMAIN q : i \in DOMAIN Append(q, e) /\ Append(q, e)[i] = q[i]
           /\ Append(q, e)[Len(q) + 1] = e
           /\ \A i \in DOMAIN Append(q, e) : i \in DOMAIN q \/ i = Len(q) + 1
           /\ q # <<>> => Head(Append(q, e)) = Head(q)
           /\ q = <<>> => Head(Append(q, e)) = e
  OBVIOUS

LEMMA TailElems ==
    ASSUME NEW S, NEW q \in Seq(S), q # <<>>
    PROVE  /\ Tail(q) \in Seq(S) /\ 1 \in DOMAIN q /\ Head(q) = q[1] /\ q[1] \in S
           /\ \A i \in DOMAIN Tail(q) :
                 /\ i + 1 \in DOMAIN q /\ i + 1 # 1 /\ Tail(q)[i] = q[i + 1]
                 /\ i \in Nat
  OBVIOUS

LEMMA SpawnedFinite ==
    ASSUME IsFiniteSet(hedges), NEW b
    PROVE  IsFiniteSet(Spawned(b)) /\ Cardinality(Spawned(b)) \in Nat
  <1>1. Spawned(b) \in SUBSET hedges
    BY DEF Spawned
  <1> QED
    BY <1>1, FS_Subset, FS_CardinalityType

\* A set that loses elements loses cardinality.
LEMMA SpawnedShrinks ==
    ASSUME IsFiniteSet(hedges), hedges' \subseteq hedges, NEW b
    PROVE  /\ IsFiniteSet(hedges')
           /\ Cardinality(Spawned(b)') \in Nat
           /\ Cardinality(Spawned(b)') <= Cardinality(Spawned(b))
  <1>1. hedges' \in SUBSET hedges /\ Spawned(b)' \in SUBSET Spawned(b)
    BY DEF Spawned
  <1>2. IsFiniteSet(hedges')
    BY <1>1, FS_Subset
  <1>3. IsFiniteSet(Spawned(b)')
    BY <1>1, SpawnedFinite, FS_Subset
  <1> QED
    BY <1>1, <1>2, <1>3, SpawnedFinite, FS_Subset, FS_CardinalityType

\* A step that sends nothing, takes no token and leaves the queue, the channel and
\* the clock alone keeps the pace.
LEMMA PacingKept ==
    ASSUME TypeOK, IsFiniteSet(hedges), Pacing, hedges' \subseteq hedges,
           UNCHANGED <<dispatched, hedged, acquired, elapsed, rx, queue>>
    PROVE  IsFiniteSet(hedges') /\ Pacing'
  <1>1. IsFiniteSet(hedges')
    BY SpawnedShrinks
  <1>2. ASSUME NEW b \in Batches PROVE \E n \in Nat : Issued(b, n)'
    <2>1. PICK n \in Nat : Issued(b, n)
      BY DEF Pacing
    <2>2. hedged[b] \in Nat /\ hedged'[b] = hedged[b]
      BY DEF TypeOK
    <2>3. hedged'[b] + Cardinality(Spawned(b)') <= n
      BY <2>1, <2>2, SpawnedShrinks, SpawnedFinite DEF Issued
    <2>4. Issued(b, n)'
      BY <2>1, <2>3 DEF Issued, Reached
    <2> QED
      BY <2>4
  <1> QED
    BY <1>1, <1>2 DEF Pacing

-----------------------------------------------------------------------------
(* Every step keeps the invariant.                                         *)

LEMMA InitIInv == Init => IInv
  <1> SUFFICES ASSUME Init PROVE IInv
    OBVIOUS
  <1> USE DEF Init
  <1>1. TypeOK
    BY HedgingAssumption DEF TypeOK, NoTimer
  <1>2. IsFiniteSet(hedges)
    BY FS_EmptySet
  <1>3. OnePlace /\ TimerCoversQueue
    BY DEF OnePlace, TimerCoversQueue
  <1>4. Budget
    BY HedgingAssumption DEF Budget
  <1>5. HedgesArePaced
    BY HedgingAssumption DEF HedgesArePaced
  <1>6. ASSUME NEW b \in Batches PROVE Issued(b, 0)
    <2>1. Spawned(b) = {}
      BY DEF Spawned
    <2>2. Cardinality(Spawned(b)) = 0
      BY <2>1, FS_EmptySet
    <2> QED
      BY <2>2, HedgingAssumption DEF Issued, Reached
  <1> QED
    BY <1>1, <1>2, <1>3, <1>4, <1>5, <1>6 DEF IInv, Pacing

\* dispatch: the batch is new, so it is in no other place.
LEMMA DispatchStep == ASSUME IInv, NEW b \in Batches, dispatch(b) PROVE IInv'
  <1> USE DEF IInv
  <1>1. TypeOK'
    BY DEF TypeOK, dispatch
  <1>2. OnePlace'
    BY DEF OnePlace, dispatch, TypeOK
  <1>3. TimerCoversQueue' /\ Budget' /\ HedgesArePaced' /\ IsFiniteSet(hedges')
    BY DEF dispatch, TimerCoversQueue, Budget, HedgesArePaced
  <1>4. ASSUME NEW c \in Batches PROVE \E n \in Nat : Issued(c, n)'
    <2>1. PICK n \in Nat : Issued(c, n)
      BY DEF Pacing
    <2>2. Spawned(c)' = Spawned(c)
      BY DEF Spawned, dispatch
    <2>3. c \notin dispatched' \/ (\E i \in DOMAIN rx' : rx'[i] = c) => n = 0
      BY <2>1 DEF dispatch, Issued, TypeOK
    <2>4. Issued(c, n)'
      BY <2>1, <2>2, <2>3 DEF Issued, Reached, dispatch
    <2> QED
      BY <2>4
  <1> QED
    BY <1>1, <1>2, <1>3, <1>4 DEF Pacing

LEMMA CompleteKeepsBudget ==
    ASSUME TypeOK, Budget, NEW b \in Batches, NEW o \in {"ok", "err"}, complete(b, o),
           UNCHANGED acquired
    PROVE  /\ winner' \in [Batches -> {"open", "ok", "err", "dropped"}]
           /\ cancelled' \subseteq Batches
           /\ tokens' \in 0..MaxScaled /\ oks' \in Nat
           /\ Budget'
  <1>1. /\ tokens \in Nat /\ tokens <= MaxScaled /\ oks \in Nat /\ acquired \in Nat
        /\ MaxScaled \in Nat /\ Refill \in Nat /\ Scale \in Nat
    BY HedgingAssumption DEF TypeOK
  <1>2. refill \in 0..MaxScaled /\ refill <= tokens + Refill
    BY <1>1 DEF refill
  <1>3. (oks + 1) * Refill = oks * Refill + Refill /\ oks * Refill \in Nat
        /\ acquired * Scale \in Nat
    BY <1>1
  <1>4. CASE winner[b] = "open"
    <2>1. /\ winner' = [winner EXCEPT ![b] = o] /\ cancelled' = cancelled \cup {b}
          /\ tokens' = IF o = "ok" THEN refill ELSE tokens
          /\ oks' = IF o = "ok" THEN oks + 1 ELSE oks
      BY <1>4 DEF complete
    <2>2. tokens' \in 0..MaxScaled /\ oks' \in Nat
      BY <1>1, <1>2, <2>1
    <2>3. Budget'
      BY <1>1, <1>2, <1>3, <2>1 DEF Budget
    <2> QED
      BY <2>1, <2>2, <2>3 DEF TypeOK
  <1>5. CASE winner[b] # "open"
    BY <1>5 DEF complete, TypeOK, Budget
  <1> QED
    BY <1>4, <1>5

\* An RPC ends, or the last reference goes: no hedge is sent.
LEMMA InitialStep ==
    ASSUME IInv, NEW b \in Batches, Initial(b) \/ StateDropped(b) PROVE IInv'
  <1> USE DEF IInv
  <1>1. UNCHANGED <<dispatched, hedges, hedged, acquired, elapsed, rx, open, queue, timer, pc>>
    BY DEF Initial, InitialDone, InitialStops, StateDropped, scheduler
  <1>2. TypeOK' /\ Budget'
    <2>1. ASSUME NEW o \in {"ok", "err"}, InitialDone(b, o) PROVE TypeOK' /\ Budget'
      BY <1>1, <2>1, CompleteKeepsBudget DEF InitialDone, TypeOK
    <2>2. CASE InitialStops(b)
      BY <1>1, <2>2 DEF InitialStops, TypeOK, Budget
    <2>3. CASE StateDropped(b)
      BY <1>1, <2>3 DEF StateDropped, TypeOK, Budget
    <2> QED
      BY <2>1, <2>2, <2>3 DEF Initial
  <1>3. OnePlace' /\ TimerCoversQueue' /\ HedgesArePaced'
    BY <1>1 DEF OnePlace, TimerCoversQueue, HedgesArePaced
  <1>4. IsFiniteSet(hedges') /\ Pacing'
    BY <1>1, PacingKept
  <1> QED
    BY <1>2, <1>3, <1>4

LEMMA HedgeEndsStep ==
    ASSUME IInv, NEW h \in hedges, HedgeFails(h) \/ HedgeSucceeds(h) PROVE IInv'
  <1> USE DEF IInv
  <1>1. /\ hedges' = hedges \ {h}
        /\ UNCHANGED <<dispatched, hedged, acquired, elapsed, rx, open, queue, timer, pc>>
    BY DEF HedgeFails, HedgeSucceeds, scheduler
  <1>2. TypeOK' /\ Budget'
    <2>1. CASE HedgeFails(h)
      BY <1>1, <2>1 DEF HedgeFails, TypeOK, Budget
    <2>2. CASE HedgeSucceeds(h)
      <3>1. h.batch \in Batches
        BY DEF TypeOK
      <3> QED
        BY <1>1, <2>2, <3>1, CompleteKeepsBudget DEF HedgeSucceeds, TypeOK
    <2> QED
      BY <2>1, <2>2
  <1>3. OnePlace' /\ TimerCoversQueue' /\ HedgesArePaced'
    BY <1>1 DEF OnePlace, TimerCoversQueue, HedgesArePaced
  <1>4. IsFiniteSet(hedges') /\ Pacing'
    BY <1>1, PacingKept
  <1> QED
    BY <1>2, <1>3, <1>4

\* A hedge that is sent is one that was issued, and its time has come.
LEMMA HedgeSentStep ==
    ASSUME IInv, NEW h \in hedges, h.st = "spawned", elapsed[h.batch] < TotalTimeout,
           hedges' = (hedges \ {h}) \cup {[h EXCEPT !.st = "running"]},
           hedged' = [hedged EXCEPT ![h.batch] = @ + 1],
           UNCHANGED <<dispatched, winner, cancelled, initial, oks, acquired, elapsed,
                       tokens, scheduler>>
    PROVE  IInv'
  <1> USE DEF IInv
  <1> DEFINE r == [h EXCEPT !.st = "running"]
  <1>1. /\ h.batch \in Batches /\ r.batch = h.batch /\ r.st = "running"
        /\ r \in [batch : Batches, attempt : Nat, st : {"spawned", "running"}]
    BY DEF TypeOK
  <1>2. UNCHANGED <<rx, open, queue, timer, pc>>
    BY DEF scheduler
  <1> HIDE DEF r
  <1>4. hedges' = (hedges \ {h}) \cup {r}
    BY DEF r
  <1>3. TypeOK'
    <2>1. hedged' \in [Batches -> Nat]
      BY DEF TypeOK
    <2>2. hedges' \subseteq [batch : Batches, attempt : Nat, st : {"spawned", "running"}]
      BY <1>1, <1>4 DEF TypeOK
    <2> QED
      BY <1>2, <2>1, <2>2 DEF TypeOK
  <1>5. IsFiniteSet(hedges')
    <2>1. IsFiniteSet(hedges \ {h})
      BY FS_RemoveElement
    <2>2. IsFiniteSet((hedges \ {h}) \cup {r})
      BY <2>1, FS_AddElement
    <2> QED
      BY <1>4, <2>2
  <1>6. OnePlace' /\ TimerCoversQueue' /\ Budget'
    BY <1>2 DEF OnePlace, TimerCoversQueue, Budget
  <1>7. ASSUME NEW b \in Batches
        PROVE  \E n \in Nat : Issued(b, n)' /\ hedged'[b] * Delay <= elapsed'[b]
    <2>1. PICK n \in Nat : Issued(b, n)
      BY DEF Pacing
    <2>2. hedged[b] \in Nat /\ elapsed[b] \in Nat /\ elapsed[b] <= TotalTimeout
      BY HedgingAssumption DEF TypeOK
    <2>3. CASE b = h.batch
      <3>1. Spawned(b)' = Spawned(b) \ {h} /\ h \in Spawned(b)
        BY <1>1, <1>4, <2>3 DEF Spawned
      <3>2. Cardinality(Spawned(b)') = Cardinality(Spawned(b)) - 1
        BY <3>1, SpawnedFinite, FS_RemoveElement
      <3>3. Cardinality(Spawned(b)) \in Nat /\ Cardinality(Spawned(b)') \in Nat
        BY <3>1, SpawnedFinite, FS_RemoveElement, FS_CardinalityType
      <3>4. hedged'[b] = hedged[b] + 1
        BY <2>3 DEF TypeOK
      <3>5. hedged'[b] + Cardinality(Spawned(b)') <= n
        BY <2>1, <2>2, <3>2, <3>3, <3>4 DEF Issued
      <3>6. Issued(b, n)'
        BY <1>2, <2>1, <3>5 DEF Issued, Reached
      <3>7. hedged'[b] <= n /\ hedged'[b] \in Nat
        BY <2>2, <3>3, <3>4, <3>5
      <3>8. n * Delay <= elapsed[b]
        BY <2>1, <2>2, <2>3, HedgingAssumption DEF Issued, Reached
      <3>9. hedged'[b] * Delay <= elapsed'[b]
        BY <2>2, <3>7, <3>8, TimesMonotonic, HedgingAssumption
      <3> QED
        BY <3>6, <3>9
    <2>4. CASE b # h.batch
      <3>1. Spawned(b)' = Spawned(b)
        BY <1>1, <1>4, <2>4 DEF Spawned
      <3>2. hedged'[b] = hedged[b]
        BY <2>4 DEF TypeOK
      <3>3. Issued(b, n)'
        BY <1>2, <2>1, <3>1, <3>2 DEF Issued, Reached
      <3> QED
        BY <3>2, <3>3 DEF HedgesArePaced
    <2> QED
      BY <2>3, <2>4
  <1>8. Pacing' /\ HedgesArePaced'
    BY <1>7 DEF Pacing, HedgesArePaced
  <1> QED
    BY <1>3, <1>5, <1>6, <1>8

LEMMA HedgeStartStep == ASSUME IInv, NEW h \in hedges, HedgeStart(h) PROVE IInv'
  <1>1. CASE h.batch \in cancelled \/ elapsed[h.batch] >= TotalTimeout
    <2> USE DEF IInv
    <2>1. /\ hedges' = hedges \ {h}
          /\ UNCHANGED <<dispatched, winner, cancelled, initial, oks, acquired, elapsed,
                         hedged, tokens, rx, open, queue, timer, pc>>
      BY <1>1 DEF HedgeStart, scheduler
    <2>2. TypeOK' /\ Budget'
      BY <2>1 DEF TypeOK, Budget
    <2>3. OnePlace' /\ TimerCoversQueue' /\ HedgesArePaced'
      BY <2>1 DEF OnePlace, TimerCoversQueue, HedgesArePaced
    <2>4. IsFiniteSet(hedges') /\ Pacing'
      BY <2>1, PacingKept
    <2> QED
      BY <2>2, <2>3, <2>4
  <1>2. CASE ~(h.batch \in cancelled \/ elapsed[h.batch] >= TotalTimeout)
    <2>1. elapsed[h.batch] < TotalTimeout
      BY <1>2, HedgingAssumption DEF IInv, TypeOK
    <2> QED
      BY <1>2, <2>1, HedgeSentStep DEF HedgeStart
  <1> QED
    BY <1>1, <1>2

-----------------------------------------------------------------------------
(* The scheduler.                                                          *)

LEMMA NewBatchStep == ASSUME IInv, NewBatch PROVE IInv'
  <1> USE DEF IInv
  <1> DEFINE item == Item(Head(rx), Delay, 1)
  <1>1. /\ pc = "select" /\ rx # <<>> /\ queue' = Append(queue, item) /\ rx' = Tail(rx)
        /\ timer' = IF timer = NoTimer THEN Delay ELSE timer
        /\ UNCHANGED <<dispatched, winner, cancelled, initial, hedges, hedged, oks,
                       acquired, elapsed, tokens, open, pc>>
    BY DEF NewBatch, rpcs
  <1>2. /\ rx \in Seq(Batches) /\ queue \in Seq(Items) /\ Head(rx) = rx[1]
        /\ 1 \in DOMAIN rx /\ item \in Items
        /\ \A i \in DOMAIN rx' : i + 1 \in DOMAIN rx /\ rx'[i] = rx[i + 1] /\ i \in Nat
    BY <1>1, TailElems, HedgingAssumption DEF TypeOK, Items, Item
  <1>3. TypeOK'
    BY <1>1, <1>2, HedgingAssumption DEF TypeOK, NoTimer
  <1>8. /\ item.batch = rx[1] /\ item.left = Delay /\ item.attempt = 1
        /\ Len(queue) \in Nat /\ DOMAIN queue = 1..Len(queue)
    BY <1>2 DEF Item
  <1> HIDE DEF item
  <1>4. OnePlace'
    <2> USE DEF OnePlace
    <2>1. \A i \in DOMAIN queue' : \/ i \in DOMAIN queue /\ queue'[i] = queue[i]
                                   \/ i = Len(queue) + 1 /\ queue'[i] = item
      BY <1>1, <1>2, AppendElems
    <2>2. \A i \in DOMAIN rx' : rx'[i] \in dispatched' /\ rx'[i] # Head(rx)
      BY <1>1, <1>2
    <2>3. \A i, j \in DOMAIN rx' : rx'[i] = rx'[j] => i = j
      BY <1>1, <1>2
    <2>4. \A i \in DOMAIN queue' : queue'[i].batch \in dispatched'
      BY <1>1, <1>2, <1>8, <2>1
    <2>5. \A i, j \in DOMAIN queue' : queue'[i].batch = queue'[j].batch => i = j
      BY <1>2, <1>8, <2>1
    <2>6. \A i \in DOMAIN rx', j \in DOMAIN queue' : rx'[i] # queue'[j].batch
      BY <1>2, <1>8, <2>1, <2>2
    <2> QED
      BY <2>2, <2>3, <2>4, <2>5, <2>6
  <1>5. TimerCoversQueue'
    <2>1. \A i \in DOMAIN queue : queue[i].left \in Nat /\ queue[i].left <= Delay
      BY <1>2, QueueItem
    <2>2. \A i, j \in DOMAIN queue' : i < j => queue'[i].left <= queue'[j].left
      BY <1>1, <1>2, <1>8, <2>1, AppendElems, HedgingAssumption DEF TimerCoversQueue
    <2>3. CASE queue = <<>>
      <3>1. Head(queue') = item /\ timer' <= Delay
        BY <1>1, <1>2, <2>3, AppendElems, HedgingAssumption DEF TypeOK, NoTimer
      <3> QED
        BY <1>8, <2>2, <3>1 DEF TimerCoversQueue
    <2>4. CASE queue # <<>>
      <3>1. Head(queue') = Head(queue) /\ Head(queue) = queue[1] /\ 1 \in DOMAIN queue
        BY <1>1, <1>2, <2>4, AppendElems
      <3>2. timer <= Head(queue).left
        BY <1>1, <2>4 DEF TimerCoversQueue
      <3>3. timer' = timer
        BY <1>1, <2>1, <3>1, <3>2, HedgingAssumption DEF TypeOK, NoTimer
      <3> QED
        BY <2>2, <3>1, <3>2, <3>3 DEF TimerCoversQueue
    <2> QED
      BY <2>3, <2>4
  <1>6. Budget' /\ HedgesArePaced' /\ IsFiniteSet(hedges')
    BY <1>1 DEF Budget, HedgesArePaced
  <1>7. ASSUME NEW b \in Batches PROVE \E n \in Nat : Issued(b, n)'
    <2>1. PICK n \in Nat : Issued(b, n)
      BY DEF Pacing
    <2>2. Spawned(b)' = Spawned(b)
      BY <1>1 DEF Spawned
    <2>3. b \notin dispatched' \/ (\E i \in DOMAIN rx' : rx'[i] = b) => n = 0
      BY <1>1, <1>2, <2>1 DEF Issued
    <2>4. ASSUME NEW i \in DOMAIN queue', queue'[i].batch = b
          PROVE  /\ queue'[i].attempt = n + 1
                 /\ Reached(b, n * Delay + Delay - queue[i].left)'
      <3>1. CASE i \in DOMAIN queue
        <4>1. queue'[i] = queue[i]
          BY <1>1, <1>2, <3>1, AppendElems
        <4>2. queue[i].attempt = n + 1 /\ Reached(b, n * Delay + Delay - queue[i].left)
          BY <2>1, <2>4, <3>1, <4>1 DEF Issued
        <4>3. UNCHANGED elapsed
          BY <1>1
        <4> QED
          BY <4>1, <4>2, <4>3 DEF Reached
      <3>2. CASE i \notin DOMAIN queue
        <4>1. queue'[i] = item
          BY <1>1, <1>2, <3>2, AppendElems
        <4>2. n = 0
          BY <1>2, <1>8, <2>1, <2>4, <4>1 DEF Issued
        <4>3. elapsed[b] \in Nat /\ elapsed'[b] = elapsed[b]
          BY <1>1, HedgingAssumption DEF TypeOK
        <4>4. n * Delay + Delay - queue'[i].left = 0 /\ queue'[i].attempt = n + 1
          BY <1>8, <4>1, <4>2, HedgingAssumption
        <4> QED
          BY <4>3, <4>4 DEF Reached
      <3> QED
        BY <3>1, <3>2
    <2>5. Issued(b, n)'
      <3>1. /\ n <= acquired' /\ hedged'[b] + Cardinality(Spawned(b)') <= n
            /\ Reached(b, n * Delay)'
        BY <1>1, <2>1, <2>2 DEF Issued, Reached
      <3> QED
        BY <2>3, <2>4, <3>1 DEF Issued
    <2> QED
      BY <2>5
  <1> QED
    BY <1>3, <1>4, <1>5, <1>6, <1>7 DEF Pacing

\* An expired hedge that is not wanted, or for which there is no token, leaves the
\* queue.
LEMMA ExpireDropStep ==
    ASSUME IInv, pc = "expire", queue # <<>>, queue' = Tail(queue),
           UNCHANGED <<dispatched, winner, cancelled, initial, hedges, hedged, oks,
                       acquired, elapsed, tokens, rx, open, timer, pc>>
    PROVE  IInv'
  <1> USE DEF IInv
  <1>1. queue \in Seq(Items)
    BY DEF TypeOK
  <1>2. /\ queue' \in Seq(Items)
        /\ \A i \in DOMAIN queue' :
              i \in Nat /\ i + 1 \in DOMAIN queue /\ queue'[i] = queue[i + 1]
    BY <1>1, TailElems
  <1>3. TypeOK'
    BY <1>2 DEF TypeOK
  <1>4. OnePlace'
    BY <1>2 DEF OnePlace
  <1>5. TimerCoversQueue'
    BY <1>2 DEF TimerCoversQueue
  <1>6. Budget' /\ HedgesArePaced' /\ IsFiniteSet(hedges')
    BY DEF Budget, HedgesArePaced
  <1>7. ASSUME NEW b \in Batches PROVE \E n \in Nat : Issued(b, n)'
    <2>1. PICK n \in Nat : Issued(b, n)
      BY DEF Pacing
    <2>2. Spawned(b)' = Spawned(b)
      BY DEF Spawned
    <2>3. Issued(b, n)'
      BY <1>2, <2>1, <2>2 DEF Issued, Reached
    <2> QED
      BY <2>3
  <1> QED
    BY <1>3, <1>4, <1>5, <1>6, <1>7 DEF Pacing

\* An expired hedge takes a token, is spawned, and is scheduled again.
LEMMA ExpireSpawnStep ==
    ASSUME IInv, pc = "expire", Expired, tokens >= Scale, NEW item, item = Head(queue),
           hedges' = hedges \cup
              {[batch |-> item.batch, attempt |-> item.attempt, st |-> "spawned"]},
           tokens' = tokens - Scale,
           acquired' = acquired + 1,
           queue' = Append(Tail(queue), Item(item.batch, Delay, item.attempt + 1)),
           UNCHANGED <<dispatched, winner, cancelled, initial, hedged, oks, elapsed,
                       rx, open, timer, pc>>
    PROVE  IInv'
  <1> USE DEF IInv
  <1> DEFINE again == Item(item.batch, Delay, item.attempt + 1)
             hedge == [batch |-> item.batch, attempt |-> item.attempt, st |-> "spawned"]
  <1>1. queue \in Seq(Items) /\ queue # <<>>
    BY DEF TypeOK, Expired
  <1>2. /\ Tail(queue) \in Seq(Items) /\ 1 \in DOMAIN queue /\ item = queue[1]
        /\ item \in Items
        /\ \A i \in DOMAIN Tail(queue) :
              /\ i \in Nat /\ i + 1 \in DOMAIN queue /\ i + 1 # 1
              /\ Tail(queue)[i] = queue[i + 1]
    BY <1>1, TailElems
  <1>3. /\ item.batch \in Batches /\ item.attempt \in Nat /\ item.left = 0
        /\ again \in Items /\ again.batch = item.batch /\ again.left = Delay
        /\ again.attempt = item.attempt + 1
    <2>1. item \in Items /\ Head(queue).left = 0
      BY <1>2 DEF Expired
    <2>2. item.batch \in Batches /\ item.attempt \in Nat /\ item.left = 0
      BY <2>1 DEF Items
    <2> QED
      BY <2>2, HedgingAssumption DEF Items, Item
  <1>4. /\ hedge \in [batch : Batches, attempt : Nat, st : {"spawned", "running"}]
        /\ hedge.batch = item.batch
        /\ hedges' = hedges \cup {hedge}
    BY <1>3
  <1> HIDE DEF again, hedge
  <1>5. /\ \A i \in DOMAIN queue' : \/ /\ i \in DOMAIN Tail(queue) /\ i \in Nat
                                       /\ i + 1 \in DOMAIN queue /\ i + 1 # 1
                                       /\ queue'[i] = queue[i + 1]
                                    \/ /\ i = Len(Tail(queue)) + 1 /\ queue'[i] = again
                                       /\ i \notin DOMAIN Tail(queue)
        /\ \A i \in DOMAIN Tail(queue) : i < Len(Tail(queue)) + 1
        /\ queue' \in Seq(Items)
    <2>1. queue' = Append(Tail(queue), again)
      BY DEF again
    <2>2. DOMAIN Tail(queue) = 1..Len(Tail(queue)) /\ Len(Tail(queue)) \in Nat
      BY <1>2
    <2> QED
      BY <1>2, <1>3, <2>1, <2>2, AppendElems
  <1>6. /\ tokens \in Nat /\ acquired \in Nat /\ oks \in Nat /\ Scale \in Nat
        /\ Refill \in Nat /\ MaxScaled \in Nat /\ Delay \in Nat /\ tokens <= MaxScaled
    BY HedgingAssumption DEF TypeOK
  <1>7. TypeOK'
    <2>1. tokens' \in 0..MaxScaled /\ acquired' \in Nat
      BY <1>6
    <2> QED
      BY <1>4, <1>5, <2>1 DEF TypeOK
  <1>8. IsFiniteSet(hedges')
    BY <1>4, FS_AddElement
  <1>9. OnePlace'
    <2> USE DEF OnePlace
    <2>1. \A i \in DOMAIN queue' : queue'[i].batch \in dispatched'
      BY <1>2, <1>3, <1>5
    <2>2. \A i, j \in DOMAIN queue' : queue'[i].batch = queue'[j].batch => i = j
      BY <1>2, <1>3, <1>5
    <2>3. \A i \in DOMAIN rx', j \in DOMAIN queue' : rx'[i] # queue'[j].batch
      BY <1>2, <1>3, <1>5
    <2> QED
      BY <2>1, <2>2, <2>3
  <1>10. TimerCoversQueue'
    <2>1. \A i \in DOMAIN queue : queue[i].left \in Nat /\ queue[i].left <= Delay
      BY <1>1, QueueItem
    <2>2. ASSUME NEW i \in DOMAIN queue', NEW j \in DOMAIN queue', i < j
          PROVE  queue'[i].left <= queue'[j].left
      <3>1. i \in DOMAIN Tail(queue)
        BY <1>5, <2>2
      <3>2. CASE j \in DOMAIN Tail(queue)
        BY <1>5, <2>2, <3>1, <3>2 DEF TimerCoversQueue
      <3>3. CASE j \notin DOMAIN Tail(queue)
        BY <1>3, <1>5, <2>1, <3>1, <3>3
      <3> QED
        BY <3>2, <3>3
    <2> QED
      BY <2>2 DEF TimerCoversQueue
  <1>11. Budget'
    <2>1. (acquired + 1) * Scale = acquired * Scale + Scale /\ acquired * Scale \in Nat
          /\ oks * Refill \in Nat
      BY <1>6
    <2> QED
      BY <1>6, <2>1 DEF Budget
  <1>12. HedgesArePaced'
    BY DEF HedgesArePaced
  <1>13. ASSUME NEW b \in Batches PROVE \E n \in Nat : Issued(b, n)'
    <2>1. PICK n \in Nat : Issued(b, n)
      BY DEF Pacing
    <2>2. hedged[b] \in Nat /\ elapsed[b] \in Nat
      BY HedgingAssumption DEF TypeOK
    <2>3. CASE b = item.batch
      <3>1. item.attempt = n + 1 /\ Reached(b, n * Delay + Delay - item.left)
        BY <1>2, <2>1, <2>3 DEF Issued
      <3>2. n + 1 \in Nat /\ (n + 1) * Delay = n * Delay + Delay /\ n * Delay \in Nat
        BY <1>6
      <3>3. Reached(b, (n + 1) * Delay)'
        BY <1>3, <1>6, <3>1, <3>2 DEF Reached
      <3>4. Spawned(b)' \in SUBSET (Spawned(b) \cup {hedge})
        BY <1>4 DEF Spawned
      <3>5. IsFiniteSet(Spawned(b) \cup {hedge})
            /\ Cardinality(Spawned(b) \cup {hedge}) <= Cardinality(Spawned(b)) + 1
            /\ Cardinality(Spawned(b)) \in Nat
        <4>1. IsFiniteSet(Spawned(b)) /\ Cardinality(Spawned(b)) \in Nat
          BY SpawnedFinite
        <4> DEFINE S == Spawned(b)
        <4> HIDE DEF IInv, S
        <4>2. IsFiniteSet(S) => /\ IsFiniteSet(S \cup {hedge})
                                /\ Cardinality(S \cup {hedge}) =
                                     IF hedge \in S THEN Cardinality(S) ELSE Cardinality(S) + 1
          BY FS_AddElement
        <4> QED
          BY <4>1, <4>2 DEF S
      <3>6. /\ Cardinality(Spawned(b)') <= Cardinality(Spawned(b) \cup {hedge})
            /\ IsFiniteSet(Spawned(b)')
        BY <3>4, <3>5, FS_Subset
      <3>7. hedged'[b] + Cardinality(Spawned(b)') <= n + 1
        <4>1. /\ Cardinality(Spawned(b)') \in Nat
              /\ Cardinality(Spawned(b) \cup {hedge}) \in Nat
          BY <3>5, <3>6, FS_CardinalityType
        <4>2. hedged[b] + Cardinality(Spawned(b)) <= n
          BY <2>1 DEF Issued
        <4> QED
          BY <2>2, <3>5, <3>6, <4>1, <4>2
      <3>8. b \in dispatched /\ ~\E i \in DOMAIN rx : rx[i] = b
        BY <1>2, <2>3 DEF OnePlace
      <3>9. ASSUME NEW i \in DOMAIN queue', queue'[i].batch = b
            PROVE  /\ queue'[i].attempt = (n + 1) + 1
                   /\ Reached(b, (n + 1) * Delay + Delay - queue[i].left)'
        <4>1. queue'[i] = again
          BY <1>2, <1>5, <2>3, <3>9 DEF OnePlace
        <4>2. (n + 1) * Delay + Delay - again.left = (n + 1) * Delay
          BY <1>3, <1>6, <3>2
        <4> QED
          BY <1>3, <3>1, <3>2, <3>3, <4>1, <4>2 DEF Reached
      <3>10. n + 1 <= acquired'
        BY <1>6, <2>1 DEF Issued
      <3>11. Issued(b, n + 1)'
        BY <3>3, <3>7, <3>8, <3>9, <3>10 DEF Issued
      <3> QED
        BY <3>2, <3>11
    <2>4. CASE b # item.batch
      <3>1. Spawned(b)' = Spawned(b)
        BY <1>4, <2>4 DEF Spawned
      <3>2. n <= acquired'
        BY <1>6, <2>1 DEF Issued
      <3>3. ASSUME NEW i \in DOMAIN queue', queue'[i].batch = b
            PROVE  /\ queue'[i].attempt = n + 1
                   /\ Reached(b, n * Delay + Delay - queue[i].left)'
        <4>1. i + 1 \in DOMAIN queue /\ queue'[i] = queue[i + 1]
          BY <1>3, <1>5, <2>4, <3>3
        <4>2. /\ queue[i + 1].attempt = n + 1
              /\ Reached(b, n * Delay + Delay - queue[i + 1].left)
          BY <2>1, <3>3, <4>1 DEF Issued
        <4> QED
          BY <4>1, <4>2 DEF Reached
      <3>4. Issued(b, n)'
        <4>1. /\ hedged'[b] + Cardinality(Spawned(b)') <= n /\ Reached(b, n * Delay)'
              /\ b \notin dispatched' \/ (\E i \in DOMAIN rx' : rx'[i] = b) => n = 0
          BY <2>1, <3>1 DEF Issued, Reached
        <4> QED
          BY <3>2, <3>3, <4>1 DEF Issued
      <3> QED
        BY <3>4
    <2> QED
      BY <2>3, <2>4
  <1> QED
    BY <1>7, <1>8, <1>9, <1>10, <1>11, <1>12, <1>13 DEF Pacing

LEMMA ExpireItemStep == ASSUME IInv, ExpireItem PROVE IInv'
  <1>1. CASE Head(queue).batch \notin cancelled /\ tokens >= Scale
    BY <1>1, ExpireSpawnStep DEF ExpireItem
  <1>2. CASE ~(Head(queue).batch \notin cancelled /\ tokens >= Scale)
    BY <1>2, ExpireDropStep DEF ExpireItem, Expired
  <1> QED
    BY <1>1, <1>2

\* The timer and the end of the loop: the queue stays, or is dropped as a whole.
LEMMA LoopStep ==
    ASSUME IInv, TimerFires \/ ExpireEnd \/ SchedulerEnds \/ Close PROVE IInv'
  <1> USE DEF IInv
  <1>1. /\ UNCHANGED <<dispatched, winner, cancelled, initial, hedges, hedged, oks,
                       acquired, elapsed, tokens, rx>>
        /\ open' \in {open, FALSE}
        /\ queue' \in {queue, <<>>}
        /\ pc' \in {"select", "expire", "done"}
    BY DEF TimerFires, ExpireEnd, SchedulerEnds, Close, rpcs, TypeOK
  <1>2. queue \in Seq(Items)
    BY DEF TypeOK
  <1>3. timer' \in 0..NoTimer
    <2>1. CASE ExpireEnd
      <3>1. CASE queue = <<>>
        BY <2>1, <3>1, HedgingAssumption DEF ExpireEnd, NoTimer
      <3>2. CASE queue # <<>>
        <4>1. Head(queue) = queue[1] /\ 1 \in DOMAIN queue
          BY <1>2, <3>2
        <4> QED
          BY <1>2, <2>1, <3>2, <4>1, QueueItem, HedgingAssumption DEF ExpireEnd, NoTimer
      <3> QED
        BY <3>1, <3>2
    <2>2. CASE TimerFires \/ SchedulerEnds \/ Close
      BY <2>2, HedgingAssumption DEF TimerFires, SchedulerEnds, Close, NoTimer, TypeOK
    <2> QED
      BY <2>1, <2>2
  <1>4. TypeOK'
    <2>1. queue' \in Seq(Items)
      <3>1. queue' = queue \/ queue' = <<>>
        BY <1>1
      <3>2. <<>> \in Seq(Items)
        OBVIOUS
      <3> QED
        BY <1>2, <3>1, <3>2
    <2>2. open' \in BOOLEAN
      BY <1>1 DEF TypeOK
    <2> QED
      BY <1>1, <1>3, <2>1, <2>2 DEF TypeOK
  <1>5. OnePlace'
    BY <1>1 DEF OnePlace
  <1>6. TimerCoversQueue'
    <2>1. \A i, j \in DOMAIN queue' : i < j => queue'[i].left <= queue'[j].left
      BY <1>1 DEF TimerCoversQueue
    <2>2. CASE ExpireEnd
      <3>1. CASE queue # <<>>
        <4>1. Head(queue) = queue[1] /\ 1 \in DOMAIN queue
          BY <1>2, <3>1
        <4>2. timer' = Head(queue').left /\ Head(queue').left \in Nat
          BY <1>2, <2>2, <3>1, <4>1, QueueItem DEF ExpireEnd
        <4> QED
          BY <2>1, <4>2 DEF TimerCoversQueue
      <3>2. CASE queue = <<>>
        BY <2>1, <2>2, <3>2 DEF ExpireEnd, TimerCoversQueue
      <3> QED
        BY <3>1, <3>2
    <2>3. CASE TimerFires
      BY <2>1, <2>3 DEF TimerFires, TimerCoversQueue
    <2>4. CASE SchedulerEnds
      BY <2>1, <2>4 DEF SchedulerEnds, TimerCoversQueue
    <2>5. CASE Close
      BY <2>1, <2>5 DEF Close, TimerCoversQueue
    <2> QED
      BY <2>2, <2>3, <2>4, <2>5
  <1>7. Budget' /\ HedgesArePaced' /\ IsFiniteSet(hedges')
    BY <1>1 DEF Budget, HedgesArePaced
  <1>8. ASSUME NEW b \in Batches PROVE \E n \in Nat : Issued(b, n)'
    <2>1. PICK n \in Nat : Issued(b, n)
      BY DEF Pacing
    <2>2. Spawned(b)' = Spawned(b)
      BY <1>1 DEF Spawned
    <2>3. Issued(b, n)'
      BY <1>1, <2>1, <2>2 DEF Issued, Reached
    <2> QED
      BY <2>3
  <1> QED
    BY <1>4, <1>5, <1>6, <1>7, <1>8 DEF Pacing

\* One tick brings every hedge that is scheduled one tick nearer, and its batch is
\* one tick older.
LEMMA TickStep == ASSUME IInv, Tick PROVE IInv'
  <1> USE DEF IInv
  <1>1. /\ pc # "expire"
        /\ elapsed' = [b \in Batches |->
                         IF b \in dispatched /\ elapsed[b] < TotalTimeout
                           THEN elapsed[b] + 1 ELSE elapsed[b]]
        /\ queue' = [i \in DOMAIN queue |-> [queue[i] EXCEPT !.left = Minus1(@)]]
        /\ timer' = IF timer = NoTimer THEN NoTimer ELSE Minus1(timer)
        /\ UNCHANGED <<dispatched, winner, cancelled, initial, hedges, hedged, oks,
                       acquired, tokens, rx, open, pc>>
    BY DEF Tick, rpcs
  <1>2. queue \in Seq(Items) /\ DOMAIN queue' = DOMAIN queue
    BY <1>1 DEF TypeOK
  <1>3. ASSUME NEW i \in DOMAIN queue
        PROVE  /\ queue'[i] \in Items
               /\ queue'[i].batch = queue[i].batch /\ queue'[i].attempt = queue[i].attempt
               /\ queue'[i].left = Minus1(queue[i].left)
               /\ queue[i].left \in Nat
    <2>1. /\ queue[i] \in Items /\ queue[i].left \in Nat /\ queue[i].left <= Delay
      BY <1>2, QueueItem
    <2>2. queue'[i] = [queue[i] EXCEPT !.left = Minus1(queue[i].left)]
      BY <1>1
    <2>3. Minus1(queue[i].left) \in 0..Delay
      BY <2>1, HedgingAssumption DEF Minus1
    <2> QED
      BY <2>1, <2>2, <2>3 DEF Items
  <1>4. queue' \in Seq(Items)
    <2>1. Len(queue) \in Nat /\ DOMAIN queue' = 1..Len(queue)
      BY <1>2
    <2>2. queue' = [i \in 1..Len(queue) |-> queue'[i]]
      BY <1>1, <1>2, <2>1
    <2> QED
      BY <1>3, <2>1, <2>2
  <1>5. ASSUME NEW b \in Batches
        PROVE  /\ elapsed[b] \in Nat /\ elapsed'[b] \in 0..TotalTimeout
               /\ elapsed'[b] >= elapsed[b] /\ elapsed[b] <= TotalTimeout
               /\ b \in dispatched => elapsed'[b] = elapsed[b] + 1 \/ elapsed'[b] = TotalTimeout
    BY <1>1, HedgingAssumption DEF TypeOK
  <1>6. timer \in 0..NoTimer /\ timer' \in 0..NoTimer
    BY <1>1, HedgingAssumption DEF TypeOK, NoTimer, Minus1
  <1>7. TypeOK'
    <2>1. elapsed' \in [Batches -> 0..TotalTimeout]
      BY <1>1, <1>5
    <2> QED
      BY <1>1, <1>4, <1>6, <2>1 DEF TypeOK
  <1>8. OnePlace'
    <2>1. UNCHANGED <<dispatched, rx>>
      BY <1>1
    <2> QED
      BY <1>2, <1>3, <2>1 DEF OnePlace
  <1>9. TimerCoversQueue'
    <2>1. \A i, j \in DOMAIN queue' : i < j => queue'[i].left <= queue'[j].left
      BY <1>2, <1>3 DEF TimerCoversQueue, Minus1
    <2>2. ASSUME pc' = "select", queue' # <<>> PROVE timer' <= Head(queue').left
      <3>1. /\ queue # <<>> /\ 1 \in DOMAIN queue /\ Head(queue) = queue[1]
            /\ Head(queue') = queue'[1]
        BY <1>2, <1>4, <2>2
      <3>2. timer <= queue[1].left /\ queue[1].left <= Delay
        BY <1>1, <1>2, <2>2, <3>1, QueueItem DEF TimerCoversQueue
      <3>3. timer' = Minus1(timer)
        <4>1. queue[1].left \in Nat /\ timer \in Nat /\ timer # NoTimer
          BY <1>3, <1>6, <3>1, <3>2, HedgingAssumption DEF NoTimer
        <4>2. timer' = IF timer = NoTimer THEN NoTimer ELSE Minus1(timer)
          BY <1>1
        <4> QED
          BY <4>1, <4>2
      <3> QED
        BY <1>3, <1>6, <3>1, <3>2, <3>3 DEF Minus1
    <2> QED
      BY <2>1, <2>2 DEF TimerCoversQueue
  <1>10. Budget' /\ IsFiniteSet(hedges')
    BY <1>1 DEF Budget
  <1>11. HedgesArePaced'
    <2>1. ASSUME NEW b \in Batches PROVE hedged'[b] * Delay <= elapsed'[b]
      <3>1. hedged[b] * Delay <= elapsed[b] /\ hedged[b] * Delay \in Nat
        BY HedgingAssumption DEF HedgesArePaced, TypeOK
      <3> QED
        BY <1>1, <1>5, <3>1
    <2> QED
      BY <2>1 DEF HedgesArePaced
  <1>12. ASSUME NEW b \in Batches PROVE \E n \in Nat : Issued(b, n)'
    <2>1. PICK n \in Nat : Issued(b, n)
      BY DEF Pacing
    <2>2. n * Delay \in Nat /\ Delay \in Nat /\ TotalTimeout \in Nat
      BY HedgingAssumption
    <2>3. Reached(b, n * Delay)'
      BY <1>5, <2>1, <2>2 DEF Issued, Reached
    <2>4. ASSUME NEW i \in DOMAIN queue', queue'[i].batch = b
          PROVE  /\ queue'[i].attempt = n + 1
                 /\ Reached(b, n * Delay + Delay - queue[i].left)'
      <3>1. /\ i \in DOMAIN queue /\ queue[i].batch = b
            /\ queue'[i].attempt = queue[i].attempt
            /\ queue'[i].left = Minus1(queue[i].left) /\ queue[i].left \in Nat
        BY <1>2, <1>3, <2>4
      <3>2. /\ queue[i].attempt = n + 1
            /\ Reached(b, n * Delay + Delay - queue[i].left)
        BY <2>1, <3>1 DEF Issued
      <3>3. b \in dispatched
        BY <3>1 DEF OnePlace
      <3>4. elapsed'[b] = TotalTimeout
              \/ n * Delay + Delay - queue'[i].left <= elapsed'[b]
        BY <1>5, <2>2, <3>1, <3>2, <3>3 DEF Reached, Minus1
      <3> QED
        BY <3>1, <3>2, <3>4 DEF Reached
    <2>5. Issued(b, n)'
      <3>1. /\ n <= acquired' /\ hedged'[b] + Cardinality(Spawned(b)') <= n
            /\ b \notin dispatched' \/ (\E i \in DOMAIN rx' : rx'[i] = b) => n = 0
        BY <1>1, <2>1 DEF Issued, Spawned
      <3> QED
        BY <2>3, <2>4, <3>1 DEF Issued
    <2> QED
      BY <2>5
  <1> QED
    BY <1>7, <1>8, <1>9, <1>10, <1>11, <1>12 DEF Pacing

LEMMA NextIInv == IInv /\ [Next]_vars => IInv'
  <1> SUFFICES ASSUME IInv, [Next]_vars PROVE IInv'
    OBVIOUS
  <1>1. ASSUME NEW b \in Batches, dispatch(b) \/ Initial(b) \/ StateDropped(b) PROVE IInv'
    BY <1>1, DispatchStep, InitialStep
  <1>2. ASSUME NEW h \in hedges, Hedge(h) PROVE IInv'
    BY <1>2, HedgeStartStep, HedgeEndsStep DEF Hedge
  <1>3. CASE Scheduler \/ Close
    BY <1>3, NewBatchStep, ExpireItemStep, LoopStep DEF Scheduler
  <1>4. CASE UNCHANGED vars
    <2>1. UNCHANGED <<dispatched, winner, cancelled, initial, hedges, hedged, oks,
                      acquired, elapsed, tokens, rx, open, queue, timer, pc>>
      BY <1>4 DEF vars, rpcs, scheduler
    <2>2. IsFiniteSet(hedges') /\ Pacing'
      BY <2>1, PacingKept DEF IInv
    <2> QED
      BY <2>1, <2>2 DEF IInv, TypeOK, OnePlace, TimerCoversQueue, Budget, HedgesArePaced
  <1> QED
    BY <1>1, <1>2, <1>3, <1>4, TickStep DEF Next

-----------------------------------------------------------------------------
(* The theorems.                                                           *)

\* The inductive invariant holds in every reachable state.
THEOREM Invariance == Spec => []IInv
  BY InitIInv, NextIInv, PTL DEF Spec

\* The state of the scheduler and of the RPC tasks has its type.
THEOREM TypeCorrect == Spec => []TypeOK
  <1>1. IInv => TypeOK
    BY DEF IInv
  <1> QED
    BY <1>1, Invariance, PTL

\* Hedging never costs more than the successful requests earned, for any refill
\* ratio, capacity and number of batches.
THEOREM HedgesWithinBudget == Spec => []HedgeBudget
  <1>1. IInv => HedgeBudget
    <2> SUFFICES ASSUME IInv PROVE HedgeBudget
      OBVIOUS
    <2>1. ASSUME NEW b \in Batches PROVE hedged[b] <= acquired
      <3>1. PICK n \in Nat : Issued(b, n)
        BY DEF IInv, Pacing
      <3>2. hedged[b] \in Nat /\ acquired \in Nat /\ Cardinality(Spawned(b)) \in Nat
        BY SpawnedFinite DEF IInv, TypeOK
      <3> QED
        BY <3>1, <3>2 DEF Issued
    <2> QED
      BY <2>1 DEF IInv, Budget, HedgeBudget
  <1> QED
    BY <1>1, Invariance, PTL

\* The FIFO queue is in the order of its deadlines and the timer covers its front.
THEOREM TimerIsArmed == Spec => []TimerCoversQueue
  <1>1. IInv => TimerCoversQueue
    BY DEF IInv
  <1> QED
    BY <1>1, Invariance, PTL

\* No hedged request is sent before its delays have passed.
THEOREM Paced == Spec => []HedgesArePaced
  <1>1. IInv => HedgesArePaced
    BY DEF IInv
  <1> QED
    BY <1>1, Invariance, PTL

\* The first RPC of a batch to complete decides its outcome; no later completion,
\* cancellation or drop changes it.
THEOREM OneOutcome == Spec => OutcomeIsFinal
  <1> DEFINE Final == \A b \in Batches : winner[b] # "open" => winner'[b] = winner[b]
  <1>1. ASSUME TypeOK, Next PROVE Final
    <2>1. ASSUME NEW b \in Batches, dispatch(b) \/ Initial(b) \/ StateDropped(b) PROVE Final
      BY <1>1, <2>1 DEF dispatch, Initial, InitialDone, InitialStops, StateDropped, complete,
                        TypeOK
    <2>2. ASSUME NEW h \in hedges, Hedge(h) PROVE Final
      BY <1>1, <2>2 DEF Hedge, HedgeStart, HedgeFails, HedgeSucceeds, complete, TypeOK
    <2>3. CASE Scheduler \/ Close \/ Tick
      BY <2>3 DEF Scheduler, NewBatch, TimerFires, ExpireItem, ExpireEnd, SchedulerEnds,
                  Close, Tick, rpcs
    <2> QED
      BY <1>1, <2>1, <2>2, <2>3 DEF Next
  <1>2. TypeOK /\ [Next]_vars => [Final]_vars
    BY <1>1
  <1> QED
    BY <1>2, TypeCorrect, PTL DEF Spec, OutcomeIsFinal
=============================================================================
