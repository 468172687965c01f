---------------------------- MODULE BidiWriteProofs ----------------------------
(***************************************************************************)
(* Proofs about BidiWrite, for every chunk size, capacity, attempt limit   *)
(* and number of bytes, calls and faults.                                  *)
(***************************************************************************)
EXTENDS BidiWrite, Integers, WellFoundedInduction, SequenceTheorems, TLAPS

(***************************************************************************)
(* Part one of the invariant: the application's task.                      *)
(***************************************************************************)
Last(s) == s[Len(s)]

Upto == Len(object) + Len(received)

\* s is a run of the bytes after position m.
IsRun(s, m) == s = Bytes(m, m + Len(s))

\* The chunks that wait to be sent lie between write_offset and the coalescing buffer.
ReadyOk ==
    /\ ready = <<>> => write_offset + Len(coalescing_buffer) = appended
    /\ ready # <<>> => /\ ready[1][1] = write_offset + 1
                       /\ Last(ready)[1] + Len(Last(ready)) + Len(coalescing_buffer) = appended + 1
    /\ \A i \in DOMAIN ready :
         /\ Len(ready[i]) \in 1..MAX_WRITE_CHUNK_SIZE /\ ready[i][1] # 0 /\ IsRun(ready[i], ready[i][1] - 1)
         /\ ready[i][1] + Len(ready[i]) + Len(coalescing_buffer) <= appended + 1
         /\ i > 1 => ready[i][1] = ready[i - 1][1] + Len(ready[i - 1])

CoalescingOk ==
    /\ Len(coalescing_buffer) < MAX_WRITE_CHUNK_SIZE
    /\ write_offset + Len(coalescing_buffer) <= appended
    /\ IsRun(coalescing_buffer, appended - Len(coalescing_buffer))

\* What each stage of a call means.
CallOk ==
    /\ call \in {"idle", "closed", "join"} \/ Awaits => ready = <<>>
    /\ call \in {"flush", "finalize", "close", "join", "closed"} \/ Awaits => coalescing_buffer = <<>> /\ calls > 0
    /\ call \in {"flush", "finalize", "close"} => reply.state = "none"
    /\ call \in {"failed", "closed"} => WorkerEnded
    /\ Awaits /\ reply.state = "err" => WorkerEnded
    /\ open <=> call \notin {"join"} \cup Ended

\* A call that succeeded has all of its bytes in the object.
ReplyOk == (Awaits /\ reply.state = "ok") \/ call = "join" => reply.size = appended /\ Len(object) = appended

\* The log names the bytes the writer still has.
LogOk == Len(log) = appended /\ appended <= given

AppInv == ReadyOk /\ CoalescingOk /\ CallOk /\ ReplyOk /\ LogOk

(***************************************************************************)
(* Part two: the worker, as long as it runs.                               *)
(***************************************************************************)
\* The calls that end the upload, also when the application has dropped them.
Finishing == call \in {"await finalize", "join"} \/ (call = "dropped" /\ write_offset = appended)

ChannelOk ==
    /\ Carries(replay_buffer, persisted_size, Taken)
    /\ Carries(requests, Taken, write_offset)
    /\ \A i \in DOMAIN requests :
         /\ IF requests[i].op = "append" THEN Len(requests[i].data) \in 1..MAX_WRITE_CHUNK_SIZE
                                         ELSE requests[i].data = <<>>
         /\ requests[i].op = "finalize" => i = Len(requests) /\ Finishing
    /\ finalized => requests = <<>> /\ Finishing
    /\ pc = "wait" => requests = <<>> /\ ~open

\* The pending requests stand in order; a finalize is the last of them.
PendingOk ==
    /\ \A i \in DOMAIN pending_requests :
         /\ pending_requests[i].at <= Taken
         /\ pending_requests[i].kind = "finalize" =>
              i = Len(pending_requests) /\ finalized /\ pending_requests[i].at = Taken
    /\ \A i, j \in DOMAIN pending_requests : i <= j => pending_requests[i].at <= pending_requests[j].at
    /\ finalized /\ pending_requests # <<>> => Last(pending_requests).kind = "finalize"

\* The oneshot of the current call is in no request but its own.
OwnOk(x) ==
    /\ x.id <= calls
    /\ call \in {"flush", "finalize", "close"} => x.id < calls
    /\ Awaits /\ x.id = calls => x.at = appended
IdsOk ==
    /\ \A i \in DOMAIN requests : OwnOk(requests[i])
    /\ \A i \in DOMAIN pending_requests : OwnOk(pending_requests[i])

WorkerInv == ~WorkerEnded => ChannelOk /\ PendingOk /\ IdsOk

(***************************************************************************)
(* Part three: the stream and the service.                                 *)
(***************************************************************************)
ObjectOk ==
    /\ IsRun(object, 0) /\ IsRun(received, Len(object))
    /\ Upto <= write_offset /\ (~WorkerEnded => Upto <= Taken)
    /\ final => /\ received = <<>> /\ Len(object) = appended
                /\ call \in {"await finalize", "join"} \cup Ended

ResponsesOk ==
    \A k \in DOMAIN resps :
        /\ HasStatus(resps[k]) => resps[k].size <= Len(object)
        /\ resps[k].final => final /\ resps[k].size = appended

\* The requests of a live stream.
RequestOk(i) ==
    /\ reqs[i].data = Bytes(reqs[i].at, End(reqs[i])) /\ End(reqs[i]) <= Taken
    /\ IF reqs[i].data = <<>> /\ ~reqs[i].finish_write
         THEN reqs[i].at <= Reached(reqs, Upto, i - 1) ELSE reqs[i].at = Reached(reqs, Upto, i - 1)
    /\ reqs[i].finish_write =>
         /\ i = Len(reqs) /\ finalized /\ reqs[i].data = <<>>
         /\ pending_requests # <<>> /\ Last(pending_requests).kind = "finalize"

WireOk ==
    /\ \A i \in DOMAIN reqs : RequestOk(i)
    /\ Reached(reqs, Upto, Len(reqs)) = Taken
    /\ final => reqs = <<>>

StreamInv ==
    /\ ~rejected
    /\ stream # "open" => reqs = <<>>
    /\ pc = "connect" => stream # "open" /\ resps = <<>>
    /\ Live => WireOk
    /\ final /\ ~WorkerEnded => finalized /\ (pending_requests # <<>> \/ persisted_size = appended)

(***************************************************************************)
(* Part four: who is owed a response.                                      *)
(***************************************************************************)
Owed == resps # <<>> \/ \E i \in DOMAIN reqs : reqs[i].state_lookup \/ reqs[i].finish_write

Watermark == Capacity - 2 * MAX_WRITE_CHUNK_SIZE

OwedInv ==
    pc = "run" /\ stream = "open" =>
        /\ self_flush_outstanding => Owed
        /\ pending_requests # <<>> => \/ \E i \in DOMAIN reqs : reqs[i] = RequestOf(Last(pending_requests))
                                      \/ \E k \in DOMAIN resps : is_satisfied(Last(pending_requests), resps[k])
        /\ unpersisted_bytes(replay_buffer) >= Watermark => self_flush_outstanding \/ pending_requests # <<>>

(***************************************************************************)
(* Part five: the budget of the reconnects.                                *)
(***************************************************************************)
BudgetInv ==
    /\ fruitless <= attempt_count
    /\ fruitless # 0 => fruitless < AttemptLimit
    /\ fruitless # 0 /\ ~WorkerEnded => persisted_size <= last_persisted_size

IInv == TypeOK /\ AppInv /\ WorkerInv /\ ObjectOk /\ ResponsesOk /\ StreamInv /\ OwedInv /\ BudgetInv

\* Induction over the natural numbers with the hypothesis given as a set: one
\* that holds 0 and, with every natural number, the next one, holds them all.
LEMMA NatSetInduction ==
    ASSUME NEW T, 0 \in T, \A n \in Nat : n \in T => n + 1 \in T
    PROVE  Nat \subseteq T
<1> DEFINE R   == {ss \in Nat \X Nat : ss[1] < ss[2]}
           Out == Nat \ T
<1>1. IsWellFoundedOn(R, Nat)
  BY NatLessThanWellFounded DEF OpToRel
<1>2. SUFFICES ASSUME Out # {} PROVE FALSE
  OBVIOUS
<1>3. PICK x \in Out : \A y \in Out : ~(<<y, x>> \in R)
  <2>1. Out \subseteq Nat
    OBVIOUS
  <2> HIDE DEF R, Out
  <2> QED BY <1>1, <1>2, <2>1, WFMin, Zenon
<1>4. x # 0 /\ x - 1 \in Nat
  OBVIOUS
<1>5. <<x - 1, x>> \in R
  BY <1>4
<1> QED BY <1>3, <1>4, <1>5

-----------------------------------------------------------------------------
(***************************************************************************)
(* Runs of bytes.                                                          *)
(***************************************************************************)
\* Bytes(m, n) is the sequence m+1 .. n.
LEMMA BytesFacts ==
    ASSUME NEW m \in Nat, NEW n \in Nat, m <= n
    PROVE  /\ Bytes(m, n) \in Seq(Nat) /\ Len(Bytes(m, n)) = n - m
           /\ \A i \in 1..(n - m) : Bytes(m, n)[i] = m + i
<1>1. n - m \in Nat
  OBVIOUS
<1>2. \A i \in 1..(n - m) : m + i \in Nat
  OBVIOUS
<1>3. Bytes(m, n) \in [1..(n - m) -> Nat]
  BY <1>2 DEF Bytes
<1>4. Bytes(m, n) \in Seq(Nat) /\ Len(Bytes(m, n)) = n - m
  BY <1>1, <1>3, IsASeq, LenProperties
<1> QED BY <1>4 DEF Bytes

\* A run, byte by byte.
LEMMA RunFacts ==
    ASSUME NEW s \in Seq(Nat), NEW m \in Nat
    PROVE  IsRun(s, m) <=> \A i \in 1..Len(s) : s[i] = m + i
<1> DEFINE b == Bytes(m, m + Len(s))
<1>0. Len(s) \in Nat /\ m + Len(s) \in Nat /\ m <= m + Len(s) /\ (m + Len(s)) - m = Len(s)
  OBVIOUS
<1>1. b \in Seq(Nat) /\ Len(b) = Len(s) /\ \A i \in 1..Len(s) : b[i] = m + i
  BY <1>0, BytesFacts
<1>2. IsRun(s, m) <=> s = b
  BY DEF IsRun
<1> HIDE DEF b
<1>3. ASSUME \A i \in 1..Len(s) : s[i] = m + i PROVE s = b
  BY <1>1, <1>3, SeqEqual
<1> QED BY <1>1, <1>2, <1>3

\* The bytes between two positions are a run.
LEMMA BytesAreRun ==
    ASSUME NEW m \in Nat, NEW n \in Nat, m <= n
    PROVE  IsRun(Bytes(m, n), m)
<1>1. Bytes(m, n) \in Seq(Nat) /\ Len(Bytes(m, n)) = n - m /\ m + (n - m) = n
  BY BytesFacts
<1> QED BY <1>1 DEF IsRun

\* Two runs, the second starting where the first ends, make one.
LEMMA RunConcat ==
    ASSUME NEW s \in Seq(Nat), NEW t \in Seq(Nat), NEW m \in Nat, IsRun(s, m), IsRun(t, m + Len(s))
    PROVE  s \o t \in Seq(Nat) /\ Len(s \o t) = Len(s) + Len(t) /\ IsRun(s \o t, m)
<1>0. Len(s) \in Nat /\ Len(t) \in Nat /\ m + Len(s) \in Nat
  OBVIOUS
<1>1. s \o t \in Seq(Nat) /\ Len(s \o t) = Len(s) + Len(t)
  BY ConcatProperties
<1>2. \A i \in 1..Len(s) : s[i] = m + i
  BY RunFacts
<1>3. \A i \in 1..Len(t) : t[i] = m + Len(s) + i
  BY <1>0, RunFacts
<1>4. ASSUME NEW i \in 1..Len(s \o t) PROVE (s \o t)[i] = m + i
  <2>1. CASE i <= Len(s)
    BY <1>0, <1>1, <1>2, <2>1, ConcatProperties
  <2>2. CASE i > Len(s)
    <3>1. i - Len(s) \in 1..Len(t)
      BY <1>0, <1>1, <2>2
    <3>2. (s \o t)[i] = t[i - Len(s)]
      BY <1>0, <1>1, <2>2, ConcatProperties
    <3> QED BY <1>0, <1>3, <3>1, <3>2
  <2> QED BY <1>0, <1>1, <2>1, <2>2
<1> QED BY <1>1, <1>4, RunFacts

\* A stretch of a run is a run.
LEMMA RunSubSeq ==
    ASSUME NEW s \in Seq(Nat), NEW m \in Nat, IsRun(s, m), NEW a \in Nat, NEW b \in Nat, a <= b, b <= Len(s)
    PROVE  LET t == SubSeq(s, a + 1, b) IN t \in Seq(Nat) /\ Len(t) = b - a /\ IsRun(t, m + a)
<1> DEFINE t == SubSeq(s, a + 1, b)
<1>1. t \in Seq(Nat) /\ Len(t) = b - a /\ \A i \in 1..(b - a) : t[i] = s[a + i]
  OBVIOUS
<1>2. \A i \in 1..Len(s) : s[i] = m + i
  BY RunFacts
<1>3. PICK k \in Nat : k = m + a
  OBVIOUS
<1>4. \A i \in 1..Len(t) : t[i] = k + i
  BY <1>1, <1>2, <1>3
<1> HIDE DEF t
<1>5. IsRun(t, k)
  BY <1>1, <1>4, RunFacts
<1> QED BY <1>1, <1>3, <1>5 DEF t

\* A run without its first byte is a run.
LEMMA RunTail ==
    ASSUME NEW s \in Seq(Nat), NEW m \in Nat, IsRun(s, m), s # <<>>
    PROVE  Tail(s) \in Seq(Nat) /\ Len(Tail(s)) = Len(s) - 1 /\ IsRun(Tail(s), m + 1)
<1>1. Tail(s) \in Seq(Nat) /\ Len(Tail(s)) = Len(s) - 1 /\ \A i \in 1..Len(Tail(s)) : Tail(s)[i] = s[i + 1]
  OBVIOUS
<1>2. \A i \in 1..Len(s) : s[i] = m + i
  BY RunFacts
<1>3. PICK k \in Nat : k = m + 1
  OBVIOUS
<1>4. \A i \in 1..Len(Tail(s)) : Tail(s)[i] = k + i
  BY <1>1, <1>2, <1>3
<1>5. IsRun(Tail(s), k)
  BY <1>1, <1>4, RunFacts
<1> QED BY <1>1, <1>3, <1>5

\* No bytes are a run from anywhere.
LEMMA EmptyRun == ASSUME NEW m \in Nat PROVE IsRun(<<>>, m)
<1>0. <<>> \in Seq(Nat)
  OBVIOUS
<1>1. PICK s \in Seq(Nat) : s = <<>>
  BY <1>0
<1>2. \A i \in 1..Len(s) : s[i] = m + i
  BY <1>1
<1>3. IsRun(s, m)
  BY <1>2, RunFacts
<1> QED BY <1>1, <1>3

(***************************************************************************)
(* CoalescingBuffer::push.                                                 *)
(***************************************************************************)
LEMMA Division ==
    ASSUME NEW n \in Nat, NEW c \in Nat \ {0}
    PROVE  LET q == n \div c IN q \in Nat /\ q * c \in Nat /\ q * c <= n /\ n < q * c + c
OBVIOUS

\* Multiples of the chunk size, in steps of one chunk.
LEMMA Products ==
    ASSUME NEW q \in Nat, NEW c \in Nat \ {0}, NEW i \in 1..q
    PROVE  /\ (i - 1) * c \in Nat /\ i * c \in Nat /\ i * c = (i - 1) * c + c /\ i * c <= q * c
           /\ (i > 1 => (i - 1) * c = (i - 2) * c + c)
<1>1. (i - 1) * c \in Nat /\ i * c \in Nat /\ i * c = (i - 1) * c + c
  OBVIOUS
<1>2. i * c <= q * c
  <2>1. q - i \in Nat /\ q * c = i * c + (q - i) * c
    OBVIOUS
  <2>2. (q - i) * c \in Nat
    BY <2>1
  <2> QED BY <1>1, <2>1, <2>2
<1>3. i > 1 => (i - 1) * c = (i - 2) * c + c
  OBVIOUS
<1> QED BY <1>1, <1>2, <1>3

\* The chunks that push makes of a run of bytes, and what it leaves.
LEMMA CutFacts ==
    ASSUME NEW s \in Seq(Nat), NEW m \in Nat, IsRun(s, m)
    PROVE  LET C == MAX_WRITE_CHUNK_SIZE  q == Len(s) \div C IN
           /\ Cut(s) \in Seq(Seq(Nat)) /\ Len(Cut(s)) = q /\ q \in Nat /\ q * C \in Nat
           /\ \A i \in 1..q : /\ Len(Cut(s)[i]) = C /\ (i - 1) * C \in Nat /\ (i - 1) * C + C <= q * C
                              /\ IsRun(Cut(s)[i], m + (i - 1) * C)
           /\ Residual(s) \in Seq(Nat) /\ q * C + Len(Residual(s)) = Len(s) /\ Len(Residual(s)) < C
           /\ IsRun(Residual(s), m + q * C)
<1> DEFINE C == MAX_WRITE_CHUNK_SIZE
           q == Len(s) \div C
<1>0. C \in Nat \ {0} /\ Len(s) \in Nat
  BY BidiWriteAssumption
<1>1. q \in Nat /\ q * C \in Nat /\ q * C <= Len(s) /\ Len(s) < q * C + C
  <2> HIDE DEF C
  <2> QED BY <1>0, Division
<1> HIDE DEF q
<1>2. \A i \in 1..q : /\ (i - 1) * C \in Nat /\ i * C \in Nat /\ i * C = (i - 1) * C + C /\ i * C <= q * C
  <2> HIDE DEF C
  <2> QED BY <1>0, <1>1, Products
<1>3. Cut(s) = [i \in 1..q |-> SubSeq(s, (i - 1) * C + 1, i * C)]
  BY DEF Cut, q
<1>4. Residual(s) = SubSeq(s, q * C + 1, Len(s))
  BY DEF Residual, q
<1> HIDE DEF C
<1>5. ASSUME NEW i \in 1..q
      PROVE  LET t == SubSeq(s, (i - 1) * C + 1, i * C) IN
             t \in Seq(Nat) /\ Len(t) = C /\ IsRun(t, m + (i - 1) * C)
  <2>1. PICK a \in Nat : a = (i - 1) * C
    BY <1>2
  <2>2. PICK b \in Nat : b = i * C
    BY <1>2
  <2>3. a <= b /\ b <= Len(s) /\ b - a = C
    BY <1>0, <1>1, <1>2, <2>1, <2>2
  <2>4. LET t == SubSeq(s, a + 1, b) IN t \in Seq(Nat) /\ Len(t) = b - a /\ IsRun(t, m + a)
    BY <2>3, RunSubSeq
  <2> QED BY <2>1, <2>2, <2>3, <2>4
<1>6. /\ Cut(s) \in [1..q -> Seq(Nat)]
      /\ \A i \in 1..q : Cut(s)[i] = SubSeq(s, (i - 1) * C + 1, i * C)
  BY <1>3, <1>5
<1>7. Cut(s) \in Seq(Seq(Nat)) /\ Len(Cut(s)) = q
  BY <1>1, <1>6, IsASeq, LenProperties
<1>8. \A i \in 1..q : /\ Len(Cut(s)[i]) = C /\ (i - 1) * C \in Nat /\ (i - 1) * C + C <= q * C
                      /\ IsRun(Cut(s)[i], m + (i - 1) * C)
  BY <1>2, <1>5, <1>6
<1>9. /\ Residual(s) \in Seq(Nat) /\ q * C + Len(Residual(s)) = Len(s) /\ Len(Residual(s)) < C
      /\ IsRun(Residual(s), m + q * C)
  <2>1. PICK a \in Nat : a = q * C
    BY <1>1
  <2>2. a <= Len(s)
    BY <1>1, <2>1
  <2>3. LET t == SubSeq(s, a + 1, Len(s)) IN t \in Seq(Nat) /\ Len(t) = Len(s) - a /\ IsRun(t, m + a)
    BY <1>0, <2>2, RunSubSeq
  <2>4. Residual(s) \in Seq(Nat) /\ Len(Residual(s)) = Len(s) - a /\ IsRun(Residual(s), m + a)
    BY <1>4, <2>1, <2>3
  <2>5. q * C + Len(Residual(s)) = Len(s) /\ Len(Residual(s)) < C
    BY <1>0, <1>1, <2>1, <2>4
  <2> QED BY <2>1, <2>4, <2>5
<1> QED BY <1>1, <1>7, <1>8, <1>9 DEF C, q

(***************************************************************************)
(* Sequences of chunks and of intents that carry a run of bytes.           *)
(***************************************************************************)
Items(S) == \A x \in S : x.at \in Nat /\ x.data \in Seq(Nat)

\* Chunks, intents and requests all have an offset and data.
LEMMA ItemTypes == Items(Chunks) /\ Items(Intents) /\ Items(Requests)
BY BidiWriteAssumption DEF Items, Chunks, Intents, Requests, Offsets

\* The offset, data and end of a member of such a sequence.
LEMMA ItemFacts ==
    ASSUME NEW S, Items(S), NEW s \in Seq(S), NEW i \in DOMAIN s
    PROVE  /\ i \in 1..Len(s) /\ s[i] \in S /\ s[i].at \in Nat /\ s[i].data \in Seq(Nat) /\ Len(s[i].data) \in Nat
           /\ End(s[i]) \in Nat /\ End(s[i]) = s[i].at + Len(s[i].data) /\ s[i].at <= End(s[i])
<1>1. i \in 1..Len(s) /\ s[i] \in S
  OBVIOUS
<1>2. s[i].at \in Nat /\ s[i].data \in Seq(Nat) /\ Len(s[i].data) \in Nat
  BY <1>1 DEF Items
<1> QED BY <1>1, <1>2 DEF End

\* The chunks stand in order.
LEMMA CarriesOrder ==
    ASSUME NEW S, Items(S), NEW s \in Seq(S), NEW m \in Nat, NEW n \in Nat, Carries(s, m, n)
    PROVE  /\ m <= n
           /\ \A i \in DOMAIN s : m <= s[i].at /\ End(s[i]) <= n
           /\ \A i, j \in DOMAIN s : i < j => End(s[i]) <= s[j].at
<1> DEFINE T == {k \in Nat : \A i \in DOMAIN s : i + k + 1 \in DOMAIN s => End(s[i]) <= s[i + k + 1].at}
<1>0. DOMAIN s = 1..Len(s) /\ Len(s) \in Nat
  OBVIOUS
<1>1. \A i \in DOMAIN s : s[i].at \in Nat /\ End(s[i]) \in Nat /\ s[i].at <= End(s[i])
  BY ItemFacts
<1>2. \A i \in DOMAIN s : i + 1 \in DOMAIN s => s[i + 1].at = End(s[i])
  <2>1. ASSUME NEW i \in DOMAIN s, i + 1 \in DOMAIN s PROVE s[i + 1].at = End(s[i])
    <3>1. i + 1 \in 2..Len(s) /\ (i + 1) - 1 = i /\ s # <<>>
      BY <1>0, <2>1
    <3> QED BY <3>1 DEF Carries
  <2> QED BY <2>1
<1>3. 0 \in T
  BY <1>0, <1>1, <1>2
<1>4. ASSUME NEW k \in Nat, k \in T PROVE k + 1 \in T
  <2>1. ASSUME NEW i \in DOMAIN s, i + (k + 1) + 1 \in DOMAIN s PROVE End(s[i]) <= s[i + (k + 1) + 1].at
    <3>1. i + k + 1 \in DOMAIN s /\ (i + k + 1) + 1 = i + (k + 1) + 1
      BY <1>0, <2>1
    <3>2. End(s[i]) <= s[i + k + 1].at
      BY <1>4, <3>1
    <3>3. s[i + (k + 1) + 1].at = End(s[i + k + 1])
      BY <1>2, <2>1, <3>1
    <3> QED BY <1>1, <2>1, <3>1, <3>2, <3>3, SMTT(30)
  <2> QED BY <2>1
<1>5. Nat \subseteq T
  <2> HIDE DEF T
  <2> QED BY <1>3, <1>4, NatSetInduction
<1>6. ASSUME NEW i \in DOMAIN s, NEW j \in DOMAIN s, i < j PROVE End(s[i]) <= s[j].at
  <2>1. j - i - 1 \in Nat /\ i + (j - i - 1) + 1 = j
    BY <1>0, <1>6
  <2>2. j - i - 1 \in T
    BY <1>5, <2>1
  <2> QED BY <2>1, <2>2
<1>7. ASSUME NEW i \in DOMAIN s PROVE m <= s[i].at /\ End(s[i]) <= n
  <2>1. s # <<>> /\ 1 \in DOMAIN s /\ Len(s) \in DOMAIN s /\ s[1].at = m /\ End(s[Len(s)]) = n
    BY <1>0 DEF Carries
  <2>2. m <= s[i].at
    BY <1>0, <1>1, <1>6, <2>1
  <2>3. End(s[i]) <= n
    BY <1>0, <1>1, <1>6, <2>1
  <2> QED BY <2>2, <2>3
<1>8. m <= n
  <2>1. CASE s = <<>>
    BY <2>1 DEF Carries
  <2>2. CASE s # <<>>
    <3>1. 1 \in DOMAIN s
      BY <1>0, <2>2
    <3> QED BY <1>1, <1>7, <3>1
  <2> QED BY <2>1, <2>2
<1> QED BY <1>6, <1>7, <1>8

\* No items carry no bytes.
LEMMA CarriesNone ==
    ASSUME NEW s, NEW m, NEW n, s = <<>>
    PROVE  Carries(s, m, n) <=> m = n
BY DEF Carries

\* What each item carries is a run at its offset.
LEMMA CarriesItem ==
    ASSUME NEW S, Items(S), NEW s \in Seq(S), NEW m \in Nat, NEW n \in Nat, Carries(s, m, n), NEW i \in DOMAIN s
    PROVE  IsRun(s[i].data, s[i].at)
<1>1. s # <<>> /\ s[i].data = Bytes(s[i].at, End(s[i]))
  BY DEF Carries
<1> QED BY <1>1 DEF End, IsRun

\* A chunk that continues them may follow.
LEMMA CarriesAppend ==
    ASSUME NEW S, Items(S), NEW s \in Seq(S), NEW m \in Nat, NEW n \in Nat, Carries(s, m, n),
           NEW x \in S, x.at = n, IsRun(x.data, n)
    PROVE  Carries(Append(s, x), m, End(x))
<1> DEFINE t == Append(s, x)
<1>1. /\ t \in Seq(S) /\ Len(t) = Len(s) + 1 /\ Len(s) \in Nat /\ t # <<>> /\ t[Len(t)] = x
      /\ \A i \in 1..Len(s) : t[i] = s[i]
  OBVIOUS
<1> HIDE DEF t
<1>2. x.data = Bytes(x.at, End(x))
  BY DEF IsRun, End
<1>3. CASE s = <<>>
  <2>1. Len(s) = 0 /\ Len(t) = 1 /\ m = n
    BY <1>1, <1>3 DEF Carries
  <2>2. t[1] = x /\ DOMAIN t = {1} /\ 2..Len(t) = {}
    BY <1>1, <2>1
  <2> QED BY <1>1, <1>2, <2>1, <2>2 DEF Carries, t
<1>4. CASE s # <<>>
  <2>1. /\ 1 \in 1..Len(s) /\ Len(s) \in 1..Len(s) /\ s[1].at = m /\ End(s[Len(s)]) = n
        /\ \A i \in 1..Len(s) : s[i].data = Bytes(s[i].at, End(s[i]))
        /\ \A i \in 2..Len(s) : s[i].at = End(s[i - 1])
    BY <1>1, <1>4 DEF Carries
  <2>2. t[1].at = m /\ End(t[Len(t)]) = End(x)
    BY <1>1, <2>1
  <2>3. ASSUME NEW i \in DOMAIN t PROVE t[i].data = Bytes(t[i].at, End(t[i]))
    BY <1>1, <1>2, <2>1
  <2>4. ASSUME NEW i \in 2..Len(t) PROVE t[i].at = End(t[i - 1])
    <3>1. CASE i = Len(t)
      BY <1>1, <2>1, <3>1
    <3>2. CASE i # Len(t)
      <4>1. i \in 2..Len(s) /\ i \in 1..Len(s) /\ i - 1 \in 1..Len(s)
        BY <1>1, <3>2
      <4> QED BY <1>1, <2>1, <4>1
    <3> QED BY <3>1, <3>2
  <2> QED BY <1>1, <2>2, <2>3, <2>4 DEF Carries, t
<1> QED BY <1>3, <1>4

\* What is left when the first one is taken.
LEMMA CarriesTail ==
    ASSUME NEW S, Items(S), NEW s \in Seq(S), NEW m \in Nat, NEW n \in Nat, Carries(s, m, n), s # <<>>
    PROVE  /\ s[1].at = m /\ Carries(Tail(s), End(s[1]), n)
           /\ Tail(s) # <<>> => Tail(s)[1].at = End(s[1])
           /\ Tail(s) = <<>> => End(s[1]) = n
<1> DEFINE t == Tail(s)
<1>1. /\ t \in Seq(S) /\ Len(t) = Len(s) - 1 /\ Len(s) \in Nat /\ Len(s) >= 1
      /\ \A i \in 1..Len(t) : t[i] = s[i + 1]
  OBVIOUS
<1> HIDE DEF t
<1>2. /\ s[1].at = m /\ End(s[Len(s)]) = n
      /\ \A i \in 1..Len(s) : s[i].data = Bytes(s[i].at, End(s[i]))
      /\ \A i \in 2..Len(s) : s[i].at = End(s[i - 1])
  <2>1. DOMAIN s = 1..Len(s)
    OBVIOUS
  <2> QED BY <2>1 DEF Carries
<1>3. CASE t = <<>>
  <2>1. Len(s) = 1
    BY <1>1, <1>3
  <2> QED BY <1>2, <1>3, <2>1 DEF Carries, t
<1>4. CASE t # <<>>
  <2>1. Len(t) >= 1 /\ 1 \in 1..Len(t) /\ Len(t) \in 1..Len(t) /\ Len(s) \in 2..Len(s) /\ 2 \in 2..Len(s)
    BY <1>1, <1>4
  <2>2. t[1] = s[2] /\ t[Len(t)] = s[Len(s)]
    BY <1>1, <2>1
  <2>3. t[1].at = End(s[1])
    BY <1>2, <2>1, <2>2
  <2>4. ASSUME NEW i \in DOMAIN t PROVE t[i].data = Bytes(t[i].at, End(t[i]))
    <3>1. i \in 1..Len(t) /\ i + 1 \in 1..Len(s)
      BY <1>1
    <3> QED BY <1>1, <1>2, <3>1
  <2>5. ASSUME NEW i \in 2..Len(t) PROVE t[i].at = End(t[i - 1])
    <3>1. i + 1 \in 2..Len(s) /\ i \in 1..Len(t) /\ i - 1 \in 1..Len(t) /\ (i + 1) - 1 = i /\ (i - 1) + 1 = i
      BY <1>1
    <3> QED BY <1>1, <1>2, <3>1
  <2> QED BY <1>2, <1>4, <2>2, <2>3, <2>4, <2>5 DEF Carries, t
<1> QED BY <1>3, <1>4

(***************************************************************************)
(* ReplayBuffer::ack.                                                      *)
(***************************************************************************)
LEMMA LongestPrefixFacts ==
    ASSUME NEW n \in Nat, NEW good
    PROVE  LET k == LongestPrefix(n, good) IN k \in 0..n /\ 1..k \subseteq good /\ (k < n => k + 1 \notin good)
<1> DEFINE P(j, k) == 1..k \subseteq good /\ (k < j => k + 1 \notin good)
           T == {j \in Nat : \E k \in 0..j : P(j, k)}
<1>1. 0 \in T
  BY 0 \in 0..0 /\ 1..0 = {}
<1>2. ASSUME NEW j \in Nat, j \in T PROVE j + 1 \in T
  <2>1. PICK k \in 0..j : P(j, k)
    BY <1>2
  <2>2. CASE k < j \/ k + 1 \notin good
    <3>1. k \in 0..(j + 1) /\ P(j + 1, k)
      BY <2>1, <2>2
    <3> QED BY <3>1
  <2>3. CASE k = j /\ k + 1 \in good
    <3>1. k + 1 \in 0..(j + 1) /\ 1..(k + 1) = 1..k \cup {k + 1} /\ ~(k + 1 < j + 1)
      BY <2>3
    <3>2. P(j + 1, k + 1)
      BY <2>1, <2>3, <3>1
    <3> QED BY <3>1, <3>2
  <2> QED BY <2>1, <2>2, <2>3
<1>3. n \in T
  <2> HIDE DEF T
  <2> QED BY <1>1, <1>2, NatSetInduction
<1>4. \E k \in 0..n : P(n, k)
  BY <1>3
<1> QED BY <1>4 DEF LongestPrefix

\* What remains carries exactly the bytes after p.
LEMMA AckFacts ==
    ASSUME NEW b \in Seq(Chunks), NEW m \in Nat, NEW n \in Nat, Carries(b, m, n), NEW p \in Offsets, m <= p, p <= n,
           \A i \in DOMAIN b : Len(b[i].data) \in 1..MAX_WRITE_CHUNK_SIZE
    PROVE  /\ ack(b, p) \in Seq(Chunks) /\ Carries(ack(b, p), p, n)
           /\ \A i \in DOMAIN ack(b, p) : Len(ack(b, p)[i].data) \in 1..MAX_WRITE_CHUNK_SIZE
<1> DEFINE good == {i \in DOMAIN b : End(b[i]) <= p}
           k == LongestPrefix(Len(b), good)
           t == SubSeq(b, k + 1, Len(b))
<1>0. /\ DOMAIN b = 1..Len(b) /\ Len(b) \in Nat /\ p \in Nat /\ Items(Chunks)
      /\ MAX_WRITE_CHUNK_SIZE \in Nat
  BY ItemTypes, BidiWriteAssumption DEF Offsets
<1>1. k \in 0..Len(b) /\ 1..k \subseteq good /\ (k < Len(b) => k + 1 \notin good)
  <2> HIDE DEF good
  <2> QED BY <1>0, LongestPrefixFacts
<1>2. ack(b, p) = IF t # <<>> /\ t[1].at < p
                    THEN [t EXCEPT ![1] = Chunk(p, SubSeq(t[1].data, p - t[1].at + 1, Len(t[1].data)))]
                    ELSE t
  BY DEF ack
<1> HIDE DEF k
<1>3. \A i \in DOMAIN b : /\ b[i].at \in Nat /\ b[i].data \in Seq(Nat) /\ Len(b[i].data) \in Nat
                          /\ End(b[i]) = b[i].at + Len(b[i].data) /\ IsRun(b[i].data, b[i].at)
  BY <1>0, ItemFacts, CarriesItem
<1>4. CASE k = Len(b)
  <2>1. t = <<>>
    BY <1>0, <1>4
  <2>2. p = n
    <3>1. CASE b = <<>>
      BY <1>0, <3>1 DEF Carries
    <3>2. CASE b # <<>>
      <4>1. Len(b) \in DOMAIN b /\ Len(b) \in 1..k
        BY <1>0, <1>4, <3>2
      <4>2. End(b[Len(b)]) <= p /\ End(b[Len(b)]) = n
        BY <1>1, <3>2, <4>1 DEF Carries
      <4> QED BY <1>0, <4>2
    <3> QED BY <3>1, <3>2
  <2>3. ack(b, p) = <<>>
    BY <1>2, <2>1
  <2> QED BY <2>2, <2>3 DEF Carries
<1>5. CASE k < Len(b)
  <2>1. /\ k + 1 \in DOMAIN b /\ End(b[k + 1]) > p /\ k \in Nat
    <3>1. k + 1 \in DOMAIN b /\ ~(End(b[k + 1]) <= p) /\ k \in Nat
      BY <1>0, <1>1, <1>5
    <3>2. End(b[k + 1]) \in Nat
      BY <1>3, <3>1, SMTT(30)
    <3> QED BY <1>0, <3>1, <3>2
  <2>2. /\ t \in Seq(Chunks) /\ Len(t) = Len(b) - k /\ Len(t) >= 1 /\ t # <<>> /\ DOMAIN t = 1..Len(t)
        /\ \A i \in 1..Len(t) : t[i] = b[k + i] /\ k + i \in DOMAIN b
    BY <1>0, <1>5, <2>1
  <2>3. t[1] = b[k + 1] /\ t[Len(t)] = b[Len(b)]
    BY <1>0, <2>1, <2>2
  <2> HIDE DEF t
  <2>4. t[1].at <= p
    <3>1. CASE k = 0
      BY <1>0, <2>1, <2>3, <3>1 DEF Carries
    <3>2. CASE k # 0
      <4>1. k \in 1..k /\ k + 1 \in 2..Len(b) /\ (k + 1) - 1 = k /\ b # <<>>
        BY <1>0, <2>1, <3>2
      <4>2. b[k + 1].at = End(b[k])
        BY <4>1 DEF Carries
      <4> QED BY <1>1, <2>3, <4>1, <4>2
    <3> QED BY <3>1, <3>2
  <2>5. /\ \A i \in 2..Len(t) : t[i].at = End(t[i - 1])
        /\ End(t[Len(t)]) = n
        /\ \A i \in 1..Len(t) : t[i].data = Bytes(t[i].at, End(t[i]))
    <3>1. ASSUME NEW i \in 2..Len(t) PROVE t[i].at = End(t[i - 1])
      <4>1. i \in 1..Len(t) /\ i - 1 \in 1..Len(t) /\ k + i \in 2..Len(b) /\ (k + i) - 1 = k + (i - 1) /\ b # <<>>
        BY <1>0, <2>1, <2>2
      <4>2. b[k + i].at = End(b[k + (i - 1)])
        BY <4>1 DEF Carries
      <4> QED BY <2>2, <4>1, <4>2
    <3>2. End(t[Len(t)]) = n
      <4>1. b # <<>>
        BY <1>0, <2>1
      <4> QED BY <2>3, <4>1 DEF Carries
    <3>3. ASSUME NEW i \in 1..Len(t) PROVE t[i].data = Bytes(t[i].at, End(t[i]))
      <4>1. b # <<>> /\ k + i \in DOMAIN b
        BY <1>0, <2>2
      <4>2. b[k + i].data = Bytes(b[k + i].at, End(b[k + i]))
        BY <4>1 DEF Carries
      <4> QED BY <2>2, <4>2
    <3> QED BY <3>1, <3>2, <3>3
  <2>6. CASE ~(t[1].at < p)
    <3>1. t[1].at = p
      BY <1>0, <1>3, <2>1, <2>3, <2>4, <2>6
    <3>2. ack(b, p) = t
      BY <1>2, <2>6
    <3>3. Carries(t, p, n)
      BY <2>2, <2>5, <3>1 DEF Carries
    <3>4. \A i \in DOMAIN t : Len(t[i].data) \in 1..MAX_WRITE_CHUNK_SIZE
      BY <2>2
    <3> QED BY <2>2, <3>2, <3>3, <3>4
  <2>7. CASE t[1].at < p
    <3> DEFINE d == SubSeq(t[1].data, p - t[1].at + 1, Len(t[1].data))
               c == Chunk(p, d)
               u == [t EXCEPT ![1] = c]
    <3>1. /\ t[1].at \in Nat /\ t[1].data \in Seq(Nat) /\ Len(t[1].data) \in 1..MAX_WRITE_CHUNK_SIZE
          /\ End(t[1]) = t[1].at + Len(t[1].data) /\ IsRun(t[1].data, t[1].at) /\ End(t[1]) > p
      BY <1>3, <2>1, <2>3
    <3>2. PICK w \in Seq(Nat) : w = t[1].data
      BY <3>1
    <3>3. PICK a \in Nat : a = t[1].at
      BY <3>1
    <3>3a. Len(w) \in Nat /\ Len(w) <= MAX_WRITE_CHUNK_SIZE /\ a < p /\ a + Len(w) > p /\ IsRun(w, a) /\ End(t[1]) = a + Len(w)
      BY <2>7, <3>1, <3>2, <3>3
    <3>3b. PICK x \in Nat : x = p - a
      BY <1>0, <3>3a
    <3>3c. x <= Len(w) /\ a + x = p
      BY <1>0, <3>3a, <3>3b
    <3>3d. d = SubSeq(w, x + 1, Len(w))
      BY <3>2, <3>3, <3>3b
    <3>4. d \in Seq(Nat) /\ Len(d) = Len(w) - x /\ IsRun(d, p)
      <4>1. LET y == SubSeq(w, x + 1, Len(w)) IN y \in Seq(Nat) /\ Len(y) = Len(w) - x /\ IsRun(y, a + x)
        BY <3>3a, <3>3c, RunSubSeq
      <4> QED BY <3>3c, <3>3d, <4>1
    <3> HIDE DEF d
    <3>5. c \in Chunks /\ c.at = p /\ c.data = d /\ Len(d) \in 1..MAX_WRITE_CHUNK_SIZE /\ IsRun(d, p) /\ End(c) = End(t[1])
      <4>1. c = [at |-> p, data |-> d]
        BY DEF Chunk
      <4>2. Len(d) \in 1..MAX_WRITE_CHUNK_SIZE
        BY <1>0, <3>3a, <3>3b, <3>4
      <4>3. p + Len(d) = End(t[1])
        BY <1>0, <3>3a, <3>3b, <3>4
      <4>4. c \in Chunks
        BY <3>4, <4>1 DEF Chunks
      <4> QED BY <3>4, <4>1, <4>2, <4>3, <4>4 DEF End
    <3>6. c.data = Bytes(c.at, End(c))
      BY <3>5 DEF IsRun, End
    <3>7. ack(b, p) = u
      BY <1>2, <2>2, <2>7 DEF d
    <3> HIDE DEF c
    <3>8. /\ u \in Seq(Chunks) /\ Len(u) = Len(t) /\ u # <<>> /\ DOMAIN u = 1..Len(t) /\ u[1] = c
          /\ \A i \in 2..Len(t) : u[i] = t[i]
      BY <2>2, <3>5
    <3> HIDE DEF u
    <3>9. u[1].at = p /\ End(u[Len(u)]) = n
      <4>1. CASE Len(t) = 1
        BY <2>5, <3>5, <3>8, <4>1
      <4>2. CASE Len(t) > 1
        <5>1. Len(t) \in 2..Len(t)
          BY <2>2, <4>2
        <5> QED BY <2>5, <3>5, <3>8, <5>1
      <4> QED BY <2>2, <4>1, <4>2
    <3>10. ASSUME NEW i \in DOMAIN u PROVE u[i].data = Bytes(u[i].at, End(u[i])) /\ Len(u[i].data) \in 1..MAX_WRITE_CHUNK_SIZE
      <4>1. CASE i = 1
        BY <3>5, <3>6, <3>8, <4>1
      <4>2. CASE i # 1
        <5>1. i \in 2..Len(t) /\ i \in 1..Len(t)
          BY <3>8, <4>2
        <5> QED BY <2>2, <2>5, <3>8, <5>1
      <4> QED BY <4>1, <4>2
    <3>11. ASSUME NEW i \in 2..Len(u) PROVE u[i].at = End(u[i - 1])
      <4>1. CASE i = 2
        BY <2>5, <3>5, <3>8, <4>1
      <4>2. CASE i # 2
        <5>1. i \in 2..Len(t) /\ i - 1 \in 2..Len(t)
          BY <3>8, <4>2
        <5> QED BY <2>5, <3>8, <5>1
      <4> QED BY <4>1, <4>2
    <3>12. Carries(u, p, n)
      BY <3>8, <3>9, <3>10, <3>11 DEF Carries
    <3> QED BY <3>7, <3>8, <3>10, <3>12
  <2> QED BY <2>6, <2>7
<1> QED BY <1>1, <1>4, <1>5

(***************************************************************************)
(* How far the requests on a stream get.                                   *)
(***************************************************************************)
\* The last of the first n requests that carries data.
IsLastData(s, n, j) == j \in 1..n /\ s[j].data # <<>> /\ \A k \in (j + 1)..n : s[k].data = <<>>
NoData(s, n) == \A k \in 1..n : s[k].data = <<>>

\* Requests without data do not advance the upload.
LEMMA ReachedNone ==
    ASSUME NEW s, NEW m, NEW n \in Nat, NoData(s, n)
    PROVE  Reached(s, m, n) = m
BY DEF Reached, NoData

\* The upload is advanced to the end of the last request with data.
LEMMA ReachedAt ==
    ASSUME NEW s, NEW m, NEW n \in Nat, NEW j, IsLastData(s, n, j)
    PROVE  Reached(s, m, n) = End(s[j])
<1> DEFINE D == {i \in 1..n : s[i].data # <<>>}
           c == CHOOSE i \in D : \A l \in D : l <= i
<1>1. j \in D /\ \A l \in D : l <= j
  BY DEF IsLastData
<1>2. c \in D /\ \A l \in D : l <= c
  BY <1>1
<1>3. c = j
  BY <1>1, <1>2
<1>4. D # {} /\ Reached(s, m, n) = End(s[c])
  BY <1>1 DEF Reached
<1> QED BY <1>3, <1>4

\* Either none of the first n requests has data, or one is the last that does.
LEMMA ReachedCases ==
    ASSUME NEW s, NEW n \in Nat
    PROVE  NoData(s, n) \/ \E j \in 1..n : IsLastData(s, n, j)
<1> DEFINE T == {i \in Nat : NoData(s, i) \/ \E j \in 1..i : IsLastData(s, i, j)}
<1>1. 0 \in T
  BY DEF NoData
<1>2. ASSUME NEW i \in Nat, i \in T PROVE i + 1 \in T
  <2>1. CASE s[i + 1].data # <<>>
    <3>1. i + 1 \in 1..(i + 1) /\ IsLastData(s, i + 1, i + 1)
      BY <2>1 DEF IsLastData
    <3> QED BY <3>1
  <2>2. CASE s[i + 1].data = <<>> /\ NoData(s, i)
    <3>1. NoData(s, i + 1)
      BY <2>2 DEF NoData
    <3> QED BY <3>1
  <2>3. CASE s[i + 1].data = <<>> /\ \E j \in 1..i : IsLastData(s, i, j)
    <3>1. PICK j \in 1..i : IsLastData(s, i, j)
      BY <2>3
    <3>2. j \in 1..(i + 1) /\ IsLastData(s, i + 1, j)
      BY <2>3, <3>1 DEF IsLastData
    <3> QED BY <3>2
  <2> QED BY <1>2, <2>1, <2>2, <2>3
<1>3. n \in T
  <2> HIDE DEF T
  <2> QED BY <1>1, <1>2, NatSetInduction
<1> QED BY <1>3

\* One request more.
LEMMA ReachedNext ==
    ASSUME NEW s, NEW m, NEW n \in Nat
    PROVE  Reached(s, m, n + 1) = IF s[n + 1].data # <<>> THEN End(s[n + 1]) ELSE Reached(s, m, n)
<1>0. n + 1 \in Nat
  OBVIOUS
<1>1. CASE s[n + 1].data # <<>>
  <2>1. IsLastData(s, n + 1, n + 1)
    BY <1>1 DEF IsLastData
  <2> QED BY <1>0, <1>1, <2>1, ReachedAt
<1>2. CASE s[n + 1].data = <<>> /\ NoData(s, n)
  <2>1. NoData(s, n + 1)
    BY <1>2 DEF NoData
  <2> QED BY <1>0, <1>2, <2>1, ReachedNone
<1>3. CASE s[n + 1].data = <<>> /\ \E j \in 1..n : IsLastData(s, n, j)
  <2>1. PICK j \in 1..n : IsLastData(s, n, j)
    BY <1>3
  <2>2. IsLastData(s, n + 1, j)
    BY <1>3, <2>1 DEF IsLastData
  <2>3. Reached(s, m, n) = End(s[j]) /\ Reached(s, m, n + 1) = End(s[j])
    BY <1>0, <2>1, <2>2, ReachedAt
  <2> QED BY <1>3, <2>3
<1> QED BY <1>1, <1>2, <1>3, ReachedCases

\* It depends on those requests only.
LEMMA ReachedSame ==
    ASSUME NEW s, NEW t, NEW m, NEW n \in Nat, \A i \in 1..n : s[i] = t[i]
    PROVE  Reached(s, m, n) = Reached(t, m, n)
<1>1. CASE NoData(s, n)
  <2>1. NoData(t, n)
    BY <1>1 DEF NoData
  <2> QED BY <1>1, <2>1, ReachedNone
<1>2. CASE \E j \in 1..n : IsLastData(s, n, j)
  <2>1. PICK j \in 1..n : IsLastData(s, n, j)
    BY <1>2
  <2>2. IsLastData(t, n, j)
    BY <2>1 DEF IsLastData
  <2>3. Reached(s, m, n) = End(s[j]) /\ Reached(t, m, n) = End(t[j])
    BY <2>1, <2>2, ReachedAt
  <2> QED BY <2>3
<1> QED BY <1>1, <1>2, ReachedCases

\* No requests reach where they start.
LEMMA ReachedStart == ASSUME NEW s, NEW m PROVE Reached(s, m, 0) = m
BY ReachedNone DEF NoData

\* When the service has taken the first request.
LEMMA ReachedTail ==
    ASSUME NEW s \in Seq(Requests), NEW m, s # <<>>, NEW n \in Nat, n < Len(s)
    PROVE  Reached(Tail(s), Reached(s, m, 1), n) = Reached(s, m, n + 1)
<1> DEFINE t == Tail(s)
           f == Reached(s, m, 1)
<1>1. \A i \in 1..n : t[i] = s[i + 1]
  OBVIOUS
<1>2. n + 1 \in Nat
  OBVIOUS
<1> HIDE DEF t, f
<1>3. CASE NoData(t, n)
  <2>1. \A k \in 2..(n + 1) : s[k].data = <<>>
    <3>1. ASSUME NEW k \in 2..(n + 1) PROVE s[k].data = <<>>
      <4>1. k - 1 \in 1..n /\ (k - 1) + 1 = k
        OBVIOUS
      <4> QED BY <1>1, <1>3, <4>1 DEF NoData
    <3> QED BY <3>1
  <2>2. Reached(t, f, n) = f
    BY <1>3, ReachedNone
  <2>3. CASE s[1].data # <<>>
    <3>1. IsLastData(s, n + 1, 1) /\ IsLastData(s, 1, 1)
      BY <2>1, <2>3 DEF IsLastData
    <3>2. Reached(s, m, n + 1) = End(s[1]) /\ Reached(s, m, 1) = End(s[1])
      BY <1>2, <3>1, ReachedAt
    <3> QED BY <2>2, <3>2 DEF f, t
  <2>4. CASE s[1].data = <<>>
    <3>1. NoData(s, n + 1) /\ NoData(s, 1)
      BY <2>1, <2>4 DEF NoData
    <3>2. Reached(s, m, n + 1) = m /\ Reached(s, m, 1) = m
      BY <1>2, <3>1, ReachedNone
    <3> QED BY <2>2, <3>2 DEF f, t
  <2> QED BY <2>3, <2>4
<1>4. CASE \E j \in 1..n : IsLastData(t, n, j)
  <2>1. PICK j \in 1..n : IsLastData(t, n, j)
    BY <1>4
  <2>2. t[j] = s[j + 1]
    BY <1>1
  <2>3. ASSUME NEW k \in (j + 2)..(n + 1) PROVE s[k].data = <<>>
    <3>1. k - 1 \in (j + 1)..n /\ k - 1 \in 1..n /\ (k - 1) + 1 = k
      OBVIOUS
    <3> QED BY <1>1, <2>1, <3>1 DEF IsLastData
  <2>4. IsLastData(s, n + 1, j + 1)
    BY <2>1, <2>2, <2>3 DEF IsLastData
  <2>5. Reached(t, f, n) = End(t[j])
    BY <2>1, ReachedAt
  <2>6. Reached(s, m, n + 1) = End(s[j + 1])
    BY <1>2, <2>4, ReachedAt
  <2> QED BY <2>2, <2>5, <2>6 DEF f, t
<1> QED BY <1>3, <1>4, ReachedCases DEF f, t

-----------------------------------------------------------------------------
(***************************************************************************)
(* The application's steps.                                                *)
(***************************************************************************)
\* What every step of the application leaves alone.
AppLeaves == UNCHANGED <<workerSide, stream, reqs, resps, service>> /\ Taken' = Taken /\ (final => appended' = appended)

\* A step that leaves the stream, the object and the channel alone keeps WireOk.
LEMMA WireFrame ==
    ASSUME WireOk, UNCHANGED <<reqs, object, received, finalized, pending_requests, final>>, Taken' = Taken
    PROVE  WireOk'
<1>1. Upto' = Upto
  BY DEF Upto
<1>2. \A i : Reached(reqs', Upto', i) = Reached(reqs, Upto, i)
  BY <1>1
<1>3. ASSUME NEW i \in DOMAIN reqs, RequestOk(i) PROVE RequestOk(i)'
  BY <1>2, <1>3 DEF RequestOk
<1>4. Len(reqs)' = Len(reqs)
  OBVIOUS
<1> QED BY <1>2, <1>3, <1>4 DEF WireOk

\* The three calls that wait for an answer.
LEMMA AwaitSet ==
    {Awaiting[c] : c \in DOMAIN Awaiting} = {"await flush", "await finalize", "await close"}
<1>1. DOMAIN Awaiting = {"flush", "finalize", "close"}
  BY DEF Awaiting
<1>2. /\ Awaiting["flush"] = "await flush" /\ Awaiting["finalize"] = "await finalize"
      /\ Awaiting["close"] = "await close"
  BY DEF Awaiting
<1> QED BY <1>1, <1>2

\* What a dropped call leaves of the log: the bytes sent, and the coalescing buffer.
LEMMA KeptFacts ==
    ASSUME TypeOK, CoalescingOk, LogOk
    PROVE  LET kept == SubSeq(log, 1, write_offset)
                         \o [i \in DOMAIN coalescing_buffer |-> log[coalescing_buffer[i]]] IN
           /\ kept \in Seq(Nat) /\ Len(kept) = write_offset + Len(coalescing_buffer)
           /\ kept = Object!Without(log, write_offset, appended - Len(coalescing_buffer))
<1>1. PICK k \in Nat : k = Len(coalescing_buffer)
  BY DEF TypeOK
<1>2. PICK w \in Nat : w = write_offset
  BY DEF TypeOK, Offsets
<1>3. PICK a \in Nat : a = appended - k /\ appended = a + k /\ w <= a
  <2>1. appended \in Nat /\ w + k <= appended
    BY <1>1, <1>2 DEF TypeOK, Offsets, CoalescingOk
  <2> QED BY <2>1
<1>4. log \in Seq(Nat) /\ Len(log) = a + k
  BY <1>3 DEF TypeOK, LogOk
<1>5. DOMAIN coalescing_buffer = 1..k /\ \A i \in 1..k : coalescing_buffer[i] = a + i
  <2>1. coalescing_buffer \in Seq(Nat) /\ IsRun(coalescing_buffer, a)
    BY <1>1, <1>3 DEF TypeOK, CoalescingOk
  <2> QED BY <1>1, <2>1, RunFacts
<1> DEFINE head == SubSeq(log, 1, w)
           tail == [i \in DOMAIN coalescing_buffer |-> log[coalescing_buffer[i]]]
           rest == SubSeq(log, a + 1, Len(log))
<1>6. head \in Seq(Nat) /\ Len(head) = w
  BY <1>3, <1>4
<1>7. tail \in Seq(Nat) /\ Len(tail) = k
  <2>1. tail = [i \in 1..k |-> log[a + i]]
    BY <1>5
  <2>2. \A i \in 1..k : log[a + i] \in Nat
    BY <1>4
  <2> QED BY <2>1, <2>2
<1>8. rest \in Seq(Nat) /\ Len(rest) = k /\ \A i \in 1..k : rest[i] = log[a + i]
  <2>1. rest \in Seq(Nat)
    BY <1>4
  <2>2. Len(rest) = k
    BY <1>4
  <2>3. \A i \in 1..k : rest[i] = log[a + i]
    BY <1>4
  <2> QED BY <2>1, <2>2, <2>3
<1>9. tail = rest
  <2>1. \A i \in 1..k : tail[i] = rest[i]
    BY <1>5, <1>8
  <2> HIDE DEF tail, rest
  <2> QED BY <1>7, <1>8, <2>1, SeqEqual
<1> HIDE DEF head, tail, rest
<1>10. head \o tail \in Seq(Nat) /\ Len(head \o tail) = w + k
  BY <1>6, <1>7
<1> QED BY <1>1, <1>2, <1>3, <1>9, <1>10 DEF Object!Without, head, tail, rest

\* A step of the application has only its own part of the invariant to show.
LEMMA AppFrame ==
    ASSUME IInv, AppLeaves, TypeOK', AppInv', WorkerInv', ObjectOk'
    PROVE  IInv'
<1>1. /\ TypeOK /\ ResponsesOk /\ StreamInv /\ OwedInv /\ BudgetInv
  BY DEF IInv
<1>2. /\ UNCHANGED <<pc, replay_buffer, pending_requests, persisted_size, finalized, self_flush_outstanding>>
      /\ UNCHANGED <<attempt_count, last_persisted_size, fruitless>>
      /\ UNCHANGED <<stream, reqs, resps, object, final, received, rejected>>
      /\ Taken' = Taken /\ (final => appended' = appended)
  BY DEF AppLeaves, workerSide, worker, connector, net, service
<1>3. ResponsesOk'
  BY <1>1, <1>2 DEF ResponsesOk, HasStatus
<1>4. WireOk => WireOk'
  BY <1>2, WireFrame
<1>5. StreamInv'
  BY <1>1, <1>2, <1>4 DEF StreamInv, Live, WorkerEnded
<1>6. OwedInv'
  BY <1>1, <1>2 DEF OwedInv, Owed, RequestOf, Request, is_satisfied, HasStatus, unpersisted_bytes, End
<1>7. BudgetInv'
  BY <1>1, <1>2 DEF BudgetInv, WorkerEnded
<1> QED BY <1>3, <1>5, <1>6, <1>7 DEF IInv

\* A step that touches neither bytes nor the channel.
LEMMA WorkerSame ==
    ASSUME WorkerInv, UNCHANGED <<pc, replay_buffer, pending_requests, persisted_size, finalized, requests, write_offset>>,
           ~WorkerEnded => /\ Finishing /\ (finalized \/ \E i \in DOMAIN requests : requests[i].op = "finalize") => Finishing'
                           /\ pc = "wait" => open' = open
                           /\ IdsOk'
    PROVE  WorkerInv'
<1>1. SUFFICES ASSUME ~WorkerEnded' PROVE ChannelOk' /\ PendingOk' /\ IdsOk'
  BY DEF WorkerInv
<1>2. ~WorkerEnded /\ ChannelOk /\ PendingOk /\ Taken' = Taken
  BY <1>1 DEF WorkerInv, WorkerEnded, Taken
<1>3. ChannelOk'
  BY <1>2 DEF ChannelOk, Carries, End
<1>4. PendingOk'
  BY <1>2 DEF PendingOk
<1> QED BY <1>2, <1>3, <1>4

\* append: the complete chunks and the residual stay one run up to appended.
LEMMA AppendStep ==
    ASSUME IInv, NEW n \in AppendSizes, append(n)
    PROVE  IInv'
<1> DEFINE new == Bytes(appended, appended + n)
           all == coalescing_buffer \o new
           C == MAX_WRITE_CHUNK_SIZE
<1>0. /\ TypeOK /\ ReadyOk /\ CoalescingOk /\ CallOk /\ ReplyOk /\ LogOk /\ WorkerInv /\ ObjectOk
      /\ n \in Nat \ {0} /\ C \in Nat \ {0} /\ MaxBytes \in Nat
  BY BidiWriteAssumption DEF IInv, AppInv
<1>1. /\ call = "idle" /\ given + n <= MaxBytes /\ ready' = Cut(all) /\ coalescing_buffer' = Residual(all)
      /\ call' = (IF Cut(all) = <<>> THEN "idle" ELSE "append") /\ appended' = appended + n
      /\ given' = given + n /\ log' = log \o Bytes(given, given + n)
      /\ UNCHANGED <<write_offset, calls, confirmed, open, reply, requests>>
      /\ UNCHANGED <<workerSide, net>>
  BY DEF append, history
<1>1a. UNCHANGED <<pc, replay_buffer, pending_requests, persisted_size, finalized, object, received, final>>
  BY <1>1 DEF workerSide, worker, net, service
<1>1c. write_offset' = write_offset /\ appended' = appended + n /\ coalescing_buffer' = Residual(all)
  BY <1>1
<1>1b. /\ given' \in Offsets /\ log' \in Seq(Nat) /\ appended + n <= MaxBytes
       /\ LogOk'
  <2>1. given \in Nat /\ appended \in Nat /\ log \in Seq(Nat) /\ Len(log) = appended /\ appended <= given
    BY <1>0 DEF TypeOK, Offsets, LogOk
  <2>2. PICK z \in Nat : z = given + n
    BY <1>0, <2>1
  <2>3. given <= z /\ z - given = n
    BY <1>0, <2>1, <2>2
  <2>4. Bytes(given, z) \in Seq(Nat) /\ Len(Bytes(given, z)) = z - given
    BY <2>1, <2>3, BytesFacts
  <2>5. log' = log \o Bytes(given, z)
    BY <1>1, <2>2
  <2>6. log' \in Seq(Nat) /\ Len(log') = appended + n
    <3>1. PICK e \in Seq(Nat) : e = Bytes(given, z) /\ Len(e) = n
      BY <2>3, <2>4
    <3>2. log \o e \in Seq(Nat) /\ Len(log \o e) = Len(log) + Len(e)
      BY <2>1, ConcatProperties
    <3> QED BY <2>1, <2>5, <3>1, <3>2
  <2>7. given' \in Offsets /\ appended + n <= MaxBytes /\ appended + n <= given'
    BY <1>0, <1>1, <2>1 DEF Offsets
  <2> QED BY <1>1, <2>6, <2>7 DEF LogOk
<1>2. /\ appended \in Nat /\ write_offset \in Nat /\ coalescing_buffer \in Seq(Nat) /\ Len(coalescing_buffer) \in Nat
      /\ ready = <<>> /\ write_offset + Len(coalescing_buffer) = appended /\ IsRun(coalescing_buffer, write_offset)
  <2>1. appended \in Nat /\ write_offset \in Nat /\ coalescing_buffer \in Seq(Nat) /\ Len(coalescing_buffer) \in Nat
    BY <1>0 DEF TypeOK, Offsets
  <2>2. ready = <<>> /\ write_offset + Len(coalescing_buffer) = appended
    BY <1>0, <1>1 DEF CallOk, ReadyOk
  <2>3. appended - Len(coalescing_buffer) = write_offset
    BY <2>1, <2>2
  <2> QED BY <1>0, <2>1, <2>2, <2>3 DEF CoalescingOk
<1>3. new \in Seq(Nat) /\ Len(new) = n /\ IsRun(new, write_offset + Len(coalescing_buffer))
  <2>1. PICK z \in Nat : z = appended + n
    BY <1>0, <1>2
  <2>2. appended <= z /\ z - appended = n
    BY <1>0, <1>2, <2>1
  <2>3. Bytes(appended, z) \in Seq(Nat) /\ Len(Bytes(appended, z)) = z - appended /\ IsRun(Bytes(appended, z), appended)
    BY <1>2, <2>2, BytesFacts, BytesAreRun
  <2> QED BY <1>2, <2>1, <2>2, <2>3
<1> HIDE DEF new
<1>4. all \in Seq(Nat) /\ Len(all) = Len(coalescing_buffer) + n /\ IsRun(all, write_offset)
  BY <1>2, <1>3, RunConcat
<1> DEFINE q == Len(all) \div C
<1> HIDE DEF all
<1>5. /\ Cut(all) \in Seq(Seq(Nat)) /\ Len(Cut(all)) = q /\ q \in Nat /\ q * C \in Nat
      /\ \A i \in 1..q : /\ Len(Cut(all)[i]) = C /\ (i - 1) * C \in Nat /\ (i - 1) * C + C <= q * C
                         /\ IsRun(Cut(all)[i], write_offset + (i - 1) * C)
      /\ Residual(all) \in Seq(Nat) /\ q * C + Len(Residual(all)) = Len(all) /\ Len(Residual(all)) < C
      /\ IsRun(Residual(all), write_offset + q * C)
  BY <1>2, <1>4, CutFacts DEF q, C
<1> HIDE DEF q, C
<1>5a. PICK P \in Nat : P = q * C
  BY <1>5
<1>5b. /\ P + Len(Residual(all)) = Len(all) /\ Len(Residual(all)) < C /\ Len(Residual(all)) \in Nat
       /\ IsRun(Residual(all), write_offset + P)
  BY <1>5, <1>5a
<1>6. write_offset + P + Len(Residual(all)) = appended + n
  <2>1. n \in Nat /\ Len(all) = Len(coalescing_buffer) + n
    BY <1>0, <1>4
  <2>2. P + Len(Residual(all)) = Len(all) /\ Len(Residual(all)) \in Nat
    BY <1>5b
  <2>3. write_offset \in Nat /\ Len(coalescing_buffer) \in Nat /\ write_offset + Len(coalescing_buffer) = appended
    BY <1>2
  <2> QED BY <2>1, <2>2, <2>3
<1>6a. PICK L \in Nat : L = Len(coalescing_buffer') /\ write_offset + P + L = appended'
  BY <1>1c, <1>5b, <1>6
<1>6b. PICK K \in Nat, W \in Nat, Z \in Nat : K = C /\ W = write_offset /\ Z = appended'
  BY <1>0, <1>1c, <1>2
<1>6c. W + P + L = Z
  BY <1>6a, <1>6b
<1>7. TypeOK'
  <2>1. appended' \in Offsets /\ coalescing_buffer' \in Seq(Nat) /\ ready' \in Seq(Seq(Nat))
    BY <1>0, <1>1, <1>1b, <1>2, <1>5 DEF Offsets
  <2>2. call' \in Busy \cup Ended \cup {"idle"}
    BY <1>1 DEF Busy
  <2> QED BY <1>0, <1>1, <1>1b, <2>1, <2>2 DEF TypeOK, workerSide, worker, connector, net, service
<1>8. ReadyOk'
  <2>1. CASE ready' = <<>>
    <3>1. q = 0
      BY <1>1, <1>5, <2>1
    <3>2. P = 0
      BY <1>0, <1>5a, <3>1
    <3>3. write_offset' + Len(coalescing_buffer') = appended'
      BY <1>1, <1>2, <1>5b, <1>6, <3>2
    <3> QED BY <2>1, <3>3 DEF ReadyOk
  <2>2. CASE ready' # <<>>
    <3>1. q >= 1 /\ DOMAIN ready' = 1..q /\ Len(ready') = q
      BY <1>1, <1>5, <2>2
    <3>2. ASSUME NEW i \in 1..q
          PROVE  /\ ready'[i][1] = write_offset + (i - 1) * C + 1 /\ Len(ready'[i]) = C /\ ready'[i] \in Seq(Nat)
                 /\ IsRun(ready'[i], write_offset + (i - 1) * C)
      <4>0. PICK x \in Nat : x = (i - 1) * C
        BY <1>5
      <4>1. PICK a \in Nat : a = write_offset + x
        BY <1>2
      <4>2. ready'[i] \in Seq(Nat) /\ Len(ready'[i]) = C /\ IsRun(ready'[i], a)
        <5>1. Len(Cut(all)[i]) = C /\ IsRun(Cut(all)[i], a)
          BY <1>5, <4>0, <4>1
        <5>2. Cut(all)[i] \in Seq(Nat)
          BY <1>5
        <5> QED BY <1>1, <5>1, <5>2
      <4>3. PICK w \in Seq(Nat) : w = ready'[i]
        BY <4>2
      <4>4. 1 \in 1..Len(w) /\ w[1] = a + 1
        BY <1>0, <4>2, <4>3, RunFacts
      <4> QED BY <4>0, <4>1, <4>2, <4>3, <4>4
    <3>3. ready'[1][1] = write_offset' + 1
      <4>1. (1 - 1) * C = 0
        BY <1>0
      <4> QED BY <1>1, <1>2, <3>1, <3>2, <4>1
    <3>4. ready'[q][1] + Len(ready'[q]) + Len(coalescing_buffer') = appended' + 1
      <4>1. q \in 1..q /\ (q - 1) * C + C = q * C
        BY <1>0, <1>5, <3>1, Products
      <4>2. PICK x \in Nat : x = (q - 1) * C
        BY <1>5, <4>1
      <4>3. x + C = P
        BY <1>5a, <4>1, <4>2
      <4>4. ready'[q][1] = write_offset + x + 1 /\ Len(ready'[q]) = C
        BY <3>2, <4>1, <4>2
      <4>5. x + K = P
        BY <1>6b, <4>3
      <4>6. W + x + 1 + K + L = Z + 1
        BY <1>6c, <4>5
      <4> QED BY <1>6a, <1>6b, <4>4, <4>6
    <3>5. ASSUME NEW i \in 1..q
          PROVE  /\ Len(ready'[i]) \in 1..C /\ ready'[i][1] # 0 /\ IsRun(ready'[i], ready'[i][1] - 1)
                 /\ ready'[i][1] + Len(ready'[i]) + Len(coalescing_buffer') <= appended' + 1
                 /\ i > 1 => ready'[i][1] = ready'[i - 1][1] + Len(ready'[i - 1])
      <4>1. PICK x \in Nat : x = (i - 1) * C
        BY <1>5
      <4>2. x + C <= P
        BY <1>5, <1>5a, <4>1
      <4>3. ready'[i][1] = write_offset + x + 1 /\ Len(ready'[i]) = C /\ IsRun(ready'[i], write_offset + x)
        BY <3>2, <4>1
      <4>4. ready'[i][1] - 1 = write_offset + x /\ ready'[i][1] # 0
        BY <1>2, <4>3
      <4>5. ready'[i][1] + Len(ready'[i]) + Len(coalescing_buffer') <= appended' + 1
        <5>1. x + K <= P
          BY <1>6b, <4>2
        <5>2. W + x + 1 + K + L <= Z + 1
          BY <1>6c, <5>1
        <5> QED BY <1>6a, <1>6b, <4>3, <5>2
      <4>6. ASSUME i > 1 PROVE ready'[i][1] = ready'[i - 1][1] + Len(ready'[i - 1])
        <5>1. i - 1 \in 1..q /\ (i - 1) - 1 = i - 2
          BY <1>5, <4>6
        <5>2. (i - 1) * C = (i - 2) * C + C /\ (i - 2) * C \in Nat
          <6>1. (i - 1) * C = (i - 2) * C + C
            BY <1>0, <1>5, <4>6, Products
          <6>2. (i - 2) * C \in Nat
            BY <1>5, <5>1
          <6> QED BY <6>1, <6>2
        <5>3. ready'[i - 1][1] = write_offset + (i - 2) * C + 1 /\ Len(ready'[i - 1]) = C
          BY <3>2, <5>1
        <5> QED BY <1>0, <1>2, <3>2, <5>2, <5>3
      <4> QED BY <1>0, <4>3, <4>4, <4>5, <4>6
    <3> QED BY <2>2, <3>1, <3>3, <3>4, <3>5 DEF ReadyOk, Last, C
  <2> QED BY <2>1, <2>2
<1>9. CoalescingOk'
  <2>1. appended' - Len(coalescing_buffer') = write_offset + P
    BY <1>0, <1>1, <1>2, <1>5b, <1>6
  <2>2. write_offset' + Len(coalescing_buffer') <= appended'
    BY <1>0, <1>1, <1>2, <1>5b, <1>6
  <2> QED BY <1>1, <1>5b, <2>1, <2>2 DEF CoalescingOk, C
<1>10. ~Awaits' /\ ~Awaits
  BY <1>1, AwaitSet DEF Awaits
<1>10a. CallOk' /\ ReplyOk'
  <2>1. open
    BY <1>0, <1>1 DEF CallOk, Ended
  <2>2. (call' = "idle" => ready' = <<>>) /\ call' \in {"idle", "append"}
    BY <1>1
  <2> QED BY <1>1, <1>10, <2>1, <2>2 DEF CallOk, ReplyOk, Ended
<1>11. ~final
  BY <1>0, <1>1 DEF ObjectOk, Ended
<1>12. WorkerInv'
  <2>1. ~Finishing
    BY <1>1 DEF Finishing
  <2>2. ASSUME ~WorkerEnded PROVE IdsOk'
    <3>1. IdsOk
      BY <1>0, <2>2 DEF WorkerInv
    <3> QED BY <1>1, <1>1a, <1>10, <3>1 DEF IdsOk, OwnOk
  <2> QED BY <1>0, <1>1, <1>1a, <2>1, <2>2, WorkerSame
<1>13. Taken' = Taken
  BY <1>1 DEF Taken
<1>14. ObjectOk'
  BY <1>0, <1>1, <1>1a, <1>11, <1>13 DEF ObjectOk, Upto, WorkerEnded, IsRun, Bytes
<1> QED BY <1>1, <1>1b, <1>7, <1>8, <1>9, <1>10a, <1>11, <1>12, <1>13, <1>14, AppFrame DEF AppInv, AppLeaves, net

\* A step that moves the call along and nothing else.
LEMMA QuietStep ==
    ASSUME IInv, UNCHANGED <<given, log, appended, coalescing_buffer, ready, write_offset, requests, calls>>,
           UNCHANGED <<workerSide, net>>, TypeOK', CallOk', ReplyOk',
           ~WorkerEnded => IdsOk' /\ (Finishing => Finishing') /\ (pc = "wait" => open' = open),
           final => call' \in {"await finalize", "join"} \cup Ended
    PROVE  IInv'
<1>0. ReadyOk /\ CoalescingOk /\ LogOk /\ WorkerInv /\ ObjectOk
  BY DEF IInv, AppInv
<1>1. UNCHANGED <<pc, replay_buffer, pending_requests, persisted_size, finalized, object, received, final>>
  BY DEF workerSide, worker, net, service
<1>2. ReadyOk'
  BY <1>0 DEF ReadyOk, Last, IsRun, Bytes
<1>3. CoalescingOk'
  BY <1>0 DEF CoalescingOk, IsRun, Bytes
<1>4. WorkerInv'
  BY <1>0, <1>1, WorkerSame
<1>5. Taken' = Taken
  BY DEF Taken
<1>6. ObjectOk'
  BY <1>0, <1>1, <1>5 DEF ObjectOk, Upto, WorkerEnded, IsRun, Bytes
<1>7. LogOk'
  BY <1>0 DEF LogOk
<1> QED BY <1>2, <1>3, <1>4, <1>5, <1>6, <1>7, AppFrame DEF AppInv, AppLeaves, net

\* The empty oneshot has the type of a reply.
LEMMA NoReply == Reply("none", 0) \in [state : {"none", "ok", "err"}, size : Offsets]
<1>1. 0 \in Offsets
  BY BidiWriteAssumption DEF Offsets
<1> QED BY <1>1 DEF Reply

\* A step that starts no call keeps the oneshots apart.
LEMMA IdsSame ==
    ASSUME IdsOk, UNCHANGED <<requests, pending_requests, calls, appended>>,
           call' \notin {"flush", "finalize", "close"}, Awaits' => Awaits
    PROVE  IdsOk'
BY DEF IdsOk, OwnOk

\* flush returns, or finalize and close go on to join the worker.
LEMMA AnsweredStep == ASSUME IInv, Answered PROVE IInv'
<1>0. TypeOK /\ CallOk /\ ReplyOk /\ WorkerInv /\ ObjectOk
  BY DEF IInv, AppInv
<1>1. /\ call \in {"await flush", "await finalize", "await close"} /\ reply.state = "ok" /\ Awaits
      /\ confirmed' = (IF call = "await flush" THEN reply.size ELSE confirmed)
      /\ call' = (IF call = "await flush" THEN "idle" ELSE "join") /\ open' = (call = "await flush")
      /\ UNCHANGED <<given, log, appended, coalescing_buffer, ready, write_offset, requests, calls, reply>>
      /\ UNCHANGED <<workerSide, net>>
  BY AwaitSet DEF Answered, Awaits, history
<1>2. ~Awaits' /\ call' \in {"idle", "join"}
  BY <1>1, AwaitSet DEF Awaits
<1>3. UNCHANGED <<pc, object, final, pending_requests>>
  BY <1>1 DEF workerSide, worker, net, service
<1>4. TypeOK'
  <2>1. confirmed' \in Offsets /\ call' \in Busy \cup Ended \cup {"idle"} /\ open' \in BOOLEAN
    BY <1>0, <1>1, <1>2 DEF TypeOK, Busy
  <2> QED BY <1>0, <1>1, <2>1 DEF TypeOK, workerSide, worker, connector, net, service
<1>5. open' <=> call' \notin {"join"} \cup Ended
  BY <1>1 DEF Ended
<1>6. CallOk'
  BY <1>0, <1>1, <1>2, <1>5 DEF CallOk
<1>7. ReplyOk'
  BY <1>0, <1>1, <1>2, <1>3 DEF ReplyOk
<1>8. ASSUME ~WorkerEnded PROVE IdsOk' /\ (Finishing => Finishing') /\ (pc = "wait" => open' = open)
  <2>1. IdsOk'
    BY <1>0, <1>1, <1>2, <1>3, <1>8, IdsSame DEF WorkerInv
  <2>2. pc = "wait" => ~open
    BY <1>0, <1>8 DEF WorkerInv, ChannelOk
  <2>3. open
    BY <1>0, <1>1 DEF CallOk, Ended
  <2> QED BY <1>1, <2>1, <2>2, <2>3 DEF Finishing
<1>9. final => call' \in {"await finalize", "join"} \cup Ended
  BY <1>0, <1>1 DEF ObjectOk, Ended
<1> QED BY <1>1, <1>4, <1>6, <1>7, <1>8, <1>9, QuietStep

\* drop_and_join_worker returns.
LEMMA JoinedStep == ASSUME IInv, Joined PROVE IInv'
<1>0. TypeOK /\ CallOk /\ ReplyOk /\ WorkerInv /\ ObjectOk
  BY DEF IInv, AppInv
<1>1. /\ call = "join" /\ WorkerEnded
      /\ confirmed' = (IF pc = "ok" THEN reply.size ELSE confirmed)
      /\ call' = (IF pc = "ok" THEN "closed" ELSE "failed")
      /\ UNCHANGED <<given, log, appended, coalescing_buffer, ready, write_offset, requests, calls, reply, open>>
      /\ UNCHANGED <<workerSide, net>>
  BY DEF Joined, history
<1>2. ~Awaits' /\ call' \in {"closed", "failed"}
  BY <1>1, AwaitSet DEF Awaits
<1>3. UNCHANGED pc
  BY <1>1 DEF workerSide
<1>4. TypeOK'
  <2>1. confirmed' \in Offsets /\ call' \in Busy \cup Ended \cup {"idle"}
    BY <1>0, <1>1, <1>2 DEF TypeOK, Ended
  <2> QED BY <1>0, <1>1, <2>1 DEF TypeOK, workerSide, worker, connector, net, service
<1>5. open' <=> call' \notin {"join"} \cup Ended
  BY <1>0, <1>1, <1>2 DEF Ended, CallOk
<1>6. CallOk'
  BY <1>0, <1>1, <1>2, <1>3, <1>5 DEF CallOk, WorkerEnded
<1>7. ReplyOk'
  BY <1>2 DEF ReplyOk
<1>8. call' \in Ended
  BY <1>2 DEF Ended
<1> QED BY <1>1, <1>2, <1>4, <1>6, <1>7, <1>8, QuietStep

\* A call fails because the worker is gone.
LEMMA CallFailsStep == ASSUME IInv, CallFails PROVE IInv'
<1>0. TypeOK /\ CallOk /\ ReplyOk /\ WorkerInv /\ ObjectOk
  BY DEF IInv, AppInv
<1>1. /\ call \notin {"idle", "join", "closed", "failed", "dropped"} /\ call' = "failed" /\ open' = FALSE
      /\ UNCHANGED <<given, log, appended, coalescing_buffer, ready, write_offset, requests, calls, reply, confirmed>>
      /\ UNCHANGED <<workerSide, net>>
  BY DEF CallFails, history
<1>1a. WorkerEnded
  BY <1>0 DEF CallFails, CallOk, history
<1>2. ~Awaits'
  BY <1>1, AwaitSet DEF Awaits
<1>3. UNCHANGED pc
  BY <1>1 DEF workerSide
<1>4. TypeOK'
  <2>1. call' \in Busy \cup Ended \cup {"idle"} /\ open' \in BOOLEAN
    BY <1>1 DEF Ended
  <2> QED BY <1>0, <1>1, <2>1 DEF TypeOK, workerSide, worker, connector, net, service
<1>5. open' <=> call' \notin {"join"} \cup Ended
  BY <1>1 DEF Ended
<1>6. CallOk'
  BY <1>1, <1>1a, <1>2, <1>3, <1>5 DEF CallOk, WorkerEnded
<1>7. ReplyOk'
  BY <1>1, <1>2 DEF ReplyOk
<1>8. call' \in Ended
  BY <1>1 DEF Ended
<1> QED BY <1>1, <1>1a, <1>4, <1>6, <1>7, <1>8, QuietStep

\* An append or a flush is dropped: the chunks it had in hand are gone, what was
\* sent and the coalescing buffer stay; a request left behind has a stale id.
LEMMA CancelCallStep == ASSUME IInv, CancelCall PROVE IInv'
<1>0. TypeOK /\ CoalescingOk /\ CallOk /\ LogOk /\ WorkerInv /\ ObjectOk
  BY DEF IInv, AppInv
<1>1. /\ call \in {"append", "flush", "await flush"} /\ call' = "idle" /\ ready' = <<>> /\ reply' = Reply("none", 0)
      /\ log' = SubSeq(log, 1, write_offset) \o [i \in DOMAIN coalescing_buffer |-> log[coalescing_buffer[i]]]
      /\ appended' = write_offset + Len(coalescing_buffer)
      /\ coalescing_buffer' = Bytes(write_offset, appended')
      /\ faults < MaxFaults /\ faults' = faults + 1
      /\ UNCHANGED <<given, write_offset, calls, confirmed, open, requests>>
      /\ UNCHANGED <<workerSide, stream, reqs, resps, service>>
  BY DEF CancelCall
<1>2. ~Awaits'
  BY <1>1, AwaitSet DEF Awaits
<1>3. UNCHANGED <<pc, replay_buffer, pending_requests, persisted_size, finalized, object, received, final>>
  BY <1>1 DEF workerSide, worker, service
<1>4. PICK k \in Nat : k = Len(coalescing_buffer)
  BY <1>0 DEF TypeOK
<1>5. /\ write_offset \in Nat /\ appended \in Nat /\ given \in Nat /\ given <= MaxBytes /\ MaxBytes \in Nat
      /\ write_offset + k <= appended /\ k < MAX_WRITE_CHUNK_SIZE /\ appended <= given
      /\ log \in Seq(Nat) /\ Len(log) = appended
  BY <1>0, <1>4, BidiWriteAssumption DEF TypeOK, Offsets, CoalescingOk, LogOk
<1>6. PICK z \in Nat : z = write_offset + k
  BY <1>5
<1>7. /\ appended' = z /\ write_offset <= z /\ z - write_offset = k /\ z <= appended /\ z - k = write_offset
  <2>1. appended' = z
    BY <1>1, <1>4, <1>6
  <2> QED BY <1>5, <1>6, <2>1
<1>8. /\ coalescing_buffer' \in Seq(Nat) /\ Len(coalescing_buffer') = k /\ IsRun(coalescing_buffer', write_offset)
  <2>1. /\ Bytes(write_offset, z) \in Seq(Nat) /\ Len(Bytes(write_offset, z)) = z - write_offset
        /\ IsRun(Bytes(write_offset, z), write_offset)
    BY <1>5, <1>7, BytesFacts, BytesAreRun
  <2> QED BY <1>1, <1>7, <2>1
<1>9. log' \in Seq(Nat) /\ Len(log') = z
  BY <1>0, <1>1, <1>4, <1>5, <1>7, KeptFacts
<1>10. TypeOK'
  <2>1. call' \in Busy \cup Ended \cup {"idle"} /\ reply' \in [state : {"none", "ok", "err"}, size : Offsets]
    BY <1>1, NoReply
  <2>2. appended' \in Offsets
    BY <1>5, <1>7 DEF Offsets
  <2>2a. ready' \in Seq(Seq(Nat))
    <3>1. <<>> \in Seq(Seq(Nat))
      OBVIOUS
    <3> QED BY <1>1, <3>1
  <2>3. faults' \in 0..MaxFaults
    <3>1. faults \in 0..MaxFaults /\ MaxFaults \in Nat
      BY <1>0, BidiWriteAssumption DEF TypeOK
    <3>2. faults < MaxFaults /\ faults' = faults + 1
      BY <1>1
    <3> QED BY <3>1, <3>2
  <2> QED BY <1>0, <1>1, <1>8, <1>9, <2>1, <2>2, <2>2a, <2>3, ZenonT(60) DEF TypeOK, workerSide, worker, connector, service
<1>11. ReadyOk' /\ CoalescingOk' /\ LogOk'
  <2>1. write_offset' + Len(coalescing_buffer') = appended' /\ appended' - Len(coalescing_buffer') = write_offset
    BY <1>1, <1>6, <1>7, <1>8
  <2>2. ReadyOk'
    <3>1. ready' = <<>>
      BY <1>1
    <3> QED BY <2>1, <3>1 DEF ReadyOk
  <2>3. appended' <= given'
    <3>1. given' = given
      BY <1>1
    <3> QED BY <1>5, <1>7, <3>1
  <2>4. CoalescingOk'
    BY <1>5, <1>7, <1>8, <2>1 DEF CoalescingOk
  <2> QED BY <1>7, <1>9, <2>2, <2>3, <2>4 DEF LogOk
<1>12. CallOk' /\ ReplyOk'
  <2>1. open' <=> call' \notin {"join"} \cup Ended
    BY <1>0, <1>1 DEF Ended, CallOk
  <2> QED BY <1>1, <1>2, <2>1 DEF CallOk, ReplyOk
<1>13. ~final /\ ~Finishing
  BY <1>0, <1>1 DEF ObjectOk, Finishing, Ended
<1>14. WorkerInv'
  <2>1. ASSUME ~WorkerEnded PROVE IdsOk'
    BY <1>0, <1>1, <1>2, <1>3, <2>1 DEF WorkerInv, IdsOk, OwnOk
  <2> QED BY <1>0, <1>1, <1>3, <1>13, <2>1, WorkerSame
<1>15. Taken' = Taken
  BY <1>1 DEF Taken
<1>16. ObjectOk'
  BY <1>0, <1>1, <1>3, <1>13, <1>15 DEF ObjectOk, Upto, WorkerEnded, IsRun, Bytes
<1> QED BY <1>1, <1>10, <1>11, <1>12, <1>13, <1>14, <1>15, <1>16, AppFrame DEF AppInv, AppLeaves

\* The writer is dropped without close, or with the call that owns it.
LEMMA DropWriterStep == ASSUME IInv, DropWriter PROVE IInv'
<1>0. TypeOK /\ ReadyOk /\ CallOk /\ ReplyOk /\ WorkerInv /\ ObjectOk
  BY DEF IInv, AppInv
<1>1. /\ call \in {"idle", "finalize", "close", "await finalize", "await close", "join"} /\ call' = "dropped" /\ open' = FALSE
      /\ UNCHANGED <<given, log, appended, coalescing_buffer, ready, write_offset, requests, calls, reply, confirmed>>
      /\ UNCHANGED <<workerSide, net>>
  BY DEF DropWriter, history
<1>2. ~Awaits'
  BY <1>1, AwaitSet DEF Awaits
<1>3. UNCHANGED <<pc, pending_requests>>
  BY <1>1 DEF workerSide, worker
<1>4. TypeOK'
  <2>1. call' \in Busy \cup Ended \cup {"idle"} /\ open' \in BOOLEAN
    BY <1>1 DEF Ended
  <2> QED BY <1>0, <1>1, <2>1, ZenonT(60) DEF TypeOK, workerSide, worker, connector, net, service
<1>5. open' <=> call' \notin {"join"} \cup Ended
  BY <1>1 DEF Ended
<1>6. CallOk'
  BY <1>0, <1>1, <1>2, <1>5 DEF CallOk
<1>7. ReplyOk'
  BY <1>1, <1>2 DEF ReplyOk
<1>8. Finishing => Finishing'
  <2>1. ASSUME call \in {"await finalize", "join"} PROVE write_offset = appended
    <3>1. ready = <<>> /\ coalescing_buffer = <<>>
      BY <1>0, <2>1, AwaitSet DEF CallOk, Awaits
    <3>2. write_offset + Len(coalescing_buffer) = appended /\ write_offset \in Nat /\ Len(coalescing_buffer) = 0
      BY <1>0, <3>1 DEF ReadyOk, TypeOK, Offsets
    <3> QED BY <3>2
  <2> QED BY <1>1, <2>1 DEF Finishing
<1>9. ASSUME ~WorkerEnded PROVE IdsOk' /\ (pc = "wait" => open' = open)
  <2>1. IdsOk'
    BY <1>0, <1>1, <1>2, <1>3, <1>9, IdsSame DEF WorkerInv
  <2>2. pc = "wait" => ~open
    BY <1>0, <1>9 DEF WorkerInv, ChannelOk
  <2>3. open \in BOOLEAN
    BY <1>0 DEF TypeOK
  <2> QED BY <1>1, <2>1, <2>2, <2>3
<1>10. final => call' \in {"await finalize", "join"} \cup Ended
  BY <1>1 DEF Ended
<1> QED BY <1>1, <1>4, <1>6, <1>7, <1>8, <1>9, <1>10, QuietStep

\* flush, finalize or close begins with a fresh oneshot.
LEMMA StartStep ==
    ASSUME IInv, NEW op \in DOMAIN Awaiting, Start(op)
    PROVE  IInv'
<1>0. TypeOK /\ ReadyOk /\ CoalescingOk /\ CallOk /\ ReplyOk /\ WorkerInv /\ ObjectOk
  BY DEF IInv, AppInv
<1>1. /\ call = "idle" /\ calls < MaxCalls /\ calls' = calls + 1 /\ reply' = Reply("none", 0) /\ call' = op
      /\ ready' = (IF coalescing_buffer = <<>> THEN <<>> ELSE <<coalescing_buffer>>) /\ coalescing_buffer' = <<>>
      /\ UNCHANGED <<given, log, appended, write_offset, confirmed, open, requests>>
      /\ UNCHANGED <<workerSide, net>>
  BY DEF Start, history
<1>2. op \in {"flush", "finalize", "close"}
  BY DEF Awaiting
<1>3. ~Awaits' /\ ~Awaits
  BY <1>1, <1>2, AwaitSet DEF Awaits
<1>4. UNCHANGED <<pc, replay_buffer, pending_requests, persisted_size, finalized, object, received, final>>
  BY <1>1 DEF workerSide, worker, net, service
<1>5. /\ appended \in Nat /\ write_offset \in Nat /\ coalescing_buffer \in Seq(Nat) /\ Len(coalescing_buffer) \in Nat
      /\ ready = <<>> /\ write_offset + Len(coalescing_buffer) = appended /\ IsRun(coalescing_buffer, write_offset)
      /\ Len(coalescing_buffer) < MAX_WRITE_CHUNK_SIZE
  <2>1. appended \in Nat /\ write_offset \in Nat /\ coalescing_buffer \in Seq(Nat) /\ Len(coalescing_buffer) \in Nat
    BY <1>0 DEF TypeOK, Offsets
  <2>2. ready = <<>> /\ write_offset + Len(coalescing_buffer) = appended
    BY <1>0, <1>1 DEF CallOk, ReadyOk
  <2>3. appended - Len(coalescing_buffer) = write_offset
    BY <2>1, <2>2
  <2> QED BY <1>0, <2>1, <2>2, <2>3 DEF CoalescingOk
<1>6. TypeOK'
  <2>1. call' \in Busy \cup Ended \cup {"idle"} /\ reply' \in [state : {"none", "ok", "err"}, size : Offsets]
    BY <1>1, <1>2, NoReply DEF Busy
  <2>2. coalescing_buffer' \in Seq(Nat) /\ ready' \in Seq(Seq(Nat))
    BY <1>1, <1>5
  <2>3. calls' \in 0..MaxCalls
    BY <1>0, <1>1, BidiWriteAssumption DEF TypeOK
  <2> QED BY <1>0, <1>1, <2>1, <2>2, <2>3 DEF TypeOK, workerSide, worker, connector, net, service
<1>7. ReadyOk' /\ CoalescingOk'
  <2>0. Len(coalescing_buffer') = 0 /\ appended' - 0 = appended /\ MAX_WRITE_CHUNK_SIZE \in Nat \ {0}
    BY <1>1, <1>5, BidiWriteAssumption
  <2>1. CoalescingOk'
    BY <1>1, <1>5, <2>0, EmptyRun DEF CoalescingOk
  <2>2. CASE coalescing_buffer = <<>>
    BY <1>1, <1>5, <2>0, <2>1, <2>2 DEF ReadyOk
  <2>3. CASE coalescing_buffer # <<>>
    <3>1. ready' = <<coalescing_buffer>> /\ Len(ready') = 1 /\ ready'[1] = coalescing_buffer /\ DOMAIN ready' = {1}
      BY <1>1, <2>3
    <3>2. Len(coalescing_buffer) >= 1 /\ coalescing_buffer[1] = write_offset + 1
      BY <1>5, <2>3, RunFacts
    <3>3. coalescing_buffer[1] - 1 = write_offset /\ coalescing_buffer[1] + Len(coalescing_buffer) = appended + 1
      BY <1>5, <3>2
    <3>4. ready' # <<>> /\ ready'[1][1] = write_offset' + 1
      BY <1>1, <3>1, <3>2
    <3>5. Last(ready)'[1] + Len(Last(ready)') + Len(coalescing_buffer') = appended' + 1
      <4>1. Last(ready)' = coalescing_buffer
        BY <3>1 DEF Last
      <4> QED BY <1>1, <1>5, <2>0, <3>3, <4>1
    <3>6. ASSUME NEW i \in DOMAIN ready'
          PROVE  /\ Len(ready'[i]) \in 1..MAX_WRITE_CHUNK_SIZE /\ ready'[i][1] # 0 /\ IsRun(ready'[i], ready'[i][1] - 1)
                 /\ ready'[i][1] + Len(ready'[i]) + Len(coalescing_buffer') <= appended' + 1
                 /\ ~(i > 1)
      <4>1. i = 1 /\ ready'[i] = coalescing_buffer
        BY <3>1
      <4>2. Len(coalescing_buffer) \in 1..MAX_WRITE_CHUNK_SIZE /\ coalescing_buffer[1] # 0
        BY <1>5, <2>0, <3>2
      <4>3. coalescing_buffer[1] + Len(coalescing_buffer) + Len(coalescing_buffer') <= appended' + 1
        BY <1>1, <1>5, <2>0, <3>3
      <4> QED BY <1>5, <3>3, <4>1, <4>2, <4>3
    <3>7. \A i \in DOMAIN ready' : i > 1 => ready'[i][1] = ready'[i - 1][1] + Len(ready'[i - 1])
      BY <3>6
    <3> QED BY <2>1, <3>4, <3>5, <3>6, <3>7 DEF ReadyOk
  <2> QED BY <2>2, <2>3
<1>8. CallOk'
  <2>1. reply'.state = "none" /\ calls' > 0
    BY <1>0, <1>1 DEF Reply, TypeOK
  <2>2. open' <=> call' \notin {"join"} \cup Ended
    BY <1>0, <1>1, <1>2 DEF CallOk, Ended
  <2> QED BY <1>1, <1>2, <1>3, <2>1, <2>2 DEF CallOk
<1>9. ReplyOk'
  BY <1>1, <1>2, <1>3 DEF ReplyOk
<1>10. ~final /\ ~Finishing
  BY <1>0, <1>1 DEF ObjectOk, Finishing, Ended
<1>11. WorkerInv'
  <2>1. ASSUME ~WorkerEnded PROVE IdsOk'
    <3>1. IdsOk
      BY <1>0, <2>1 DEF WorkerInv
    <3>2. calls \in Nat /\ (\A i \in DOMAIN requests : requests[i].id \in Nat)
          /\ (\A i \in DOMAIN pending_requests : pending_requests[i].id \in Nat)
      <4>1. (\A i \in DOMAIN requests : requests[i] \in Intents) /\ \A i \in DOMAIN pending_requests : pending_requests[i] \in Pending
        BY <1>0 DEF TypeOK
      <4>2. calls \in Nat
        BY <1>0, BidiWriteAssumption DEF TypeOK
      <4> QED BY <4>1, <4>2 DEF Intents, Pending
    <3> QED BY <1>1, <1>3, <1>4, <3>1, <3>2 DEF IdsOk, OwnOk
  <2> QED BY <1>0, <1>1, <1>4, <1>10, <2>1, WorkerSame
<1>12. Taken' = Taken
  BY <1>1 DEF Taken
<1>13. ObjectOk'
  BY <1>0, <1>1, <1>4, <1>10, <1>12 DEF ObjectOk, Upto, WorkerEnded, IsRun, Bytes
<1>14. LogOk'
  BY <1>1 DEF IInv, AppInv, LogOk
<1> QED BY <1>1, <1>6, <1>7, <1>8, <1>9, <1>10, <1>11, <1>12, <1>13, <1>14, AppFrame DEF AppInv, AppLeaves, net

\* One intent more in the channel.
LEMMA ChannelAppend ==
    ASSUME TypeOK, ChannelOk, ~Finishing, open,
           NEW x \in Intents, x.at = write_offset, IsRun(x.data, write_offset),
           IF x.op = "append" THEN Len(x.data) \in 1..MAX_WRITE_CHUNK_SIZE ELSE x.data = <<>>,
           x.op = "finalize" => Finishing',
           requests' = Append(requests, x), write_offset' = End(x),
           UNCHANGED <<pc, replay_buffer, persisted_size, finalized>>
    PROVE  ChannelOk' /\ Taken' = Taken
<1>1. requests \in Seq(Intents) /\ write_offset \in Nat
  BY DEF TypeOK, Offsets
<1>2. /\ requests' # <<>> /\ Len(requests') = Len(requests) + 1 /\ Len(requests) \in Nat
      /\ DOMAIN requests' = 1..(Len(requests) + 1) /\ DOMAIN requests = 1..Len(requests)
      /\ requests'[Len(requests) + 1] = x /\ \A i \in 1..Len(requests) : requests'[i] = requests[i]
  BY <1>1
<1>3. Taken' = Taken
  <2>1. CASE requests = <<>>
    <3>1. Len(requests) = 0 /\ Taken = write_offset
      BY <2>1 DEF Taken
    <3>2. requests'[1] = x
      BY <1>2, <3>1
    <3> QED BY <1>2, <3>1, <3>2 DEF Taken
  <2>2. CASE requests # <<>>
    <3>1. 1 \in 1..Len(requests) /\ Taken = requests[1].at
      BY <1>1, <2>2 DEF Taken
    <3> QED BY <1>2, <3>1 DEF Taken
  <2> QED BY <2>1, <2>2
<1>4. Taken \in Nat
  <2>1. CASE requests = <<>>
    BY <1>1, <2>1 DEF Taken
  <2>2. CASE requests # <<>>
    <3>1. 1 \in DOMAIN requests
      BY <1>1, <2>2
    <3> QED BY <1>1, <2>2, <3>1, ItemTypes, ItemFacts DEF Taken
  <2> QED BY <2>1, <2>2
<1>5. Carries(requests', Taken, write_offset')
  BY <1>1, <1>4, ItemTypes, CarriesAppend DEF ChannelOk
<1>6. ASSUME NEW i \in DOMAIN requests'
      PROVE  /\ IF requests'[i].op = "append" THEN Len(requests'[i].data) \in 1..MAX_WRITE_CHUNK_SIZE
                                              ELSE requests'[i].data = <<>>
             /\ requests'[i].op = "finalize" => i = Len(requests') /\ Finishing'
  <2>1. CASE i = Len(requests) + 1
    BY <1>2, <2>1
  <2>2. CASE i # Len(requests) + 1
    <3>1. i \in DOMAIN requests /\ requests'[i] = requests[i]
      BY <1>2, <2>2
    <3> QED BY <3>1 DEF ChannelOk
  <2> QED BY <2>1, <2>2
<1>7. Carries(replay_buffer', persisted_size', Taken')
  BY <1>3 DEF ChannelOk
<1>8. ~finalized /\ pc # "wait"
  BY DEF ChannelOk
<1> QED BY <1>3, <1>5, <1>6, <1>7, <1>8 DEF ChannelOk

\* An intent of the current call is the first to carry its id.
LEMMA IdsAppend ==
    ASSUME TypeOK, IdsOk, NEW x \in Intents, requests' = Append(requests, x),
           UNCHANGED <<pending_requests, calls, appended>>, x.id <= calls,
           call' \in {"flush", "finalize", "close"} => x.id < calls, Awaits' /\ x.id = calls => x.at = appended,
           call' \in {"flush", "finalize", "close"} => call \in {"flush", "finalize", "close"},
           Awaits' => call \in {"flush", "finalize", "close"} 
    PROVE  IdsOk'
<1>1. requests \in Seq(Intents) /\ pending_requests \in Seq(Pending) /\ calls \in Nat
  BY BidiWriteAssumption DEF TypeOK
<1>2. /\ DOMAIN requests' = 1..(Len(requests) + 1) /\ DOMAIN requests = 1..Len(requests) /\ Len(requests) \in Nat
      /\ requests'[Len(requests) + 1] = x /\ \A i \in 1..Len(requests) : requests'[i] = requests[i]
  BY <1>1
<1>4. ASSUME NEW i \in DOMAIN requests' PROVE OwnOk(requests[i])'
  <2>1. CASE i = Len(requests) + 1
    BY <1>2, <2>1 DEF OwnOk
  <2>2. CASE i # Len(requests) + 1
    <3>1. i \in DOMAIN requests /\ requests'[i] = requests[i]
      BY <1>2, <2>2
    <3>2. OwnOk(requests[i]) /\ requests[i] \in Intents
      BY <1>1, <3>1 DEF IdsOk
    <3>3. requests[i].id \in Nat
      BY <3>2 DEF Intents
    <3> QED BY <1>1, <3>1, <3>2, <3>3 DEF OwnOk
  <2> QED BY <2>1, <2>2
<1>5. ASSUME NEW i \in DOMAIN pending_requests' PROVE OwnOk(pending_requests[i])'
  <2>1. OwnOk(pending_requests[i]) /\ pending_requests[i] \in Pending
    BY <1>1 DEF IdsOk
  <2>2. pending_requests[i].id \in Nat
    BY <2>1 DEF Pending
  <2> QED BY <1>1, <2>1, <2>2 DEF OwnOk
<1> QED BY <1>4, <1>5 DEF IdsOk

\* append_sub_chunk: the chunk continues what the channel carries.
LEMMA SubChunkStep == ASSUME IInv, append_sub_chunk PROVE IInv'
<1> DEFINE h == ready[1]
<1>0. TypeOK /\ ReadyOk /\ CoalescingOk /\ CallOk /\ ReplyOk /\ WorkerInv /\ ObjectOk
  BY DEF IInv, AppInv
<1>1. /\ ready # <<>> /\ ~WorkerEnded /\ Len(requests) < CHANNEL_BUFFER_SIZE
      /\ requests' = Append(requests, [op |-> "append", at |-> write_offset, data |-> h, id |-> 0])
      /\ write_offset' = write_offset + Len(h) /\ ready' = Tail(ready)
      /\ call' = (IF call = "append" /\ ready' = <<>> THEN "idle" ELSE call)
      /\ UNCHANGED <<given, log, appended, coalescing_buffer, calls, confirmed, open, reply>>
      /\ UNCHANGED <<workerSide, net>>
  BY DEF append_sub_chunk, history
<1>2. UNCHANGED <<pc, replay_buffer, pending_requests, persisted_size, finalized, object, received, final>>
  BY <1>1 DEF workerSide, worker, net, service
<1>3. /\ call \in {"append", "flush", "finalize", "close"} /\ call' \in {call, "idle"}
      /\ (call' = "idle" => ready' = <<>>) /\ ~Awaits /\ ~Awaits' /\ ~Finishing /\ open /\ ~final
  <2>1. call \in {"append", "flush", "finalize", "close"}
    BY DEF append_sub_chunk
  <2>2. call' \in {call, "idle"} /\ (call' = "idle" => ready' = <<>>)
    BY <1>1, <2>1
  <2> QED BY <1>0, <2>1, <2>2, AwaitSet DEF Awaits, Finishing, CallOk, ObjectOk, Ended
<1>4. /\ appended \in Nat /\ appended \in Offsets /\ write_offset \in Nat /\ ready \in Seq(Seq(Nat)) /\ coalescing_buffer \in Seq(Nat)
      /\ Len(coalescing_buffer) \in Nat /\ write_offset \in Offsets /\ calls \in Nat /\ MaxBytes \in Nat
      /\ requests \in Seq(Intents) /\ MAX_WRITE_CHUNK_SIZE \in Nat
  BY <1>0, BidiWriteAssumption DEF TypeOK, Offsets
<1>5. /\ Len(ready) \in Nat /\ Len(ready) >= 1 /\ DOMAIN ready = 1..Len(ready) /\ 1 \in DOMAIN ready
      /\ Len(ready') = Len(ready) - 1 /\ DOMAIN ready' = 1..(Len(ready) - 1)
      /\ \A i \in 1..(Len(ready) - 1) : ready'[i] = ready[i + 1]
  BY <1>1, <1>4
<1>6. /\ \A i \in DOMAIN ready : ready[i] \in Seq(Nat) /\ Len(ready[i]) \in Nat
      /\ \A i \in DOMAIN ready : ready[i][1] \in Nat
  <2>1. \A i \in DOMAIN ready : ready[i] \in Seq(Nat)
    BY <1>4
  <2>2. ASSUME NEW i \in DOMAIN ready PROVE Len(ready[i]) \in Nat /\ ready[i][1] \in Nat
    <3>1. PICK w \in Seq(Nat) : w = ready[i]
      BY <2>1
    <3>2. Len(w) >= 1
      BY <1>0, <1>4, <3>1 DEF ReadyOk
    <3> QED BY <3>1, <3>2
  <2> QED BY <2>1, <2>2
<1>7. /\ h \in Seq(Nat) /\ Len(h) \in Nat /\ Len(h) \in 1..MAX_WRITE_CHUNK_SIZE /\ h[1] = write_offset + 1
      /\ IsRun(h, write_offset) /\ write_offset + Len(h) + Len(coalescing_buffer) <= appended
  <2>1. /\ Len(h) \in 1..MAX_WRITE_CHUNK_SIZE /\ IsRun(h, h[1] - 1) /\ h[1] + Len(h) + Len(coalescing_buffer) <= appended + 1
        /\ h[1] = write_offset + 1
    BY <1>0, <1>1, <1>5 DEF ReadyOk
  <2>2. h \in Seq(Nat) /\ Len(h) \in Nat /\ h[1] \in Nat
    BY <1>5, <1>6
  <2>3. h[1] - 1 = write_offset
    BY <1>4, <2>1
  <2>4. write_offset + Len(h) + Len(coalescing_buffer) <= appended
    <3>1. PICK a \in Nat : a = h[1]
      BY <2>2
    <3>2. PICK l \in Nat : l = Len(h)
      BY <2>2
    <3>3. PICK k \in Nat : k = Len(coalescing_buffer)
      BY <1>4
    <3>4. a + l + k <= appended + 1 /\ a = write_offset + 1
      BY <2>1, <3>1, <3>2, <3>3
    <3>5. write_offset + l + k <= appended
      BY <1>4, <3>4
    <3> QED BY <3>2, <3>3, <3>5
  <2> QED BY <2>1, <2>2, <2>3, <2>4
<1> HIDE DEF h
<1>7a. [op |-> "append", at |-> write_offset, data |-> h, id |-> 0] \in Intents
  BY <1>4, <1>7 DEF Intents
<1>7b. PICK x \in Intents : x = [op |-> "append", at |-> write_offset, data |-> h, id |-> 0]
  BY <1>7a
<1>8. /\ requests' = Append(requests, x)
      /\ x.at = write_offset /\ x.data = h /\ x.op = "append" /\ x.id = 0 /\ End(x) = write_offset + Len(h)
  BY <1>1, <1>7b DEF End
<1>8a. PICK l \in Nat : l = Len(h)
  BY <1>7
<1>8b. PICK k \in Nat : k = Len(coalescing_buffer)
  BY <1>4
<1>8c. write_offset' = write_offset + l /\ write_offset + l + k <= appended /\ Len(coalescing_buffer') = k /\ appended' = appended
  BY <1>1, <1>7, <1>8a, <1>8b
<1>9. write_offset' \in Offsets /\ write_offset' + Len(coalescing_buffer') <= appended /\ write_offset <= write_offset'
  BY <1>4, <1>8c DEF Offsets
<1>10. TypeOK'
  <2>1. requests' \in Seq(Intents) /\ Len(requests') <= CHANNEL_BUFFER_SIZE
    BY <1>1, <1>4, <1>8, BidiWriteAssumption
  <2>2. ready' \in Seq(Seq(Nat))
    BY <1>1, <1>4
  <2>3. call' \in Busy \cup Ended \cup {"idle"}
    BY <1>0, <1>3 DEF TypeOK
  <2> QED BY <1>0, <1>1, <1>9, <2>1, <2>2, <2>3 DEF TypeOK, workerSide, worker, connector, net, service
<1>11. ReadyOk'
  <2>1. \A i \in DOMAIN ready :
          /\ Len(ready[i]) \in 1..MAX_WRITE_CHUNK_SIZE /\ ready[i][1] # 0 /\ IsRun(ready[i], ready[i][1] - 1)
          /\ ready[i][1] + Len(ready[i]) + Len(coalescing_buffer) <= appended + 1
          /\ i > 1 => ready[i][1] = ready[i - 1][1] + Len(ready[i - 1])
    BY <1>0 DEF ReadyOk
  <2>2. ready[Len(ready)][1] + Len(ready[Len(ready)]) + Len(coalescing_buffer) = appended + 1
    BY <1>0, <1>1 DEF ReadyOk, Last
  <2>3. ASSUME ready' = <<>> PROVE write_offset' + Len(coalescing_buffer') = appended'
    <3>1. Len(ready) = 1
      <4>1. Len(ready') = 0
        BY <2>3
      <4> QED BY <1>5, <4>1
    <3>2. write_offset + 1 + l + k = appended + 1
      BY <1>7, <1>8a, <1>8b, <2>2, <3>1 DEF h
    <3> QED BY <1>4, <1>8c, <3>2
  <2>4. ASSUME ready' # <<>>
        PROVE  ready'[1][1] = write_offset' + 1 /\ Last(ready)'[1] + Len(Last(ready)') + Len(coalescing_buffer') = appended' + 1
    <3>1. Len(ready) >= 2 /\ 2 \in DOMAIN ready /\ 1 \in 1..(Len(ready) - 1) /\ Len(ready) - 1 \in 1..(Len(ready) - 1)
      <4>1. Len(ready') # 0
        BY <1>1, <1>4, <2>4, <1>10, EmptySeq DEF TypeOK
      <4> QED BY <1>5, <4>1
    <3>2. ready'[1] = ready[2] /\ ready'[Len(ready')] = ready[Len(ready)]
      BY <1>5, <3>1
    <3>3. ready[2][1] = h[1] + Len(h)
      BY <2>1, <3>1 DEF h
    <3>4. ready'[1][1] = write_offset' + 1
      <4>1. ready'[1][1] = write_offset + 1 + l
        BY <1>7, <1>8a, <3>2, <3>3
      <4> QED BY <1>4, <1>8c, <4>1
    <3>5. Last(ready)' = ready[Len(ready)]
      BY <3>2 DEF Last
    <3> QED BY <1>1, <2>2, <3>4, <3>5
  <2>5. ASSUME NEW i \in DOMAIN ready'
        PROVE  /\ Len(ready'[i]) \in 1..MAX_WRITE_CHUNK_SIZE /\ ready'[i][1] # 0 /\ IsRun(ready'[i], ready'[i][1] - 1)
               /\ ready'[i][1] + Len(ready'[i]) + Len(coalescing_buffer') <= appended' + 1
               /\ i > 1 => ready'[i][1] = ready'[i - 1][1] + Len(ready'[i - 1])
    <3>1. i \in 1..(Len(ready) - 1) /\ i + 1 \in DOMAIN ready /\ ready'[i] = ready[i + 1] /\ i + 1 > 1 /\ (i + 1) - 1 = i
      BY <1>5
    <3>2. i > 1 => i - 1 \in 1..(Len(ready) - 1) /\ ready'[i - 1] = ready[i]
      <4>1. i > 1 => i - 1 \in 1..(Len(ready) - 1) /\ (i - 1) + 1 = i
        BY <1>5, <3>1
      <4> QED BY <1>5, <4>1
    <3>3. ready[i + 1][1] = ready[i][1] + Len(ready[i])
      BY <2>1, <3>1
    <3> QED BY <1>1, <2>1, <3>1, <3>2, <3>3
  <2> QED BY <2>3, <2>4, <2>5 DEF ReadyOk
<1>12. CoalescingOk'
  BY <1>0, <1>1, <1>9 DEF CoalescingOk, IsRun, Bytes
<1>13. CallOk' /\ ReplyOk'
  <2>1. ~WorkerEnded => call \notin {"failed", "closed"}
    BY <1>3
  <2> QED BY <1>0, <1>1, <1>3 DEF CallOk, ReplyOk, Ended
<1>14. ChannelOk' /\ Taken' = Taken
  <2>1. ChannelOk
    BY <1>0, <1>1 DEF WorkerInv
  <2> QED BY <1>0, <1>1, <1>2, <1>3, <1>7, <1>8, <2>1, ChannelAppend
<1>15. PendingOk' /\ IdsOk'
  <2>1. PendingOk /\ IdsOk
    BY <1>0, <1>1 DEF WorkerInv
  <2>2. PendingOk'
    BY <1>2, <1>14, <2>1 DEF PendingOk
  <2>3. x.id <= calls /\ (call' \in {"flush", "finalize", "close"} => x.id < calls)
    <3>1. call' \in {"flush", "finalize", "close"} => calls > 0
      BY <1>0, <1>3 DEF CallOk
    <3> QED BY <1>4, <1>8, <3>1
  <2>4. call' \in {"flush", "finalize", "close"} => call \in {"flush", "finalize", "close"}
    BY <1>3
  <2> QED BY <1>0, <1>1, <1>2, <1>3, <1>8, <2>1, <2>2, <2>3, <2>4, IdsAppend
<1>16. ObjectOk'
  <2>1. Upto \in Nat /\ Upto' = Upto
    BY <1>0, <1>2 DEF TypeOK, Upto
  <2>2. Upto' <= write_offset'
    <3>1. Upto <= write_offset
      BY <1>0 DEF ObjectOk
    <3> QED BY <1>4, <1>8c, <2>1, <3>1
  <2>3. IsRun(object, 0)' /\ IsRun(received, Len(object))'
    BY <1>0, <1>2 DEF ObjectOk, IsRun, Bytes
  <2> QED BY <1>0, <1>1, <1>2, <1>3, <1>14, <2>1, <2>2, <2>3 DEF ObjectOk, WorkerEnded
<1>17. LogOk'
  BY <1>1 DEF IInv, AppInv, LogOk
<1> QED BY <1>1, <1>3, <1>10, <1>11, <1>12, <1>13, <1>14, <1>15, <1>16, <1>17, AppFrame DEF AppInv, AppLeaves, WorkerInv, net

\* A flush or finalize intent names the end of what was appended.
LEMMA SendIntentStep == ASSUME IInv, SendIntent PROVE IInv'
<1> DEFINE op == IF call = "finalize" THEN "finalize" ELSE "flush"
<1>0. TypeOK /\ ReadyOk /\ CoalescingOk /\ CallOk /\ ReplyOk /\ WorkerInv /\ ObjectOk
  BY DEF IInv, AppInv
<1>1. /\ call \in DOMAIN Awaiting /\ ready = <<>> /\ ~WorkerEnded /\ Len(requests) < CHANNEL_BUFFER_SIZE
      /\ requests' = Append(requests, [op |-> op, at |-> write_offset, data |-> <<>>, id |-> calls])
      /\ call' = Awaiting[call]
      /\ UNCHANGED <<given, log, appended, coalescing_buffer, ready, write_offset, calls, confirmed, open, reply>>
      /\ UNCHANGED <<workerSide, net>>
  BY DEF SendIntent, history
<1>2. UNCHANGED <<pc, replay_buffer, pending_requests, persisted_size, finalized, object, received, final>>
  BY <1>1 DEF workerSide, worker, net, service
<1>3. /\ call \in {"flush", "finalize", "close"} /\ call' \in {"await flush", "await finalize", "await close"}
      /\ Awaits' /\ ~Awaits /\ (call = "finalize" => call' = "await finalize")
  <2>1. call \in {"flush", "finalize", "close"} /\ call' \in {"await flush", "await finalize", "await close"}
        /\ (call = "finalize" => call' = "await finalize")
    <3>1. DOMAIN Awaiting = {"flush", "finalize", "close"}
      BY DEF Awaiting
    <3>2. /\ Awaiting["flush"] = "await flush" /\ Awaiting["finalize"] = "await finalize"
          /\ Awaiting["close"] = "await close"
      BY DEF Awaiting
    <3> QED BY <1>1, <3>1, <3>2
  <2> QED BY <2>1, AwaitSet DEF Awaits
<1>4. ~Finishing /\ open /\ ~final /\ reply.state = "none" /\ coalescing_buffer = <<>> /\ calls > 0
  BY <1>0, <1>3 DEF Finishing, CallOk, ObjectOk, Ended
<1>5. /\ appended \in Nat /\ write_offset \in Nat /\ write_offset \in Offsets /\ calls \in Nat /\ requests \in Seq(Intents)
      /\ Len(requests) \in Nat
  BY <1>0, BidiWriteAssumption DEF TypeOK, Offsets
<1>6. write_offset = appended
  <2>1. Len(coalescing_buffer) = 0
    BY <1>4
  <2>2. write_offset + Len(coalescing_buffer) = appended
    BY <1>0, <1>1 DEF ReadyOk
  <2> QED BY <1>5, <2>1, <2>2
<1>7. [op |-> op, at |-> write_offset, data |-> <<>>, id |-> calls] \in Intents
  BY <1>5 DEF Intents
<1>8. PICK x \in Intents : x = [op |-> op, at |-> write_offset, data |-> <<>>, id |-> calls]
  BY <1>7
<1>9. /\ requests' = Append(requests, x) /\ x.at = write_offset /\ x.data = <<>> /\ x.id = calls /\ x.op = op
      /\ End(x) = write_offset
  <2>1. /\ requests' = Append(requests, x) /\ x.at = write_offset /\ x.data = <<>> /\ x.id = calls /\ x.op = op
    BY <1>1, <1>8
  <2>2. Len(x.data) = 0
    BY <2>1
  <2> QED BY <1>5, <2>1, <2>2 DEF End
<1>10. TypeOK'
  <2>1. requests' \in Seq(Intents) /\ Len(requests') <= CHANNEL_BUFFER_SIZE
    BY <1>1, <1>5, <1>9, BidiWriteAssumption
  <2>2. call' \in Busy \cup Ended \cup {"idle"}
    BY <1>3 DEF Busy
  <2> QED BY <1>0, <1>1, <2>1, <2>2 DEF TypeOK, workerSide, worker, connector, net, service
<1>11. ReadyOk' /\ CoalescingOk'
  BY <1>0, <1>1 DEF ReadyOk, CoalescingOk, Last, IsRun, Bytes
<1>12. CallOk' /\ ReplyOk'
  BY <1>0, <1>1, <1>3, <1>4 DEF CallOk, ReplyOk, Ended
<1>13. ChannelOk' /\ Taken' = Taken
  <2>1. ChannelOk
    BY <1>0, <1>1 DEF WorkerInv
  <2>2. x.op = "finalize" => Finishing'
    BY <1>3, <1>9 DEF Finishing
  <2>3. x.op # "append" /\ IsRun(x.data, write_offset)
    BY <1>5, <1>9, EmptyRun
  <2> QED BY <1>0, <1>1, <1>2, <1>4, <1>9, <2>1, <2>2, <2>3, ChannelAppend
<1>14. PendingOk' /\ IdsOk'
  <2>1. PendingOk /\ IdsOk
    BY <1>0, <1>1 DEF WorkerInv
  <2>2. PendingOk'
    BY <1>2, <1>13, <2>1 DEF PendingOk
  <2>3. x.id <= calls /\ call' \notin {"flush", "finalize", "close"} /\ x.at = appended
    <3>1. calls <= calls
      BY <1>5
    <3> QED BY <1>3, <1>6, <1>9, <3>1
  <2> QED BY <1>0, <1>1, <1>2, <1>3, <1>9, <2>1, <2>2, <2>3, IdsAppend
<1>15. ObjectOk'
  BY <1>0, <1>1, <1>2, <1>4, <1>13 DEF ObjectOk, Upto, WorkerEnded, IsRun, Bytes
<1>16. LogOk'
  BY <1>1 DEF IInv, AppInv, LogOk
<1> QED BY <1>1, <1>10, <1>11, <1>12, <1>13, <1>14, <1>15, <1>16, AppFrame DEF AppInv, AppLeaves, WorkerInv, net

-----------------------------------------------------------------------------
(***************************************************************************)
(* The worker's steps.                                                     *)
(***************************************************************************)
LEMMA Sizes ==
    ASSUME TypeOK
    PROVE  /\ appended \in Nat /\ write_offset \in Nat /\ write_offset \in Offsets /\ persisted_size \in Nat
           /\ persisted_size \in Offsets /\ calls \in Nat /\ last_persisted_size \in Nat
           /\ Len(object) \in Nat /\ Len(received) \in Nat /\ Upto \in Nat /\ Taken \in Nat /\ Taken \in Offsets
           /\ MAX_WRITE_CHUNK_SIZE \in Nat \ {0} /\ Capacity \in Nat /\ MaxBytes \in Nat
<1>1. /\ appended \in Nat /\ write_offset \in Nat /\ write_offset \in Offsets /\ persisted_size \in Nat
      /\ persisted_size \in Offsets /\ calls \in Nat /\ last_persisted_size \in Nat
      /\ MAX_WRITE_CHUNK_SIZE \in Nat \ {0} /\ Capacity \in Nat /\ MaxBytes \in Nat
  BY BidiWriteAssumption DEF TypeOK, Offsets
<1>2. Len(object) \in Nat /\ Len(received) \in Nat /\ Upto \in Nat
  BY DEF TypeOK, Upto
<1>3. Taken \in Offsets
  <2>1. CASE requests = <<>>
    BY <1>1, <2>1 DEF Taken
  <2>2. CASE requests # <<>>
    <3>1. requests[1] \in Intents
      BY <2>2 DEF TypeOK
    <3> QED BY <2>2, <3>1 DEF Taken, Intents
  <2> QED BY <2>1, <2>2
<1> QED BY <1>1, <1>2, <1>3 DEF Offsets

\* Taken is a number also after a step.
LEMMA TakenNext == ASSUME TypeOK' PROVE Taken' \in Nat
<1>1. CASE requests' = <<>>
  BY <1>1 DEF Taken, TypeOK, Offsets
<1>2. CASE requests' # <<>>
  <2>1. requests'[1] \in Intents
    BY <1>2 DEF TypeOK
  <2> QED BY <1>2, <2>1 DEF Taken, Intents, Offsets
<1> QED BY <1>1, <1>2

\* What a worker's step does not touch.
LEMMA WorkerFrame ==
    ASSUME IInv, UNCHANGED transport, UNCHANGED <<object, received, final>>,
           TypeOK', CallOk', ReplyOk', WorkerInv', ResponsesOk', StreamInv', OwedInv', BudgetInv',
           ~WorkerEnded' => ~WorkerEnded /\ Taken <= Taken'
    PROVE  IInv'
<1>0. TypeOK /\ ReadyOk /\ CoalescingOk /\ LogOk /\ ObjectOk
  BY DEF IInv, AppInv
<1>1. UNCHANGED <<given, log, appended, coalescing_buffer, ready, write_offset, call>>
  BY DEF transport, history
<1>2. ReadyOk' /\ CoalescingOk' /\ LogOk'
  <2>1. ReadyOk' /\ CoalescingOk'
    BY <1>0, <1>1 DEF ReadyOk, CoalescingOk, Last, IsRun, Bytes
  <2> QED BY <1>0, <1>1, <2>1 DEF LogOk
<1>3. ObjectOk'
  <2>1. Upto' = Upto /\ Upto \in Nat /\ Taken \in Nat /\ Taken' \in Nat
    <3>1. Upto' = Upto
      BY DEF Upto
    <3>2. Taken' \in Nat
      BY TakenNext
    <3> QED BY <1>0, <3>1, <3>2, Sizes
  <2>2. ~WorkerEnded' => Upto' <= Taken'
    <3>1. ASSUME ~WorkerEnded' PROVE Upto' <= Taken'
      <4>1. Upto <= Taken /\ Taken <= Taken'
        BY <1>0, <3>1 DEF ObjectOk
      <4> QED BY <2>1, <4>1
    <3> QED BY <3>1
  <2>3. IsRun(object, 0)' /\ IsRun(received, Len(object))'
    BY <1>0 DEF ObjectOk, IsRun, Bytes
  <2> QED BY <1>0, <1>1, <2>1, <2>2, <2>3 DEF ObjectOk
<1> QED BY <1>2, <1>3 DEF IInv, AppInv

\* One request more on a live stream.
LEMMA WireAppend ==
    ASSUME TypeOK, WireOk, ~final, Taken' \in Nat, Taken <= Taken',
           \A i \in DOMAIN reqs : ~reqs[i].finish_write,
           NEW q \in Requests, IsRun(q.data, q.at), End(q) <= Taken',
           IF q.data = <<>> /\ ~q.finish_write THEN q.at <= Taken ELSE q.at = Taken,
           IF q.data = <<>> THEN Taken' = Taken ELSE End(q) = Taken',
           q.finish_write => /\ finalized' /\ q.data = <<>>
                             /\ pending_requests' # <<>> /\ Last(pending_requests').kind = "finalize",
           reqs' = Append(reqs, q), UNCHANGED <<object, received, final>>
    PROVE  WireOk'
<1>1. reqs \in Seq(Requests) /\ Len(reqs) \in Nat /\ Taken \in Nat
  BY Sizes DEF TypeOK
<1>2. /\ Len(reqs') = Len(reqs) + 1 /\ DOMAIN reqs' = 1..(Len(reqs) + 1) /\ DOMAIN reqs = 1..Len(reqs)
      /\ reqs'[Len(reqs) + 1] = q /\ \A i \in 1..Len(reqs) : reqs'[i] = reqs[i]
  BY <1>1
<1>3. Upto' = Upto
  BY DEF Upto
<1>4. ASSUME NEW n \in 0..Len(reqs) PROVE Reached(reqs', Upto', n) = Reached(reqs, Upto, n)
  <2>1. n \in Nat /\ \A i \in 1..n : reqs'[i] = reqs[i]
    BY <1>1, <1>2
  <2>2. Reached(reqs', Upto, n) = Reached(reqs, Upto, n)
    BY <2>1, ReachedSame, ZenonT(60)
  <2> QED BY <1>3, <2>2
<1>5. Reached(reqs, Upto, Len(reqs)) = Taken
  BY DEF WireOk
<1>6. Reached(reqs', Upto', Len(reqs')) = Taken'
  <2>1. Reached(reqs', Upto', Len(reqs) + 1)
          = IF reqs'[Len(reqs) + 1].data # <<>> THEN End(reqs'[Len(reqs) + 1]) ELSE Reached(reqs', Upto', Len(reqs))
    BY <1>1, ReachedNext
  <2>2. Reached(reqs', Upto', Len(reqs)) = Taken
    BY <1>1, <1>4, <1>5
  <2> QED BY <1>2, <2>1, <2>2
<1>7. ASSUME NEW i \in DOMAIN reqs' PROVE RequestOk(i)'
  <2>1. CASE i = Len(reqs) + 1
    <3>1. reqs'[i] = q /\ i - 1 = Len(reqs) /\ i = Len(reqs')
      BY <1>1, <1>2, <2>1
    <3>2. Reached(reqs', Upto', i - 1) = Taken
      BY <1>1, <1>4, <1>5, <3>1
    <3>3. q.data = Bytes(q.at, End(q))
      BY DEF IsRun, End
    <3> QED BY <3>1, <3>2, <3>3 DEF RequestOk
  <2>2. CASE i # Len(reqs) + 1
    <3>1. i \in DOMAIN reqs /\ reqs'[i] = reqs[i] /\ i - 1 \in 0..Len(reqs)
      BY <1>1, <1>2, <2>2
    <3>2. RequestOk(i) /\ ~reqs[i].finish_write
      BY <3>1 DEF WireOk
    <3>3. Reached(reqs', Upto', i - 1) = Reached(reqs, Upto, i - 1)
      BY <1>4, <3>1
    <3>4. End(reqs[i]) \in Nat
      BY <1>1, <3>1, ItemTypes, ItemFacts
    <3>5. End(reqs[i]) <= Taken'
      BY <1>1, <3>2, <3>4 DEF RequestOk
    <3> QED BY <3>1, <3>2, <3>3, <3>5 DEF RequestOk
  <2> QED BY <2>1, <2>2
<1> QED BY <1>6, <1>7 DEF WireOk

\* The first intent leaves the channel.
LEMMA TakeIntent ==
    ASSUME TypeOK, ChannelOk, requests # <<>>, requests' = Tail(requests), UNCHANGED write_offset
    PROVE  LET i == requests[1] IN
           /\ i \in Intents /\ i.at = Taken /\ IsRun(i.data, Taken) /\ Taken' = End(i) /\ End(i) \in Nat /\ Taken <= Taken'
           /\ requests' \in Seq(Intents) /\ Carries(requests', Taken', write_offset')
           /\ Len(requests') <= CHANNEL_BUFFER_SIZE /\ End(i) \in Offsets
           /\ \A k \in DOMAIN requests' : k + 1 \in DOMAIN requests /\ requests'[k] = requests[k + 1]
           /\ \A k \in DOMAIN requests' :
                /\ IF requests'[k].op = "append" THEN Len(requests'[k].data) \in 1..MAX_WRITE_CHUNK_SIZE
                                                 ELSE requests'[k].data = <<>>
                /\ requests'[k].op = "finalize" => k = Len(requests') /\ Finishing
           /\ i.op = "append" => Len(i.data) \in 1..MAX_WRITE_CHUNK_SIZE
           /\ i.op # "append" => i.data = <<>> /\ Taken' = Taken
           /\ i.op = "finalize" => requests' = <<>> /\ Finishing
           /\ ~finalized /\ 1 \in DOMAIN requests
<1> DEFINE i == requests[1]
<1>1. /\ requests \in Seq(Intents) /\ Len(requests) \in Nat /\ 1 \in DOMAIN requests /\ i \in Intents /\ Taken = i.at
      /\ requests' \in Seq(Intents) /\ Len(requests') = Len(requests) - 1 /\ DOMAIN requests = 1..Len(requests)
      /\ DOMAIN requests' = 1..(Len(requests) - 1) /\ \A k \in 1..(Len(requests) - 1) : requests'[k] = requests[k + 1]
  BY DEF TypeOK, Taken
<1>2. Taken \in Nat /\ write_offset \in Nat
  BY Sizes
<1>3. Carries(requests, Taken, write_offset)
  BY DEF ChannelOk
<1>4. /\ Carries(requests', End(i), write_offset)
      /\ requests' # <<>> => requests'[1].at = End(i)
      /\ requests' = <<>> => End(i) = write_offset
  BY <1>1, <1>2, <1>3, ItemTypes, CarriesTail
<1>5. Taken' = End(i)
  BY <1>4 DEF Taken
<1>6. End(i) \in Nat /\ i.at <= End(i) /\ IsRun(i.data, i.at) /\ i.data \in Seq(Nat) /\ End(i) = i.at + Len(i.data)
  BY <1>1, <1>2, <1>3, ItemTypes, ItemFacts, CarriesItem
<1>7. \A k \in DOMAIN requests :
         /\ IF requests[k].op = "append" THEN Len(requests[k].data) \in 1..MAX_WRITE_CHUNK_SIZE
                                         ELSE requests[k].data = <<>>
         /\ requests[k].op = "finalize" => k = Len(requests) /\ Finishing
  BY DEF ChannelOk
<1>8. \A k \in DOMAIN requests' : k + 1 \in DOMAIN requests /\ requests'[k] = requests[k + 1]
  BY <1>1
<1>9. ASSUME NEW k \in DOMAIN requests'
      PROVE  /\ IF requests'[k].op = "append" THEN Len(requests'[k].data) \in 1..MAX_WRITE_CHUNK_SIZE
                                              ELSE requests'[k].data = <<>>
             /\ requests'[k].op = "finalize" => k = Len(requests') /\ Finishing
  <2>1. k + 1 = Len(requests) => k = Len(requests')
    BY <1>1
  <2> QED BY <1>7, <1>8, <2>1
<1>10. i.op = "finalize" => requests' = <<>> /\ Finishing
  <2>1. ASSUME i.op = "finalize" PROVE Len(requests') = 0 /\ Finishing
    BY <1>1, <1>7, <2>1
  <2> QED BY <1>1, <2>1, EmptySeq
<1>11. i.op # "append" => i.data = <<>> /\ Taken' = Taken
  <2>1. ASSUME i.op # "append" PROVE i.data = <<>> /\ Taken' = Taken
    <3>1. i.data = <<>>
      BY <1>1, <1>7, <2>1
    <3>2. Len(i.data) = 0
      BY <3>1
    <3> QED BY <1>1, <1>2, <1>5, <1>6, <3>1, <3>2
  <2> QED BY <2>1
<1>12. End(i) \in Offsets
  <2>1. End(i) <= write_offset
    BY <1>1, <1>2, <1>3, ItemTypes, CarriesOrder
  <2> QED BY <1>2, <1>6, <2>1, Sizes DEF Offsets
<1>13. Len(requests') <= CHANNEL_BUFFER_SIZE
  BY <1>1, BidiWriteAssumption DEF TypeOK
<1>14. ~finalized
  BY DEF ChannelOk
<1> QED BY <1>1, <1>4, <1>5, <1>6, <1>7, <1>8, <1>9, <1>10, <1>11, <1>12, <1>13, <1>14

\* A step that adds a request to a live stream keeps who is owed a response.
LEMMA AppendedRequests ==
    ASSUME TypeOK, NEW q \in Requests, reqs' = Append(reqs, q)
    PROVE  /\ Len(reqs) \in Nat /\ Len(reqs) + 1 \in DOMAIN reqs' /\ reqs'[Len(reqs) + 1] = q
           /\ \A i \in DOMAIN reqs : i \in DOMAIN reqs' /\ reqs'[i] = reqs[i]
<1>1. reqs \in Seq(Requests)
  BY DEF TypeOK
<1> QED BY <1>1

\* What both kinds of intent have in common.
ProcessIntentFrame ==
    /\ pc = "run" /\ requests # <<>> /\ requests' = Tail(requests)
    /\ UNCHANGED <<given, log, appended, coalescing_buffer, ready, write_offset, call, calls, confirmed, open>>
    /\ UNCHANGED <<reply, pc, persisted_size, attempt_count, redirects_followed, last_persisted_size, fruitless>>
    /\ UNCHANGED <<stream, resps, object, final, received, rejected, faults>>

\* What process_intent finds: nothing was finalized before.
LEMMA ProcessIntentFacts ==
    ASSUME IInv, ProcessIntentFrame
    PROVE  /\ ~WorkerEnded /\ ~WorkerEnded' /\ ChannelOk /\ PendingOk /\ IdsOk /\ ~finalized /\ ~final
           /\ \A k \in DOMAIN pending_requests : pending_requests[k].kind # "finalize"
           /\ CallOk' /\ ReplyOk' /\ ResponsesOk' /\ BudgetInv' /\ UNCHANGED transport
           /\ \A k \in DOMAIN requests' : OwnOk(requests[k])'
           /\ \A k \in DOMAIN pending_requests : OwnOk(pending_requests[k])
           /\ stream = "open" => WireOk /\ \A k \in DOMAIN reqs : ~reqs[k].finish_write
<1>0. /\ TypeOK /\ CallOk /\ ReplyOk /\ WorkerInv /\ ObjectOk /\ ResponsesOk /\ StreamInv /\ BudgetInv
      /\ pc = "run" /\ pc' = pc /\ requests # <<>> /\ requests' = Tail(requests)
      /\ UNCHANGED <<given, log, appended, coalescing_buffer, ready, write_offset, call, calls, confirmed, open>>
      /\ UNCHANGED <<reply, pc, persisted_size, attempt_count, redirects_followed, last_persisted_size, fruitless>>
      /\ UNCHANGED <<stream, resps, object, final, received, rejected, faults>>
  BY DEF IInv, AppInv, ProcessIntentFrame
<1>1. ~WorkerEnded /\ ~WorkerEnded' /\ ChannelOk /\ PendingOk /\ IdsOk
  BY <1>0 DEF WorkerEnded, WorkerInv
<1>2. ~finalized /\ ~final
  BY <1>0, <1>1 DEF ChannelOk, StreamInv
<1>3. \A k \in DOMAIN pending_requests : pending_requests[k].kind # "finalize"
  BY <1>1, <1>2 DEF PendingOk
<1>4. Awaits' = Awaits
  BY <1>0 DEF Awaits
<1>5. CallOk' /\ ReplyOk'
  BY <1>0, <1>1, <1>4 DEF CallOk, ReplyOk
<1>6. ResponsesOk' /\ BudgetInv'
  BY <1>0, <1>1 DEF ResponsesOk, HasStatus, BudgetInv
<1>7. ASSUME NEW k \in DOMAIN requests' PROVE OwnOk(requests[k])'
  <2>1. k + 1 \in DOMAIN requests /\ requests'[k] = requests[k + 1]
    BY <1>0, <1>1, TakeIntent
  <2>2. OwnOk(requests[k + 1])
    BY <1>1, <2>1 DEF IdsOk
  <2> QED BY <1>0, <1>4, <2>1, <2>2 DEF OwnOk
<1>8. ASSUME stream = "open" PROVE WireOk /\ \A k \in DOMAIN reqs : ~reqs[k].finish_write
  BY <1>0, <1>1, <1>2, <1>8 DEF StreamInv, Live, WireOk, RequestOk
<1>9. UNCHANGED transport
  BY <1>0 DEF transport, history
<1>10. \A k \in DOMAIN pending_requests : OwnOk(pending_requests[k])
  BY <1>1 DEF IdsOk
<1> QED BY <1>1, <1>2, <1>3, <1>5, <1>6, <1>7, <1>8, <1>9, <1>10

\* process_intent, Append: buffered, sent, and a probe at the watermark.
LEMMA ProcessAppendStep ==
    ASSUME IInv, process_intent, requests[1].op = "append"
    PROVE  IInv'
<1> DEFINE i == requests[1]
           probe == needs_watermark_flush(self_flush_outstanding, pending_requests, Append(replay_buffer, Chunk(i.at, i.data)))
<1>0. TypeOK /\ StreamInv /\ OwedInv /\ ObjectOk /\ WorkerInv
  BY DEF IInv
<1>1. /\ ProcessIntentFrame
      /\ replay_buffer' = Append(replay_buffer, Chunk(i.at, i.data))
      /\ self_flush_outstanding' = (self_flush_outstanding \/ probe)
      /\ reqs' = Sent(<<Request(i.at, i.data, probe, FALSE)>>)
      /\ UNCHANGED <<pending_requests, finalized>>
  <2>1. Head(requests).op = "append" /\ Head(requests) = requests[1]
    BY DEF process_intent
  <2>2. ProcessAppend(requests[1])
    BY <2>1 DEF process_intent
  <2>3. ProcessIntentFrame
    BY DEF process_intent, ProcessIntentFrame, transport, history, connector, service
  <2> QED BY <2>2, <2>3 DEF ProcessAppend
<1>2. /\ ~WorkerEnded /\ ~WorkerEnded' /\ ChannelOk /\ PendingOk /\ IdsOk /\ ~finalized /\ ~final
      /\ \A k \in DOMAIN pending_requests : pending_requests[k].kind # "finalize"
      /\ CallOk' /\ ReplyOk' /\ ResponsesOk' /\ BudgetInv' /\ UNCHANGED transport
      /\ \A k \in DOMAIN requests' : OwnOk(requests[k])'
      /\ \A k \in DOMAIN pending_requests : OwnOk(pending_requests[k])
      /\ stream = "open" => WireOk /\ \A k \in DOMAIN reqs : ~reqs[k].finish_write
  BY <1>1, ProcessIntentFacts
<1>3. /\ pc = "run" /\ requests # <<>> /\ requests' = Tail(requests)
      /\ UNCHANGED <<given, log, appended, coalescing_buffer, ready, write_offset, call, calls, confirmed, open>>
      /\ UNCHANGED <<reply, pc, persisted_size, attempt_count, redirects_followed, last_persisted_size, fruitless>>
      /\ UNCHANGED <<stream, resps, object, final, received, rejected, faults>>
  BY <1>1 DEF ProcessIntentFrame
<1>4. /\ i \in Intents /\ i.at = Taken /\ IsRun(i.data, Taken) /\ Taken' = End(i) /\ End(i) \in Nat /\ Taken <= Taken'
      /\ requests' \in Seq(Intents) /\ Carries(requests', Taken', write_offset') /\ Len(requests') <= CHANNEL_BUFFER_SIZE
      /\ \A k \in DOMAIN requests' :
           /\ IF requests'[k].op = "append" THEN Len(requests'[k].data) \in 1..MAX_WRITE_CHUNK_SIZE
                                            ELSE requests'[k].data = <<>>
           /\ requests'[k].op = "finalize" => k = Len(requests') /\ Finishing
      /\ Len(i.data) \in 1..MAX_WRITE_CHUNK_SIZE
  BY <1>0, <1>2, <1>3, TakeIntent
<1>5. i.at \in Offsets /\ i.data \in Seq(Nat) /\ i.data # <<>> /\ Len(i.data) \in Nat
  <2>1. i.at \in Offsets /\ i.data \in Seq(Nat)
    BY <1>4 DEF Intents
  <2>2. PICK w \in Seq(Nat) : w = i.data
    BY <2>1
  <2> QED BY <1>4, <2>1, <2>2
<1> HIDE DEF i
<1>6. Chunk(i.at, i.data) \in Chunks /\ Request(i.at, i.data, probe, FALSE) \in Requests
  <2>1. probe \in BOOLEAN
    BY DEF needs_watermark_flush
  <2> HIDE DEF probe
  <2> QED BY <1>5, <2>1 DEF Chunk, Chunks, Request, Requests
<1>7. PICK c \in Chunks : c = Chunk(i.at, i.data)
  BY <1>6
<1>8. c.at = Taken /\ c.data = i.data /\ End(c) = Taken'
  BY <1>4, <1>7 DEF Chunk, End
<1>9. PICK q \in Requests : q = Request(i.at, i.data, probe, FALSE)
  BY <1>6
<1>10. q.at = Taken /\ q.data = i.data /\ q.data # <<>> /\ End(q) = Taken' /\ q.state_lookup = probe /\ ~q.finish_write
  <2> HIDE DEF probe
  <2> QED BY <1>4, <1>5, <1>9 DEF Request, End
<1>11. /\ replay_buffer' = Append(replay_buffer, c)
       /\ reqs' = IF stream = "open" THEN Append(reqs, q) ELSE reqs
  <2>1. replay_buffer' = Append(replay_buffer, c)
    BY <1>1, <1>7
  <2>2. reqs' = IF stream = "open" THEN reqs \o <<q>> ELSE reqs
    BY <1>1, <1>9 DEF Sent
  <2>3. reqs \in Seq(Requests)
    BY <1>0 DEF TypeOK
  <2>4. reqs \o <<q>> = Append(reqs, q)
    BY <2>3
  <2> QED BY <2>1, <2>2, <2>4
<1>12. replay_buffer \in Seq(Chunks) /\ reqs \in Seq(Requests) /\ Taken \in Nat /\ persisted_size \in Nat /\ Taken' \in Nat
  BY <1>0, <1>4, Sizes DEF TypeOK
<1>13. replay_buffer' \in Seq(Chunks) /\ \A k \in DOMAIN replay_buffer' : Len(replay_buffer'[k].data) \in 1..MAX_WRITE_CHUNK_SIZE
  <2>1. \A k \in DOMAIN replay_buffer : Len(replay_buffer[k].data) \in 1..MAX_WRITE_CHUNK_SIZE
    BY <1>0 DEF TypeOK
  <2>2. Len(c.data) \in 1..MAX_WRITE_CHUNK_SIZE
    BY <1>4, <1>8
  <2>3. /\ Len(replay_buffer) \in Nat /\ DOMAIN replay_buffer' = 1..(Len(replay_buffer) + 1) /\ DOMAIN replay_buffer = 1..Len(replay_buffer)
        /\ replay_buffer'[Len(replay_buffer) + 1] = c /\ \A k \in 1..Len(replay_buffer) : replay_buffer'[k] = replay_buffer[k]
    BY <1>11, <1>12
  <2>4. replay_buffer' \in Seq(Chunks)
    BY <1>11, <1>12
  <2>5. ASSUME NEW k \in DOMAIN replay_buffer' PROVE Len(replay_buffer'[k].data) \in 1..MAX_WRITE_CHUNK_SIZE
    <3>1. CASE k = Len(replay_buffer) + 1
      BY <2>2, <2>3, <3>1
    <3>2. CASE k # Len(replay_buffer) + 1
      <4>1. k \in DOMAIN replay_buffer
        BY <2>3, <3>2
      <4> QED BY <2>1, <2>3, <4>1
    <3> QED BY <3>1, <3>2
  <2> QED BY <2>4, <2>5
<1>14. TypeOK'
  <2>1. reqs' \in Seq(Requests)
    BY <1>11, <1>12
  <2>2. self_flush_outstanding' \in BOOLEAN
    BY <1>0, <1>1 DEF TypeOK, needs_watermark_flush
  <2> QED BY <1>0, <1>1, <1>3, <1>4, <1>13, <2>1, <2>2 DEF TypeOK
<1>15. ChannelOk'
  <2>1. Carries(replay_buffer', persisted_size', Taken')
    <3>1. Carries(replay_buffer, persisted_size, Taken) /\ IsRun(c.data, Taken)
      BY <1>2, <1>4, <1>8 DEF ChannelOk
    <3>2. Carries(Append(replay_buffer, c), persisted_size, End(c))
      BY <1>8, <1>12, <3>1, ItemTypes, CarriesAppend
    <3> QED BY <1>3, <1>8, <1>11, <3>2
  <2>2. Finishing' = Finishing
    BY <1>3 DEF Finishing
  <2> QED BY <1>1, <1>2, <1>3, <1>4, <2>1, <2>2 DEF ChannelOk
<1>16. PendingOk' /\ IdsOk'
  <2>1. ASSUME NEW k \in DOMAIN pending_requests PROVE pending_requests[k].at <= Taken'
    <3>1. pending_requests[k].at <= Taken /\ pending_requests[k] \in Pending
      BY <1>0, <1>2 DEF PendingOk, TypeOK
    <3>2. pending_requests[k].at \in Nat
      BY <3>1 DEF Pending, Offsets
    <3> QED BY <1>4, <1>12, <3>1, <3>2
  <2>2. PendingOk'
    BY <1>1, <1>2, <2>1 DEF PendingOk
  <2>3. Awaits' = Awaits
    BY <1>3 DEF Awaits
  <2>4. ASSUME NEW k \in DOMAIN pending_requests' PROVE OwnOk(pending_requests[k])'
    BY <1>1, <1>2, <1>3, <2>3 DEF OwnOk
  <2> QED BY <1>2, <2>2, <2>4 DEF IdsOk
<1>17. StreamInv'
  <2>1. ASSUME stream = "open" PROVE WireOk'
    <3>1. IsRun(q.data, q.at)
      BY <1>4, <1>10
    <3>2. WireOk /\ \A k \in DOMAIN reqs : ~reqs[k].finish_write
      BY <1>2, <2>1
    <3>3. End(q) <= Taken' /\ reqs' = Append(reqs, q)
      BY <1>10, <1>11, <1>12, <2>1
    <3> QED BY <1>0, <1>2, <1>3, <1>4, <1>10, <1>12, <3>1, <3>2, <3>3, WireAppend
  <2> QED BY <1>0, <1>2, <1>3, <1>11, <2>1 DEF StreamInv, Live
<1>18. OwedInv'
  <2>1. SUFFICES ASSUME stream = "open"
                 PROVE  /\ self_flush_outstanding' => Owed'
                        /\ pending_requests' # <<>> =>
                             \/ \E k \in DOMAIN reqs' : reqs'[k] = RequestOf(Last(pending_requests))'
                             \/ \E k \in DOMAIN resps' : is_satisfied(Last(pending_requests), resps[k])'
                        /\ unpersisted_bytes(replay_buffer)' >= Watermark => self_flush_outstanding' \/ pending_requests' # <<>>
    BY <1>3 DEF OwedInv
  <2>2. reqs' = Append(reqs, q)
    BY <1>11, <2>1
  <2>3. /\ Len(reqs) + 1 \in DOMAIN reqs' /\ reqs'[Len(reqs) + 1] = q
        /\ \A k \in DOMAIN reqs : k \in DOMAIN reqs' /\ reqs'[k] = reqs[k]
    BY <1>0, <2>2, AppendedRequests
  <2>4. Owed => Owed'
    BY <1>3, <2>3 DEF Owed
  <2>5. probe => Owed'
    BY <1>10, <2>3 DEF Owed
  <2>6. self_flush_outstanding' => Owed'
    BY <1>0, <1>1, <1>3, <2>1, <2>4, <2>5 DEF OwedInv
  <2>7. RequestOf(Last(pending_requests))' = RequestOf(Last(pending_requests)) /\ Last(pending_requests)' = Last(pending_requests)
    BY <1>1 DEF RequestOf, Last, Request
  <2>8. ASSUME pending_requests' # <<>>
        PROVE  \/ \E k \in DOMAIN reqs' : reqs'[k] = RequestOf(Last(pending_requests))'
               \/ \E k \in DOMAIN resps' : is_satisfied(Last(pending_requests), resps[k])'
    <3>1. \/ \E k \in DOMAIN reqs : reqs[k] = RequestOf(Last(pending_requests))
          \/ \E k \in DOMAIN resps : is_satisfied(Last(pending_requests), resps[k])
      BY <1>0, <1>1, <1>3, <2>1, <2>8 DEF OwedInv
    <3>2. CASE \E k \in DOMAIN reqs : reqs[k] = RequestOf(Last(pending_requests))
      BY <2>3, <2>7, <3>2
    <3>3. CASE \E k \in DOMAIN resps : is_satisfied(Last(pending_requests), resps[k])
      BY <1>1, <1>3, <3>3 DEF is_satisfied, HasStatus, Last
    <3> QED BY <3>1, <3>2, <3>3
  <2>9. unpersisted_bytes(replay_buffer)' >= Watermark => self_flush_outstanding' \/ pending_requests' # <<>>
    <3>1. unpersisted_bytes(replay_buffer)' = unpersisted_bytes(Append(replay_buffer, Chunk(i.at, i.data)))
      BY <1>1 DEF unpersisted_bytes
    <3> QED BY <1>0, <1>1, <3>1 DEF needs_watermark_flush, Watermark, TypeOK
  <2> QED BY <2>6, <2>8, <2>9
<1> QED BY <1>2, <1>3, <1>4, <1>14, <1>15, <1>16, <1>17, <1>18, WorkerFrame DEF WorkerInv

\* process_intent, Flush and Finalize: pending, and sent.
LEMMA ProcessFlushStep ==
    ASSUME IInv, process_intent, requests[1].op # "append"
    PROVE  IInv'
<1> DEFINE i == requests[1]
<1>0. TypeOK /\ StreamInv /\ OwedInv /\ ObjectOk /\ WorkerInv
  BY DEF IInv
<1>1. /\ ProcessIntentFrame
      /\ pending_requests' = Append(pending_requests, PendingOf(i))
      /\ finalized' = (finalized \/ i.op = "finalize")
      /\ reqs' = Sent(<<RequestOf(PendingOf(i))>>)
      /\ UNCHANGED <<replay_buffer, self_flush_outstanding>>
  <2>1. Head(requests).op # "append" /\ Head(requests) = requests[1]
    BY DEF process_intent
  <2>2. ProcessFlushOrFinalize(requests[1])
    BY <2>1 DEF process_intent
  <2>3. ProcessIntentFrame
    BY DEF process_intent, ProcessIntentFrame, transport, history, connector, service
  <2> QED BY <2>2, <2>3 DEF ProcessFlushOrFinalize
<1>2. /\ ~WorkerEnded /\ ~WorkerEnded' /\ ChannelOk /\ PendingOk /\ IdsOk /\ ~finalized /\ ~final
      /\ \A k \in DOMAIN pending_requests : pending_requests[k].kind # "finalize"
      /\ CallOk' /\ ReplyOk' /\ ResponsesOk' /\ BudgetInv' /\ UNCHANGED transport
      /\ \A k \in DOMAIN requests' : OwnOk(requests[k])'
      /\ \A k \in DOMAIN pending_requests : OwnOk(pending_requests[k])
      /\ stream = "open" => WireOk /\ \A k \in DOMAIN reqs : ~reqs[k].finish_write
  BY <1>1, ProcessIntentFacts
<1>3. /\ pc = "run" /\ requests # <<>> /\ requests' = Tail(requests)
      /\ UNCHANGED <<given, log, appended, coalescing_buffer, ready, write_offset, call, calls, confirmed, open>>
      /\ UNCHANGED <<reply, pc, persisted_size, attempt_count, redirects_followed, last_persisted_size, fruitless>>
      /\ UNCHANGED <<stream, resps, object, final, received, rejected, faults>>
  BY <1>1 DEF ProcessIntentFrame
<1>4. /\ i \in Intents /\ i.at = Taken /\ Taken' = Taken /\ i.data = <<>>
      /\ requests' \in Seq(Intents) /\ Carries(requests', Taken', write_offset') /\ Len(requests') <= CHANNEL_BUFFER_SIZE
      /\ \A k \in DOMAIN requests' :
           /\ IF requests'[k].op = "append" THEN Len(requests'[k].data) \in 1..MAX_WRITE_CHUNK_SIZE
                                            ELSE requests'[k].data = <<>>
           /\ requests'[k].op = "finalize" => k = Len(requests') /\ Finishing
      /\ i.op = "finalize" => requests' = <<>> /\ Finishing
  BY <1>0, <1>2, <1>3, TakeIntent
<1>5. i.op \in {"flush", "finalize"} /\ i.at \in Offsets /\ i.id \in Nat /\ OwnOk(i)
  <2>1. 1 \in DOMAIN requests
    BY <1>0, <1>2, <1>3, TakeIntent
  <2> QED BY <1>2, <1>4, <2>1 DEF Intents, IdsOk
<1> HIDE DEF i
<1>6. PendingOf(i) \in Pending
  BY <1>5 DEF PendingOf, Pending
<1>7. PICK p \in Pending : p = PendingOf(i)
  BY <1>6
<1>8. p.kind = i.op /\ p.at = Taken /\ p.id = i.id /\ OwnOk(p)
  BY <1>4, <1>5, <1>7 DEF PendingOf, OwnOk
<1>9. RequestOf(p) \in Requests
  <2>1. p.at \in Offsets /\ (p.kind = "flush") \in BOOLEAN /\ (p.kind = "finalize") \in BOOLEAN
    BY DEF Pending
  <2> QED BY <2>1 DEF RequestOf, Request, Requests
<1>10. PICK q \in Requests : q = RequestOf(p)
  BY <1>9
<1>11. q.at = Taken /\ q.data = <<>> /\ (q.state_lookup <=> p.kind = "flush") /\ (q.finish_write <=> p.kind = "finalize")
  BY <1>8, <1>10 DEF RequestOf, Request
<1>12. replay_buffer \in Seq(Chunks) /\ reqs \in Seq(Requests) /\ Taken \in Nat /\ pending_requests \in Seq(Pending)
  BY <1>0, Sizes DEF TypeOK
<1>13. /\ pending_requests' = Append(pending_requests, p)
       /\ reqs' = IF stream = "open" THEN Append(reqs, q) ELSE reqs
  <2>1. pending_requests' = Append(pending_requests, p)
    BY <1>1, <1>7
  <2>2. reqs' = IF stream = "open" THEN reqs \o <<q>> ELSE reqs
    BY <1>1, <1>7, <1>10 DEF Sent
  <2>3. reqs \o <<q>> = Append(reqs, q)
    BY <1>12
  <2> QED BY <2>1, <2>2, <2>3
<1>14. /\ Len(pending_requests) \in Nat /\ Len(pending_requests') = Len(pending_requests) + 1 /\ pending_requests' # <<>>
       /\ DOMAIN pending_requests' = 1..(Len(pending_requests) + 1) /\ DOMAIN pending_requests = 1..Len(pending_requests)
       /\ pending_requests'[Len(pending_requests) + 1] = p
       /\ \A k \in 1..Len(pending_requests) : pending_requests'[k] = pending_requests[k]
       /\ pending_requests' \in Seq(Pending) /\ Last(pending_requests') = p
  <2>1. /\ Len(pending_requests) \in Nat /\ Len(pending_requests') = Len(pending_requests) + 1 /\ pending_requests' # <<>>
        /\ DOMAIN pending_requests' = 1..(Len(pending_requests) + 1) /\ DOMAIN pending_requests = 1..Len(pending_requests)
        /\ pending_requests'[Len(pending_requests) + 1] = p
        /\ \A k \in 1..Len(pending_requests) : pending_requests'[k] = pending_requests[k]
        /\ pending_requests' \in Seq(Pending)
    BY <1>12, <1>13, AppendProperties, LenProperties, SMTT(30)
  <2> QED BY <2>1 DEF Last
<1>15. TypeOK'
  <2>1. reqs' \in Seq(Requests)
    BY <1>12, <1>13
  <2>2. finalized' \in BOOLEAN
    BY <1>0, <1>1 DEF TypeOK
  <2> QED BY <1>0, <1>1, <1>3, <1>4, <1>14, <2>1, <2>2 DEF TypeOK
<1>16. ChannelOk'
  <2>1. Carries(replay_buffer', persisted_size', Taken')
    BY <1>1, <1>2, <1>3, <1>4 DEF ChannelOk
  <2>2. Finishing' = Finishing
    BY <1>3 DEF Finishing
  <2> QED BY <1>1, <1>2, <1>3, <1>4, <2>1, <2>2 DEF ChannelOk
<1>17. PendingOk'
  <2>1. ASSUME NEW k \in DOMAIN pending_requests'
        PROVE  /\ pending_requests'[k].at <= Taken
               /\ pending_requests'[k].kind = "finalize" => k = Len(pending_requests') /\ finalized' /\ pending_requests'[k].at = Taken
    <3>1. CASE k = Len(pending_requests) + 1
      <4>1. pending_requests'[k] = p /\ k = Len(pending_requests') /\ Taken <= Taken
        BY <1>12, <1>14, <3>1
      <4>2. p.kind = "finalize" => finalized'
        BY <1>1, <1>8
      <4> QED BY <1>8, <4>1, <4>2
    <3>2. CASE k # Len(pending_requests) + 1
      <4>1. k \in DOMAIN pending_requests
        BY <1>14, <3>2
      <4> QED BY <1>2, <1>14, <4>1 DEF PendingOk
    <3> QED BY <3>1, <3>2
  <2>2. ASSUME NEW j \in DOMAIN pending_requests', NEW k \in DOMAIN pending_requests', j <= k
        PROVE  pending_requests'[j].at <= pending_requests'[k].at
    <3>1. CASE k = Len(pending_requests) + 1
      BY <1>8, <1>14, <2>1, <3>1
    <3>2. CASE k # Len(pending_requests) + 1
      <4>1. k \in DOMAIN pending_requests /\ j \in DOMAIN pending_requests
        BY <1>14, <2>2, <3>2
      <4> QED BY <1>2, <1>14, <2>2, <4>1 DEF PendingOk
    <3> QED BY <3>1, <3>2
  <2>3. finalized' => Last(pending_requests').kind = "finalize"
    BY <1>1, <1>2, <1>8, <1>14
  <2> QED BY <1>4, <2>1, <2>2, <2>3 DEF PendingOk
<1>18. IdsOk'
  <2>1. Awaits' = Awaits
    BY <1>3 DEF Awaits
  <2>2. ASSUME NEW k \in DOMAIN pending_requests' PROVE OwnOk(pending_requests[k])'
    <3>1. CASE k = Len(pending_requests) + 1
      BY <1>3, <1>8, <1>14, <2>1, <3>1 DEF OwnOk
    <3>2. CASE k # Len(pending_requests) + 1
      <4>1. k \in DOMAIN pending_requests
        BY <1>14, <3>2
      <4> QED BY <1>2, <1>3, <1>14, <2>1, <4>1 DEF OwnOk
    <3> QED BY <3>1, <3>2
  <2> QED BY <1>2, <2>2 DEF IdsOk
<1>19. StreamInv'
  <2>1. ASSUME stream = "open" PROVE WireOk'
    <3>1. IsRun(q.data, q.at) /\ End(q) = Taken
      <4>1. Len(q.data) = 0
        BY <1>11
      <4> QED BY <1>11, <1>12, <4>1, EmptyRun DEF End
    <3>2. WireOk /\ \A k \in DOMAIN reqs : ~reqs[k].finish_write
      BY <1>2, <2>1
    <3>3. End(q) <= Taken' /\ reqs' = Append(reqs, q) /\ q.at <= Taken /\ Taken <= Taken'
      BY <1>4, <1>11, <1>12, <1>13, <2>1, <3>1
    <3>4. q.finish_write => /\ finalized' /\ q.data = <<>>
                            /\ pending_requests' # <<>> /\ Last(pending_requests').kind = "finalize"
      BY <1>1, <1>8, <1>11, <1>14
    <3>5. Taken' \in Nat
      BY <1>4, <1>12
    <3> QED BY <1>0, <1>2, <1>3, <1>4, <1>11, <3>1, <3>2, <3>3, <3>4, <3>5, WireAppend
  <2> QED BY <1>0, <1>2, <1>3, <1>13, <2>1 DEF StreamInv, Live
<1>20. OwedInv'
  <2>1. SUFFICES ASSUME stream = "open"
                 PROVE  /\ self_flush_outstanding' => Owed'
                        /\ \E k \in DOMAIN reqs' : reqs'[k] = RequestOf(Last(pending_requests))'
    BY <1>3, <1>14 DEF OwedInv
  <2>2. reqs' = Append(reqs, q)
    BY <1>13, <2>1
  <2>3. /\ Len(reqs) + 1 \in DOMAIN reqs' /\ reqs'[Len(reqs) + 1] = q
        /\ \A k \in DOMAIN reqs : k \in DOMAIN reqs' /\ reqs'[k] = reqs[k]
    BY <1>0, <2>2, AppendedRequests
  <2>4. Owed => Owed'
    BY <1>3, <2>3 DEF Owed
  <2>5. RequestOf(Last(pending_requests))' = q
    BY <1>10, <1>14 DEF RequestOf, Request, Last
  <2> QED BY <1>0, <1>1, <1>3, <2>1, <2>3, <2>4, <2>5 DEF OwedInv
<1>21. Taken <= Taken'
  BY <1>4, <1>12
<1> QED BY <1>2, <1>3, <1>15, <1>16, <1>17, <1>18, <1>19, <1>20, <1>21, WorkerFrame DEF WorkerInv

\* The worker ends with an error: whoever still waits hears of it.
LEMMA FailureFacts ==
    ASSUME CallOk, ~WorkerEnded, UNCHANGED transport, pc' = "err", ~rejected', stream' # "open" => reqs' = <<>>,
           call \in {"flush", "finalize", "close"} => reply' = reply
    PROVE  CallOk' /\ WorkerInv' /\ OwedInv' /\ StreamInv' /\ WorkerEnded'
<1>0. WorkerEnded'
  BY DEF WorkerEnded
<1>1. UNCHANGED <<ready, coalescing_buffer, call, calls, open>> /\ Awaits' = Awaits
  BY DEF transport, history, Awaits
<1>2. CallOk'
  BY <1>0, <1>1 DEF CallOk
<1>3. WorkerInv' /\ OwedInv'
  BY <1>0 DEF WorkerInv, OwedInv, WorkerEnded
<1>4. StreamInv'
  BY <1>0 DEF StreamInv, Live
<1> QED BY <1>0, <1>2, <1>3, <1>4

\* A failing worker leaves the bytes and the object as they are.
LEMMA FailureStep ==
    ASSUME IInv, ~WorkerEnded, UNCHANGED transport, UNCHANGED <<object, received, final>>, pc' = "err",
           TypeOK', ReplyOk', ResponsesOk', BudgetInv', ~rejected', stream' # "open" => reqs' = <<>>,
           call \in {"flush", "finalize", "close"} => reply' = reply
    PROVE  IInv'
<1>0. CallOk
  BY DEF IInv, AppInv
<1>1. CallOk' /\ WorkerInv' /\ OwedInv' /\ StreamInv' /\ WorkerEnded'
  BY <1>0, FailureFacts
<1> QED BY <1>1, WorkerFrame

\* drain_intents_on_error answers only a call that still waits.
LEMMA DrainedFacts ==
    ASSUME TypeOK, CallOk, ReplyOk, ~WorkerEnded, UNCHANGED <<call, appended, object>>, reply' = DrainedReply
    PROVE  /\ reply' \in [state : {"none", "ok", "err"}, size : Offsets] /\ ReplyOk'
           /\ call \in {"flush", "finalize", "close"} => reply' = reply
<1>1. Awaits' = Awaits
  BY DEF Awaits
<1>2. 0 \in Offsets
  BY BidiWriteAssumption DEF Offsets
<1>3. Reply("err", 0) \in [state : {"none", "ok", "err"}, size : Offsets] /\ Reply("err", 0).state = "err"
  BY <1>2 DEF Reply
<1>4. reply' \in [state : {"none", "ok", "err"}, size : Offsets]
  BY <1>3 DEF DrainedReply, TypeOK
<1>5. call \in {"flush", "finalize", "close"} => reply' = reply
  BY AwaitSet DEF DrainedReply, Awaits
<1>6. reply' = reply \/ (Awaits /\ reply'.state = "err")
  BY <1>3 DEF DrainedReply
<1>7. call = "join" => ~Awaits
  BY AwaitSet DEF Awaits
<1>8. ReplyOk'
  BY <1>1, <1>6, <1>7 DEF ReplyOk
<1> QED BY <1>4, <1>5, <1>8

\* The channel is closed: the worker waits for the service to complete.
LEMMA RequestsClosedStep == ASSUME IInv, RequestsClosed PROVE IInv'
<1>0. TypeOK /\ CallOk /\ ReplyOk /\ WorkerInv /\ ObjectOk /\ ResponsesOk /\ StreamInv /\ BudgetInv
  BY DEF IInv, AppInv
<1>1. /\ pc = "run" /\ requests = <<>> /\ ~open /\ pc' = "wait" /\ UNCHANGED transport
      /\ UNCHANGED <<reply, requests, replay_buffer, pending_requests, persisted_size, finalized, self_flush_outstanding>>
      /\ UNCHANGED <<attempt_count, redirects_followed, last_persisted_size, fruitless>>
      /\ UNCHANGED <<stream, reqs, resps, object, final, received, rejected, faults>>
  BY DEF RequestsClosed, worker, connector, net, service
<1>2. /\ UNCHANGED <<given, log, appended, coalescing_buffer, ready, write_offset, call, calls, confirmed, open>>
      /\ Awaits' = Awaits /\ ~WorkerEnded /\ ~WorkerEnded' /\ Finishing' = Finishing
  BY <1>1 DEF transport, history, Awaits, WorkerEnded, Finishing
<1>3. TypeOK'
  BY <1>0, <1>1, <1>2 DEF TypeOK
<1>4. CallOk' /\ ReplyOk'
  BY <1>0, <1>1, <1>2 DEF CallOk, ReplyOk
<1>5. Taken' = Taken /\ Taken <= Taken'
  <2>1. Taken' = Taken
    BY <1>1, <1>2 DEF Taken
  <2> QED BY <1>0, <2>1, Sizes
<1>6. WorkerInv'
  <2>1. ChannelOk /\ PendingOk /\ IdsOk
    BY <1>0, <1>2 DEF WorkerInv
  <2>2. ChannelOk'
    BY <1>1, <1>2, <1>5, <2>1 DEF ChannelOk, Carries, End
  <2>3. PendingOk'
    BY <1>1, <1>5, <2>1 DEF PendingOk
  <2>4. IdsOk'
    BY <1>1, <1>2, <2>1 DEF IdsOk, OwnOk
  <2> QED BY <2>2, <2>3, <2>4 DEF WorkerInv
<1>7. ResponsesOk' /\ BudgetInv' /\ OwedInv'
  BY <1>0, <1>1, <1>2 DEF ResponsesOk, HasStatus, BudgetInv, OwedInv
<1>8. WireOk => WireOk'
  BY <1>1, <1>5, WireFrame
<1>9. StreamInv'
  BY <1>0, <1>1, <1>2, <1>8 DEF StreamInv, Live
<1> QED BY <1>0, <1>1, <1>2, <1>3, <1>4, <1>5, <1>6, <1>7, <1>9, WorkerFrame

\* The stream ended after everything was answered.
LEMMA StreamFinishedStep == ASSUME IInv, StreamFinished PROVE IInv'
<1>0. TypeOK /\ CallOk /\ ReplyOk /\ WorkerInv /\ ObjectOk /\ ResponsesOk /\ StreamInv /\ BudgetInv
  BY DEF IInv, AppInv
<1>1. /\ stream # "open" /\ pc' = "ok" /\ UNCHANGED transport
      /\ UNCHANGED <<reply, requests, replay_buffer, pending_requests, persisted_size, finalized, self_flush_outstanding>>
      /\ UNCHANGED <<attempt_count, redirects_followed, last_persisted_size, fruitless>>
      /\ UNCHANGED <<stream, reqs, resps, object, final, received, rejected, faults>>
  BY DEF StreamFinished, worker, connector, net, service
<1>2. /\ UNCHANGED <<given, log, appended, coalescing_buffer, ready, write_offset, call, calls, confirmed, open>>
      /\ Awaits' = Awaits /\ WorkerEnded'
  BY <1>1 DEF transport, history, Awaits, WorkerEnded
<1>3. TypeOK'
  BY <1>0, <1>1, <1>2 DEF TypeOK
<1>4. CallOk' /\ ReplyOk'
  BY <1>0, <1>1, <1>2 DEF CallOk, ReplyOk
<1>5. ResponsesOk' /\ BudgetInv' /\ OwedInv' /\ WorkerInv'
  BY <1>0, <1>1, <1>2 DEF ResponsesOk, HasStatus, BudgetInv, OwedInv, WorkerInv
<1>6. StreamInv'
  BY <1>0, <1>1, <1>2 DEF StreamInv, Live
<1> QED BY <1>0, <1>1, <1>2, <1>3, <1>4, <1>5, <1>6, WorkerFrame

\* wait_for_server_completion meets an error.
LEMMA CompletionFailsStep == ASSUME IInv, CompletionFails PROVE IInv'
<1>0. TypeOK /\ CallOk /\ ReplyOk /\ ResponsesOk /\ StreamInv /\ BudgetInv
  BY DEF IInv, AppInv
<1>1. /\ pc = "wait" /\ pc' = "err" /\ UNCHANGED transport /\ reply' = DrainedReply /\ requests' = <<>> /\ pending_requests' = <<>>
      /\ UNCHANGED <<replay_buffer, persisted_size, finalized, self_flush_outstanding>>
      /\ UNCHANGED <<attempt_count, redirects_followed, last_persisted_size, fruitless>>
      /\ UNCHANGED <<stream, reqs, resps, object, final, received, rejected, faults>>
  BY DEF CompletionFails, WorkerFails, worker, connector, net, service
<1>2. UNCHANGED <<given, log, appended, coalescing_buffer, ready, write_offset, call, calls, confirmed, open>> /\ ~WorkerEnded
  BY <1>1 DEF transport, history, WorkerEnded
<1>3. /\ reply' \in [state : {"none", "ok", "err"}, size : Offsets] /\ ReplyOk'
      /\ call \in {"flush", "finalize", "close"} => reply' = reply
  BY <1>0, <1>1, <1>2, DrainedFacts
<1>4. TypeOK'
  <2>1. requests' \in Seq(Intents) /\ Len(requests') <= CHANNEL_BUFFER_SIZE /\ pending_requests' \in Seq(Pending)
    BY <1>1, BidiWriteAssumption
  <2> QED BY <1>0, <1>1, <1>2, <1>3, <2>1 DEF TypeOK
<1>5. ResponsesOk' /\ BudgetInv' /\ ~rejected' /\ (stream' # "open" => reqs' = <<>>)
  BY <1>0, <1>1, <1>2 DEF ResponsesOk, HasStatus, BudgetInv, StreamInv
<1> QED BY <1>1, <1>2, <1>3, <1>4, <1>5, FailureStep

\* An attempt of connect_attempt_loop fails.
LEMMA ConnectFailsStep == ASSUME IInv, NEW kind, ConnectFails(kind) PROVE IInv'
<1>0. TypeOK /\ CallOk /\ ReplyOk /\ WorkerInv /\ ResponsesOk /\ StreamInv /\ BudgetInv
  BY DEF IInv, AppInv
<1>1. /\ pc = "connect" /\ UNCHANGED transport /\ faults < MaxFaults /\ faults' = faults + 1
      /\ UNCHANGED <<replay_buffer, persisted_size, finalized, self_flush_outstanding>>
      /\ UNCHANGED <<attempt_count, last_persisted_size, fruitless>>
      /\ UNCHANGED <<stream, reqs, resps, object, final, received, rejected>>
  BY DEF ConnectFails, service
<1>2. /\ UNCHANGED <<given, log, appended, coalescing_buffer, ready, write_offset, call, calls, confirmed, open>> /\ ~WorkerEnded
      /\ Awaits' = Awaits /\ Finishing' = Finishing
  BY <1>1 DEF transport, history, WorkerEnded, Awaits, Finishing
<1>3. faults' \in 0..MaxFaults
  BY <1>0, <1>1, BidiWriteAssumption DEF TypeOK
<1>4. ResponsesOk' /\ BudgetInv'
  BY <1>0, <1>1, <1>2 DEF ResponsesOk, HasStatus, BudgetInv
<1>5. CASE redirects_followed' = redirects_followed + 1 /\ UNCHANGED <<pc, reply, requests, pending_requests>>
  <2>1. Taken' = Taken /\ Taken <= Taken' /\ ~WorkerEnded'
    <3>1. Taken' = Taken /\ ~WorkerEnded'
      BY <1>1, <1>2, <1>5 DEF Taken, WorkerEnded
    <3> QED BY <1>0, <3>1, Sizes
  <2>2. TypeOK'
    <3>1. redirects_followed' \in Nat
      BY <1>0, <1>5 DEF TypeOK
    <3> QED BY <1>0, <1>1, <1>2, <1>3, <1>5, <3>1 DEF TypeOK
  <2>3. CallOk' /\ ReplyOk' /\ OwedInv'
    BY <1>0, <1>1, <1>2, <1>5, <2>1 DEF CallOk, ReplyOk, OwedInv
  <2>4. IdsOk => IdsOk'
    BY <1>1, <1>2, <1>5 DEF IdsOk, OwnOk
  <2>5. WorkerInv'
    BY <1>0, <1>1, <1>2, <1>5, <2>4, WorkerSame DEF WorkerInv
  <2>6. StreamInv'
    BY <1>0, <1>1, <1>2, <1>5, <2>1 DEF StreamInv, Live
  <2> QED BY <1>1, <1>2, <1>4, <2>1, <2>2, <2>3, <2>5, <2>6, WorkerFrame
<1>6. CASE WorkerFails /\ UNCHANGED redirects_followed
  <2>1. pc' = "err" /\ reply' = DrainedReply /\ requests' = <<>> /\ pending_requests' = <<>>
    BY <1>6 DEF WorkerFails
  <2>2. /\ reply' \in [state : {"none", "ok", "err"}, size : Offsets] /\ ReplyOk'
        /\ call \in {"flush", "finalize", "close"} => reply' = reply
    BY <1>0, <1>1, <1>2, <2>1, DrainedFacts
  <2>3. TypeOK'
    <3>1. requests' \in Seq(Intents) /\ Len(requests') <= CHANNEL_BUFFER_SIZE /\ pending_requests' \in Seq(Pending)
      BY <2>1, BidiWriteAssumption
    <3> QED BY <1>0, <1>1, <1>2, <1>3, <1>6, <2>1, <2>2, <3>1 DEF TypeOK
  <2>4. ~rejected' /\ (stream' # "open" => reqs' = <<>>)
    BY <1>0, <1>1 DEF StreamInv
  <2> QED BY <1>1, <1>2, <1>4, <2>1, <2>2, <2>3, <2>4, FailureStep
<1> QED BY <1>5, <1>6 DEF ConnectFails

\* Connector::reconnect: the budget is spent, or refreshed by progress.
LEMMA ReconnectStep == ASSUME IInv, Reconnect PROVE IInv'
<1> DEFINE fresh     == Progress(persisted_size)
           attempts  == (IF fresh THEN 0 ELSE attempt_count) + (IF stream = "closed" THEN 1 ELSE 0)
           redirects == (IF fresh THEN 0 ELSE redirects_followed) + (IF stream = "redirect" THEN 1 ELSE 0)
           goesOn    == \/ stream = "closed" /\ attempts < AttemptLimit
                        \/ stream = "redirect" /\ redirects <= MAX_REDIRECTS_FOLLOWED
<1>0. TypeOK /\ CallOk /\ ReplyOk /\ WorkerInv /\ ResponsesOk /\ StreamInv /\ BudgetInv
  BY DEF IInv, AppInv
<1>1. /\ pc = "run" /\ resps = <<>> /\ stream # "open" /\ UNCHANGED transport
      /\ last_persisted_size' = (IF fresh THEN persisted_size ELSE last_persisted_size)
      /\ attempt_count' = attempts /\ redirects_followed' = redirects
      /\ \/ /\ goesOn /\ pc' = "connect" /\ fruitless' = (IF stream = "closed" THEN fruitless + 1 ELSE fruitless)
            /\ UNCHANGED <<reply, requests, pending_requests>>
         \/ ~goesOn /\ WorkerFails /\ UNCHANGED fruitless
      /\ self_flush_outstanding' = FALSE
      /\ UNCHANGED <<replay_buffer, persisted_size, finalized>>
      /\ UNCHANGED <<stream, reqs, resps, object, final, received, rejected, faults>>
  BY DEF Reconnect, net, service
<1>2. /\ UNCHANGED <<given, log, appended, coalescing_buffer, ready, write_offset, call, calls, confirmed, open>> /\ ~WorkerEnded
      /\ Awaits' = Awaits /\ Finishing' = Finishing
  BY <1>1 DEF transport, history, WorkerEnded, Awaits, Finishing
<1>3. /\ persisted_size \in Nat /\ last_persisted_size \in Nat /\ attempt_count \in Nat /\ redirects_followed \in Nat
      /\ fruitless \in Nat /\ AttemptLimit \in Nat /\ persisted_size \in Offsets /\ last_persisted_size \in Offsets
  BY <1>0, Sizes, BidiWriteAssumption DEF TypeOK
<1>4. /\ last_persisted_size' \in Offsets /\ attempt_count' \in Nat /\ redirects_followed' \in Nat /\ fruitless' \in Nat
      /\ self_flush_outstanding' \in BOOLEAN
  <2>1. fresh \in BOOLEAN
    BY DEF Progress
  <2>2. attempts \in Nat /\ redirects \in Nat
    <3> HIDE DEF fresh
    <3> QED BY <1>3, <2>1
  <2>3. last_persisted_size' \in Offsets /\ self_flush_outstanding' \in BOOLEAN
    <3> HIDE DEF attempts, redirects, goesOn, fresh
    <3> QED BY <1>1, <1>3
  <2>4. fruitless' \in Nat
    <3> HIDE DEF attempts, redirects, goesOn, fresh
    <3> QED BY <1>1, <1>3
  <2> HIDE DEF attempts, redirects, goesOn, fresh
  <2> QED BY <1>1, <2>2, <2>3, <2>4
<1>5. fresh => fruitless = 0
  BY <1>0, <1>2, <1>3 DEF Progress, BudgetInv
<1>6. BudgetInv'
  <2>1. fruitless <= attempt_count /\ (fruitless # 0 => persisted_size <= last_persisted_size /\ fruitless < AttemptLimit)
    BY <1>0, <1>2 DEF BudgetInv
  <2>2. persisted_size <= last_persisted_size' 
    BY <1>1, <1>3 DEF Progress
  <2>3. CASE goesOn /\ fruitless' = (IF stream = "closed" THEN fruitless + 1 ELSE fruitless)
    <3>1. fruitless' <= attempt_count'
      BY <1>1, <1>3, <1>5, <2>1, <2>3
    <3>2. fruitless' # 0 => fruitless' < AttemptLimit
      BY <1>1, <1>3, <1>5, <2>1, <2>3
    <3> QED BY <1>1, <2>2, <3>1, <3>2 DEF BudgetInv
  <2>4. CASE UNCHANGED fruitless
    <3>1. fruitless' <= attempt_count'
      BY <1>1, <1>3, <1>5, <2>1, <2>4
    <3> QED BY <1>1, <2>1, <2>2, <2>4, <3>1 DEF BudgetInv
  <2> QED BY <1>1, <2>3, <2>4
<1>7. ResponsesOk'
  BY <1>0, <1>1, <1>2 DEF ResponsesOk, HasStatus
<1> HIDE DEF goesOn, attempts, redirects, fresh
<1>8. CASE pc' = "connect" /\ UNCHANGED <<reply, requests, pending_requests>>
  <2>1. Taken' = Taken /\ Taken <= Taken' /\ ~WorkerEnded'
    <3>1. Taken' = Taken /\ ~WorkerEnded'
      BY <1>1, <1>2, <1>8 DEF Taken, WorkerEnded
    <3> QED BY <1>0, <3>1, Sizes
  <2>2. TypeOK'
    BY <1>0, <1>1, <1>2, <1>4, <1>8 DEF TypeOK
  <2>3. CallOk' /\ ReplyOk' /\ OwedInv'
    BY <1>0, <1>1, <1>2, <1>8, <2>1 DEF CallOk, ReplyOk, OwedInv
  <2>4. ChannelOk /\ PendingOk /\ IdsOk
    BY <1>0, <1>2 DEF WorkerInv
  <2>5. ChannelOk'
    BY <1>1, <1>2, <1>8, <2>1, <2>4 DEF ChannelOk, Carries, End
  <2>6. PendingOk'
    BY <1>1, <1>8, <2>1, <2>4 DEF PendingOk
  <2>7. IdsOk'
    BY <1>1, <1>2, <1>8, <2>4 DEF IdsOk, OwnOk
  <2>8. StreamInv'
    BY <1>0, <1>1, <1>2, <1>8, <2>1 DEF StreamInv, Live
  <2> QED BY <1>1, <1>2, <1>6, <1>7, <2>1, <2>2, <2>3, <2>5, <2>6, <2>7, <2>8, WorkerFrame DEF WorkerInv
<1>9. CASE WorkerFails
  <2>1. pc' = "err" /\ reply' = DrainedReply /\ requests' = <<>> /\ pending_requests' = <<>>
    BY <1>9 DEF WorkerFails
  <2>2. /\ reply' \in [state : {"none", "ok", "err"}, size : Offsets] /\ ReplyOk'
        /\ call \in {"flush", "finalize", "close"} => reply' = reply
    BY <1>0, <1>1, <1>2, <2>1, DrainedFacts
  <2>3. TypeOK'
    <3>1. requests' \in Seq(Intents) /\ Len(requests') <= CHANNEL_BUFFER_SIZE /\ pending_requests' \in Seq(Pending)
      BY <2>1, BidiWriteAssumption
    <3> QED BY <1>0, <1>1, <1>2, <1>4, <2>1, <2>2, <3>1 DEF TypeOK
  <2>4. ~rejected' /\ (stream' # "open" => reqs' = <<>>)
    BY <1>0, <1>1 DEF StreamInv
  <2> QED BY <1>1, <1>2, <1>6, <1>7, <2>1, <2>2, <2>3, <2>4, FailureStep
<1> QED BY <1>1, <1>8, <1>9

-----------------------------------------------------------------------------
(***************************************************************************)
(* handle_response_success.                                                *)
(***************************************************************************)
\* What is known of a response that the service sends.
Credible(r) ==
    /\ r \in Responses
    /\ HasStatus(r) => r.size <= Taken
    /\ r.final => final /\ r.size = appended

\* The size in a status is an offset.
LEMMA StatusSize == ASSUME NEW r \in Responses, HasStatus(r) PROVE r.size \in Offsets /\ r.size \in Nat
<1>1. r.size \in 0..NoStatus /\ r.size # NoStatus /\ MaxBytes \in Nat
  BY BidiWriteAssumption DEF Responses, HasStatus
<1> QED BY <1>1 DEF NoStatus, Offsets

\* ack with a credible size leaves exactly the bytes after it.
LEMMA ReplayFacts ==
    ASSUME TypeOK, ChannelOk, NEW r, Credible(r), ~OutOfRange(r)
    PROVE  /\ PersistedAfter(r) \in Offsets /\ PersistedAfter(r) \in Nat /\ persisted_size <= PersistedAfter(r)
           /\ PersistedAfter(r) <= Taken
           /\ ReplayAfter(r) \in Seq(Chunks) /\ Carries(ReplayAfter(r), PersistedAfter(r), Taken)
           /\ \A i \in DOMAIN ReplayAfter(r) : Len(ReplayAfter(r)[i].data) \in 1..MAX_WRITE_CHUNK_SIZE
<1>1. /\ replay_buffer \in Seq(Chunks) /\ Carries(replay_buffer, persisted_size, Taken)
      /\ \A i \in DOMAIN replay_buffer : Len(replay_buffer[i].data) \in 1..MAX_WRITE_CHUNK_SIZE
      /\ persisted_size \in Nat /\ persisted_size \in Offsets /\ Taken \in Nat
  BY Sizes DEF TypeOK, ChannelOk
<1>2. persisted_size <= Taken
  BY <1>1, ItemTypes, CarriesOrder
<1>3. CASE ~HasStatus(r)
  <2>1. PersistedAfter(r) = persisted_size /\ ReplayAfter(r) = replay_buffer
    BY <1>3 DEF PersistedAfter, ReplayAfter
  <2> QED BY <1>1, <1>2, <2>1
<1>4. CASE HasStatus(r)
  <2>1. PersistedAfter(r) = r.size /\ ReplayAfter(r) = ack(replay_buffer, r.size)
    BY <1>4 DEF PersistedAfter, ReplayAfter
  <2>2. r.size \in Offsets /\ r.size \in Nat /\ r.size <= Taken
    BY <1>4, StatusSize DEF Credible
  <2>3. PICK p \in Offsets : p = r.size
    BY <2>2
  <2>4. p \in Nat /\ persisted_size <= p /\ p <= Taken
    <3>1. ~(r.size < persisted_size)
      BY <1>4 DEF OutOfRange
    <3> QED BY <1>1, <2>2, <2>3, <3>1
  <2>5. /\ ack(replay_buffer, p) \in Seq(Chunks) /\ Carries(ack(replay_buffer, p), p, Taken)
        /\ \A i \in DOMAIN ack(replay_buffer, p) : Len(ack(replay_buffer, p)[i].data) \in 1..MAX_WRITE_CHUNK_SIZE
    BY <1>1, <2>4, AckFacts
  <2> QED BY <2>1, <2>2, <2>3, <2>4, <2>5
<1> QED BY <1>3, <1>4

\* The pending requests split into the answered prefix and the rest.
LEMMA PendingFacts ==
    ASSUME TypeOK, NEW r
    PROVE  LET k == Matched(r)  t == StillPending(r)  n == Len(pending_requests) IN
           /\ k \in 0..n /\ n \in Nat /\ t \in Seq(Pending) /\ Len(t) = n - k /\ Len(t) \in Nat
           /\ \A j \in DOMAIN t : k + j \in DOMAIN pending_requests /\ t[j] = pending_requests[k + j]
           /\ \A j \in 1..k : j \in DOMAIN pending_requests /\ is_satisfied(pending_requests[j], r)
           /\ t # <<>> => /\ k + 1 \in DOMAIN pending_requests /\ ~is_satisfied(pending_requests[k + 1], r)
                          /\ pending_requests # <<>> /\ Last(t) = Last(pending_requests)
           /\ t = <<>> => \A j \in DOMAIN pending_requests : is_satisfied(pending_requests[j], r)
<1> DEFINE good == {i \in DOMAIN pending_requests : is_satisfied(pending_requests[i], r)}
           k == Matched(r)
           t == StillPending(r)
           n == Len(pending_requests)
<1>1. pending_requests \in Seq(Pending) /\ n \in Nat /\ DOMAIN pending_requests = 1..n
  BY DEF TypeOK
<1>2. k = LongestPrefix(n, good)
  BY DEF Matched
<1> HIDE DEF good
<1>3. k \in 0..n /\ 1..k \subseteq good /\ (k < n => k + 1 \notin good)
  BY <1>1, <1>2, LongestPrefixFacts
<1>4. t = SubSeq(pending_requests, k + 1, n)
  BY DEF StillPending
<1> HIDE DEF k, t
<1>5. /\ t \in Seq(Pending) /\ Len(t) = n - k /\ Len(t) \in Nat
      /\ \A j \in 1..(n - k) : t[j] = pending_requests[k + j]
  <2>1. PICK s \in Seq(Pending) : s = pending_requests
    BY <1>1
  <2>2. PICK a \in Nat : a = k
    BY <1>1, <1>3
  <2>3. PICK l \in Nat : l = n
    BY <1>1
  <2>4. a <= l /\ l = Len(s) /\ t = SubSeq(s, a + 1, l)
    BY <1>3, <1>4, <2>1, <2>2, <2>3
  <2>5. t \in Seq(Pending) /\ Len(t) = l - a /\ \A j \in 1..(l - a) : t[j] = s[a + j]
    BY <2>4
  <2>6. l - a \in Nat
    BY <2>4
  <2> QED BY <2>1, <2>2, <2>3, <2>5, <2>6
<1>6. ASSUME NEW j \in DOMAIN t PROVE k + j \in DOMAIN pending_requests /\ t[j] = pending_requests[k + j]
  <2>1. j \in 1..(n - k) /\ k + j \in 1..n
    BY <1>1, <1>3, <1>5
  <2> QED BY <1>1, <1>5, <2>1
<1>7. ASSUME NEW j \in 1..k PROVE j \in DOMAIN pending_requests /\ is_satisfied(pending_requests[j], r)
  BY <1>3 DEF good
<1>8. ASSUME t # <<>>
      PROVE  /\ k + 1 \in DOMAIN pending_requests /\ ~is_satisfied(pending_requests[k + 1], r)
             /\ pending_requests # <<>> /\ Last(t) = Last(pending_requests)
  <2>1. k < n /\ k + 1 \in 1..n /\ n - k \in 1..(n - k) /\ k + (n - k) = n
    BY <1>1, <1>3, <1>5, <1>8, EmptySeq
  <2>2. k + 1 \in DOMAIN pending_requests /\ ~is_satisfied(pending_requests[k + 1], r)
    BY <1>1, <1>3, <2>1 DEF good
  <2>3. t[n - k] = pending_requests[n]
    BY <1>5, <2>1
  <2>4. pending_requests # <<>>
    BY <1>1, <2>1
  <2> QED BY <1>5, <2>2, <2>3, <2>4 DEF Last
<1>9. ASSUME t = <<>> PROVE \A j \in DOMAIN pending_requests : is_satisfied(pending_requests[j], r)
  <2>1. Len(t) = 0
    BY <1>9
  <2>2. k = n
    <3> HIDE DEF n
    <3> QED BY <1>1, <1>3, <1>5, <2>1
  <2> QED BY <1>1, <1>7, <2>2
<1> QED BY <1>1, <1>3, <1>5, <1>6, <1>7, <1>8, <1>9 DEF k, t

\* What is left of the pending requests keeps their order and their owners.
LEMMA PendingKept ==
    ASSUME TypeOK, PendingOk, IdsOk, NEW r, pending_requests' = StillPending(r), Taken' = Taken,
           UNCHANGED <<finalized, requests, calls, call, appended>>
    PROVE  PendingOk' /\ IdsOk'
<1> DEFINE k == Matched(r)
           t == StillPending(r)
           n == Len(pending_requests)
<1>1. /\ k \in 0..n /\ n \in Nat /\ t \in Seq(Pending) /\ Len(t) = n - k /\ Len(t) \in Nat
      /\ \A j \in DOMAIN t : k + j \in DOMAIN pending_requests /\ t[j] = pending_requests[k + j]
      /\ t # <<>> => pending_requests # <<>> /\ Last(t) = Last(pending_requests)
  BY PendingFacts
<1>2. pending_requests' = t /\ pending_requests \in Seq(Pending) /\ DOMAIN pending_requests = 1..n /\ DOMAIN t = 1..Len(t)
  BY <1>1 DEF TypeOK
<1> HIDE DEF k, t
<1>3. ASSUME NEW i \in DOMAIN t
      PROVE  t[i].at <= Taken /\ (t[i].kind = "finalize" => i = Len(t) /\ finalized /\ t[i].at = Taken)
  <2>1. k + i \in DOMAIN pending_requests /\ t[i] = pending_requests[k + i]
    BY <1>1
  <2>2. k + i = n => i = Len(t)
    BY <1>1, <1>2
  <2> QED BY <2>1, <2>2 DEF PendingOk
<1>4. ASSUME NEW i \in DOMAIN t, NEW j \in DOMAIN t, i <= j PROVE t[i].at <= t[j].at
  <2>1. k + i \in DOMAIN pending_requests /\ k + j \in DOMAIN pending_requests /\ t[i] = pending_requests[k + i] /\ t[j] = pending_requests[k + j]
    BY <1>1
  <2>2. k + i <= k + j
    BY <1>1, <1>2, <1>4
  <2> QED BY <2>1, <2>2 DEF PendingOk
<1>5. finalized /\ t # <<>> => Last(t).kind = "finalize"
  BY <1>1 DEF PendingOk
<1>6. PendingOk'
  BY <1>2, <1>3, <1>4, <1>5 DEF PendingOk
<1>7. Awaits' = Awaits
  BY DEF Awaits
<1>8. ASSUME NEW i \in DOMAIN pending_requests' PROVE OwnOk(pending_requests[i])'
  <2>1. k + i \in DOMAIN pending_requests /\ pending_requests'[i] = pending_requests[k + i]
    BY <1>1, <1>2
  <2>2. OwnOk(pending_requests[k + i])
    BY <2>1 DEF IdsOk
  <2> QED BY <1>7, <2>1, <2>2 DEF OwnOk
<1>9. ASSUME NEW i \in DOMAIN requests' PROVE OwnOk(requests[i])'
  BY <1>7 DEF IdsOk, OwnOk
<1> QED BY <1>6, <1>8, <1>9 DEF IdsOk

\* The call that is answered has all of its bytes in the object.
LEMMA ReplyFacts ==
    ASSUME TypeOK, CallOk, ReplyOk, IdsOk, ~WorkerEnded, UNCHANGED <<call, appended>>, NEW r, Credible(r),
           Len(object') \in Nat, Len(object) <= Len(object'), Len(object') <= appended, HasStatus(r) => r.size <= Len(object'),
           reply' = ReplyAfter(r)
    PROVE  /\ reply' \in [state : {"none", "ok", "err"}, size : Offsets] /\ ReplyOk'
           /\ call \in {"flush", "finalize", "close"} => reply' = reply
           /\ ~Bad(r) /\ Awaits => reply'.state # "err"
<1>1. Awaits' = Awaits /\ (call = "join" => ~Awaits) /\ (call \in {"flush", "finalize", "close"} => ~Awaits)
  BY AwaitSet DEF Awaits
<1>2. appended \in Nat /\ Len(object) \in Nat
  BY Sizes
<1>3. CASE Awaits /\ ~OutOfRange(r) /\ \E i \in 1..Matched(r) : pending_requests[i].id = calls
  <2>1. PICK i \in 1..Matched(r) : pending_requests[i].id = calls
    BY <1>3
  <2>2. i \in DOMAIN pending_requests /\ is_satisfied(pending_requests[i], r)
    BY <2>1, PendingFacts
  <2>3. pending_requests[i].at = appended
    BY <1>3, <2>1, <2>2 DEF IdsOk, OwnOk
  <2>4. HasStatus(r) /\ r.size >= appended
    BY <2>2, <2>3 DEF is_satisfied
  <2>5. r.size \in Offsets /\ r.size \in Nat /\ r.size <= Len(object')
    BY <2>4, StatusSize DEF Credible
  <2>6. r.size = appended /\ Len(object') = appended
    BY <1>2, <2>4, <2>5
  <2>7. reply' = Reply("ok", r.size)
    BY <1>3 DEF ReplyAfter
  <2>8. reply' \in [state : {"none", "ok", "err"}, size : Offsets] /\ reply'.state = "ok" /\ reply'.size = r.size
    BY <2>5, <2>7 DEF Reply
  <2>9. ReplyOk'
    BY <2>6, <2>8 DEF ReplyOk
  <2> QED BY <1>1, <1>3, <2>8, <2>9
<1>4. CASE ~(Awaits /\ ~OutOfRange(r) /\ \E i \in 1..Matched(r) : pending_requests[i].id = calls)
  <2>1. reply' = IF Bad(r) THEN DrainedReply ELSE reply
    BY <1>4 DEF ReplyAfter
  <2>2. 0 \in Offsets
    BY BidiWriteAssumption DEF Offsets
  <2>3. Reply("err", 0) \in [state : {"none", "ok", "err"}, size : Offsets] /\ Reply("err", 0).state = "err"
    BY <2>2 DEF Reply
  <2>4. reply' = reply \/ (Bad(r) /\ Awaits /\ reply' = Reply("err", 0))
    BY <2>1 DEF DrainedReply
  <2>5. reply' \in [state : {"none", "ok", "err"}, size : Offsets]
    BY <2>3, <2>4 DEF TypeOK
  <2>6. Len(object) = appended => Len(object') = appended
    BY <1>2
  <2>7. ReplyOk'
    BY <1>1, <2>3, <2>4, <2>6 DEF ReplyOk
  <2>8. ~Bad(r) /\ Awaits => reply'.state # "err"
    BY <2>1 DEF CallOk
  <2> QED BY <1>1, <2>4, <2>5, <2>7, <2>8
<1> QED BY <1>3, <1>4

\* When the object is final and nothing is pending any more, everything is acknowledged.
LEMMA FinalFacts ==
    ASSUME TypeOK, CoalescingOk, ChannelOk, PendingOk, final, finalized, pending_requests # <<>> \/ persisted_size = appended,
           NEW r, Credible(r), ~OutOfRange(r), StillPending(r) = <<>>
    PROVE  PersistedAfter(r) = appended /\ ReplayAfter(r) = <<>> /\ Taken = appended
<1>1. /\ PersistedAfter(r) \in Nat /\ persisted_size <= PersistedAfter(r) /\ PersistedAfter(r) <= Taken
      /\ ReplayAfter(r) \in Seq(Chunks) /\ Carries(ReplayAfter(r), PersistedAfter(r), Taken)
      /\ \A i \in DOMAIN ReplayAfter(r) : Len(ReplayAfter(r)[i].data) \in 1..MAX_WRITE_CHUNK_SIZE
  BY ReplayFacts
<1>2. Taken \in Nat /\ appended \in Nat /\ persisted_size \in Nat /\ Taken <= appended
  <2>1. requests \in Seq(Intents) /\ Carries(requests, Taken, write_offset) /\ Taken \in Nat /\ write_offset \in Nat
        /\ appended \in Nat /\ persisted_size \in Nat
    BY Sizes DEF TypeOK, ChannelOk
  <2>2. Taken <= write_offset
    BY <2>1, ItemTypes, CarriesOrder
  <2>3. write_offset + Len(coalescing_buffer) <= appended /\ Len(coalescing_buffer) \in Nat
    BY DEF CoalescingOk, TypeOK
  <2> QED BY <2>1, <2>2, <2>3
<1>3. PersistedAfter(r) = appended
  <2>1. CASE pending_requests # <<>>
    <3>1. Len(pending_requests) \in DOMAIN pending_requests
      BY <2>1 DEF TypeOK
    <3>2. is_satisfied(Last(pending_requests), r) /\ Last(pending_requests).kind = "finalize"
      BY <2>1, <3>1, PendingFacts DEF Last, PendingOk
    <3>3. HasStatus(r) /\ r.final
      BY <3>2 DEF is_satisfied
    <3> QED BY <3>3 DEF Credible, PersistedAfter
  <2>2. CASE persisted_size = appended
    BY <1>1, <1>2, <2>2
  <2> QED BY <2>1, <2>2
<1>4. ReplayAfter(r) = <<>>
  <2>1. PICK b \in Seq(Chunks) : b = ReplayAfter(r)
    BY <1>1
  <2>2. Carries(b, appended, Taken) /\ \A i \in DOMAIN b : Len(b[i].data) \in 1..MAX_WRITE_CHUNK_SIZE
    BY <1>1, <1>3, <2>1
  <2>3. SUFFICES ASSUME b # <<>> PROVE FALSE
    BY <2>1
  <2>4. 1 \in DOMAIN b
    BY <2>3
  <2>5. appended <= b[1].at /\ End(b[1]) <= Taken
    BY <1>2, <2>2, <2>4, ItemTypes, CarriesOrder
  <2>6. b[1].at \in Nat /\ End(b[1]) = b[1].at + Len(b[1].data) /\ Len(b[1].data) \in Nat
    BY <2>4, ItemTypes, ItemFacts
  <2>7. Len(b[1].data) >= 1
    BY <2>2, <2>4, <2>6, BidiWriteAssumption
  <2> QED BY <1>2, <2>5, <2>6, <2>7
<1>5. Taken = appended
  BY <1>1, <1>2, <1>3
<1> QED BY <1>3, <1>4, <1>5

\* The probe stands where the upload ends; without one, the watermark is not reached.
LEMMA ProbeFacts ==
    ASSUME NEW b \in Seq(Chunks), NEW m \in Nat, NEW n \in Offsets, Carries(b, m, n), NEW t
    PROVE  /\ \/ Probe(t, b) = <<>>
              \/ t = <<>> /\ b # <<>> /\ Probe(t, b) = <<Request(n, <<>>, TRUE, FALSE)>>
           /\ t = <<>> /\ Probe(t, b) = <<>> => ~(unpersisted_bytes(b) >= Watermark)
           /\ Request(n, <<>>, TRUE, FALSE) \in Requests
<1>1. b # <<>> => End(b[Len(b)]) = n
  BY DEF Carries
<1>2. Request(n, <<>>, TRUE, FALSE) \in Requests
  BY DEF Request, Requests
<1>3. <<Request(n, <<>>, TRUE, FALSE)>> # <<>>
  OBVIOUS
<1>4. \/ Probe(t, b) = <<>>
      \/ t = <<>> /\ b # <<>> /\ Probe(t, b) = <<Request(n, <<>>, TRUE, FALSE)>>
  BY <1>1 DEF Probe, needs_watermark_flush
<1>5. ASSUME t = <<>>, Probe(t, b) = <<>> PROVE ~(unpersisted_bytes(b) >= Watermark)
  <2>1. CASE b = <<>>
    BY <2>1, BidiWriteAssumption DEF unpersisted_bytes, Watermark
  <2>2. CASE b # <<>>
    <3>1. Probe(t, b) = IF needs_watermark_flush(FALSE, t, b) THEN <<Request(n, <<>>, TRUE, FALSE)>> ELSE <<>>
      BY <1>1, <2>2 DEF Probe
    <3>2. ~needs_watermark_flush(FALSE, t, b)
      BY <1>3, <1>5, <3>1
    <3> QED BY <1>5, <3>2 DEF needs_watermark_flush, Watermark
  <2> QED BY <2>1, <2>2
<1> QED BY <1>2, <1>4, <1>5

\* The pending requests shrink, and perhaps a probe is sent.
LEMMA WireAnswered ==
    ASSUME TypeOK, WireOk, UNCHANGED <<reqs, object, received, finalized, final>>, Taken' = Taken,
           (\E i \in DOMAIN reqs : reqs[i].finish_write) =>
               pending_requests' # <<>> /\ Last(pending_requests') = Last(pending_requests)
    PROVE  WireOk'
<1>1. Upto' = Upto
  BY DEF Upto
<1>2. \A i : Reached(reqs', Upto', i) = Reached(reqs, Upto, i)
  BY <1>1
<1>3. ASSUME NEW i \in DOMAIN reqs, RequestOk(i) PROVE RequestOk(i)'
  BY <1>2, <1>3 DEF RequestOk
<1>4. Len(reqs)' = Len(reqs)
  OBVIOUS
<1> QED BY <1>2, <1>3, <1>4 DEF WireOk

\* handle_response: what a response of the stream says is credible.
LEMMA HeadFacts ==
    ASSUME TypeOK, ChannelOk, ObjectOk, ResponsesOk, ~WorkerEnded, resps # <<>>
    PROVE  /\ Credible(resps[1]) /\ (HasStatus(resps[1]) => resps[1].size <= Len(object))
           /\ Tail(resps) \in Seq(Responses)
           /\ \A k \in DOMAIN Tail(resps) : k + 1 \in DOMAIN resps /\ Tail(resps)[k] = resps[k + 1]
           /\ \A k \in DOMAIN resps : k = 1 \/ (k - 1 \in DOMAIN Tail(resps) /\ Tail(resps)[k - 1] = resps[k])
<1>1. resps \in Seq(Responses) /\ 1 \in DOMAIN resps /\ resps[1] \in Responses
  BY DEF TypeOK
<1>2. /\ HasStatus(resps[1]) => resps[1].size <= Len(object)
      /\ resps[1].final => final /\ resps[1].size = appended
  BY <1>1 DEF ResponsesOk
<1>3. HasStatus(resps[1]) => resps[1].size <= Taken
  <2>1. Upto <= Taken
    BY DEF ObjectOk
  <2>2. Len(object) \in Nat /\ Len(received) \in Nat /\ Taken \in Nat
    BY Sizes
  <2>3. Len(object) <= Taken
    BY <2>1, <2>2 DEF Upto
  <2>4. ASSUME HasStatus(resps[1]) PROVE resps[1].size <= Taken
    <3>1. resps[1].size \in Nat
      BY <1>1, <2>4, StatusSize
    <3> QED BY <1>2, <2>2, <2>3, <2>4, <3>1
  <2> QED BY <2>4
<1>4. Credible(resps[1])
  BY <1>1, <1>2, <1>3 DEF Credible
<1>5. /\ Tail(resps) \in Seq(Responses)
      /\ \A k \in DOMAIN Tail(resps) : k + 1 \in DOMAIN resps /\ Tail(resps)[k] = resps[k + 1]
      /\ \A k \in DOMAIN resps : k = 1 \/ (k - 1 \in DOMAIN Tail(resps) /\ Tail(resps)[k - 1] = resps[k])
  BY <1>1
<1> QED BY <1>2, <1>4, <1>5

\* The last pending request is answered only with all the others.
LEMMA LastAnswered ==
    ASSUME TypeOK, PendingOk, NEW r, Credible(r), ~Bad(r), StillPending(r) # <<>>
    PROVE  ~is_satisfied(Last(pending_requests), r)
<1> DEFINE n == Len(pending_requests)
           k == Matched(r)
<1>1. /\ pending_requests # <<>> /\ k + 1 \in DOMAIN pending_requests /\ ~is_satisfied(pending_requests[k + 1], r)
      /\ n \in Nat /\ n \in DOMAIN pending_requests /\ DOMAIN pending_requests = 1..n
  <2>1. pending_requests # <<>> /\ k + 1 \in DOMAIN pending_requests /\ ~is_satisfied(pending_requests[k + 1], r)
    BY PendingFacts
  <2> QED BY <2>1 DEF TypeOK
<1> HIDE DEF k
<1>2. SUFFICES ASSUME is_satisfied(Last(pending_requests), r) PROVE FALSE
  OBVIOUS
<1>3. HasStatus(r) /\ r.size >= pending_requests[n].at
  BY <1>2 DEF is_satisfied, Last
<1>4. ~r.final
  BY <1>3 DEF Bad, AlreadyFinalized
<1>5. k + 1 # n /\ k + 1 <= n
  BY <1>1, <1>2 DEF Last
<1>6. pending_requests[k + 1].kind # "finalize" /\ pending_requests[k + 1].at <= pending_requests[n].at
  BY <1>1, <1>5 DEF PendingOk
<1>7. /\ pending_requests[k + 1] \in Pending /\ pending_requests[n] \in Pending
  BY <1>1 DEF TypeOK
<1>8. /\ pending_requests[k + 1].kind = "flush" /\ pending_requests[k + 1].at \in Nat /\ pending_requests[n].at \in Nat
  BY <1>6, <1>7 DEF Pending, Offsets
<1>9. r.size \in Nat
  BY <1>3, StatusSize DEF Credible
<1>10. r.size >= pending_requests[k + 1].at
  BY <1>3, <1>6, <1>8, <1>9
<1> QED BY <1>1, <1>3, <1>4, <1>8, <1>10 DEF is_satisfied

\* handle_response_success, then maybe_send_watermark_flush.
LEMMA HandleResponseStep == ASSUME IInv, HandleResponse PROVE IInv'
<1> DEFINE r == resps[1]
           probe == IF pc = "run" THEN Probe(StillPending(r), ReplayAfter(r)) ELSE <<>>
<1>0. /\ TypeOK /\ CoalescingOk /\ CallOk /\ ReplyOk /\ WorkerInv /\ ObjectOk /\ ResponsesOk /\ StreamInv /\ OwedInv /\ BudgetInv
  BY DEF IInv, AppInv
<1>1. /\ pc \in {"run", "wait"} /\ resps # <<>> /\ resps' = Tail(resps) /\ UNCHANGED transport
      /\ \/ ResponseFails(r) /\ reqs' = reqs
         \/ /\ ~Bad(r) /\ persisted_size' = PersistedAfter(r) /\ replay_buffer' = ReplayAfter(r)
            /\ pending_requests' = StillPending(r) /\ reply' = ReplyAfter(r)
            /\ self_flush_outstanding' = (probe # <<>> /\ stream = "open") /\ reqs' = Sent(probe)
            /\ UNCHANGED <<requests, pc, finalized>>
      /\ fruitless' = (IF ~Bad(r) /\ PersistedAfter(r) > persisted_size THEN 0 ELSE fruitless)
      /\ UNCHANGED <<attempt_count, redirects_followed, last_persisted_size, stream, object, final, received, rejected, faults>>
  <2>1. Head(resps) = resps[1]
    BY DEF HandleResponse
  <2> QED BY <2>1 DEF HandleResponse, service
<1>2. /\ UNCHANGED <<given, log, appended, coalescing_buffer, ready, write_offset, call, calls, confirmed, open>>
      /\ Awaits' = Awaits /\ ~WorkerEnded /\ Finishing' = Finishing
  BY <1>1 DEF transport, history, Awaits, WorkerEnded, Finishing
<1>3. ChannelOk /\ PendingOk /\ IdsOk
  BY <1>0, <1>2 DEF WorkerInv
<1>4. /\ Credible(r) /\ (HasStatus(r) => r.size <= Len(object))
      /\ resps' \in Seq(Responses)
      /\ \A k \in DOMAIN resps' : k + 1 \in DOMAIN resps /\ resps'[k] = resps[k + 1]
      /\ \A k \in DOMAIN resps : k = 1 \/ (k - 1 \in DOMAIN resps' /\ resps'[k - 1] = resps[k])
  BY <1>0, <1>1, <1>2, <1>3, HeadFacts
<1> HIDE DEF r
<1>5. ResponsesOk'
  <2>1. ASSUME NEW k \in DOMAIN resps'
        PROVE  /\ HasStatus(resps'[k]) => resps'[k].size <= Len(object)
               /\ resps'[k].final => final /\ resps'[k].size = appended
    BY <1>0, <1>4 DEF ResponsesOk
  <2> QED BY <1>1, <1>2, <2>1 DEF ResponsesOk, HasStatus
<1>6. /\ Len(object') = Len(object) /\ Len(object) \in Nat /\ Len(object) <= appended
      /\ persisted_size \in Nat /\ last_persisted_size \in Nat /\ attempt_count \in Nat /\ fruitless \in Nat
      /\ Taken \in Nat /\ Taken \in Offsets /\ appended \in Nat
  <2>1. /\ Len(object) \in Nat /\ Len(received) \in Nat /\ appended \in Nat /\ write_offset \in Nat /\ persisted_size \in Nat
        /\ last_persisted_size \in Nat /\ Taken \in Nat /\ Taken \in Offsets
    BY <1>0, Sizes
  <2>2. Upto <= write_offset /\ write_offset + Len(coalescing_buffer) <= appended /\ Len(coalescing_buffer) \in Nat
    <3>1. coalescing_buffer \in Seq(Nat)
      BY <1>0 DEF TypeOK
    <3>2. Upto <= write_offset /\ write_offset + Len(coalescing_buffer) <= appended
      BY <1>0 DEF ObjectOk, CoalescingOk
    <3> QED BY <3>1, <3>2
  <2>3. Len(object) <= appended
    BY <2>1, <2>2 DEF Upto
  <2> QED BY <1>0, <1>1, <2>1, <2>3 DEF TypeOK
<1>7. reply' = ReplyAfter(r)
  BY <1>1 DEF ResponseFails
<1>8. /\ reply' \in [state : {"none", "ok", "err"}, size : Offsets] /\ ReplyOk'
      /\ call \in {"flush", "finalize", "close"} => reply' = reply
      /\ ~Bad(r) /\ Awaits => reply'.state # "err"
  <2>1. Len(object') \in Nat /\ Len(object) <= Len(object') /\ Len(object') <= appended /\ (HasStatus(r) => r.size <= Len(object'))
    BY <1>4, <1>6
  <2> QED BY <1>0, <1>2, <1>3, <1>4, <1>7, <2>1, ReplyFacts
<1>9. CASE Bad(r)
  <2>1. /\ pc' = "err" /\ requests' = <<>> /\ pending_requests' = <<>> /\ self_flush_outstanding' = FALSE /\ UNCHANGED finalized
        /\ reqs' = reqs /\ fruitless' = fruitless
        /\ IF OutOfRange(r) THEN UNCHANGED <<replay_buffer, persisted_size>>
                            ELSE replay_buffer' = ReplayAfter(r) /\ persisted_size' = r.size
    BY <1>1, <1>9 DEF ResponseFails
  <2>2. /\ persisted_size' \in Offsets /\ replay_buffer' \in Seq(Chunks)
        /\ \A i \in DOMAIN replay_buffer' : Len(replay_buffer'[i].data) \in 1..MAX_WRITE_CHUNK_SIZE
    <3>1. CASE OutOfRange(r)
      BY <1>0, <2>1, <3>1 DEF TypeOK
    <3>2. CASE ~OutOfRange(r)
      <4>1. HasStatus(r)
        BY <1>9, <3>2 DEF Bad, AlreadyFinalized
      <4>2. PersistedAfter(r) = r.size
        BY <4>1 DEF PersistedAfter
      <4> QED BY <1>0, <1>3, <1>4, <2>1, <3>2, <4>2, ReplayFacts
    <3> QED BY <3>1, <3>2
  <2>3. TypeOK'
    <3>1. requests' \in Seq(Intents) /\ Len(requests') <= CHANNEL_BUFFER_SIZE /\ pending_requests' \in Seq(Pending)
      BY <2>1, BidiWriteAssumption
    <3> QED BY <1>0, <1>1, <1>2, <1>4, <1>8, <2>1, <2>2, <3>1 DEF TypeOK
  <2>4. BudgetInv' /\ ~rejected' /\ (stream' # "open" => reqs' = <<>>)
    BY <1>0, <1>1, <2>1 DEF BudgetInv, StreamInv, WorkerEnded
  <2> QED BY <1>1, <1>2, <1>5, <1>8, <2>1, <2>3, <2>4, FailureStep
<1>10. CASE ~Bad(r)
  <2> DEFINE b == ReplayAfter(r)
             t == StillPending(r)
  <2>1. /\ persisted_size' = PersistedAfter(r) /\ replay_buffer' = b /\ pending_requests' = t
        /\ self_flush_outstanding' = (probe # <<>> /\ stream = "open") /\ reqs' = Sent(probe)
        /\ UNCHANGED <<requests, pc, finalized>>
    BY <1>1, <1>10 DEF ResponseFails
  <2>2. ~OutOfRange(r)
    BY <1>10 DEF Bad
  <2>3. /\ PersistedAfter(r) \in Offsets /\ PersistedAfter(r) \in Nat /\ persisted_size <= PersistedAfter(r)
        /\ b \in Seq(Chunks) /\ Carries(b, PersistedAfter(r), Taken)
        /\ \A i \in DOMAIN b : Len(b[i].data) \in 1..MAX_WRITE_CHUNK_SIZE
    BY <1>0, <1>3, <1>4, <2>2, ReplayFacts
  <2>4. t \in Seq(Pending) /\ (t # <<>> => pending_requests # <<>> /\ Last(t) = Last(pending_requests))
    BY <1>0, PendingFacts
  <2>5. Taken' = Taken /\ ~WorkerEnded' /\ Taken <= Taken'
    <3>1. Taken' = Taken /\ ~WorkerEnded'
      BY <1>2, <2>1 DEF Taken, WorkerEnded
    <3> QED BY <1>6, <3>1
  <2>6. t # <<>> => ~is_satisfied(Last(pending_requests), r)
    BY <1>0, <1>3, <1>4, <1>10, LastAnswered
  <2>7. ASSUME final, t = <<>> PROVE finalized /\ PersistedAfter(r) = appended /\ b = <<>>
    <3>1. finalized /\ (pending_requests # <<>> \/ persisted_size = appended)
      BY <1>0, <1>2, <2>7 DEF StreamInv
    <3> QED BY <1>0, <1>3, <1>4, <2>2, <2>7, <3>1, FinalFacts
  <2>8. PICK q \in Requests : q = Request(Taken, <<>>, TRUE, FALSE)
    BY <1>6, <2>3, ProbeFacts
  <2>9. q.at = Taken /\ q.data = <<>> /\ q.state_lookup /\ ~q.finish_write
    BY <2>8 DEF Request
  <2>10. /\ Probe(t, b) = <<>> \/ (t = <<>> /\ b # <<>> /\ Probe(t, b) = <<q>>)
         /\ t = <<>> /\ Probe(t, b) = <<>> => ~(unpersisted_bytes(b) >= Watermark)
    BY <1>6, <2>3, <2>8, ProbeFacts
  <2>10a. probe = <<>> \/ (t = <<>> /\ b # <<>> /\ probe = <<q>>)
    BY <2>10
  <2>10b. pc = "run" => probe = Probe(t, b)
    OBVIOUS
  <2> HIDE DEF b, t, probe
  <2>11. reqs \in Seq(Requests) /\ reqs \o <<>> = reqs /\ reqs \o <<q>> = Append(reqs, q)
    BY <1>0 DEF TypeOK
  <2>12. reqs' = IF stream = "open" /\ probe # <<>> THEN Append(reqs, q) ELSE reqs
    BY <2>1, <2>10a, <2>11 DEF Sent
  <2>13. TypeOK'
    <3>1. reqs' \in Seq(Requests)
      BY <2>11, <2>12
    <3>2. self_flush_outstanding' \in BOOLEAN /\ fruitless' \in Nat
      BY <1>1, <1>6, <2>1
    <3> QED BY <1>0, <1>1, <1>2, <1>4, <1>8, <2>1, <2>3, <2>4, <3>1, <3>2 DEF TypeOK
  <2>14. CallOk'
    BY <1>0, <1>2, <1>8, <1>10, <2>1, <2>5 DEF CallOk
  <2>15. ChannelOk'
    BY <1>2, <1>3, <2>1, <2>3, <2>5 DEF ChannelOk, Carries, End
  <2>16. PendingOk' /\ IdsOk'
    BY <1>0, <1>2, <1>3, <2>1, <2>5, PendingKept DEF t
  <2>17. StreamInv'
    <3>1. ASSUME stream = "open" PROVE WireOk'
      <4>1. WireOk
        BY <1>0, <1>2, <3>1 DEF StreamInv, Live
      <4>2. ASSUME NEW i \in DOMAIN reqs, reqs[i].finish_write
            PROVE  t # <<>>
        <5>1. pending_requests # <<>> /\ Last(pending_requests).kind = "finalize"
          BY <4>1, <4>2 DEF WireOk, RequestOk
        <5>2. ~final
          <6>1. reqs # <<>>
            BY <4>2
          <6> QED BY <4>1, <6>1 DEF WireOk
        <5>3. ~is_satisfied(Last(pending_requests), r)
          BY <1>4, <5>1, <5>2 DEF is_satisfied, Credible
        <5>4. Len(pending_requests) \in DOMAIN pending_requests
          BY <1>0, <5>1 DEF TypeOK
        <5> QED BY <1>0, <5>3, <5>4, PendingFacts DEF Last, t
      <4>3. CASE probe = <<>>
        <5>1. reqs' = reqs
          BY <2>12, <4>3
        <5> QED BY <1>0, <1>1, <2>1, <2>4, <2>5, <4>1, <4>2, <5>1, WireAnswered
      <4>4. CASE probe # <<>>
        <5>1. t = <<>> /\ b # <<>> /\ reqs' = Append(reqs, q)
          BY <2>10a, <2>12, <3>1, <4>4
        <5>2. ~final
          BY <2>7, <5>1
        <5>3. \A i \in DOMAIN reqs : ~reqs[i].finish_write
          BY <4>2, <5>1
        <5>4. IsRun(q.data, q.at) /\ End(q) <= Taken' /\ q.at <= Taken
          <6>1. Len(q.data) = 0
            BY <2>9
          <6> QED BY <1>6, <2>5, <2>9, <6>1, EmptyRun DEF End
        <5>5. Taken' \in Nat
          BY <1>6, <2>5
        <5> QED BY <1>0, <1>1, <2>5, <2>9, <4>1, <5>1, <5>2, <5>3, <5>4, <5>5, WireAppend
      <4> QED BY <4>3, <4>4
    <3>2. final => finalized' /\ (pending_requests' # <<>> \/ persisted_size' = appended')
      BY <1>0, <1>2, <2>1, <2>7 DEF StreamInv
    <3>3. pc' # "connect"
      BY <1>1, <2>1
    <3> QED BY <1>0, <1>1, <1>2, <2>5, <2>12, <3>1, <3>2, <3>3 DEF StreamInv, Live
  <2>18. OwedInv'
    <3>1. SUFFICES ASSUME pc = "run", stream = "open"
                   PROVE  /\ self_flush_outstanding' => Owed'
                          /\ pending_requests' # <<>> =>
                               \/ \E k \in DOMAIN reqs' : reqs'[k] = RequestOf(Last(pending_requests'))
                               \/ \E k \in DOMAIN resps' : is_satisfied(Last(pending_requests'), resps'[k])
                          /\ unpersisted_bytes(replay_buffer') >= Watermark => self_flush_outstanding' \/ pending_requests' # <<>>
      BY <1>1, <2>1 DEF OwedInv
    <3>2. self_flush_outstanding' => Owed'
      <4>1. ASSUME probe # <<>> PROVE Owed'
        <5>1. reqs' = Append(reqs, q)
          BY <2>12, <3>1, <4>1
        <5>2. Len(reqs) + 1 \in DOMAIN reqs' /\ reqs'[Len(reqs) + 1] = q
          BY <1>0, <5>1, AppendedRequests
        <5> QED BY <2>9, <5>2 DEF Owed
      <4> QED BY <2>1, <4>1
    <3>3. ASSUME pending_requests' # <<>>
          PROVE  \/ \E k \in DOMAIN reqs' : reqs'[k] = RequestOf(Last(pending_requests'))
                 \/ \E k \in DOMAIN resps' : is_satisfied(Last(pending_requests'), resps'[k])
      <4>1. t # <<>> /\ pending_requests # <<>> /\ Last(pending_requests') = Last(pending_requests)
        BY <2>1, <2>4, <3>3
      <4>2. \/ \E k \in DOMAIN reqs : reqs[k] = RequestOf(Last(pending_requests))
            \/ \E k \in DOMAIN resps : is_satisfied(Last(pending_requests), resps[k])
        BY <1>0, <3>1, <4>1 DEF OwedInv
      <4>3. CASE \E k \in DOMAIN reqs : reqs[k] = RequestOf(Last(pending_requests))
        <5>1. \A k \in DOMAIN reqs : k \in DOMAIN reqs' /\ reqs'[k] = reqs[k]
          BY <1>0, <2>12, AppendedRequests
        <5> QED BY <4>1, <4>3, <5>1
      <4>4. CASE \E k \in DOMAIN resps : is_satisfied(Last(pending_requests), resps[k])
        <5>1. PICK k \in DOMAIN resps : is_satisfied(Last(pending_requests), resps[k])
          BY <4>4
        <5>2. k # 1
          BY <2>6, <4>1, <5>1 DEF r
        <5>3. k - 1 \in DOMAIN resps' /\ resps'[k - 1] = resps[k]
          BY <1>4, <5>2
        <5>4. is_satisfied(Last(pending_requests'), resps'[k - 1])
          BY <4>1, <5>1, <5>3
        <5> QED BY <5>3, <5>4
      <4> QED BY <4>2, <4>3, <4>4
    <3>4. ASSUME unpersisted_bytes(replay_buffer') >= Watermark, pending_requests' = <<>> PROVE self_flush_outstanding'
      BY <2>1, <2>10, <2>10b, <3>1, <3>4
    <3> QED BY <3>2, <3>3, <3>4
  <2>19. BudgetInv'
    <3>1. fruitless' # 0 => fruitless' = fruitless /\ persisted_size' = persisted_size
      BY <1>1, <1>6, <1>10, <2>1, <2>3
    <3>2. fruitless' <= attempt_count'
      BY <1>0, <1>1, <1>6 DEF BudgetInv
    <3> QED BY <1>0, <1>1, <1>2, <3>1, <3>2 DEF BudgetInv
  <2> QED BY <1>1, <1>2, <1>5, <1>8, <2>5, <2>13, <2>14, <2>15, <2>16, <2>17, <2>18, <2>19, WorkerFrame DEF WorkerInv
<1> QED BY <1>9, <1>10

-----------------------------------------------------------------------------
(***************************************************************************)
(* The handshake of a reconnect, and the requests it resends.              *)
(***************************************************************************)
LEMMA RequestTypes ==
    /\ \A c \in Chunks : Request(c.at, c.data, FALSE, FALSE) \in Requests
    /\ \A p \in Pending : RequestOf(p) \in Requests
<1>1. ASSUME NEW c \in Chunks PROVE Request(c.at, c.data, FALSE, FALSE) \in Requests
  BY DEF Chunks, Request, Requests
<1>2. ASSUME NEW p \in Pending PROVE RequestOf(p) \in Requests
  <2>1. p.at \in Offsets /\ (p.kind = "flush") \in BOOLEAN /\ (p.kind = "finalize") \in BOOLEAN
    BY DEF Pending
  <2> QED BY <2>1 DEF RequestOf, Request, Requests
<1> QED BY <1>1, <1>2

\* The replayed requests: the chunks, the pending requests, the probe.
LEMMA ReplayedShape ==
    ASSUME NEW b \in Seq(Chunks), NEW t \in Seq(Pending), NEW q \in Requests, Probe(t, b) = <<>> \/ Probe(t, b) = <<q>>
    PROVE  LET s == Replayed(t, b)  nb == Len(b)  np == Len(t)  nu == Len(Probe(t, b)) IN
           /\ s \in Seq(Requests) /\ Len(s) = nb + np + nu /\ nb \in Nat /\ np \in Nat
           /\ nu = (IF Probe(t, b) = <<>> THEN 0 ELSE 1)
           /\ \A i \in 1..nb : s[i] = Request(b[i].at, b[i].data, FALSE, FALSE)
           /\ \A j \in 1..np : s[nb + j] = RequestOf(t[j])
           /\ Probe(t, b) # <<>> => s[nb + np + 1] = q
<1> DEFINE c == ChunkRequests(b)
           p == PendingRequests(t)
           u == Probe(t, b)
           nb == Len(b)
           np == Len(t)
           x == c \o p
           s == x \o u
<1>0. nb \in Nat /\ np \in Nat /\ DOMAIN b = 1..nb /\ DOMAIN t = 1..np
  OBVIOUS
<1>1. c \in Seq(Requests) /\ Len(c) = nb /\ \A i \in 1..nb : c[i] = Request(b[i].at, b[i].data, FALSE, FALSE)
  <2>1. c = [i \in 1..nb |-> Request(b[i].at, b[i].data, FALSE, FALSE)]
    BY <1>0 DEF ChunkRequests
  <2>2. ASSUME NEW i \in 1..nb PROVE Request(b[i].at, b[i].data, FALSE, FALSE) \in Requests
    <3>1. b[i] \in Chunks
      BY <1>0
    <3> QED BY <3>1, RequestTypes
  <2>3. c \in [1..nb -> Requests] /\ \A i \in 1..nb : c[i] = Request(b[i].at, b[i].data, FALSE, FALSE)
    <3> HIDE DEF c
    <3> QED BY <2>1, <2>2
  <2> HIDE DEF c
  <2>4. c \in Seq(Requests) /\ Len(c) = nb
    <3> HIDE DEF nb
    <3> QED BY <1>0, <2>3, IsASeq, LenProperties
  <2> QED BY <2>3, <2>4
<1>2. p \in Seq(Requests) /\ Len(p) = np /\ \A i \in 1..np : p[i] = RequestOf(t[i])
  <2>1. p = [i \in 1..np |-> RequestOf(t[i])]
    BY <1>0 DEF PendingRequests
  <2>2. \A i \in 1..np : RequestOf(t[i]) \in Requests
    BY <1>0, RequestTypes
  <2>3. p \in [1..np -> Requests] /\ \A i \in 1..np : p[i] = RequestOf(t[i])
    <3> HIDE DEF p
    <3> QED BY <2>1, <2>2
  <2> HIDE DEF p
  <2> QED BY <1>0, <2>3, IsASeq, LenProperties
<1>3. u \in Seq(Requests) /\ Len(u) = (IF u = <<>> THEN 0 ELSE 1) /\ (u # <<>> => u[1] = q)
  <2>1. u = <<>> \/ u = <<q>>
    OBVIOUS
  <2> HIDE DEF u
  <2>2. CASE u = <<>>
    BY <2>2
  <2>3. CASE u = <<q>>
    <3>1. u \in Seq(Requests) /\ u # <<>> /\ u[1] = q
      BY <2>3
    <3>2. Len(u) = 1
      BY <2>3
    <3> QED BY <3>1, <3>2
  <2> QED BY <2>1, <2>2, <2>3
<1>4. s = Replayed(t, b)
  BY DEF Replayed
<1> HIDE DEF c, p, u, nb, np
<1>5. x \in Seq(Requests) /\ Len(x) = nb + np
  BY <1>1, <1>2, ConcatProperties
<1>6. ASSUME NEW i \in 1..nb PROVE x[i] = c[i]
  BY <1>0, <1>1, <1>2, ConcatProperties
<1>7. ASSUME NEW j \in 1..np PROVE x[nb + j] = p[j]
  <2>1. nb + j \in 1..(nb + np) /\ nb + j > nb /\ (nb + j) - nb = j
    BY <1>0
  <2> QED BY <1>1, <1>2, <2>1, ConcatProperties
<1> HIDE DEF x
<1>8. s \in Seq(Requests) /\ Len(s) = nb + np + Len(u)
  BY <1>3, <1>5, ConcatProperties, ZenonT(60)
<1>9. ASSUME NEW i \in 1..(nb + np) PROVE s[i] = x[i]
  BY <1>0, <1>3, <1>5, ConcatProperties
<1>10. ASSUME NEW i \in 1..nb PROVE s[i] = Request(b[i].at, b[i].data, FALSE, FALSE)
  <2>1. i \in 1..(nb + np)
    BY <1>0
  <2> QED BY <1>1, <1>6, <1>9, <2>1
<1>11. ASSUME NEW j \in 1..np PROVE s[nb + j] = RequestOf(t[j])
  <2>1. nb + j \in 1..(nb + np)
    BY <1>0
  <2> QED BY <1>2, <1>7, <1>9, <2>1
<1>12. ASSUME u # <<>> PROVE s[nb + np + 1] = q
  <2>1. Len(u) = 1 /\ u[1] = q
    BY <1>3, <1>12
  <2>2. nb + np + 1 \in 1..(nb + np + 1) /\ nb + np + 1 > nb + np /\ (nb + np + 1) - (nb + np) = 1
    BY <1>0
  <2>3. PICK l \in Nat : l = nb + np
    BY <1>0
  <2>4. Len(x) = l /\ Len(u) = 1 /\ l + 1 \in 1..(Len(x) + Len(u)) /\ ~(l + 1 <= Len(x)) /\ (l + 1) - Len(x) = 1
    BY <1>5, <2>1, <2>3
  <2>5. s[l + 1] = u[(l + 1) - Len(x)]
    BY <1>3, <1>5, <2>4, ConcatProperties
  <2> QED BY <2>1, <2>3, <2>4, <2>5
<1>13. /\ s \in Seq(Requests) /\ Len(s) = nb + np + Len(u) /\ nb \in Nat /\ np \in Nat
       /\ Len(u) = (IF u = <<>> THEN 0 ELSE 1)
       /\ \A i \in 1..nb : s[i] = Request(b[i].at, b[i].data, FALSE, FALSE)
       /\ \A j \in 1..np : s[nb + j] = RequestOf(t[j])
       /\ u # <<>> => s[nb + np + 1] = q
  BY <1>0, <1>3, <1>8, <1>10, <1>11, <1>12
<1> HIDE DEF s
<1> QED BY <1>4, <1>13 DEF u, nb, np

\* What is replayed from offset m continues there and reaches n.
LEMMA ReplayedFacts ==
    ASSUME NEW b \in Seq(Chunks), NEW t \in Seq(Pending), NEW m \in Nat, NEW n \in Nat, Carries(b, m, n),
           \A i \in DOMAIN b : Len(b[i].data) \in 1..MAX_WRITE_CHUNK_SIZE,
           \A j \in DOMAIN t : t[j].at <= n /\ (t[j].kind = "finalize" => j = Len(t) /\ t[j].at = n),
           NEW q \in Requests, q.at = n, q.data = <<>>, q.state_lookup, ~q.finish_write,
           Probe(t, b) = <<>> \/ (t = <<>> /\ Probe(t, b) = <<q>>)
    PROVE  LET s == Replayed(t, b) IN
           /\ s \in Seq(Requests) /\ Reached(s, m, Len(s)) = n
           /\ \A i \in DOMAIN s :
                /\ s[i].data = Bytes(s[i].at, End(s[i])) /\ End(s[i]) <= n
                /\ IF s[i].data = <<>> /\ ~s[i].finish_write
                     THEN s[i].at <= Reached(s, m, i - 1) ELSE s[i].at = Reached(s, m, i - 1)
                /\ s[i].finish_write => i = Len(s) /\ s[i].data = <<>> /\ t # <<>> /\ Last(t).kind = "finalize"
           /\ t # <<>> => \E k \in DOMAIN s : s[k] = RequestOf(Last(t))
           /\ Probe(t, b) # <<>> => \E k \in DOMAIN s : s[k].state_lookup
           /\ b = <<>> /\ t = <<>> /\ Probe(t, b) = <<>> => s = <<>>
<1> DEFINE s == Replayed(t, b)
           nb == Len(b)
           np == Len(t)
           nu == Len(Probe(t, b))
<1>1. /\ s \in Seq(Requests) /\ Len(s) = nb + np + nu /\ nb \in Nat /\ np \in Nat
      /\ nu = (IF Probe(t, b) = <<>> THEN 0 ELSE 1)
      /\ \A i \in 1..nb : s[i] = Request(b[i].at, b[i].data, FALSE, FALSE)
      /\ \A j \in 1..np : s[nb + j] = RequestOf(t[j])
      /\ Probe(t, b) # <<>> => s[nb + np + 1] = q
  BY ReplayedShape
<1>2. DOMAIN b = 1..nb /\ DOMAIN t = 1..np /\ DOMAIN s = 1..(nb + np + nu)
  BY <1>1
<1>3. nu \in {0, 1} /\ (nu = 1 => Probe(t, b) # <<>> /\ t = <<>> /\ np = 0)
  <2>1. t = <<>> => np = 0
    OBVIOUS
  <2> QED BY <1>1, <2>1
<1> HIDE DEF s, nu
\* The chunks.
<1>4. ASSUME NEW i \in 1..nb
      PROVE  /\ s[i].at = b[i].at /\ s[i].data = b[i].data /\ ~s[i].finish_write /\ End(s[i]) = End(b[i]) /\ s[i].data # <<>>
             /\ s[i].data = Bytes(s[i].at, End(s[i])) /\ End(s[i]) <= n
  <2>0. s[i] = Request(b[i].at, b[i].data, FALSE, FALSE)
    BY <1>1
  <2>1. s[i].at = b[i].at /\ s[i].data = b[i].data /\ ~s[i].finish_write
    BY <2>0 DEF Request
  <2>2. i \in DOMAIN b /\ b # <<>>
    BY <1>2
  <2>3. End(s[i]) = End(b[i])
    BY <2>1 DEF End
  <2>4. b[i].data = Bytes(b[i].at, End(b[i])) /\ End(b[i]) <= n
    BY <2>2, ItemTypes, CarriesOrder DEF Carries
  <2>5. b[i].data # <<>>
    <3>1. PICK w \in Seq(Nat) : w = b[i].data
      BY <2>2, ItemTypes, ItemFacts
    <3>2. Len(w) # 0
      BY <2>2, <3>1, BidiWriteAssumption
    <3> QED BY <3>1, <3>2
  <2> QED BY <2>1, <2>3, <2>4, <2>5
\* The requests without data.
<1>5. ASSUME NEW j \in 1..np
      PROVE  LET i == nb + j IN
             /\ s[i].data = <<>> /\ s[i].at = t[j].at /\ s[i].at \in Nat /\ s[i].at <= n
             /\ s[i].finish_write => i = Len(s) /\ s[i].at = n /\ t # <<>> /\ Last(t).kind = "finalize"
  <2>0. s[nb + j] = RequestOf(t[j])
    BY <1>1
  <2>1. s[nb + j].data = <<>> /\ s[nb + j].at = t[j].at /\ (s[nb + j].finish_write <=> t[j].kind = "finalize")
    <3> DEFINE y == t[j]
    <3>1. RequestOf(y).data = <<>> /\ RequestOf(y).at = y.at /\ (RequestOf(y).finish_write <=> y.kind = "finalize")
      <4> HIDE DEF y
      <4> QED BY DEF RequestOf, Request
    <3> QED BY <2>0, <3>1
  <2>2. t[j] \in Pending /\ j \in DOMAIN t /\ t # <<>>
    BY <1>2
  <2>3. t[j].at \in Nat
    BY <2>2 DEF Pending, Offsets
  <2>4. ASSUME t[j].kind = "finalize" PROVE nb + j = Len(s) /\ t[j].at = n /\ Last(t).kind = "finalize"
    <3>1. j = np /\ t[j].at = n
      BY <2>2, <2>4
    <3>2. nu = 0
      BY <1>3, <2>2
    <3>3. nb + j = Len(s)
      <4> HIDE DEF nb, np
      <4> QED BY <1>1, <3>1, <3>2
    <3> QED BY <2>4, <3>1, <3>3 DEF Last
  <2> QED BY <2>1, <2>2, <2>3, <2>4
<1>6. ASSUME NEW i \in (nb + 1)..(nb + np + nu)
      PROVE  /\ s[i].data = <<>> /\ s[i].at \in Nat /\ s[i].at <= n
             /\ s[i].finish_write => i = Len(s) /\ s[i].at = n /\ t # <<>> /\ Last(t).kind = "finalize"
  <2>1. CASE i <= nb + np
    <3>1. i - nb \in 1..np /\ nb + (i - nb) = i
      <4> HIDE DEF nb, np
      <4> QED BY <1>1, <1>3, <2>1
    <3> QED BY <1>5, <3>1
  <2>2. CASE i > nb + np
    <3>1. i = nb + np + 1 /\ nu = 1
      <4> HIDE DEF nb, np
      <4> QED BY <1>1, <1>3, <2>2
    <3>2. s[i] = q
      BY <1>1, <1>3, <3>1
    <3> QED BY <3>2
  <2> QED <3> HIDE DEF nb, np
          <3> QED BY <1>1, <1>3, <2>1, <2>2
\* How far they get.
<1>7. ASSUME NEW i \in nb..(nb + np + nu) PROVE Reached(s, m, i) = n
  <2>0. i \in Nat
    <3> HIDE DEF nb, np
    <3> QED BY <1>1, <1>3
  <2>1. CASE b = <<>>
    <3>1. nb = 0 /\ m = n
      BY <2>1 DEF Carries
    <3>2. ASSUME NEW k \in 1..i PROVE s[k].data = <<>>
      <4>1. k \in (nb + 1)..(nb + np + nu)
        <5> HIDE DEF nb, np
        <5> QED BY <1>1, <1>3, <3>1
      <4> QED BY <1>6, <4>1
    <3> QED BY <2>0, <3>1, <3>2, ReachedNone DEF NoData
  <2>2. CASE b # <<>>
    <3>1. nb \in 1..nb /\ nb >= 1 /\ End(b[nb]) = n
      BY <2>2 DEF Carries
    <3>2. ASSUME NEW k \in (nb + 1)..i PROVE s[k].data = <<>>
      <4>1. k \in (nb + 1)..(nb + np + nu)
        <5> HIDE DEF nb, np
        <5> QED BY <1>1, <1>3
      <4> QED BY <1>6, <4>1
    <3>3. nb \in 1..i
      <4> HIDE DEF nb, np
      <4> QED BY <1>1, <1>3, <3>1
    <3>4. IsLastData(s, i, nb)
      <4>1. s[nb].data # <<>>
        BY <1>4, <3>1
      <4> QED BY <3>2, <3>3, <4>1 DEF IsLastData
    <3>5. End(s[nb]) = n
      BY <1>4, <3>1
    <3> QED BY <2>0, <3>4, <3>5, ReachedAt
  <2> QED BY <2>1, <2>2
<1>8. ASSUME NEW i \in 1..nb PROVE s[i].at = Reached(s, m, i - 1)
  <2>0. b # <<>>
    BY <1>2
  <2>1. CASE i = 1
    <3>1. i - 1 = 0 /\ s[i].at = m
      BY <1>4, <2>0, <2>1 DEF Carries
    <3> QED BY <3>1, ReachedStart
  <2>2. CASE i # 1
    <3>1. i - 1 \in 1..nb /\ i - 1 \in Nat /\ i \in 2..nb /\ i - 1 \in 1..(i - 1)
      BY <1>1, <2>2
    <3>2. b[i].at = End(b[i - 1])
      BY <2>0, <3>1 DEF Carries
    <3>3. IsLastData(s, i - 1, i - 1)
      <4>1. s[i - 1].data # <<>>
        BY <1>4, <3>1
      <4>2. ((i - 1) + 1)..(i - 1) = {}
        BY <3>1
      <4> QED BY <3>1, <4>1, <4>2 DEF IsLastData
    <3>4. Reached(s, m, i - 1) = End(s[i - 1])
      BY <3>1, <3>3, ReachedAt
    <3> QED BY <1>4, <3>1, <3>2, <3>4
  <2> QED BY <2>1, <2>2
<1>9. ASSUME NEW i \in DOMAIN s
      PROVE  /\ s[i].data = Bytes(s[i].at, End(s[i])) /\ End(s[i]) <= n
             /\ IF s[i].data = <<>> /\ ~s[i].finish_write
                  THEN s[i].at <= Reached(s, m, i - 1) ELSE s[i].at = Reached(s, m, i - 1)
             /\ s[i].finish_write => i = Len(s) /\ s[i].data = <<>> /\ t # <<>> /\ Last(t).kind = "finalize"
  <2>1. CASE i \in 1..nb
    BY <1>4, <1>8, <2>1
  <2>2. CASE i \in (nb + 1)..(nb + np + nu)
    <3>1. i - 1 \in nb..(nb + np + nu)
      <4> HIDE DEF nb, np
      <4> QED BY <1>1, <1>3, <2>2
    <3>2. Reached(s, m, i - 1) = n
      BY <1>7, <3>1
    <3>3. /\ s[i].data = <<>> /\ s[i].at \in Nat /\ s[i].at <= n
          /\ s[i].finish_write => i = Len(s) /\ s[i].at = n /\ t # <<>> /\ Last(t).kind = "finalize"
      BY <1>6, <2>2
    <3>4. Len(s[i].data) = 0
      BY <3>3
    <3>5. End(s[i]) = s[i].at
      BY <3>3, <3>4 DEF End
    <3>6. s[i].data = Bytes(s[i].at, End(s[i]))
      <4>1. IsRun(<<>>, s[i].at)
        BY <3>3, EmptyRun
      <4> QED BY <3>3, <3>4, <4>1 DEF IsRun, End
    <3> QED BY <3>2, <3>3, <3>5, <3>6
  <2>3. i \in 1..nb \/ i \in (nb + 1)..(nb + np + nu)
    <3> HIDE DEF nb, np
    <3> QED BY <1>1, <1>2, <1>3
  <2> QED BY <2>1, <2>2, <2>3
<1>10. Reached(s, m, Len(s)) = n
  <2>1. Len(s) \in nb..(nb + np + nu)
    <3> HIDE DEF nb, np
    <3> QED BY <1>1, <1>3
  <2> QED BY <1>7, <2>1
<1>11. ASSUME t # <<>> PROVE \E k \in DOMAIN s : s[k] = RequestOf(Last(t))
  <2>1. np \in 1..np
    BY <1>11
  <2>2. nb + np \in DOMAIN s
    <3> HIDE DEF nb, np
    <3> QED BY <1>1, <1>2, <1>3, <2>1
  <2>3. s[nb + np] = RequestOf(t[np])
    BY <1>1, <2>1
  <2> QED BY <2>2, <2>3 DEF Last
<1>12. ASSUME Probe(t, b) # <<>> PROVE \E k \in DOMAIN s : s[k].state_lookup
  <2>1. nu = 1 /\ s[nb + np + 1] = q
    BY <1>1, <1>12
  <2>2. nb + np + 1 \in DOMAIN s
    <3> HIDE DEF nb, np
    <3> QED BY <1>1, <1>2, <2>1
  <2> QED BY <2>1, <2>2
<1>13. b = <<>> /\ t = <<>> /\ Probe(t, b) = <<>> => s = <<>>
  <2>1. ASSUME b = <<>>, t = <<>>, Probe(t, b) = <<>> PROVE Len(s) = 0
    <3>1. nb = 0 /\ np = 0 /\ nu = 0
      BY <1>1, <2>1
    <3> QED BY <1>1, <3>1
  <2> QED BY <1>1, <2>1, EmptySeq
<1> QED BY <1>1, <1>9, <1>10, <1>11, <1>12, <1>13 DEF s

\* A handshake: its status is applied, then everything left is replayed.
LEMMA ConnectOkStep ==
    ASSUME IInv, NEW n \in 0..MaxBytes, ConnectOk(n)
    PROVE  IInv'
<1> DEFINE r == [size |-> Len(object) + n, final |-> final]
           z == Len(object) + n
<1>0. /\ TypeOK /\ ReadyOk /\ CoalescingOk /\ CallOk /\ ReplyOk /\ WorkerInv /\ ObjectOk /\ StreamInv /\ BudgetInv
  BY DEF IInv, AppInv
<1>1. /\ pc = "connect" /\ n <= Len(received) /\ stream' = "open" /\ object' = object \o SubSeq(received, 1, n)
      /\ received' = <<>> /\ resps' = <<>> /\ UNCHANGED transport
      /\ IF Progress(r.size) THEN last_persisted_size' = r.size /\ attempt_count' = 0 /\ redirects_followed' = 0
                             ELSE UNCHANGED <<last_persisted_size, attempt_count, redirects_followed>>
      /\ fruitless' = (IF r.size > persisted_size THEN 0 ELSE fruitless)
      /\ \/ ResponseFails(r) /\ reqs' = <<>>
         \/ /\ ~Bad(r) /\ persisted_size' = PersistedAfter(r) /\ replay_buffer' = ReplayAfter(r)
            /\ pending_requests' = StillPending(r) /\ reply' = ReplyAfter(r)
            /\ self_flush_outstanding' = (Probe(StillPending(r), ReplayAfter(r)) # <<>>)
            /\ reqs' = Replayed(StillPending(r), ReplayAfter(r))
            /\ pc' = "run" /\ UNCHANGED <<requests, finalized>>
      /\ UNCHANGED <<final, rejected, faults>>
  BY DEF ConnectOk, PersistedBy
<1>2. /\ UNCHANGED <<given, log, appended, coalescing_buffer, ready, write_offset, call, calls, confirmed, open>>
      /\ Awaits' = Awaits /\ ~WorkerEnded /\ Finishing' = Finishing
  BY <1>1 DEF transport, history, Awaits, WorkerEnded, Finishing
<1>3. ChannelOk /\ PendingOk /\ IdsOk
  BY <1>0, <1>2 DEF WorkerInv
<1>4. /\ Len(object) \in Nat /\ Len(received) \in Nat /\ object \in Seq(Nat) /\ received \in Seq(Nat) /\ n \in Nat
      /\ persisted_size \in Nat /\ last_persisted_size \in Nat /\ attempt_count \in Nat /\ fruitless \in Nat
      /\ Taken \in Nat /\ Taken \in Offsets /\ appended \in Nat /\ write_offset \in Nat /\ MaxBytes \in Nat
      /\ Upto <= write_offset /\ Upto <= Taken /\ Upto = Len(object) + Len(received)
      /\ IsRun(object, 0) /\ IsRun(received, Len(object)) /\ write_offset <= appended
  <2>1. /\ Len(object) \in Nat /\ Len(received) \in Nat /\ appended \in Nat /\ write_offset \in Nat /\ persisted_size \in Nat
        /\ last_persisted_size \in Nat /\ Taken \in Nat /\ Taken \in Offsets /\ MaxBytes \in Nat /\ n \in Nat
    BY <1>0, Sizes
  <2>2. coalescing_buffer \in Seq(Nat) /\ object \in Seq(Nat) /\ received \in Seq(Nat) /\ attempt_count \in Nat /\ fruitless \in Nat
    BY <1>0 DEF TypeOK
  <2>3. write_offset + Len(coalescing_buffer) <= appended
    BY <1>0 DEF CoalescingOk
  <2>4. write_offset <= appended
    BY <2>1, <2>2, <2>3
  <2>5. Upto <= write_offset /\ Upto <= Taken /\ IsRun(object, 0) /\ IsRun(received, Len(object))
    BY <1>0, <1>2 DEF ObjectOk
  <2> QED BY <2>1, <2>2, <2>4, <2>5 DEF Upto
<1>5. z \in Nat /\ z <= Upto /\ z <= Taken /\ z <= write_offset /\ z <= appended /\ z \in Offsets /\ Len(object) <= z
  BY <1>1, <1>4 DEF Offsets
<1>6. object' \in Seq(Nat) /\ Len(object') = z /\ IsRun(object', 0)
  <2> DEFINE w == SubSeq(received, 1, n)
  <2>1. w \in Seq(Nat) /\ Len(w) = n /\ IsRun(w, Len(object))
    <3>1. PICK k \in Nat : k = Len(object)
      BY <1>4
    <3>2. PICK a \in Nat : a = 0
      OBVIOUS
    <3>3. n \in Nat /\ a <= n /\ n <= Len(received) /\ IsRun(received, k) /\ received \in Seq(Nat)
      BY <1>1, <1>4, <3>1, <3>2
    <3>4. LET y == SubSeq(received, a + 1, n) IN y \in Seq(Nat) /\ Len(y) = n - a /\ IsRun(y, k + a)
      BY <3>3, RunSubSeq
    <3>5. a + 1 = 1 /\ n - a = n /\ k + a = Len(object)
      BY <1>4, <3>1, <3>2
    <3> QED BY <3>4, <3>5
  <2> HIDE DEF w
  <2>2. 0 + Len(object) = Len(object)
    BY <1>4
  <2>3. object \o w \in Seq(Nat) /\ Len(object \o w) = Len(object) + Len(w) /\ IsRun(object \o w, 0)
    BY <1>4, <2>1, <2>2, RunConcat
  <2> QED BY <1>1, <2>1, <2>3 DEF w
<1>7. r \in Responses /\ r.size = z /\ r.final = final /\ HasStatus(r)
  <2>1. final \in BOOLEAN /\ z \in 0..NoStatus /\ z # NoStatus
    <3>1. final \in BOOLEAN
      BY <1>0 DEF TypeOK
    <3> HIDE DEF z
    <3>2. z \in 0..NoStatus /\ z # NoStatus
      BY <1>4, <1>5 DEF NoStatus, Offsets
    <3> QED BY <3>1, <3>2
  <2> HIDE DEF z
  <2>2. r = [size |-> z, final |-> final]
    BY DEF z
  <2> HIDE DEF r
  <2> QED BY <2>1, <2>2 DEF Responses, HasStatus
<1>8. final => received = <<>> /\ z = appended
  <2>1. ASSUME final PROVE received = <<>> /\ Len(object) = appended
    BY <1>0, <2>1 DEF ObjectOk
  <2>2. ASSUME final PROVE z = appended
    <3>1. Len(received) = 0
      BY <2>1, <2>2
    <3> QED BY <1>1, <1>4, <2>1, <2>2, <3>1
  <2> QED BY <2>1, <2>2
<1> HIDE DEF r, z
<1>9. Credible(r)
  BY <1>5, <1>7, <1>8 DEF Credible
<1>10. reply' = ReplyAfter(r)
  BY <1>1 DEF ResponseFails
<1>11. /\ reply' \in [state : {"none", "ok", "err"}, size : Offsets] /\ ReplyOk'
       /\ call \in {"flush", "finalize", "close"} => reply' = reply
       /\ ~Bad(r) /\ Awaits => reply'.state # "err"
  <2>1. Len(object') \in Nat /\ Len(object) <= Len(object') /\ Len(object') <= appended /\ r.size <= Len(object')
    BY <1>5, <1>6, <1>7
  <2> QED BY <1>0, <1>2, <1>3, <1>9, <1>10, <2>1, ReplyFacts
<1>12. /\ last_persisted_size' \in Offsets /\ attempt_count' \in Nat /\ redirects_followed' \in Nat /\ fruitless' \in Nat
  <2>1. last_persisted_size \in Offsets /\ attempt_count \in Nat /\ redirects_followed \in Nat /\ fruitless \in Nat
    BY <1>0 DEF TypeOK
  <2>2. CASE Progress(r.size)
    <3>1. last_persisted_size' = z /\ attempt_count' = 0 /\ redirects_followed' = 0
      BY <1>1, <1>7, <2>2
    <3>2. fruitless' \in Nat
      BY <1>1, <2>1
    <3> QED BY <1>5, <3>1, <3>2
  <2>3. CASE ~Progress(r.size)
    <3>1. UNCHANGED <<last_persisted_size, attempt_count, redirects_followed>>
      BY <1>1, <2>3
    <3>2. fruitless' \in Nat
      BY <1>1, <2>1
    <3> QED BY <2>1, <3>1, <3>2
  <2> QED BY <2>2, <2>3
<1>13. Upto' = z
  <2>1. Len(received') = 0
    BY <1>1
  <2> QED BY <1>5, <1>6, <2>1 DEF Upto
<1>14. ObjectOk' \/ ~(~WorkerEnded' => Taken' = Taken)
  <2>1. SUFFICES ASSUME ~WorkerEnded' => Taken' = Taken PROVE ObjectOk'
    OBVIOUS
  <2>2. IsRun(received, Len(object))'
    BY <1>1, <1>5, <1>6, EmptyRun
  <2>3. Upto' <= write_offset' /\ (~WorkerEnded' => Upto' <= Taken')
    BY <1>2, <1>5, <1>13, <2>1
  <2>4. final' => received' = <<>> /\ Len(object') = appended' /\ call' \in {"await finalize", "join"} \cup Ended
    BY <1>0, <1>1, <1>2, <1>6, <1>8 DEF ObjectOk
  <2> QED BY <1>6, <2>2, <2>3, <2>4 DEF ObjectOk
<1>15. ResponsesOk'
  BY <1>1 DEF ResponsesOk
<1>16. ReadyOk' /\ CoalescingOk'
  BY <1>0, <1>2 DEF ReadyOk, CoalescingOk, Last, IsRun, Bytes
<1>17. /\ fruitless' <= attempt_count' /\ (fruitless' # 0 => fruitless' < AttemptLimit)
       /\ fruitless' # 0 => z <= last_persisted_size'
  <2>1. /\ fruitless <= attempt_count /\ (fruitless # 0 => fruitless < AttemptLimit)
        /\ fruitless # 0 => persisted_size <= last_persisted_size
    BY <1>0, <1>2 DEF BudgetInv
  <2>2. fruitless' = IF z > persisted_size THEN 0 ELSE fruitless
    BY <1>1, <1>7
  <2>3. CASE z > last_persisted_size
    <3>1. last_persisted_size' = z /\ attempt_count' = 0
      BY <1>1, <1>7, <2>3 DEF Progress
    <3>2. fruitless' = 0
      BY <1>4, <1>5, <2>1, <2>2, <2>3
    <3> QED BY <1>5, <3>1, <3>2
  <2>4. CASE ~(z > last_persisted_size)
    <3>1. last_persisted_size' = last_persisted_size /\ attempt_count' = attempt_count
      BY <1>1, <1>7, <2>4 DEF Progress
    <3> QED BY <1>4, <1>5, <2>1, <2>2, <2>4, <3>1
  <2> QED BY <2>3, <2>4
<1>17a. LogOk'
  BY <1>2 DEF IInv, AppInv, LogOk
<1>18. CASE Bad(r)
  <2>1. /\ pc' = "err" /\ requests' = <<>> /\ pending_requests' = <<>> /\ self_flush_outstanding' = FALSE /\ UNCHANGED finalized
        /\ reqs' = <<>>
        /\ IF OutOfRange(r) THEN UNCHANGED <<replay_buffer, persisted_size>>
                            ELSE replay_buffer' = ReplayAfter(r) /\ persisted_size' = r.size
    BY <1>1, <1>18 DEF ResponseFails
  <2>2. /\ persisted_size' \in Offsets /\ replay_buffer' \in Seq(Chunks)
        /\ \A i \in DOMAIN replay_buffer' : Len(replay_buffer'[i].data) \in 1..MAX_WRITE_CHUNK_SIZE
    <3>1. CASE OutOfRange(r)
      BY <1>0, <2>1, <3>1 DEF TypeOK
    <3>2. CASE ~OutOfRange(r)
      <4>1. PersistedAfter(r) = r.size
        BY <1>7 DEF PersistedAfter
      <4> QED BY <1>0, <1>3, <1>9, <2>1, <3>2, <4>1, ReplayFacts
    <3> QED BY <3>1, <3>2
  <2>3. TypeOK'
    <3>1. requests' \in Seq(Intents) /\ Len(requests') <= CHANNEL_BUFFER_SIZE /\ pending_requests' \in Seq(Pending)
      BY <2>1, BidiWriteAssumption
    <3>2. reqs' \in Seq(Requests) /\ resps' \in Seq(Responses) /\ received' \in Seq(Nat)
      BY <1>1, <2>1
    <3> QED BY <1>0, <1>1, <1>2, <1>6, <1>11, <1>12, <2>1, <2>2, <3>1, <3>2 DEF TypeOK
  <2>4. ~rejected'
    BY <1>0, <1>1 DEF StreamInv
  <2>5. CallOk' /\ WorkerInv' /\ OwedInv' /\ StreamInv' /\ WorkerEnded'
    BY <1>0, <1>1, <1>2, <1>11, <2>1, <2>4, FailureFacts
  <2>6. BudgetInv'
    BY <1>17, <2>5 DEF BudgetInv
  <2> QED BY <1>11, <1>14, <1>15, <1>16, <1>17a, <2>3, <2>5, <2>6 DEF IInv, AppInv
<1>19. CASE ~Bad(r)
  <2> DEFINE b == ReplayAfter(r)
             t == StillPending(r)
  <2>1. /\ persisted_size' = PersistedAfter(r) /\ replay_buffer' = b /\ pending_requests' = t
        /\ self_flush_outstanding' = (Probe(t, b) # <<>>) /\ reqs' = Replayed(t, b)
        /\ pc' = "run" /\ UNCHANGED <<requests, finalized>>
    BY <1>1, <1>19 DEF ResponseFails
  <2>2. ~OutOfRange(r) /\ PersistedAfter(r) = z
    BY <1>7, <1>19 DEF Bad, PersistedAfter
  <2>3. /\ b \in Seq(Chunks) /\ Carries(b, z, Taken)
        /\ \A i \in DOMAIN b : Len(b[i].data) \in 1..MAX_WRITE_CHUNK_SIZE
    BY <1>0, <1>3, <1>9, <2>2, ReplayFacts
  <2>4. t \in Seq(Pending) /\ (t # <<>> => pending_requests # <<>> /\ Last(t) = Last(pending_requests))
    BY <1>0, PendingFacts
  <2>5. Taken' = Taken /\ ~WorkerEnded'
    BY <1>2, <2>1 DEF Taken, WorkerEnded
  <2>6. ASSUME final PROVE finalized /\ t = <<>> /\ z = appended /\ b = <<>>
    <3>1. finalized /\ (pending_requests # <<>> \/ persisted_size = appended)
      BY <1>0, <1>2, <2>6 DEF StreamInv
    <3>2. t = <<>>
      BY <1>7, <1>19, <2>6 DEF Bad, AlreadyFinalized
    <3> QED BY <1>0, <1>3, <1>9, <2>2, <2>6, <3>1, <3>2, FinalFacts
  <2>7. PICK q \in Requests : q = Request(Taken, <<>>, TRUE, FALSE)
    BY <1>4, <1>5, <2>3, ProbeFacts
  <2>8. q.at = Taken /\ q.data = <<>> /\ q.state_lookup /\ ~q.finish_write
    BY <2>7 DEF Request
  <2>9. /\ Probe(t, b) = <<>> \/ (t = <<>> /\ b # <<>> /\ Probe(t, b) = <<q>>)
        /\ t = <<>> /\ Probe(t, b) = <<>> => ~(unpersisted_bytes(b) >= Watermark)
    BY <1>4, <1>5, <2>3, <2>7, ProbeFacts
  <2>10. PendingOk' /\ IdsOk'
    BY <1>0, <1>2, <1>3, <2>1, <2>5, PendingKept
  <2> HIDE DEF b, t
  <2>11. \A j \in DOMAIN t : t[j].at <= Taken /\ (t[j].kind = "finalize" => j = Len(t) /\ finalized /\ t[j].at = Taken)
    BY <2>1, <2>5, <2>10 DEF PendingOk
  <2>12. /\ reqs' \in Seq(Requests) /\ Reached(reqs', z, Len(reqs')) = Taken
         /\ \A i \in DOMAIN reqs' :
              /\ reqs'[i].data = Bytes(reqs'[i].at, End(reqs'[i])) /\ End(reqs'[i]) <= Taken
              /\ IF reqs'[i].data = <<>> /\ ~reqs'[i].finish_write
                   THEN reqs'[i].at <= Reached(reqs', z, i - 1) ELSE reqs'[i].at = Reached(reqs', z, i - 1)
              /\ reqs'[i].finish_write => i = Len(reqs') /\ reqs'[i].data = <<>> /\ t # <<>> /\ Last(t).kind = "finalize"
         /\ t # <<>> => \E k \in DOMAIN reqs' : reqs'[k] = RequestOf(Last(t))
         /\ Probe(t, b) # <<>> => \E k \in DOMAIN reqs' : reqs'[k].state_lookup
         /\ b = <<>> /\ t = <<>> /\ Probe(t, b) = <<>> => reqs' = <<>>
    <3> DEFINE s == Replayed(t, b)
    <3>1. /\ s \in Seq(Requests) /\ Reached(s, z, Len(s)) = Taken
          /\ \A i \in DOMAIN s :
               /\ s[i].data = Bytes(s[i].at, End(s[i])) /\ End(s[i]) <= Taken
               /\ IF s[i].data = <<>> /\ ~s[i].finish_write
                    THEN s[i].at <= Reached(s, z, i - 1) ELSE s[i].at = Reached(s, z, i - 1)
               /\ s[i].finish_write => i = Len(s) /\ s[i].data = <<>> /\ t # <<>> /\ Last(t).kind = "finalize"
          /\ t # <<>> => \E k \in DOMAIN s : s[k] = RequestOf(Last(t))
          /\ Probe(t, b) # <<>> => \E k \in DOMAIN s : s[k].state_lookup
          /\ b = <<>> /\ t = <<>> /\ Probe(t, b) = <<>> => s = <<>>
      <4>1. PICK m \in Nat : m = z
        BY <1>5
      <4>2. PICK o \in Nat : o = Taken
        BY <1>4
      <4>3. \A j \in DOMAIN t : t[j].at <= o /\ (t[j].kind = "finalize" => j = Len(t) /\ t[j].at = o)
        BY <2>11, <4>2
      <4>4. Probe(t, b) = <<>> \/ (t = <<>> /\ Probe(t, b) = <<q>>)
        BY <2>9
      <4>5. b \in Seq(Chunks) /\ t \in Seq(Pending) /\ Carries(b, m, o)
        BY <2>3, <2>4, <4>1, <4>2
      <4>6. \A i \in DOMAIN b : Len(b[i].data) \in 1..MAX_WRITE_CHUNK_SIZE
        BY <2>3
      <4>7. q \in Requests /\ q.at = o /\ q.data = <<>> /\ q.state_lookup /\ ~q.finish_write
        BY <2>7, <2>8, <4>2
      <4>8. /\ s \in Seq(Requests) /\ Reached(s, m, Len(s)) = o
            /\ \A i \in DOMAIN s :
                 /\ s[i].data = Bytes(s[i].at, End(s[i])) /\ End(s[i]) <= o
                 /\ IF s[i].data = <<>> /\ ~s[i].finish_write
                      THEN s[i].at <= Reached(s, m, i - 1) ELSE s[i].at = Reached(s, m, i - 1)
                 /\ s[i].finish_write => i = Len(s) /\ s[i].data = <<>> /\ t # <<>> /\ Last(t).kind = "finalize"
            /\ t # <<>> => \E k \in DOMAIN s : s[k] = RequestOf(Last(t))
            /\ Probe(t, b) # <<>> => \E k \in DOMAIN s : s[k].state_lookup
            /\ b = <<>> /\ t = <<>> /\ Probe(t, b) = <<>> => s = <<>>
        BY <4>3, <4>4, <4>5, <4>6, <4>7, ReplayedFacts
      <4> QED BY <4>1, <4>2, <4>8
    <3>2. reqs' = s
      BY <2>1
    <3> HIDE DEF s
    <3> QED BY <3>1, <3>2
  <2>13. TypeOK'
    <3>1. resps' \in Seq(Responses) /\ received' \in Seq(Nat) /\ self_flush_outstanding' \in BOOLEAN /\ persisted_size' \in Offsets
      BY <1>1, <1>5, <2>1, <2>2
    <3> QED BY <1>0, <1>1, <1>2, <1>6, <1>11, <1>12, <2>1, <2>3, <2>4, <2>12, <3>1 DEF TypeOK
  <2>14. CallOk'
    BY <1>0, <1>2, <1>11, <1>19, <2>1, <2>5 DEF CallOk
  <2>15. ChannelOk'
    BY <1>2, <1>3, <2>1, <2>2, <2>3, <2>5 DEF ChannelOk, Carries, End
  <2>16. StreamInv'
    <3>1. ASSUME NEW i \in DOMAIN reqs' PROVE RequestOk(i)'
      <4>1. reqs'[i].finish_write => finalized'
        <5>1. t # <<>> /\ Last(t).kind = "finalize" => finalized
          <6>1. t # <<>> => Len(t) \in DOMAIN t
            BY <2>4
          <6> QED BY <2>11, <6>1 DEF Last
        <5> QED BY <2>1, <2>12, <5>1
      <4> QED BY <1>13, <2>1, <2>5, <2>12, <4>1 DEF RequestOk
    <3>2. final => reqs' = <<>>
      BY <2>6, <2>9, <2>12
    <3>3. WireOk'
      BY <1>1, <1>13, <2>5, <2>12, <3>1, <3>2 DEF WireOk
    <3>4. final => finalized' /\ (pending_requests' # <<>> \/ persisted_size' = appended')
      BY <1>2, <2>1, <2>2, <2>6
    <3> QED BY <1>0, <1>1, <2>1, <3>3, <3>4 DEF StreamInv
  <2>17. OwedInv'
    <3>1. self_flush_outstanding' => Owed'
      BY <2>1, <2>12 DEF Owed
    <3>2. pending_requests' # <<>> => \E k \in DOMAIN reqs' : reqs'[k] = RequestOf(Last(pending_requests'))
      BY <2>1, <2>12
    <3>3. unpersisted_bytes(replay_buffer') >= Watermark => self_flush_outstanding' \/ pending_requests' # <<>>
      BY <2>1, <2>9
    <3> QED BY <3>1, <3>2, <3>3 DEF OwedInv
  <2>18. BudgetInv'
    BY <1>17, <2>1, <2>2 DEF BudgetInv
  <2>19. WorkerInv' /\ ObjectOk'
    BY <1>14, <2>5, <2>10, <2>15 DEF WorkerInv
  <2> QED BY <1>11, <1>15, <1>16, <1>17a, <2>13, <2>14, <2>16, <2>17, <2>18, <2>19 DEF IInv, AppInv
<1> QED BY <1>18, <1>19

-----------------------------------------------------------------------------
(***************************************************************************)
(* The service's steps.                                                    *)
(***************************************************************************)
\* A step of the service changes nothing of the client's.
LEMMA ServiceFrame ==
    ASSUME IInv, UNCHANGED client, TypeOK', ObjectOk', ReplyOk', ResponsesOk', StreamInv', OwedInv'
    PROVE  IInv'
<1>1. ReadyOk /\ CoalescingOk /\ CallOk /\ LogOk /\ WorkerInv /\ BudgetInv
  BY DEF IInv, AppInv
<1>2. /\ UNCHANGED <<given, log, appended, coalescing_buffer, ready, write_offset, call, calls, open, reply, requests, pc>>
      /\ UNCHANGED <<replay_buffer, pending_requests, persisted_size, finalized>>
      /\ UNCHANGED <<attempt_count, last_persisted_size, fruitless>>
  BY DEF client, transport, history, workerSide, worker, connector
<1>3. WorkerEnded' = WorkerEnded /\ Awaits' = Awaits /\ Finishing' = Finishing
  BY <1>2 DEF WorkerEnded, Awaits, Finishing
<1>4. ReadyOk' /\ CoalescingOk'
  BY <1>1, <1>2 DEF ReadyOk, CoalescingOk, Last, IsRun, Bytes
<1>5. CallOk'
  BY <1>1, <1>2, <1>3 DEF CallOk
<1>6. ~WorkerEnded => IdsOk'
  <2>1. SUFFICES ASSUME ~WorkerEnded PROVE IdsOk'
    OBVIOUS
  <2>2. IdsOk
    BY <1>1, <2>1 DEF WorkerInv
  <2> QED BY <1>2, <1>3, <2>2 DEF IdsOk, OwnOk
<1>7. WorkerInv'
  BY <1>1, <1>2, <1>3, <1>6, WorkerSame
<1>8. BudgetInv'
  BY <1>1, <1>2, <1>3 DEF BudgetInv
<1>9. LogOk'
  BY <1>1, <1>2 DEF LogOk
<1> QED BY <1>4, <1>5, <1>7, <1>8, <1>9 DEF IInv, AppInv

\* What the service has received still fits what the client has sent.
LEMMA ObjectGrows ==
    ASSUME IInv, ~WorkerEnded, UNCHANGED client, object' \in Seq(Nat), received' \in Seq(Nat),
           IsRun(object, 0)', IsRun(received, Len(object))', Len(object) <= Len(object'), Upto' <= Taken,
           final' => received' = <<>> /\ Len(object') = appended /\ Finishing
    PROVE  ObjectOk' /\ ReplyOk' /\ Len(object') <= appended /\ Taken' = Taken
<1>0. TypeOK /\ CoalescingOk /\ ReplyOk /\ ChannelOk
  BY DEF IInv, AppInv, WorkerInv
<1>1. /\ UNCHANGED <<given, log, appended, write_offset, call, reply, requests, pc>>
      /\ WorkerEnded' = WorkerEnded /\ Awaits' = Awaits
  BY DEF client, transport, history, workerSide, WorkerEnded, Awaits
<1>2. Taken' = Taken
  BY <1>1 DEF Taken
<1>3. /\ Taken \in Nat /\ write_offset \in Nat /\ appended \in Nat /\ Len(object) \in Nat /\ Len(coalescing_buffer) \in Nat
  BY <1>0, Sizes DEF TypeOK
<1>4. Len(object') \in Nat /\ Len(received') \in Nat /\ Upto' = Len(object') + Len(received')
  BY DEF Upto
<1>5. Taken <= write_offset
  <2>1. requests \in Seq(Intents) /\ Carries(requests, Taken, write_offset)
    BY <1>0 DEF TypeOK, ChannelOk
  <2> QED BY <1>3, <2>1, CarriesOrder, ItemTypes
<1>6. write_offset + Len(coalescing_buffer) <= appended
  BY <1>0 DEF CoalescingOk
<1>7. Upto' <= write_offset /\ Len(object') <= appended
  BY <1>3, <1>4, <1>5, <1>6
<1>8. ObjectOk'
  <2>1. Finishing => call' \in {"await finalize", "join"} \cup Ended
    BY <1>1 DEF Finishing, Ended
  <2> QED BY <1>1, <1>2, <1>7, <2>1 DEF ObjectOk
<1>9. ReplyOk'
  <2>1. SUFFICES ASSUME (Awaits /\ reply.state = "ok") \/ call = "join"
                 PROVE  reply.size = appended /\ Len(object') = appended
    BY <1>1 DEF ReplyOk
  <2>2. reply.size = appended /\ Len(object) = appended
    BY <1>0, <2>1 DEF ReplyOk
  <2> QED BY <1>3, <1>4, <1>7, <2>2
<1> QED BY <1>2, <1>7, <1>8, <1>9

\* Persisting received bytes does not move the point the stream continues.
LEMMA WireKept ==
    ASSUME WireOk, UNCHANGED <<reqs, finalized, pending_requests, final>>, Upto' = Upto, Taken' = Taken
    PROVE  WireOk'
<1>2. \A i : Reached(reqs', Upto', i) = Reached(reqs, Upto, i)
  OBVIOUS
<1>3. ASSUME NEW i \in DOMAIN reqs, RequestOk(i) PROVE RequestOk(i)'
  BY <1>2, <1>3 DEF RequestOk
<1>4. Len(reqs)' = Len(reqs)
  OBVIOUS
<1> QED BY <1>2, <1>3, <1>4 DEF WireOk

\* Responses stay credible, and answer what they answered, when one is added.
LEMMA ResponseAdded ==
    ASSUME TypeOK, ResponsesOk, NEW r \in Responses, resps' = Append(resps, r),
           Len(object') \in Nat, Len(object) <= Len(object'),
           HasStatus(r) => r.size <= Len(object'), r.final => final' /\ r.size = appended,
           UNCHANGED appended, final => final'
    PROVE  /\ ResponsesOk' /\ resps' \in Seq(Responses) /\ resps' # <<>>
           /\ \A k \in DOMAIN resps : k \in DOMAIN resps' /\ resps'[k] = resps[k]
           /\ \E k \in DOMAIN resps' : resps'[k] = r
<1>1. resps \in Seq(Responses) /\ Len(object) \in Nat
  BY Sizes DEF TypeOK
<1>2. /\ resps' \in Seq(Responses) /\ resps' # <<>> /\ Len(resps) \in Nat /\ Len(resps) + 1 \in DOMAIN resps'
      /\ \A k \in DOMAIN resps : k \in DOMAIN resps' /\ resps'[k] = resps[k]
      /\ resps'[Len(resps) + 1] = r
      /\ \A k \in DOMAIN resps' : k \in DOMAIN resps \/ k = Len(resps) + 1
  BY <1>1
<1>3. ASSUME NEW k \in DOMAIN resps'
      PROVE  /\ HasStatus(resps'[k]) => resps'[k].size <= Len(object')
             /\ resps'[k].final => final' /\ resps'[k].size = appended'
  <2>1. CASE k \in DOMAIN resps
    <3>1. resps'[k] = resps[k] /\ resps[k] \in Responses
      BY <1>1, <1>2, <2>1
    <3>2. /\ HasStatus(resps[k]) => resps[k].size <= Len(object)
          /\ resps[k].final => final /\ resps[k].size = appended
      BY <2>1 DEF ResponsesOk
    <3>3. HasStatus(resps[k]) => resps[k].size \in Nat
      BY <3>1, StatusSize
    <3>4. HasStatus(resps[k]) => resps[k].size <= Len(object')
      BY <1>1, <3>2, <3>3
    <3> QED BY <3>1, <3>2, <3>4
  <2>2. CASE k = Len(resps) + 1
    <3>1. resps'[k] = r
      BY <1>2, <2>2
    <3> QED BY <3>1
  <2> QED BY <1>2, <2>1, <2>2
<1>4. ResponsesOk'
  BY <1>3 DEF ResponsesOk, HasStatus
<1> QED BY <1>2, <1>4

\* A response nobody asked for.
LEMMA UnpromptedStep == ASSUME IInv, Unprompted PROVE IInv'
<1>0. TypeOK /\ ObjectOk /\ ResponsesOk /\ StreamInv /\ OwedInv
  BY DEF IInv
<1>1. /\ Live /\ faults < MaxFaults /\ faults' = faults + 1 /\ UNCHANGED client
      /\ UNCHANGED <<stream, reqs, final, rejected>>
      /\ \/ resps' = Append(resps, [size |-> NoStatus, final |-> FALSE]) /\ UNCHANGED <<object, received>>
         \/ /\ received # <<>> /\ object' = object \o SubSeq(received, 1, 1) /\ received' = Tail(received)
            /\ resps' = Append(resps, [size |-> Len(object) + 1, final |-> FALSE])
  BY DEF Unprompted, PersistedBy
<1>2. /\ stream = "open" /\ ~WorkerEnded /\ WireOk
      /\ UNCHANGED <<given, log, appended, coalescing_buffer, ready, write_offset, call, calls, confirmed, open, reply, requests, pc>>
      /\ UNCHANGED <<replay_buffer, pending_requests, persisted_size, finalized, self_flush_outstanding>>
      /\ UNCHANGED <<attempt_count, redirects_followed, last_persisted_size, fruitless>>
  BY <1>0, <1>1 DEF Live, StreamInv, client, transport, history, workerSide, worker, connector
<1>3. /\ Len(object) \in Nat /\ Len(received) \in Nat /\ Upto \in Nat /\ Taken \in Nat /\ Taken \in Offsets /\ MaxBytes \in Nat
      /\ object \in Seq(Nat) /\ received \in Seq(Nat) /\ Upto <= Taken /\ Upto = Len(object) + Len(received)
      /\ IsRun(object, 0) /\ IsRun(received, Len(object))
  BY <1>0, <1>2, Sizes DEF TypeOK, ObjectOk, Upto
<1>4. PICK r \in Responses : /\ resps' = Append(resps, r) /\ ~r.final
                             /\ \/ ~HasStatus(r) /\ UNCHANGED <<object, received>>
                                \/ /\ r.size = Len(object) + 1 /\ received # <<>>
                                   /\ object' = object \o SubSeq(received, 1, 1) /\ received' = Tail(received)
  <2>1. CASE resps' = Append(resps, [size |-> NoStatus, final |-> FALSE]) /\ UNCHANGED <<object, received>>
    <3>1. NoStatus \in 0..NoStatus
      BY <1>3 DEF NoStatus
    <3>2. PICK r \in Responses : r = [size |-> NoStatus, final |-> FALSE]
      BY <3>1 DEF Responses
    <3> QED BY <2>1, <3>2 DEF HasStatus
  <2>2. CASE /\ received # <<>> /\ object' = object \o SubSeq(received, 1, 1) /\ received' = Tail(received)
             /\ resps' = Append(resps, [size |-> Len(object) + 1, final |-> FALSE])
    <3>1. Len(received) # 0
      BY <1>3, <2>2
    <3>2. Len(object) + 1 \in 0..NoStatus
      BY <1>3, <3>1 DEF NoStatus, Offsets
    <3>3. PICK r \in Responses : r = [size |-> Len(object) + 1, final |-> FALSE]
      BY <3>2 DEF Responses
    <3> QED BY <2>2, <3>3
  <2> QED BY <1>1, <2>1, <2>2
<1>5. /\ object' \in Seq(Nat) /\ received' \in Seq(Nat) /\ IsRun(object, 0)' /\ IsRun(received, Len(object))'
      /\ Len(object) <= Len(object') /\ Upto' = Upto /\ (HasStatus(r) => r.size <= Len(object'))
      /\ final => UNCHANGED <<object, received>>
  <2>1. CASE ~HasStatus(r) /\ UNCHANGED <<object, received>>
    BY <1>3, <2>1 DEF Upto
  <2>2. CASE /\ r.size = Len(object) + 1 /\ received # <<>>
             /\ object' = object \o SubSeq(received, 1, 1) /\ received' = Tail(received)
    <3> DEFINE w == SubSeq(received, 1, 1)
    <3>1. PICK k \in Nat : k = Len(object)
      BY <1>3
    <3>2. PICK a \in Nat : a = 0
      OBVIOUS
    <3>3. PICK b \in Nat : b = 1
      OBVIOUS
    <3>4. a <= b /\ b <= Len(received) /\ IsRun(received, k)
      BY <1>3, <2>2, <3>1, <3>2, <3>3
    <3>5. LET y == SubSeq(received, a + 1, b) IN y \in Seq(Nat) /\ Len(y) = b - a /\ IsRun(y, k + a)
      BY <1>3, <3>4, RunSubSeq
    <3>6. a + 1 = 1 /\ b = 1 /\ b - a = 1 /\ k + a = Len(object) /\ 0 + Len(object) = Len(object)
      BY <1>3, <3>1, <3>2, <3>3
    <3>7. w \in Seq(Nat) /\ Len(w) = 1 /\ IsRun(w, 0 + Len(object))
      BY <3>5, <3>6
    <3>8. Tail(received) \in Seq(Nat) /\ Len(Tail(received)) = Len(received) - 1 /\ IsRun(Tail(received), k + 1)
      BY <1>3, <2>2, <3>4, RunTail
    <3> HIDE DEF w
    <3>9. object \o w \in Seq(Nat) /\ Len(object \o w) = Len(object) + Len(w) /\ IsRun(object \o w, 0)
      BY <1>3, <3>7, RunConcat
    <3>10. object' \in Seq(Nat) /\ Len(object') = Len(object) + 1 /\ IsRun(object, 0)'
      BY <2>2, <3>7, <3>9 DEF w
    <3>11. IsRun(received, Len(object))' /\ received' \in Seq(Nat) /\ Len(received') = Len(received) - 1
      BY <2>2, <3>1, <3>8, <3>10
    <3>12. Len(object) <= Len(object') /\ r.size <= Len(object')
      BY <1>3, <2>2, <3>10
    <3>13. Upto' = Upto
      BY <1>3, <3>10, <3>11 DEF Upto
    <3>14. ~final
      BY <1>0, <2>2 DEF ObjectOk
    <3> QED BY <3>10, <3>11, <3>12, <3>13, <3>14
  <2> QED BY <1>4, <2>1, <2>2
<1>6. final' => received' = <<>> /\ Len(object') = appended /\ Finishing
  <2>1. SUFFICES ASSUME final PROVE received = <<>> /\ Len(object) = appended /\ Finishing
    BY <1>1, <1>5
  <2>2. received = <<>> /\ Len(object) = appended /\ call \in {"await finalize", "join"} \cup Ended
    BY <1>0, <2>1 DEF ObjectOk
  <2>3. finalized
    BY <1>0, <1>2, <2>1 DEF StreamInv
  <2>4. Finishing
    BY <1>2, <2>3 DEF IInv, WorkerInv, ChannelOk
  <2> QED BY <2>2, <2>4
<1>7. ObjectOk' /\ ReplyOk' /\ Len(object') <= appended /\ Taken' = Taken
  BY <1>1, <1>2, <1>3, <1>5, <1>6, ObjectGrows
<1>8. /\ ResponsesOk' /\ resps' \in Seq(Responses) /\ resps' # <<>>
      /\ \A k \in DOMAIN resps : k \in DOMAIN resps' /\ resps'[k] = resps[k]
  <2>1. Len(object') \in Nat
    BY <1>5
  <2> QED BY <1>0, <1>1, <1>2, <1>4, <1>5, <2>1, ResponseAdded
<1>9. TypeOK'
  <2>1. faults' \in 0..MaxFaults
    BY <1>0, <1>1, BidiWriteAssumption DEF TypeOK
  <2> QED BY <1>0, <1>1, <1>2, <1>5, <1>8, <2>1 DEF TypeOK
<1>10. StreamInv'
  <2>1. WireOk'
    BY <1>1, <1>2, <1>5, <1>7, WireKept
  <2> QED BY <1>0, <1>1, <1>2, <2>1 DEF StreamInv, Live, WorkerEnded
<1>11. OwedInv'
  <2>1. Owed'
    BY <1>8 DEF Owed
  <2>2. ASSUME \E k \in DOMAIN resps : is_satisfied(Last(pending_requests), resps[k])
        PROVE  \E k \in DOMAIN resps' : is_satisfied(Last(pending_requests), resps'[k])
    BY <1>8, <2>2
  <2> QED BY <1>0, <1>1, <1>2, <2>1, <2>2 DEF OwedInv, RequestOf, Request, is_satisfied, HasStatus, unpersisted_bytes, End, Last
<1> QED BY <1>1, <1>7, <1>8, <1>9, <1>10, <1>11, ServiceFrame

\* The stream ends, early or after the half-close.
LEMMA StreamEnds ==
    ASSUME IInv, UNCHANGED <<client, service>>, Live, stream' \in {"closed", "redirect", "permanent"}, reqs' = <<>>,
           resps' \in {resps, <<>>}, faults' \in 0..MaxFaults
    PROVE  IInv'
<1>0. TypeOK /\ ObjectOk /\ ReplyOk /\ ResponsesOk /\ StreamInv
  BY DEF IInv, AppInv
<1>1. /\ UNCHANGED <<given, log, appended, coalescing_buffer, ready, write_offset, call, calls, confirmed, open, reply, requests, pc>>
      /\ UNCHANGED <<replay_buffer, pending_requests, persisted_size, finalized, self_flush_outstanding>>
      /\ UNCHANGED <<attempt_count, redirects_followed, last_persisted_size, fruitless>>
      /\ UNCHANGED <<object, final, received, rejected>> /\ UNCHANGED client
  BY DEF client, transport, history, workerSide, worker, connector, service
<1>2. stream = "open" /\ stream' # "open"
  BY DEF Live
<1>3. Taken' = Taken /\ Upto' = Upto /\ WorkerEnded' = WorkerEnded /\ Awaits' = Awaits /\ Live' = FALSE
  BY <1>1, <1>2 DEF Taken, Upto, WorkerEnded, Awaits, Live
<1>4. TypeOK'
  <2>1. reqs' \in Seq(Requests) /\ resps' \in Seq(Responses)
    <3>1. resps \in Seq(Responses)
      BY <1>0 DEF TypeOK
    <3>2. resps' = resps \/ resps' = <<>>
      OBVIOUS
    <3>3. <<>> \in Seq(Requests) /\ <<>> \in Seq(Responses)
      OBVIOUS
    <3> QED BY <3>1, <3>2, <3>3
  <2> QED BY <1>0, <1>1, <2>1 DEF TypeOK
<1>5. ObjectOk' /\ ReplyOk'
  BY <1>0, <1>1, <1>3 DEF ObjectOk, ReplyOk, IsRun
<1>6. ResponsesOk'
  BY <1>0, <1>1 DEF ResponsesOk, HasStatus
<1>7. StreamInv'
  <2>1. pc # "connect"
    BY <1>0, <1>2 DEF StreamInv
  <2> QED BY <1>0, <1>1, <1>2, <1>3, <2>1 DEF StreamInv
<1>8. OwedInv'
  BY <1>2 DEF OwedInv
<1> QED BY <1>1, <1>4, <1>5, <1>6, <1>7, <1>8, ServiceFrame

\* The stream ends early.
LEMMA BreakStep == ASSUME IInv, NEW kind \in {"closed", "redirect", "permanent"}, Break(kind) PROVE IInv'
<1>1. TypeOK
  BY DEF IInv
<1>2. faults' \in 0..MaxFaults
  BY <1>1, BidiWriteAssumption DEF Break, TypeOK
<1> QED BY <1>2, StreamEnds DEF Break

\* The service closes its half after the client did.
LEMMA HalfClosedStep == ASSUME IInv, HalfClosed PROVE IInv'
<1>1. TypeOK
  BY DEF IInv
<1>2. faults' \in 0..MaxFaults
  BY <1>1 DEF HalfClosed, TypeOK
<1> QED BY <1>2, StreamEnds DEF HalfClosed

\* The first request of a live stream continues the upload: it is accepted.
LEMMA RequestAccepted ==
    ASSUME IInv, TakeRequest
    PROVE  /\ reqs[1] \in Requests /\ ~final /\ WireOk /\ RequestOk(1) /\ Accept(reqs[1]) /\ UNCHANGED <<client, faults>>
           /\ stream = "open" /\ ~WorkerEnded
           /\ IF reqs[1].data = <<>> /\ ~reqs[1].finish_write THEN reqs[1].at <= Upto ELSE reqs[1].at = Upto
<1>0. TypeOK /\ StreamInv
  BY DEF IInv
<1>1. /\ Live /\ reqs # <<>> /\ (IF Accepts(Head(reqs)) THEN Accept(Head(reqs)) ELSE Reject) /\ UNCHANGED <<client, faults>>
  BY DEF TakeRequest
<1>2. reqs \in Seq(Requests) /\ 1 \in DOMAIN reqs /\ reqs[1] \in Requests /\ Head(reqs) = reqs[1]
  BY <1>0, <1>1 DEF TypeOK
<1>3. stream = "open" /\ ~WorkerEnded /\ WireOk
  BY <1>0, <1>1 DEF StreamInv, Live
<1>4. RequestOk(1) /\ ~final
  BY <1>1, <1>2, <1>3 DEF WireOk
<1>5. Reached(reqs, Upto, 1 - 1) = Upto
  <2>1. 1 - 1 = 0
    OBVIOUS
  <2> QED BY <2>1, ReachedStart
<1>6. IF reqs[1].data = <<>> /\ ~reqs[1].finish_write THEN reqs[1].at <= Upto ELSE reqs[1].at = Upto
  BY <1>4, <1>5 DEF RequestOk
<1>7. Accepts(reqs[1])
  BY <1>4, <1>6 DEF Accepts, Upto
<1> QED BY <1>1, <1>2, <1>3, <1>4, <1>6, <1>7

\* What the service has once it took the request q.
LEMMA AcceptedBytes ==
    ASSUME IInv, TakeRequest
    PROVE  LET q == reqs[1] IN
           /\ object' \in Seq(Nat) /\ received' \in Seq(Nat) /\ IsRun(object, 0)' /\ IsRun(received, Len(object))'
           /\ Len(object) <= Len(object') /\ Upto' = Reached(reqs, Upto, 1) /\ Upto' <= Taken /\ Upto <= Upto'
           /\ q.state_lookup \/ q.finish_write =>
                received' = <<>> /\ Len(object') = Upto' /\ resps' = Append(resps, [size |-> Upto', final |-> q.finish_write])
           /\ ~(q.state_lookup \/ q.finish_write) => resps' = resps
<1> DEFINE q == reqs[1]
           d == q.data
<1>0. TypeOK /\ ObjectOk
  BY DEF IInv
<1>1. /\ q \in Requests /\ RequestOk(1) /\ Accept(q) /\ ~WorkerEnded
      /\ IF q.data = <<>> /\ ~q.finish_write THEN q.at <= Upto ELSE q.at = Upto
  BY RequestAccepted
<1>2. /\ Len(object) \in Nat /\ Len(received) \in Nat /\ Upto \in Nat /\ Taken \in Nat
      /\ object \in Seq(Nat) /\ received \in Seq(Nat) /\ Upto <= Taken /\ Upto = Len(object) + Len(received)
      /\ IsRun(object, 0) /\ IsRun(received, 0 + Len(object)) /\ 0 + Len(object) = Len(object)
  <2>1. /\ Len(object) \in Nat /\ Len(received) \in Nat /\ Upto \in Nat /\ Taken \in Nat
    BY <1>0, Sizes
  <2>2. object \in Seq(Nat) /\ received \in Seq(Nat)
    BY <1>0 DEF TypeOK
  <2>3. Upto <= Taken /\ IsRun(object, 0) /\ IsRun(received, Len(object))
    BY <1>0, <1>1 DEF ObjectOk
  <2>4. 0 + Len(object) = Len(object)
    BY <2>1
  <2> QED BY <2>1, <2>2, <2>3, <2>4 DEF Upto
<1>3. d \in Seq(Nat) /\ Len(d) \in Nat /\ q.at \in Nat /\ End(q) = q.at + Len(d)
  BY <1>1 DEF Requests, Offsets, End
<1>4. d = Bytes(q.at, End(q)) /\ End(q) <= Taken
  BY <1>1 DEF RequestOk
<1>5. IsRun(d, Upto) /\ Upto + Len(d) <= Taken
  <2>1. CASE d = <<>>
    BY <1>2, <2>1, EmptyRun
  <2>2. CASE d # <<>>
    <3>1. q.at = Upto
      BY <1>1, <2>2
    <3> QED BY <1>3, <1>4, <3>1 DEF IsRun
  <2> QED BY <2>1, <2>2
<1>6. Reached(reqs, Upto, 1) = Upto + Len(d)
  <2>1. Reached(reqs, Upto, 0 + 1) = IF reqs[0 + 1].data # <<>> THEN End(reqs[0 + 1]) ELSE Reached(reqs, Upto, 0)
    BY ReachedNext
  <2>2. Reached(reqs, Upto, 1) = IF d # <<>> THEN End(q) ELSE Upto
    BY <2>1, ReachedStart
  <2>3. CASE d = <<>>
    <3>1. Len(d) = 0
      BY <2>3
    <3> QED BY <1>2, <2>2, <2>3, <3>1
  <2>4. CASE d # <<>>
    BY <1>1, <1>3, <2>2, <2>4
  <2> QED BY <2>3, <2>4
<1>7. /\ IF q.state_lookup \/ q.finish_write
           THEN /\ object' = object \o received \o d /\ received' = <<>>
                /\ resps' = Append(resps, [size |-> Len(object \o received \o d), final |-> q.finish_write])
           ELSE received' = received \o d /\ UNCHANGED <<object, resps>>
  BY <1>1 DEF Accept
<1> HIDE DEF d, q
<1>8. /\ object \o received \in Seq(Nat) /\ Len(object \o received) = Upto /\ IsRun(object \o received, 0)
  BY <1>2, RunConcat
<1> DEFINE or == object \o received
<1>9. /\ or \o d \in Seq(Nat) /\ Len(or \o d) = Upto + Len(d) /\ IsRun(or \o d, 0)
  <2>1. or \in Seq(Nat) /\ Len(or) = Upto /\ IsRun(or, 0)
    BY <1>8
  <2> HIDE DEF or
  <2>2. IsRun(d, 0 + Len(or)) /\ 0 \in Nat
    BY <1>2, <1>5, <2>1
  <2>3. or \o d \in Seq(Nat) /\ Len(or \o d) = Len(or) + Len(d) /\ IsRun(or \o d, 0)
    BY <1>3, <2>1, <2>2, RunConcat
  <2> QED BY <2>1, <2>3
<1>10. CASE q.state_lookup \/ q.finish_write
  <2>1. /\ object' = or \o d /\ received' = <<>> /\ resps' = Append(resps, [size |-> Len(or \o d), final |-> q.finish_write])
    BY <1>7, <1>10
  <2>2. Len(received') = 0 /\ received' \in Seq(Nat)
    BY <2>1
  <2> HIDE DEF or
  <2>3. object' \in Seq(Nat) /\ Len(object') = Upto + Len(d) /\ IsRun(object, 0)'
    BY <1>9, <2>1
  <2>4. Upto' = Upto + Len(d) /\ Len(object) <= Len(object') /\ Upto <= Upto' /\ Len(object') \in Nat
    BY <1>2, <1>3, <2>2, <2>3 DEF Upto
  <2>5. IsRun(received, Len(object))'
    BY <2>1, <2>4, EmptyRun
  <2>6. resps' = Append(resps, [size |-> Upto', final |-> q.finish_write])
    BY <1>9, <2>1, <2>4
  <2> QED BY <1>5, <1>6, <1>10, <2>1, <2>2, <2>3, <2>4, <2>5, <2>6 DEF q
<1>11. CASE ~(q.state_lookup \/ q.finish_write)
  <2>1. object' = object /\ received' = received \o d /\ resps' = resps
    BY <1>7, <1>11, SMTT(30)
  <2>2. PICK k \in Nat : k = Len(object)
    BY <1>2
  <2>3. IsRun(received, k) /\ IsRun(d, k + Len(received))
    BY <1>2, <1>5, <2>2
  <2>4. received \o d \in Seq(Nat) /\ Len(received \o d) = Len(received) + Len(d) /\ IsRun(received \o d, k)
    BY <1>2, <1>3, <2>3, RunConcat
  <2>5. received' \in Seq(Nat) /\ Len(received') = Len(received) + Len(d) /\ IsRun(received, Len(object))'
    BY <2>1, <2>2, <2>4
  <2>6. Upto' = Upto + Len(d) /\ Len(object) <= Len(object') /\ Upto <= Upto'
    BY <1>2, <1>3, <2>1, <2>5 DEF Upto
  <2>7. object' \in Seq(Nat) /\ IsRun(object, 0)'
    BY <1>2, <2>1
  <2> QED BY <1>5, <1>6, <1>11, <2>1, <2>5, <2>6, <2>7 DEF q
<1> QED BY <1>10, <1>11

\* The request that finishes the write comes when everything was sent.
LEMMA FinishIsLast ==
    ASSUME IInv, TakeRequest, reqs[1].finish_write
    PROVE  /\ Upto' = appended /\ Finishing /\ finalized /\ Len(reqs) = 1
           /\ pending_requests # <<>> /\ Last(pending_requests).kind = "finalize"
<1>0. TypeOK /\ ReadyOk /\ CallOk
  BY DEF IInv, AppInv
<1>1. WireOk /\ RequestOk(1) /\ ~WorkerEnded
  BY RequestAccepted
<1>2. /\ 1 = Len(reqs) /\ finalized /\ pending_requests # <<>> /\ Last(pending_requests).kind = "finalize"
  BY <1>1 DEF RequestOk
<1>3. ChannelOk
  BY <1>1 DEF IInv, WorkerInv
<1>4. requests = <<>> /\ Finishing
  BY <1>2, <1>3 DEF ChannelOk
<1>5. write_offset = appended
  <2>1. CASE call \in {"await finalize", "join"}
    <3>1. ready = <<>> /\ coalescing_buffer = <<>>
      BY <1>0, <2>1, AwaitSet DEF CallOk, Awaits
    <3>2. write_offset + Len(coalescing_buffer) = appended /\ write_offset \in Nat
      BY <1>0, <3>1, Sizes DEF ReadyOk
    <3>3. Len(coalescing_buffer) = 0
      BY <3>1
    <3> QED BY <3>2, <3>3
  <2> QED BY <1>4, <2>1 DEF Finishing
<1>8. Taken = appended
  BY <1>4, <1>5 DEF Taken
<1>9. Upto' = Reached(reqs, Upto, 1)
  BY AcceptedBytes
<1>10. Reached(reqs, Upto, 1) = Taken
  BY <1>1, <1>2 DEF WireOk
<1> QED BY <1>2, <1>4, <1>8, <1>9, <1>10

\* The rest of the stream continues what the service now has.
LEMMA WireTail ==
    ASSUME TypeOK, WireOk, reqs # <<>>, reqs' = Tail(reqs), Upto' = Reached(reqs, Upto, 1), Taken' = Taken,
           UNCHANGED <<finalized, pending_requests>>, final' => Len(reqs) = 1
    PROVE  WireOk'
<1>1. reqs \in Seq(Requests) /\ Len(reqs) \in Nat /\ Len(reqs) # 0
  BY DEF TypeOK
<1>2. /\ Len(reqs') = Len(reqs) - 1 /\ reqs' \in Seq(Requests)
      /\ \A i \in DOMAIN reqs' : i \in Nat /\ i - 1 \in Nat /\ i + 1 \in DOMAIN reqs /\ reqs'[i] = reqs[i + 1] /\ i - 1 < Len(reqs)
  BY <1>1
<1>3. \A n \in Nat : n < Len(reqs) => Reached(reqs', Upto', n) = Reached(reqs, Upto, n + 1)
  BY <1>1, ReachedTail
<1>4. ASSUME NEW i \in DOMAIN reqs' PROVE RequestOk(i)'
  <2>1. /\ i \in Nat /\ i - 1 \in Nat /\ i + 1 \in DOMAIN reqs /\ reqs'[i] = reqs[i + 1] /\ i - 1 < Len(reqs)
    BY <1>2
  <2>2. RequestOk(i + 1)
    BY <2>1 DEF WireOk
  <2>3. Reached(reqs', Upto', i - 1) = Reached(reqs, Upto, i)
    <3>1. Reached(reqs', Upto', i - 1) = Reached(reqs, Upto, (i - 1) + 1)
      BY <1>3, <2>1
    <3>2. (i - 1) + 1 = i
      BY <2>1
    <3> QED BY <3>1, <3>2
  <2>4. (i + 1) - 1 = i /\ (i + 1 = Len(reqs) => i = Len(reqs'))
    BY <1>1, <1>2, <2>1
  <2>5. /\ reqs[i + 1].data = Bytes(reqs[i + 1].at, End(reqs[i + 1])) /\ End(reqs[i + 1]) <= Taken
        /\ IF reqs[i + 1].data = <<>> /\ ~reqs[i + 1].finish_write
             THEN reqs[i + 1].at <= Reached(reqs, Upto, i) ELSE reqs[i + 1].at = Reached(reqs, Upto, i)
        /\ reqs[i + 1].finish_write =>
             /\ i + 1 = Len(reqs) /\ finalized /\ reqs[i + 1].data = <<>>
             /\ pending_requests # <<>> /\ Last(pending_requests).kind = "finalize"
    BY <2>2, <2>4 DEF RequestOk
  <2> QED BY <2>1, <2>3, <2>4, <2>5 DEF RequestOk
<1>5. Reached(reqs', Upto', Len(reqs')) = Taken'
  <2>1. Len(reqs) - 1 \in Nat /\ Len(reqs) - 1 < Len(reqs) /\ (Len(reqs) - 1) + 1 = Len(reqs)
    BY <1>1
  <2>2. Reached(reqs', Upto', Len(reqs) - 1) = Reached(reqs, Upto, (Len(reqs) - 1) + 1)
    BY <1>3, <2>1
  <2>3. Reached(reqs, Upto, Len(reqs)) = Taken
    BY DEF WireOk
  <2> QED BY <1>2, <2>1, <2>2, <2>3
<1>6. final' => reqs' = <<>>
  BY <1>1, <1>2
<1> QED BY <1>4, <1>5, <1>6 DEF WireOk

\* The service takes a request, and answers it when it flushes.
LEMMA TakeRequestStep == ASSUME IInv, TakeRequest PROVE IInv'
<1> DEFINE q == reqs[1]
           flushes == q.state_lookup \/ q.finish_write
<1>0. TypeOK /\ ObjectOk /\ ResponsesOk /\ StreamInv /\ OwedInv
  BY DEF IInv
<1>1. /\ q \in Requests /\ ~final /\ WireOk /\ Accept(q) /\ UNCHANGED <<client, faults>> /\ stream = "open" /\ ~WorkerEnded
      /\ reqs # <<>>
      /\ IF q.data = <<>> /\ ~q.finish_write THEN q.at <= Upto ELSE q.at = Upto
  BY RequestAccepted DEF TakeRequest
<1>2. final' = q.finish_write /\ reqs' = Tail(reqs) /\ UNCHANGED <<stream, rejected>>
  BY <1>1 DEF Accept
<1>3. /\ object' \in Seq(Nat) /\ received' \in Seq(Nat) /\ IsRun(object, 0)' /\ IsRun(received, Len(object))'
      /\ Len(object) <= Len(object') /\ Upto' = Reached(reqs, Upto, 1) /\ Upto' <= Taken /\ Upto <= Upto'
      /\ flushes => received' = <<>> /\ Len(object') = Upto' /\ resps' = Append(resps, [size |-> Upto', final |-> q.finish_write])
      /\ ~flushes => resps' = resps
  BY AcceptedBytes
<1>4. q.finish_write => /\ Upto' = appended /\ Finishing /\ finalized /\ Len(reqs) = 1
                        /\ pending_requests # <<>> /\ Last(pending_requests).kind = "finalize"
  BY FinishIsLast
<1>5. /\ UNCHANGED <<given, log, appended, coalescing_buffer, ready, write_offset, call, calls, confirmed, open, reply, requests, pc>>
      /\ UNCHANGED <<replay_buffer, pending_requests, persisted_size, finalized, self_flush_outstanding>>
      /\ UNCHANGED <<attempt_count, redirects_followed, last_persisted_size, fruitless, faults>> /\ UNCHANGED client
  BY <1>1 DEF client, transport, history, workerSide, worker, connector
<1>5a. q.state_lookup \in BOOLEAN /\ q.finish_write \in BOOLEAN /\ q.at \in Nat
  BY <1>1 DEF Requests, Offsets
<1> HIDE DEF q
<1>6. ObjectOk' /\ ReplyOk' /\ Len(object') <= appended /\ Taken' = Taken
  <2>1. final' => received' = <<>> /\ Len(object') = appended /\ Finishing
    BY <1>2, <1>3, <1>4
  <2> QED BY <1>1, <1>3, <1>5, <2>1, ObjectGrows
<1>7. Len(object') \in Nat /\ Upto' \in Nat /\ Upto \in Nat /\ Upto' \in Offsets
  <2>1. Len(object') \in Nat /\ Len(received') \in Nat /\ Taken \in Offsets /\ Taken \in Nat /\ Upto \in Nat /\ MaxBytes \in Nat
    BY <1>0, <1>3, Sizes
  <2>2. Upto' \in Nat
    BY <2>1 DEF Upto
  <2> QED BY <1>3, <2>1, <2>2 DEF Offsets
<1>8. reqs \in Seq(Requests) /\ reqs' \in Seq(Requests) /\ 1 \in DOMAIN reqs
      /\ \A i \in DOMAIN reqs : i = 1 \/ (i - 1 \in DOMAIN reqs' /\ reqs'[i - 1] = reqs[i])
  <2>1. reqs \in Seq(Requests)
    BY <1>0 DEF TypeOK
  <2> QED BY <1>1, <1>2, <2>1
<1>9. StreamInv'
  <2>1. WireOk'
    BY <1>0, <1>1, <1>2, <1>3, <1>4, <1>5, <1>6, WireTail
  <2> QED BY <1>0, <1>1, <1>2, <1>4, <1>5, <2>1 DEF StreamInv, WorkerEnded
<1>10. CASE flushes
  <2>1. PICK r \in Responses : r = [size |-> Upto', final |-> q.finish_write]
    <3>1. Upto' \in 0..NoStatus
      BY <1>7, BidiWriteAssumption DEF Offsets, NoStatus
    <3> QED BY <1>5a, <3>1 DEF Responses
  <2>2. r.size = Upto' /\ r.final = q.finish_write /\ HasStatus(r)
    <3>1. Upto' # NoStatus
      BY <1>7, BidiWriteAssumption DEF Offsets, NoStatus
    <3> QED BY <2>1, <3>1 DEF HasStatus
  <2>3. resps' = Append(resps, r) /\ received' = <<>> /\ Len(object') = Upto'
    BY <1>3, <1>10, <2>1
  <2>4. /\ ResponsesOk' /\ resps' \in Seq(Responses) /\ resps' # <<>>
        /\ \A k \in DOMAIN resps : k \in DOMAIN resps' /\ resps'[k] = resps[k]
        /\ \E k \in DOMAIN resps' : resps'[k] = r
    <3>1. r.size <= Len(object')
      BY <1>7, <2>2, <2>3
    <3>2. r.final => final' /\ r.size = appended
      BY <1>2, <1>4, <2>2
    <3> QED BY <1>0, <1>1, <1>3, <1>5, <1>7, <2>3, <3>1, <3>2, ResponseAdded
  <2>5. TypeOK'
    BY <1>0, <1>2, <1>3, <1>5, <1>5a, <1>8, <2>4 DEF TypeOK
  <2>6. OwedInv'
    <3>1. SUFFICES ASSUME pc = "run", stream = "open" PROVE OwedInv'
      BY <1>2, <1>5 DEF OwedInv
    <3>2. Owed'
      BY <2>4 DEF Owed
    <3>3. ASSUME pending_requests # <<>>
          PROVE  \/ \E i \in DOMAIN reqs' : reqs'[i] = RequestOf(Last(pending_requests))
                 \/ \E k \in DOMAIN resps' : is_satisfied(Last(pending_requests), resps'[k])
      <4> DEFINE p == Last(pending_requests)
      <4>1. CASE \E k \in DOMAIN resps : is_satisfied(p, resps[k])
        BY <2>4, <4>1
      <4>2. CASE \E i \in DOMAIN reqs : reqs[i] = RequestOf(p)
        <5>1. PICK i \in DOMAIN reqs : reqs[i] = RequestOf(p)
          BY <4>2
        <5>2. CASE i # 1
          BY <1>8, <5>1, <5>2
        <5>3. CASE i = 1
          <6>1. q = Request(p.at, <<>>, p.kind = "flush", p.kind = "finalize")
            BY <5>1, <5>3 DEF RequestOf, q
          <6>2. q.at = p.at /\ q.data = <<>> /\ q.finish_write = (p.kind = "finalize")
            BY <6>1 DEF Request
          <6>3. p.kind \in {"flush", "finalize"}
            <7>1. pending_requests \in Seq(Pending)
              BY <1>0 DEF TypeOK
            <7>2. p \in Pending
              BY <3>3, <7>1 DEF Last
            <7> QED BY <7>2 DEF Pending
          <6>4. p.at <= Upto
            BY <1>1, <1>5a, <1>7, <6>2
          <6>5. r.size >= p.at
            BY <1>3, <1>5a, <1>7, <2>2, <6>2, <6>4
          <6>6. IF p.kind = "flush" THEN ~r.final ELSE r.final
            BY <2>2, <6>2, <6>3
          <6>7. is_satisfied(p, r)
            BY <2>2, <6>5, <6>6 DEF is_satisfied
          <6> QED BY <2>4, <6>7
        <5> QED BY <5>2, <5>3
      <4> QED BY <1>0, <3>1, <3>3, <4>1, <4>2 DEF OwedInv
    <3> QED BY <1>0, <1>2, <1>5, <3>1, <3>2, <3>3 DEF OwedInv, RequestOf, Request, is_satisfied, HasStatus, unpersisted_bytes, End, Last
  <2> QED BY <1>5, <1>6, <1>9, <2>4, <2>5, <2>6, ServiceFrame
<1>11. CASE ~flushes
  <2>1. resps' = resps /\ ~final' /\ ~q.state_lookup /\ ~q.finish_write
    BY <1>2, <1>3, <1>11
  <2>2. ResponsesOk'
    <3>1. ASSUME NEW k \in DOMAIN resps
          PROVE  /\ HasStatus(resps[k]) => resps[k].size <= Len(object')
                 /\ ~resps[k].final
      <4>1. resps[k] \in Responses /\ Len(object) \in Nat
        <5>1. resps \in Seq(Responses)
          BY <1>0 DEF TypeOK
        <5> QED BY <1>0, <5>1, Sizes
      <4>2. (HasStatus(resps[k]) => resps[k].size <= Len(object)) /\ ~resps[k].final
        BY <1>0, <1>1 DEF ResponsesOk
      <4>3. HasStatus(resps[k]) => resps[k].size \in Nat
        BY <4>1, StatusSize
      <4> QED BY <1>3, <1>7, <4>1, <4>2, <4>3
    <3> QED BY <2>1, <3>1 DEF ResponsesOk, HasStatus
  <2>3. TypeOK'
    BY <1>0, <1>2, <1>3, <1>5, <1>5a, <1>8, <2>1 DEF TypeOK
  <2>4. OwedInv'
    <3>1. ASSUME pc = "run", stream = "open", self_flush_outstanding PROVE Owed'
      <4>1. resps # <<>> \/ \E i \in DOMAIN reqs : reqs[i].state_lookup \/ reqs[i].finish_write
        BY <1>0, <3>1 DEF OwedInv, Owed
      <4>2. CASE resps # <<>>
        BY <2>1, <4>2 DEF Owed
      <4>3. CASE \E i \in DOMAIN reqs : reqs[i].state_lookup \/ reqs[i].finish_write
        <5>1. PICK i \in DOMAIN reqs : reqs[i].state_lookup \/ reqs[i].finish_write
          BY <4>3
        <5>2. i # 1
          BY <2>1, <5>1 DEF q
        <5> QED BY <1>8, <5>1, <5>2 DEF Owed
      <4> QED BY <4>1, <4>2, <4>3
    <3>2. ASSUME NEW p, \E i \in DOMAIN reqs : reqs[i] = RequestOf(p), p \in Pending
          PROVE  \E i \in DOMAIN reqs' : reqs'[i] = RequestOf(p)
      <4>1. PICK i \in DOMAIN reqs : reqs[i] = RequestOf(p)
        BY <3>2
      <4>2. i # 1
        <5>1. SUFFICES ASSUME i = 1 PROVE FALSE
          OBVIOUS
        <5>2. q = Request(p.at, <<>>, p.kind = "flush", p.kind = "finalize")
          BY <4>1, <5>1 DEF RequestOf, q
        <5>3. q.state_lookup = (p.kind = "flush") /\ q.finish_write = (p.kind = "finalize")
          BY <5>2 DEF Request
        <5> QED BY <2>1, <3>2, <5>3 DEF Pending
      <4> QED BY <1>8, <4>1, <4>2
    <3>3. pending_requests # <<>> => Last(pending_requests) \in Pending
      <4>1. pending_requests \in Seq(Pending)
        BY <1>0 DEF TypeOK
      <4> QED BY <4>1 DEF Last
    <3> QED BY <1>0, <1>2, <1>5, <2>1, <3>1, <3>2, <3>3 DEF OwedInv, is_satisfied, HasStatus, unpersisted_bytes, End, Last
  <2> QED BY <1>5, <1>6, <1>9, <2>2, <2>3, <2>4, ServiceFrame
<1> QED BY <1>10, <1>11

-----------------------------------------------------------------------------
(***************************************************************************)
(* The invariant holds in every state.                                     *)
(***************************************************************************)
\* The replay buffer start_worker begins with: the rest of the opening payload.
LEMMA OpeningChunk ==
    ASSUME NEW p \in Nat, NEW n \in Nat, p < n, n <= MaxBytes, n <= MAX_WRITE_CHUNK_SIZE
    PROVE  LET b == <<Chunk(p, Bytes(p, n))>> IN
           /\ b \in Seq(Chunks) /\ Carries(b, p, n) /\ unpersisted_bytes(b) = n - p
           /\ \A i \in DOMAIN b : Len(b[i].data) \in 1..MAX_WRITE_CHUNK_SIZE
<1> DEFINE d == Bytes(p, n)
<1>0. MaxBytes \in Nat /\ MAX_WRITE_CHUNK_SIZE \in Nat
  BY BidiWriteAssumption
<1>1. d \in Seq(Nat) /\ Len(d) = n - p /\ IsRun(d, p)
  <2>1. p <= n
    OBVIOUS
  <2> QED BY <2>1, BytesFacts, BytesAreRun
<1> HIDE DEF d
<1>2. PICK x \in Chunks : x = [at |-> p, data |-> d]
  <2>1. p \in Offsets
    BY <1>0 DEF Offsets
  <2> QED BY <1>1, <2>1 DEF Chunks
<1>3. x.at = p /\ x.data = d /\ End(x) = n
  <2>1. x.at = p /\ x.data = d
    BY <1>2
  <2>2. p + (n - p) = n
    OBVIOUS
  <2> QED BY <1>1, <2>1, <2>2 DEF End
<1> DEFINE s == <<x>>
<1>4. s \in Seq(Chunks) /\ Len(s) = 1 /\ s[1] = x /\ DOMAIN s = {1} /\ s # <<>>
  OBVIOUS
<1>5. Carries(s, p, n)
  <2>1. <<>> \in Seq(Chunks) /\ Carries(<<>>, p, p) /\ Items(Chunks)
    BY CarriesNone, ItemTypes
  <2>2. Carries(Append(<<>>, x), p, End(x))
    BY <1>1, <1>3, <2>1, CarriesAppend
  <2>3. Append(<<>>, x) = <<x>>
    OBVIOUS
  <2> QED BY <1>3, <2>2, <2>3
<1>6. unpersisted_bytes(s) = n - p
  <2> HIDE DEF s
  <2> QED BY <1>3, <1>4 DEF unpersisted_bytes
<1>7. \A i \in DOMAIN s : Len(s[i].data) \in 1..MAX_WRITE_CHUNK_SIZE
  <2>1. n - p \in 1..MAX_WRITE_CHUNK_SIZE
    BY <1>0
  <2> HIDE DEF s
  <2> QED BY <1>1, <1>3, <1>4, <2>1
<1>8. <<Chunk(p, Bytes(p, n))>> = s
  BY <1>2 DEF Chunk, d
<1> HIDE DEF s
<1> QED BY <1>4, <1>5, <1>6, <1>7, <1>8

\* The invariant holds when start_worker returns.
LEMMA InitIInv == ASSUME Init PROVE IInv
<1>1. PICK o \in Openings :
        /\ given = o[2] /\ log = Bytes(0, o[2]) /\ appended = o[2] /\ coalescing_buffer = <<>> /\ ready = <<>> /\ write_offset = o[2] /\ call = "idle" /\ calls = 0
        /\ reply = Reply("none", 0) /\ confirmed = 0 /\ requests = <<>> /\ open = TRUE /\ pc = "run"
        /\ replay_buffer = (IF o[1] < o[2] THEN <<Chunk(o[1], Bytes(o[1], o[2]))>> ELSE <<>>)
        /\ pending_requests = <<>> /\ persisted_size = o[1] /\ finalized = FALSE /\ self_flush_outstanding = FALSE
        /\ attempt_count = 0 /\ redirects_followed = 0 /\ last_persisted_size = o[1] /\ fruitless = 0
        /\ stream = "open" /\ reqs = <<>> /\ resps = <<>>
        /\ object = Bytes(0, o[1]) /\ final = FALSE /\ received = Bytes(o[1], o[2]) /\ rejected = FALSE /\ faults = 0
  BY DEF Init
<1>2. /\ o[1] \in Nat /\ o[2] \in Nat /\ o[2] <= MaxBytes
      /\ o[1] = o[2] \/ (o[1] < o[2] /\ o[2] <= MAX_WRITE_CHUNK_SIZE)
  BY BidiWriteAssumption
<1>3. PICK p \in Nat, n \in Nat : p = o[1] /\ n = o[2]
  BY <1>2
<1>4. /\ MaxBytes \in Nat /\ MAX_WRITE_CHUNK_SIZE \in Nat \ {0} /\ Capacity \in Nat /\ Capacity > 3 * MAX_WRITE_CHUNK_SIZE
      /\ CHANNEL_BUFFER_SIZE \in Nat /\ MaxCalls \in Nat /\ MaxFaults \in Nat
  BY BidiWriteAssumption
<1>5. p <= n /\ n <= MaxBytes /\ p \in Offsets /\ n \in Offsets /\ 0 \in Offsets /\ (p < n => n <= MAX_WRITE_CHUNK_SIZE)
  BY <1>2, <1>3, <1>4 DEF Offsets
<1>6. /\ given = n /\ log = Bytes(0, n) /\ appended = n /\ write_offset = n /\ persisted_size = p /\ last_persisted_size = p
      /\ replay_buffer = (IF p < n THEN <<Chunk(p, Bytes(p, n))>> ELSE <<>>)
      /\ object = Bytes(0, p) /\ received = Bytes(p, n)
  BY <1>1, <1>3
<1>7. /\ replay_buffer \in Seq(Chunks) /\ Carries(replay_buffer, p, n)
      /\ \A i \in DOMAIN replay_buffer : Len(replay_buffer[i].data) \in 1..MAX_WRITE_CHUNK_SIZE
      /\ ~(unpersisted_bytes(replay_buffer) >= Watermark)
  <2>1. CASE p < n
    <3> DEFINE b == <<Chunk(p, Bytes(p, n))>>
    <3>1. /\ b \in Seq(Chunks) /\ Carries(b, p, n) /\ unpersisted_bytes(b) = n - p
          /\ \A i \in DOMAIN b : Len(b[i].data) \in 1..MAX_WRITE_CHUNK_SIZE
      BY <1>5, <2>1, OpeningChunk
    <3>2. replay_buffer = b
      BY <1>6, <2>1
    <3> HIDE DEF b
    <3>3. ~(n - p >= Watermark)
      BY <1>4, <1>5, <2>1 DEF Watermark
    <3> QED BY <3>1, <3>2, <3>3
  <2>2. CASE ~(p < n)
    <3>1. p = n /\ replay_buffer = <<>>
      BY <1>5, <1>6, <2>2
    <3>2. unpersisted_bytes(replay_buffer) = 0
      BY <3>1 DEF unpersisted_bytes
    <3>3. ~(0 >= Watermark)
      BY <1>4 DEF Watermark
    <3>4. Carries(replay_buffer, p, n)
      BY <3>1, CarriesNone
    <3>5. DOMAIN replay_buffer = {} /\ replay_buffer \in Seq(Chunks)
      BY <3>1
    <3> QED BY <3>2, <3>3, <3>4, <3>5
  <2> QED BY <2>1, <2>2
<1>8. /\ object \in Seq(Nat) /\ Len(object) = p /\ IsRun(object, 0)
      /\ received \in Seq(Nat) /\ Len(received) = n - p /\ IsRun(received, Len(object)) /\ Upto = n
  <2>1. 0 \in Nat /\ 0 <= p /\ p - 0 = p /\ p + (n - p) = n
    BY <1>5
  <2>2. Bytes(0, p) \in Seq(Nat) /\ Len(Bytes(0, p)) = p - 0 /\ IsRun(Bytes(0, p), 0)
    BY <2>1, BytesFacts, BytesAreRun
  <2>3. Bytes(p, n) \in Seq(Nat) /\ Len(Bytes(p, n)) = n - p /\ IsRun(Bytes(p, n), p)
    BY <1>5, BytesFacts, BytesAreRun
  <2> QED BY <1>6, <2>1, <2>2, <2>3 DEF Upto
<1>9. Taken = n /\ ~WorkerEnded /\ ~Awaits /\ ~Finishing /\ Len(coalescing_buffer) = 0
  BY <1>1, <1>6, AwaitSet DEF Taken, WorkerEnded, Awaits, Finishing
<1>9a. log \in Seq(Nat) /\ Len(log) = n /\ LogOk
  <2>1. 0 \in Nat /\ 0 <= n /\ n - 0 = n
    BY <1>5
  <2>2. Bytes(0, n) \in Seq(Nat) /\ Len(Bytes(0, n)) = n - 0
    BY <2>1, BytesFacts
  <2> QED BY <1>6, <2>1, <2>2 DEF LogOk
<1>10. TypeOK
  <2>1. coalescing_buffer \in Seq(Nat) /\ ready \in Seq(Seq(Nat)) /\ requests \in Seq(Intents) /\ Len(requests) <= CHANNEL_BUFFER_SIZE
    BY <1>1, <1>4
  <2>2. pending_requests \in Seq(Pending) /\ reqs \in Seq(Requests) /\ resps \in Seq(Responses)
    BY <1>1
  <2>3. reply \in [state : {"none", "ok", "err"}, size : Offsets]
    BY <1>1, NoReply
  <2>4. calls \in 0..MaxCalls /\ faults \in 0..MaxFaults /\ attempt_count \in Nat /\ redirects_followed \in Nat /\ fruitless \in Nat
    BY <1>1, <1>4
  <2> QED BY <1>1, <1>5, <1>6, <1>7, <1>8, <1>9a, <2>1, <2>2, <2>3, <2>4 DEF TypeOK
<1>11. ReadyOk
  BY <1>1, <1>6, <1>9 DEF ReadyOk
<1>12. CoalescingOk
  <2>1. IsRun(coalescing_buffer, n)
    BY <1>1, EmptyRun
  <2>2. n - 0 = n /\ n + 0 = n /\ 0 < MAX_WRITE_CHUNK_SIZE /\ n <= n
    BY <1>4
  <2> QED BY <1>6, <1>9, <2>1, <2>2 DEF CoalescingOk
<1>13. CallOk /\ ReplyOk
  BY <1>1, <1>9 DEF CallOk, ReplyOk, Ended
<1>14. WorkerInv
  <2>1. DOMAIN requests = {} /\ DOMAIN pending_requests = {}
    BY <1>1
  <2>2. Carries(requests, n, n)
    BY <1>1, CarriesNone
  <2>3. ChannelOk
    BY <1>1, <1>6, <1>7, <1>9, <2>1, <2>2 DEF ChannelOk
  <2>4. PendingOk
    BY <1>1, <2>1 DEF PendingOk
  <2>5. IdsOk
    BY <2>1 DEF IdsOk
  <2> QED BY <2>3, <2>4, <2>5 DEF WorkerInv
<1>15. ObjectOk
  BY <1>1, <1>6, <1>8, <1>9 DEF ObjectOk
<1>16. ResponsesOk
  BY <1>1 DEF ResponsesOk
<1>17. StreamInv
  <2>1. DOMAIN reqs = {} /\ Len(reqs) = 0
    BY <1>1
  <2>2. WireOk
    BY <1>1, <1>8, <1>9, <2>1, ReachedStart DEF WireOk
  <2> QED BY <1>1, <2>2 DEF StreamInv
<1>18. OwedInv
  BY <1>1, <1>7 DEF OwedInv
<1>19. BudgetInv
  BY <1>1 DEF BudgetInv
<1> QED BY <1>9a, <1>10, <1>11, <1>12, <1>13, <1>14, <1>15, <1>16, <1>17, <1>18, <1>19 DEF IInv, AppInv

\* A step that changes nothing keeps the invariant.
LEMMA StutterStep == ASSUME IInv, UNCHANGED vars PROVE IInv'
<1>1. /\ UNCHANGED <<transport, reply, requests>> /\ UNCHANGED <<workerSide, net>>
  BY DEF vars
<1>2. /\ UNCHANGED client /\ UNCHANGED <<stream, reqs, resps, object, final, received, rejected, faults>>
  BY <1>1 DEF client, net, service
<1>3. /\ UNCHANGED <<given, log, appended, coalescing_buffer, ready, write_offset, call, calls, confirmed, open, reply, requests, pc>>
      /\ UNCHANGED <<replay_buffer, pending_requests, persisted_size, finalized, self_flush_outstanding>>
      /\ UNCHANGED <<attempt_count, redirects_followed, last_persisted_size, fruitless>>
  BY <1>1 DEF transport, history, workerSide, worker, connector
<1>4. TypeOK /\ ReplyOk /\ ObjectOk /\ ResponsesOk /\ StreamInv /\ OwedInv
  BY DEF IInv, AppInv
<1>5. Taken' = Taken /\ Upto' = Upto /\ WorkerEnded' = WorkerEnded /\ Awaits' = Awaits /\ Live' = Live
  BY <1>2, <1>3 DEF Taken, Upto, WorkerEnded, Awaits, Live
<1>6. TypeOK'
  BY <1>2, <1>3, <1>4 DEF TypeOK
<1>7. ReplyOk' /\ ObjectOk'
  BY <1>2, <1>3, <1>4, <1>5 DEF ReplyOk, ObjectOk, IsRun
<1>8. ResponsesOk'
  BY <1>2, <1>3, <1>4 DEF ResponsesOk, HasStatus
<1>9. StreamInv'
  <2>1. WireOk => WireOk'
    BY <1>2, <1>3, <1>5, WireKept
  <2> QED BY <1>2, <1>3, <1>4, <1>5, <2>1 DEF StreamInv
<1>10. OwedInv'
  BY <1>2, <1>3, <1>4 DEF OwedInv, Owed, RequestOf, Request, is_satisfied, HasStatus, unpersisted_bytes, End, Last
<1> QED BY <1>2, <1>6, <1>7, <1>8, <1>9, <1>10, ServiceFrame

\* One case per action of Next.
LEMMA StepIInv == ASSUME IInv, [Next]_vars PROVE IInv'
<1>1. CASE append_sub_chunk
  BY <1>1, SubChunkStep
<1>2. CASE SendIntent
  BY <1>2, SendIntentStep
<1>3. CASE Answered
  BY <1>3, AnsweredStep
<1>4. CASE Joined
  BY <1>4, JoinedStep
<1>5. CASE CallFails
  BY <1>5, CallFailsStep
<1>6. ASSUME NEW n \in AppendSizes, append(n) PROVE IInv'
  BY <1>6, AppendStep
<1>7. ASSUME NEW op \in DOMAIN Awaiting, Start(op) PROVE IInv'
  BY <1>7, StartStep
<1>8. CASE CancelCall
  BY <1>8, CancelCallStep
<1>9. CASE DropWriter
  BY <1>9, DropWriterStep
<1>10. CASE process_intent
  BY <1>10, ProcessAppendStep, ProcessFlushStep
<1>11. CASE RequestsClosed
  BY <1>11, RequestsClosedStep
<1>12. CASE HandleResponse
  BY <1>12, HandleResponseStep
<1>13. CASE StreamFinished
  BY <1>13, StreamFinishedStep
<1>14. CASE CompletionFails
  BY <1>14, CompletionFailsStep
<1>15. CASE Reconnect
  BY <1>15, ReconnectStep
<1>16. ASSUME NEW n \in 0..MaxBytes, ConnectOk(n) PROVE IInv'
  BY <1>16, ConnectOkStep
<1>17. CASE TakeRequest
  BY <1>17, TakeRequestStep
<1>18. CASE HalfClosed
  BY <1>18, HalfClosedStep
<1>19. CASE Unprompted
  BY <1>19, UnpromptedStep
<1>20. ASSUME NEW kind \in {"closed", "redirect", "permanent"}, Break(kind) PROVE IInv'
  BY <1>20, BreakStep
<1>21. ASSUME NEW kind, ConnectFails(kind) PROVE IInv'
  BY <1>21, ConnectFailsStep
<1>22. CASE UNCHANGED vars
  BY <1>22, StutterStep
<1> QED
  BY <1>1, <1>2, <1>3, <1>4, <1>5, <1>6, <1>7, <1>8, <1>9, <1>10, <1>11, <1>12, <1>13, <1>14, <1>15, <1>16,
     <1>17, <1>18, <1>19, <1>20, <1>21, <1>22 DEF Next, ApplicationReturns, Application, WorkerSteps, ServiceSteps, Environment

\* The inductive invariant holds in every reachable state of the upload.
THEOREM Invariance == Spec => []IInv
<1>1. Init => IInv
  BY InitIInv
<1>2. IInv /\ [Next]_vars => IInv'
  BY StepIInv
<1> QED BY <1>1, <1>2, PTL DEF Spec

\* Every variable keeps its type: the channel never overfills, and no chunk in
\* the replay buffer is empty or longer than the protocol allows.
THEOREM TypeCorrect == Spec => []TypeOK
<1>1. IInv => TypeOK
  BY DEF IInv
<1> QED BY <1>1, Invariance, PTL

\* Worker and ReplayBuffer: as long as the worker runs, the replay buffer and
\* the channel hold exactly the bytes that are not acknowledged.
THEOREM UnacknowledgedIsKept == Spec => []ReplayCoversUnacknowledged
<1>1. IInv => ReplayCoversUnacknowledged
  <2>1. SUFFICES ASSUME IInv, ~WorkerEnded
                 PROVE  /\ Carries(replay_buffer, persisted_size, Taken)
                        /\ Carries(requests, Taken, write_offset)
                        /\ coalescing_buffer = Bytes(appended - Len(coalescing_buffer), appended)
                        /\ ready = <<>> => write_offset + Len(coalescing_buffer) = appended
    BY DEF ReplayCoversUnacknowledged
  <2>2. TypeOK /\ ReadyOk /\ CoalescingOk /\ ChannelOk
    BY <2>1 DEF IInv, AppInv, WorkerInv
  <2>3. appended \in Nat /\ Len(coalescing_buffer) \in Nat
    BY <2>2, Sizes DEF TypeOK
  <2>4. (appended - Len(coalescing_buffer)) + Len(coalescing_buffer) = appended
    BY <2>3
  <2>5. coalescing_buffer = Bytes(appended - Len(coalescing_buffer), appended)
    BY <2>2, <2>4 DEF CoalescingOk, IsRun
  <2> QED BY <2>2, <2>5 DEF ChannelOk, ReadyOk
<1> QED BY <1>1, Invariance, PTL

\* The requests of a live stream continue what the service has, also after a
\* reconnect replayed them, and none was ever refused.
THEOREM StreamNeverGaps == Spec => []StreamContinuesObject
<1>1. IInv => StreamContinuesObject
  <2>1. SUFFICES ASSUME IInv PROVE StreamContinuesObject
    OBVIOUS
  <2>2. StreamInv
    BY <2>1 DEF IInv
  <2>3. stream = "open" /\ pc \in {"run", "wait"} => WireOk
    BY <2>2 DEF StreamInv, Live, WorkerEnded
  <2> QED BY <2>2, <2>3 DEF StreamContinuesObject, StreamInv, WireOk, RequestOk, Upto
<1> QED BY <1>1, Invariance, PTL

\* needs_watermark_flush and maybe_send_watermark_flush: a worker above the
\* watermark is owed a response, so one that stopped taking intents resumes.
THEOREM FullBufferIsOwed == Spec => []ResponseIsOwed
<1>1. IInv => ResponseIsOwed
  <2>1. SUFFICES ASSUME IInv, pc = "run", stream = "open", unpersisted_bytes(replay_buffer) >= Watermark PROVE Owed
    BY DEF ResponseIsOwed, Owed, Watermark
  <2>2. TypeOK /\ OwedInv
    BY <2>1 DEF IInv
  <2>3. /\ self_flush_outstanding => Owed
        /\ pending_requests # <<>> => \/ \E i \in DOMAIN reqs : reqs[i] = RequestOf(Last(pending_requests))
                                      \/ \E k \in DOMAIN resps : is_satisfied(Last(pending_requests), resps[k])
        /\ self_flush_outstanding \/ pending_requests # <<>>
    BY <2>1, <2>2 DEF OwedInv
  <2>4. CASE \E i \in DOMAIN reqs : pending_requests # <<>> /\ reqs[i] = RequestOf(Last(pending_requests))
    <3>1. PICK i \in DOMAIN reqs : pending_requests # <<>> /\ reqs[i] = RequestOf(Last(pending_requests))
      BY <2>4
    <3>2. pending_requests \in Seq(Pending)
      BY <2>2 DEF TypeOK
    <3>3. Last(pending_requests) \in Pending
      BY <3>1, <3>2 DEF Last
    <3>4. PICK p \in Pending : p = Last(pending_requests)
      BY <3>3
    <3>5. reqs[i] = Request(p.at, <<>>, p.kind = "flush", p.kind = "finalize")
      BY <3>1, <3>4 DEF RequestOf
    <3>6. reqs[i].state_lookup = (p.kind = "flush") /\ reqs[i].finish_write = (p.kind = "finalize")
      BY <3>5 DEF Request
    <3>7. p.kind \in {"flush", "finalize"}
      BY DEF Pending
    <3> QED BY <3>6, <3>7 DEF Owed
  <2>5. CASE \E k \in DOMAIN resps : TRUE
    <3>1. resps # <<>>
      BY <2>5
    <3> QED BY <3>1 DEF Owed
  <2> QED BY <2>3, <2>4, <2>5
<1> QED BY <1>1, Invariance, PTL

\* Connector: consecutive reconnects without a byte of progress stay below the
\* limit of the retry policy.
THEOREM ReconnectsAreBounded == Spec => []FruitlessReconnectsAreBounded
<1>1. IInv => FruitlessReconnectsAreBounded
  BY DEF IInv, BudgetInv, FruitlessReconnectsAreBounded
<1> QED BY <1>1, Invariance, PTL

-----------------------------------------------------------------------------
(***************************************************************************)
(* The upload implements AppendableObject.                                 *)
(***************************************************************************)
\* The first k bytes of a log: a prefix of it, of a longer prefix, and of any
\* log that goes on from w >= k of its bytes.
LEMMA PrefixFacts ==
    ASSUME NEW l \in Seq(Nat), NEW j \in Nat, NEW k \in Nat, j <= k, k <= Len(l)
    PROVE  /\ Object!Prefix(SubSeq(l, 1, j), SubSeq(l, 1, k)) /\ Object!Prefix(SubSeq(l, 1, k), l)
           /\ Len(SubSeq(l, 1, k)) = k /\ (k = Len(l) => SubSeq(l, 1, k) = l)
           /\ \A r \in Seq(Nat) : SubSeq(SubSeq(l, 1, k) \o r, 1, j) = SubSeq(l, 1, j)
<1> DEFINE a == SubSeq(l, 1, j)
           b == SubSeq(l, 1, k)
<1>1. /\ a \in Seq(Nat) /\ Len(a) = j /\ \A i \in 1..j : a[i] = l[i]
      /\ b \in Seq(Nat) /\ Len(b) = k /\ \A i \in 1..k : b[i] = l[i]
  OBVIOUS
<1>1a. 1..j \subseteq 1..k
  OBVIOUS
<1> HIDE DEF a, b
<1>2. SubSeq(b, 1, j) = a
  <2> DEFINE c == SubSeq(b, 1, j)
  <2>1. c \in Seq(Nat) /\ Len(c) = j /\ \A i \in 1..j : c[i] = b[i]
    BY <1>1
  <2>2. ASSUME NEW i \in 1..j PROVE c[i] = a[i]
    <3>1. i \in 1..k
      BY <1>1a
    <3>2. c[i] = b[i] /\ b[i] = l[i] /\ a[i] = l[i]
      BY <1>1, <2>1, <3>1
    <3> QED BY <3>2
  <2> HIDE DEF c
  <2>3. c = a
    BY <1>1, <2>1, <2>2, SeqEqual
  <2> QED BY <2>3 DEF c
<1>3. Object!Prefix(a, b)
  BY <1>1, <1>2 DEF Object!Prefix
<1>4. Object!Prefix(b, l)
  BY <1>1 DEF Object!Prefix, b
<1>5. k = Len(l) => b = l
  BY <1>1, SeqEqual
<1>6. ASSUME NEW r \in Seq(Nat) PROVE SubSeq(b \o r, 1, j) = a
  <2> DEFINE c == SubSeq(b \o r, 1, j)
  <2>1. b \o r \in Seq(Nat) /\ Len(b \o r) = k + Len(r) /\ Len(r) \in Nat /\ \A i \in 1..k : (b \o r)[i] = b[i]
    <3>1. Len(r) \in Nat
      OBVIOUS
    <3>2. /\ b \o r \in Seq(Nat) /\ Len(b \o r) = k + Len(r)
          /\ \A i \in 1..k + Len(r) : (b \o r)[i] = IF i <= k THEN b[i] ELSE r[i - k]
      <4>1. b \in Seq(Nat) /\ Len(b) = k
        BY <1>1
      <4>2. /\ b \o r \in Seq(Nat) /\ Len(b \o r) = Len(b) + Len(r)
            /\ \A i \in 1..Len(b) + Len(r) : (b \o r)[i] = IF i <= Len(b) THEN b[i] ELSE r[i - Len(b)]
        BY <4>1, ConcatProperties
      <4> QED BY <4>1, <4>2
    <3>3. ASSUME NEW i \in 1..k PROVE (b \o r)[i] = b[i]
      <4>1. i \in 1..k + Len(r) /\ i <= k
        BY <3>1
      <4>2. (b \o r)[i] = IF i <= k THEN b[i] ELSE r[i - k]
        BY <3>2, <4>1
      <4> QED BY <4>1, <4>2
    <3> QED BY <3>1, <3>2, <3>3
  <2>2. c \in Seq(Nat) /\ Len(c) = j /\ \A i \in 1..j : c[i] = (b \o r)[i]
    BY <2>1
  <2>3. ASSUME NEW i \in 1..j PROVE c[i] = a[i]
    <3>1. i \in 1..k
      BY <1>1a
    <3>2. c[i] = (b \o r)[i] /\ (b \o r)[i] = b[i] /\ b[i] = l[i] /\ a[i] = l[i]
      BY <1>1, <2>1, <2>2, <3>1
    <3> QED BY <3>2
  <2> HIDE DEF c
  <2>4. c = a
    BY <1>1, <2>2, <2>3, SeqEqual
  <2> QED BY <2>4 DEF c
<1> QED BY <1>1, <1>3, <1>4, <1>5, <1>6 DEF a, b

\* The first bytes of the log, named one by one.
LEMMA NamedRun ==
    ASSUME NEW l \in Seq(Nat), NEW s \in Seq(Nat), IsRun(s, 0), Len(s) <= Len(l)
    PROVE  [i \in DOMAIN s |-> l[s[i]]] = SubSeq(l, 1, Len(s))
<1> DEFINE a == [i \in DOMAIN s |-> l[s[i]]]
           b == SubSeq(l, 1, Len(s))
<1>1. PICK k \in Nat : k = Len(s) /\ DOMAIN s = 1..k
  OBVIOUS
<1>2. \A i \in 1..k : s[i] = i
  <2>1. PICK z \in Nat : z = 0
    OBVIOUS
  <2>2. \A i \in 1..k : s[i] = z + i
    BY <1>1, <2>1, RunFacts
  <2> QED BY <2>1, <2>2
<1>3. a \in Seq(Nat) /\ Len(a) = k /\ \A i \in 1..k : a[i] = l[i]
  <2>1. a = [i \in 1..k |-> l[i]]
    BY <1>1, <1>2
  <2>2. \A i \in 1..k : l[i] \in Nat
    BY <1>1
  <2>3. a \in [1..k -> Nat]
    BY <2>1, <2>2
  <2>4. a \in Seq(Nat) /\ Len(a) = k
    <3> HIDE DEF a
    <3> QED BY <2>3, IsASeq, LenProperties
  <2> QED BY <2>1, <2>4
<1>4. b \in Seq(Nat) /\ Len(b) = k /\ \A i \in 1..k : b[i] = l[i]
  BY <1>1
<1>5. \A i \in 1..k : a[i] = b[i]
  BY <1>3, <1>4
<1> HIDE DEF a, b
<1>6. a = b
  BY <1>3, <1>4, <1>5, SeqEqual
<1> QED BY <1>6 DEF a, b

\* The object is always a prefix of the log.
LEMMA ObjectFacts ==
    ASSUME IInv
    PROVE  /\ log \in Seq(Nat) /\ Len(log) = appended /\ Len(object) \in Nat /\ Len(object) <= write_offset
           /\ write_offset <= appended /\ write_offset \in Nat /\ appended \in Nat
           /\ Persisted = SubSeq(log, 1, Len(object))
<1>0. TypeOK /\ CoalescingOk /\ LogOk /\ ObjectOk
  BY DEF IInv, AppInv
<1>1. /\ Len(object) \in Nat /\ Len(received) \in Nat /\ write_offset \in Nat /\ appended \in Nat
      /\ Len(coalescing_buffer) \in Nat /\ object \in Seq(Nat) /\ log \in Seq(Nat) /\ Len(log) = appended
  BY <1>0, Sizes DEF TypeOK, LogOk
<1>2. Upto <= write_offset /\ write_offset + Len(coalescing_buffer) <= appended /\ IsRun(object, 0)
  BY <1>0 DEF ObjectOk, CoalescingOk
<1>3. Len(object) <= write_offset /\ write_offset <= appended
  BY <1>1, <1>2 DEF Upto
<1>4. Persisted = SubSeq(log, 1, Len(object))
  <2>1. Len(object) <= Len(log)
    BY <1>1, <1>3
  <2> QED BY <1>1, <1>2, <2>1, NamedRun DEF Persisted
<1> QED BY <1>1, <1>3, <1>4

\* The same after a step; a finalized object is whole.
LEMMA ObjectFactsNext ==
    ASSUME IInv'
    PROVE  /\ log' \in Seq(Nat) /\ Len(log') = appended' /\ Len(object') \in Nat /\ Len(object') <= appended'
           /\ Persisted' = SubSeq(log', 1, Len(object'))
           /\ final' => Len(object') = appended'
<1>0. TypeOK' /\ CoalescingOk' /\ LogOk' /\ ObjectOk'
  BY DEF IInv, AppInv
<1>1. /\ object' \in Seq(Nat) /\ received' \in Seq(Nat) /\ coalescing_buffer' \in Seq(Nat) /\ write_offset' \in Nat
      /\ appended' \in Nat /\ log' \in Seq(Nat) /\ Len(log') = appended'
  BY <1>0 DEF TypeOK, Offsets, LogOk
<1>2. /\ Upto' <= write_offset' /\ write_offset' + Len(coalescing_buffer') <= appended' /\ IsRun(object, 0)'
      /\ final' => Len(object') = appended'
  BY <1>0 DEF ObjectOk, CoalescingOk
<1>3. Len(object') \in Nat /\ Len(object') <= appended'
  <2>1. Len(object') \in Nat /\ Len(received') \in Nat /\ Len(coalescing_buffer') \in Nat
    BY <1>1
  <2> QED BY <1>1, <1>2, <2>1 DEF Upto
<1>4. PICK l \in Seq(Nat) : l = log'
  BY <1>1
<1>5. PICK ob \in Seq(Nat) : ob = object'
  BY <1>1
<1>6. IsRun(ob, 0) /\ Len(ob) <= Len(l)
  BY <1>1, <1>2, <1>3, <1>4, <1>5
<1>7. [i \in DOMAIN ob |-> l[ob[i]]] = SubSeq(l, 1, Len(ob))
  BY <1>6, NamedRun
<1>8. Persisted' = SubSeq(log', 1, Len(object'))
  BY <1>4, <1>5, <1>7 DEF Persisted
<1> QED BY <1>1, <1>2, <1>3, <1>8

\* The upload starts with a prefix persisted and nothing confirmed.
LEMMA ObjectInit == ASSUME Init PROVE Object!Init
<1>1. IInv
  BY InitIInv
<1>2. PICK k \in Nat : k = Len(object) /\ k <= Len(log) /\ log \in Seq(Nat) /\ Persisted = SubSeq(log, 1, k)
  BY <1>1, ObjectFacts
<1>3. Object!Prefix(Persisted, log) /\ Len(Persisted) = k
  BY <1>2, PrefixFacts
<1>4. ~final /\ confirmed = 0 /\ ~(call \in Busy)
  BY DEF Init, Busy
<1>5. confirmed <= Len(Persisted)
  BY <1>3, <1>4
<1> QED BY <1>3, <1>4, <1>5 DEF Object!Init

\* The object of AppendableObject grows with the object, over an unchanged log.
LEMMA PersistStep ==
    ASSUME IInv, IInv', UNCHANGED <<log, appended, confirmed, call>>, ~final, Len(object) <= Len(object')
    PROVE  Object!Persist \/ Object!Finalize
<1>1. PICK j \in Nat : j = Len(object) /\ Persisted = SubSeq(log, 1, j) /\ log \in Seq(Nat) /\ Len(log) = appended
  BY ObjectFacts
<1>2. PICK k \in Nat : k = Len(object') /\ Persisted' = SubSeq(log, 1, k) /\ k <= Len(log) /\ (final' => k = Len(log))
  BY <1>1, ObjectFactsNext
<1>3. j <= k
  BY <1>1, <1>2
<1>4. Object!Prefix(Persisted, Persisted') /\ Object!Prefix(Persisted', log) /\ (k = Len(log) => Persisted' = log)
  BY <1>1, <1>2, <1>3, PrefixFacts
<1>5. (call \in Busy)' = (call \in Busy)
  OBVIOUS
<1>6. CASE final'
  BY <1>2, <1>4, <1>5, <1>6 DEF Object!Finalize
<1>7. CASE ~final'
  <2>1. final' = final
    <3>1. final \in BOOLEAN /\ final' \in BOOLEAN
      BY DEF IInv, TypeOK
    <3> QED BY <1>7, <3>1
  <2> QED BY <1>4, <1>5, <2>1 DEF Object!Persist
<1> QED BY <1>6, <1>7

\* What AppendableObject sees of a step that touches neither log nor object.
Quiet == UNCHANGED <<log, object, final>>
Still == Quiet /\ UNCHANGED confirmed /\ (call' \in Busy <=> call \in Busy)

\* Such a step leaves the object of AppendableObject alone.
LEMMA QuietObject == ASSUME Quiet PROVE Persisted' = Persisted
BY DEF Quiet, Persisted

\* A step of which AppendableObject sees nothing.
LEMMA StillStutters == ASSUME Still PROVE UNCHANGED Object!vars
<1>1. Persisted' = Persisted
  BY QuietObject DEF Still
<1>2. (call \in Busy)' = (call \in Busy)
  BY DEF Still
<1> QED BY <1>1, <1>2 DEF Still, Quiet, Object!vars

\* append, and the start of flush, finalize and close.
LEMMA BeginStep ==
    ASSUME IInv, IInv', call = "idle", UNCHANGED <<object, final, confirmed>>, NEW e \in Seq(Nat), log' = log \o e
    PROVE  Object!Begin
<1>0. /\ log \in Seq(Nat) /\ Len(object) \in Nat /\ Len(object) <= Len(log)
      /\ Persisted = SubSeq(log, 1, Len(object))
  <2>1. /\ log \in Seq(Nat) /\ Len(log) = appended /\ Len(object) \in Nat /\ Len(object) <= write_offset
        /\ write_offset <= appended /\ write_offset \in Nat /\ appended \in Nat
        /\ Persisted = SubSeq(log, 1, Len(object))
    BY ObjectFacts
  <2>2. Len(object) <= appended
    BY <2>1
  <2> QED BY <2>1, <2>2
<1>1. PICK k \in Nat : k = Len(object) /\ k <= Len(log) /\ Persisted = SubSeq(log, 1, k) /\ log \in Seq(Nat)
  BY <1>0
<1>2. Persisted' = SubSeq(log', 1, k)
  BY <1>1, ObjectFactsNext
<1>3. PICK n \in Nat : n = Len(log) /\ k <= n /\ SubSeq(log, 1, n) = log
  BY <1>1, PrefixFacts
<1>4. SubSeq(log', 1, k) = SubSeq(log, 1, k) /\ SubSeq(log', 1, n) = SubSeq(log, 1, n)
  BY <1>1, <1>3, PrefixFacts
<1>5. Len(log) <= Len(log')
  BY <1>1
<1>6. Object!Prefix(log, log')
  BY <1>3, <1>4, <1>5 DEF Object!Prefix
<1>7. ~final /\ ~(call \in Busy) /\ (call \in Busy)' \in BOOLEAN
  <2>1. ObjectOk
    BY DEF IInv
  <2>2. ~final
    BY <2>1 DEF ObjectOk, Ended
  <2>3. (call \in Busy)' \in BOOLEAN
    OBVIOUS
  <2> QED BY <2>2, <2>3 DEF Busy
<1> QED BY <1>1, <1>2, <1>4, <1>6, <1>7 DEF Object!Begin

\* A call returns the size of an object that has the whole log.
LEMMA ConfirmStep ==
    ASSUME IInv, Quiet, reply.size = appended, Len(object) = appended, confirmed' = reply.size,
           call \in Busy, call' \notin Busy
    PROVE  Object!Confirm
<1>1. Persisted = log /\ Len(log) = appended
  BY ObjectFacts, PrefixFacts
<1>2. Persisted' = Persisted
  BY QuietObject
<1> QED BY <1>1, <1>2 DEF Quiet, Object!Confirm

\* Any other end of a call.
LEMMA ReturnStep ==
    ASSUME Quiet, UNCHANGED confirmed, call \in Busy, call' \notin Busy
    PROVE  Object!Return
<1>1. Persisted' = Persisted
  BY QuietObject
<1> QED BY <1>1 DEF Quiet, Object!Return

\* A dropped call loses the chunks it had not sent, and nothing else.
LEMMA CancelStep == ASSUME IInv, IInv', CancelCall PROVE Object!Cancel
<1>0. TypeOK /\ CoalescingOk /\ LogOk
  BY DEF IInv, AppInv
<1>1. /\ call \in {"append", "flush", "await flush"} /\ call' = "idle" /\ UNCHANGED confirmed /\ UNCHANGED <<object, final>>
      /\ log' = SubSeq(log, 1, write_offset) \o [i \in DOMAIN coalescing_buffer |-> log[coalescing_buffer[i]]]
  BY DEF CancelCall, service
<1>2. PICK k \in Nat, m \in Nat : /\ k = Len(object) /\ m = write_offset /\ k <= m /\ m <= Len(log)
                                  /\ Persisted = SubSeq(log, 1, k) /\ log \in Seq(Nat) /\ Len(log) = appended
  BY ObjectFacts
<1>3. PICK n \in Nat : n = appended - Len(coalescing_buffer) /\ m <= n /\ n <= Len(log)
  <2>1. Len(coalescing_buffer) \in Nat /\ m + Len(coalescing_buffer) <= appended /\ appended \in Nat
    BY <1>0, <1>2 DEF TypeOK, Offsets, CoalescingOk
  <2> QED BY <1>2, <2>1
<1>4. log' = Object!Without(log, m, n)
  BY <1>0, <1>1, <1>2, <1>3, KeptFacts
<1>5. Persisted' = Persisted
  <2>1. Persisted' = SubSeq(log', 1, k)
    BY <1>1, <1>2, ObjectFactsNext
  <2>2. SubSeq(log, n + 1, Len(log)) \in Seq(Nat)
    BY <1>2, <1>3
  <2>3. SubSeq(SubSeq(log, 1, m) \o SubSeq(log, n + 1, Len(log)), 1, k) = SubSeq(log, 1, k)
    BY <1>2, <2>2, PrefixFacts
  <2> QED BY <1>2, <1>4, <2>1, <2>3 DEF Object!Without
<1>6. n \in Len(Persisted)..Len(log) /\ m \in Len(Persisted)..n
  <2>1. Len(Persisted) = k
    BY <1>2, PrefixFacts
  <2> QED BY <1>2, <1>3, <2>1
<1>7. call \in Busy /\ call' \notin Busy
  BY <1>1 DEF Busy
<1> QED BY <1>1, <1>4, <1>5, <1>6, <1>7 DEF Object!Cancel

\* The steps of the application.
LEMMA ApplicationStep ==
    ASSUME IInv, IInv', ApplicationReturns \/ Application
    PROVE  Object!Next \/ Still
<1>0. CallOk /\ ReplyOk /\ TypeOK
  BY DEF IInv, AppInv
<1>1. ASSUME NEW n \in AppendSizes, append(n) PROVE Object!Begin
  <2>1. call = "idle" /\ log' = log \o Bytes(given, given + n) /\ UNCHANGED confirmed /\ UNCHANGED net
    BY <1>1 DEF append
  <2>2. UNCHANGED <<object, final>>
    BY <2>1 DEF net, service
  <2>3. given \in Nat /\ n \in Nat
    BY <1>0, BidiWriteAssumption DEF TypeOK, Offsets
  <2>4. PICK z \in Nat : z = given + n /\ given <= z
    BY <2>3
  <2>5. Bytes(given, z) \in Seq(Nat)
    BY <2>3, <2>4, BytesFacts
  <2> QED BY <2>1, <2>2, <2>4, <2>5, BeginStep
<1>2. ASSUME NEW op \in DOMAIN Awaiting, Start(op) PROVE Object!Begin
  <2>1. call = "idle" /\ UNCHANGED log /\ UNCHANGED confirmed /\ UNCHANGED net
    BY <1>2 DEF Start, history
  <2>2. UNCHANGED <<object, final>>
    BY <2>1 DEF net, service
  <2>3. log' = log \o <<>> /\ <<>> \in Seq(Nat)
    BY <1>0, <2>1 DEF TypeOK
  <2> QED BY <2>1, <2>2, <2>3, BeginStep
<1>3. ASSUME Answered PROVE Object!Confirm \/ Still
  <2>1. /\ Awaits /\ reply.state = "ok" /\ confirmed' = (IF call = "await flush" THEN reply.size ELSE confirmed)
        /\ call' = (IF call = "await flush" THEN "idle" ELSE "join") /\ UNCHANGED log /\ UNCHANGED net
    BY <1>3 DEF Answered, history
  <2>2. Quiet
    BY <2>1 DEF net, service, Quiet
  <2>3. reply.size = appended /\ Len(object) = appended /\ call \in Busy
    BY <1>0, <2>1, AwaitSet DEF ReplyOk, Awaits, Busy
  <2>4. CASE call = "await flush"
    BY <2>1, <2>2, <2>3, <2>4, ConfirmStep DEF Busy
  <2>5. CASE call # "await flush"
    BY <2>1, <2>2, <2>3, <2>5 DEF Still, Busy
  <2> QED BY <2>4, <2>5
<1>4. ASSUME Joined PROVE Object!Confirm \/ Object!Return
  <2>1. /\ call = "join" /\ confirmed' = (IF pc = "ok" THEN reply.size ELSE confirmed)
        /\ call' = (IF pc = "ok" THEN "closed" ELSE "failed") /\ UNCHANGED log /\ UNCHANGED net
    BY <1>4 DEF Joined, history
  <2>2. Quiet
    BY <2>1 DEF net, service, Quiet
  <2>3. reply.size = appended /\ Len(object) = appended /\ call \in Busy /\ call' \notin Busy
    BY <1>0, <2>1 DEF ReplyOk, Busy
  <2>4. CASE pc = "ok"
    BY <2>1, <2>2, <2>3, <2>4, ConfirmStep
  <2>5. CASE pc # "ok"
    BY <2>1, <2>2, <2>3, <2>5, ReturnStep
  <2> QED BY <2>4, <2>5
<1>5. ASSUME append_sub_chunk \/ SendIntent \/ CallFails \/ DropWriter PROVE Object!Return \/ Still
  <2>1. Quiet /\ UNCHANGED confirmed
    BY <1>5 DEF append_sub_chunk, SendIntent, CallFails, DropWriter, history, net, service, Quiet
  <2>2. call' \in Busy => call \in Busy
    <3>1. CASE append_sub_chunk
      BY <3>1 DEF append_sub_chunk, Busy
    <3>2. CASE SendIntent
      BY <3>2 DEF SendIntent, Awaiting, Busy
    <3>3. CASE CallFails \/ DropWriter
      BY <3>3 DEF CallFails, DropWriter, Busy
    <3> QED BY <1>5, <3>1, <3>2, <3>3
  <2> QED BY <2>1, <2>2, ReturnStep DEF Still
<1>6. CASE CancelCall
  BY <1>6, CancelStep DEF Object!Next
<1> QED BY <1>1, <1>2, <1>3, <1>4, <1>5, <1>6 DEF ApplicationReturns, Application, Object!Next

\* Every step of the upload is a step of AppendableObject, or stutters.
LEMMA ObjectStep == ASSUME IInv, IInv', [Next]_vars PROVE [Object!Next]_(Object!vars)
<1>1. ASSUME UNCHANGED transport, UNCHANGED service \/ UNCHANGED net PROVE Still
  BY <1>1 DEF transport, history, net, service, Still, Quiet
<1>2. ASSUME process_intent \/ RequestsClosed \/ HandleResponse \/ StreamFinished \/ CompletionFails \/ Reconnect PROVE Still
  <2>1. UNCHANGED transport /\ (UNCHANGED net \/ UNCHANGED service)
    BY <1>2 DEF process_intent, RequestsClosed, HandleResponse, StreamFinished, CompletionFails, Reconnect
  <2> QED BY <1>1, <2>1
<1>3. ASSUME NEW kind, ConnectFails(kind) PROVE Still
  BY <1>1, <1>3 DEF ConnectFails
<1>4. ASSUME HalfClosed \/ \E kind \in {"closed", "redirect", "permanent"} : Break(kind) PROVE Still
  BY <1>1, <1>4 DEF HalfClosed, Break, client
<1>5. ASSUME UNCHANGED transport PROVE UNCHANGED <<log, appended, confirmed, call>>
  BY <1>5 DEF transport, history
<1>6. ASSUME TakeRequest PROVE Object!Persist \/ Object!Finalize
  <2>1. ~final /\ UNCHANGED client
    BY <1>6, RequestAccepted
  <2>2. Len(object) <= Len(object')
    BY <1>6, AcceptedBytes
  <2>3. UNCHANGED transport
    BY <2>1 DEF client
  <2> QED BY <1>5, <2>1, <2>2, <2>3, PersistStep
<1>7. ASSUME NEW w \in Seq(Nat), UNCHANGED transport, UNCHANGED final, object' = object \o w, final => w = <<>>
      PROVE  Object!Persist \/ Object!Finalize \/ Still
  <2>1. object \in Seq(Nat)
    BY DEF IInv, TypeOK
  <2>2. CASE final
    <3>1. object \o <<>> = object
      BY <2>1
    <3>2. UNCHANGED object
      BY <1>7, <2>2, <3>1
    <3> QED BY <1>5, <1>7, <3>2 DEF Still, Quiet
  <2>3. CASE ~final
    <3>1. Len(object \o w) = Len(object) + Len(w) /\ Len(object) \in Nat /\ Len(w) \in Nat
      BY <2>1
    <3>2. Len(object) <= Len(object')
      BY <1>7, <3>1
    <3> QED BY <1>5, <1>7, <2>3, <3>2, PersistStep
  <2> QED BY <2>2, <2>3
<1>8. TypeOK /\ ObjectOk /\ received \in Seq(Nat)
  BY DEF IInv, TypeOK
<1>9. ASSUME Unprompted PROVE Object!Persist \/ Object!Finalize \/ Still
  <2>1. UNCHANGED transport /\ UNCHANGED final
    BY <1>9 DEF Unprompted, client
  <2>2. CASE UNCHANGED object
    BY <1>5, <2>1, <2>2 DEF Still, Quiet
  <2>3. CASE received # <<>> /\ object' = object \o SubSeq(received, 1, 1)
    <3>1. SubSeq(received, 1, 1) \in Seq(Nat)
      BY <1>8, <2>3
    <3>2. ~final
      BY <1>8, <2>3 DEF ObjectOk
    <3> QED BY <1>7, <2>1, <2>3, <3>1, <3>2
  <2> QED BY <1>9, <2>2, <2>3 DEF Unprompted, PersistedBy
<1>10. ASSUME NEW n \in 0..MaxBytes, ConnectOk(n) PROVE Object!Persist \/ Object!Finalize \/ Still
  <2>1. UNCHANGED transport /\ UNCHANGED final /\ n <= Len(received) /\ object' = object \o SubSeq(received, 1, n)
    BY <1>10 DEF ConnectOk, PersistedBy
  <2>2. n \in Nat
    BY BidiWriteAssumption
  <2>3. SubSeq(received, 1, n) \in Seq(Nat) /\ Len(SubSeq(received, 1, n)) = n
    BY <1>8, <2>1, <2>2
  <2>4. final => SubSeq(received, 1, n) = <<>>
    <3>1. SUFFICES ASSUME final PROVE SubSeq(received, 1, n) = <<>>
      OBVIOUS
    <3>2. Len(received) = 0
      <4>1. received = <<>>
        BY <1>8, <3>1 DEF ObjectOk
      <4> QED BY <4>1
    <3>3. n = 0
      BY <2>1, <2>2, <3>2
    <3> QED BY <2>3, <3>3
  <2> QED BY <1>7, <2>1, <2>3, <2>4
<1>11. ASSUME UNCHANGED vars PROVE Still
  BY <1>1, <1>11 DEF vars
<1>12. Object!Next \/ Still
  BY <1>2, <1>3, <1>4, <1>6, <1>9, <1>10, <1>11, ApplicationStep
     DEF Next, WorkerSteps, ServiceSteps, Environment, Object!Next
<1> QED BY <1>12, StillStutters

\* The upload implements AppendableObject: the object is a prefix of what was
\* appended and only grows, flush and close return only when all of it is
\* persisted, and a finalized object is whole.  Bytes are lost only by dropping
\* an append or a flush that has not returned, and no persisted byte is.
THEOREM UploadImplementsObject == Spec => ImplementsObject
<1>1. Init => Object!Init
  BY ObjectInit
<1>2. IInv /\ IInv' /\ [Next]_vars => [Object!Next]_(Object!vars)
  BY ObjectStep
<1> QED BY <1>1, <1>2, Invariance, PTL DEF Spec, ImplementsObject, Object!Spec
==============================================================================
