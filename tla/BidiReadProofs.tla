---------------------------- MODULE BidiReadProofs ----------------------------
(***************************************************************************)
(* Proofs about BidiRead, for every object, every set of ranges, every     *)
(* channel size and any number of faults and streams: a reader gets its    *)
(* range in order, without a gap unless data of it was dropped for its     *)
(* checksum, and no active read is lost when a stream is replaced.         *)
(***************************************************************************)
EXTENDS BidiRead, SequenceTheorems, TLAPS

(***************************************************************************)
(* Part one of the invariant: what each reader was sent.                   *)
(***************************************************************************)
Last(c) == c[Len(c)]

\* c is the nonempty run of bytes after position m.
Chunk(c, m) == Len(c) > 0 /\ c = Bytes(m, m + Len(c))

\* Where data for a reader may still come from.
Queued(r)   == \E i \in DOMAIN requests : requests[i] = r
Active(r)   == \E a \in ranges : a.r = r
Outgoing(r) == pc = "send" /\ out[1] = r

\* The reader was told of an error, after everything it was sent.
Told(r) == inbox[r] # <<>> /\ Last(inbox[r]) = Error

\* What the reader has seen ends here.
SeenTo(r) == IF seen[r] = <<>> THEN From(r) ELSE Last(seen[r])

\* Where the k-th chunk in the channel of a reader begins, where its channel ends, and
\* where that ends which the worker took from the stream for it; if none was dropped.
Before(r, k) == IF k = 1 THEN SeenTo(r) ELSE Last(inbox[r][k - 1])
Reached(r)   == Before(r, Len(inbox[r]) + 1)
Position(r)  == IF Outgoing(r) THEN Last(out[2]) ELSE Reached(r)

\* Position n of a reader's range comes after m, at once if no data was dropped; c is a
\* chunk of its range after m.
After(r, m, n)   == m <= n /\ (r \notin bad => n = m)
Follows(r, c, m) ==
    Len(c) > 0 /\ After(r, m, c[1] - 1) /\ Chunk(c, c[1] - 1) /\ Last(c) <= UpTo(r)

\* A reader is queued before anything is sent to it.
QueueOk(r) ==
    /\ Queued(r) => ~Active(r) /\ ~Outgoing(r) /\ inbox[r] = <<>> /\ seen[r] = <<>> /\ r \notin bad
    /\ outcome[r] = "none" => /\ ~Queued(r) /\ ~Active(r) /\ ~Outgoing(r)
                              /\ inbox[r] = <<>> /\ seen[r] = <<>> /\ r \notin bad

\* What a reader has seen is a part of its range, from its start, in order, and without
\* a gap if nothing was dropped.
SeenOk(r) ==
    /\ \A i \in 1..Len(seen[r]) : From(r) + i <= seen[r][i] /\ seen[r][i] <= UpTo(r)
    /\ \A i, j \in 1..Len(seen[r]) : i < j => seen[r][i] < seen[r][j]
    /\ r \notin bad => seen[r] = Bytes(From(r), From(r) + Len(seen[r]))

\* Its channel continues what it has seen; an error comes last.
InboxOk(r) ==
    outcome[r] = "open" => \A k \in DOMAIN inbox[r] :
        \/ inbox[r][k] = Error /\ k = Len(inbox[r])
        \/ inbox[r][k] # Error /\ Follows(r, inbox[r][k], Before(r, k))

\* What is still to come continues what was sent.
SourceOk(r) ==
    outcome[r] = "open" =>
        /\ Outgoing(r) => ~Told(r) /\ Follows(r, out[2], Reached(r))
        /\ \A a \in ranges : a.r = r /\ ~Told(r) => After(r, Position(r), Start(a.offset))
        /\ Active(r) /\ Told(r) => pc = "closing" /\ r \notin notify

\* If nothing is to come then everything was sent, or the reader is told; or its
\* range_end came with the data that was dropped.
CompleteOk(r) ==
    /\ outcome[r] = "open" /\ ~Active(r) /\ ~Queued(r) /\ ~Told(r) =>
         (r \notin bad /\ Position(r) = UpTo(r)) \/ closed \/ r \in cut
    /\ outcome[r] = "eof" => Len(seen[r]) = UpTo(r) - From(r) \/ closed \/ r \in cut

\* A read that lost data is given up with its response.
BadOk(r) == r \in bad /\ Active(r) => failed \/ pc = "closing"

\* close_readers leaves out nobody.
ClosingOk(r) ==
    /\ r \in notify => pc = "closing" /\ Active(r)
    /\ pc = "closing" /\ Active(r) /\ outcome[r] = "open" => r \in notify \/ Told(r)

ReaderInv(r) ==
    /\ QueueOk(r) /\ SeenOk(r) /\ InboxOk(r) /\ SourceOk(r)
    /\ CompleteOk(r) /\ ClosingOk(r) /\ BadOk(r)

DeliveryInv ==
    /\ \A i, j \in DOMAIN requests : requests[i] = requests[j] => i = j
    /\ \A r \in Readers : ReaderInv(r)

(***************************************************************************)
(* Part two: what is on the stream.                                        *)
(***************************************************************************)
\* A range that is asked for, served, or on its way lies within the object.
WithinObject ==
    /\ \A i \in DOMAIN reqs : \A p \in reqs[i] :
         /\ p.offset \in (-Size)..Size /\ p.id < next_range_id
         /\ p.length # 0 => p.offset >= 0 /\ p.offset + p.length <= Size
    /\ \A s \in serving : s.offset <= s.upto /\ s.upto <= Size /\ s.id < next_range_id
    /\ \A k \in DOMAIN resps :
         /\ resps[k].data = Bytes(resps[k].offset, EndOf(resps[k]))
         /\ EndOf(resps[k]) <= Size /\ resps[k].id < next_range_id

\* The RemainingRange of an active read.
RemainingOk(a) ==
    /\ a.length = Unbounded <=> Limit(a.r) = 0
    /\ a.length # Unbounded => a.offset >= 0 /\ a.offset + a.length = UpTo(a.r)
    /\ a.offset < 0 => Offset(a.r) = a.offset
    /\ From(a.r) <= Start(a.offset)

\* Each read is in at most one place of the stream, and what is there continues it.
ComingOk(a) ==
    /\ \A k \in Coming(a.id) : (\A j \in Coming(a.id) : k <= j) => resps[k].offset = Start(a.offset)
    /\ \A j, k \in Coming(a.id) :
         j < k /\ (\A l \in Coming(a.id) : l <= j \/ k <= l) => resps[k].offset = EndOf(resps[j])
BusyOk(a) ==
    \A s \in serving : s.id = a.id =>
        /\ \A u \in serving : u.id = a.id => u = s
        /\ Coming(a.id) = {} => s.offset = Start(a.offset)
        /\ \A k \in Coming(a.id) : /\ ~resps[k].end
                                   /\ (\A j \in Coming(a.id) : j <= k) => s.offset = EndOf(resps[k])
AskedOk(a) ==
    \A i \in DOMAIN reqs : \A p \in reqs[i] : p.id = a.id =>
        /\ Coming(a.id) = {} /\ (\A s \in serving : s.id # a.id) /\ Start(p.offset) = Start(a.offset)
        /\ \A j \in DOMAIN reqs : \A q \in reqs[j] : q.id = a.id => i = j /\ p = q
EndOk(a) ==
    \A k \in Coming(a.id) : resps[k].end => \A j \in Coming(a.id) : j <= k

\* It extends to the end of its range; only a read that is complete may be asked for
\* more (as_proto takes a remaining length of 0 for everything).
ExtentOk(a) ==
    a.length # 0 =>
        /\ \A i \in DOMAIN reqs : \A p \in reqs[i] : p.id = a.id => End(p.offset, p.length) = UpTo(a.r)
        /\ \A s \in serving : s.id = a.id => s.upto = UpTo(a.r)
        /\ \A k \in Coming(a.id) : /\ EndOf(resps[k]) <= UpTo(a.r)
                                   /\ resps[k].end => EndOf(resps[k]) = UpTo(a.r)

\* A read is not forgotten while the stream is up.
PlaceOk(a) ==
    \/ \E i \in DOMAIN reqs : \E p \in reqs[i] : p.id = a.id
    \/ \E s \in serving : s.id = a.id
    \/ \E k \in Coming(a.id) : resps[k].end

\* The worker has not given up: it reads from its stream, or opens the next one.
Streaming == pc \in {"run", "send", "connect"}

ReadOk(a) == ComingOk(a) /\ BusyOk(a) /\ AskedOk(a) /\ EndOk(a) /\ ExtentOk(a)

\* Nothing but the active reads is on the stream.
KnownInv ==
    /\ \A i \in DOMAIN reqs : \A p \in reqs[i] : \E a \in ranges : a.id = p.id
    /\ \A s \in serving : \E a \in ranges : a.id = s.id
    /\ \A k \in DOMAIN resps : \E a \in ranges : a.id = resps[k].id

WorkerInv ==
    /\ \A a, b \in ranges : a.id = b.id \/ a.r = b.r => a = b
    /\ \A a \in ranges : RemainingOk(a)
    /\ pc = "connect" => resps = <<>> /\ stream # "open"
    /\ stream # "open" => reqs = <<>> /\ serving = {}
    /\ pc \in {"err", "ok"} => ranges = {} /\ stream = "closed"
    /\ stream = "closed" /\ pc \notin {"err", "ok"} => closed

\* While the rest of a response is handled after an error, more than a complete read
\* asked for may be on its way to it, and is refused.
WireInv ==
    Streaming => /\ \A a \in ranges : (failed /\ a.length = 0) \/ ReadOk(a)
                 /\ ~failed => KnownInv
                 /\ ~failed /\ stream = "open" => \A a \in ranges : PlaceOk(a)

IInv == TypeOK /\ DeliveryInv /\ WithinObject /\ WorkerInv /\ WireInv

-----------------------------------------------------------------------------
(***************************************************************************)
(* Bytes, ranges and queues.                                               *)
(***************************************************************************)
\* A range of a reader lies within the object.
LEMMA RangeOf ==
    ASSUME NEW r \in Readers
    PROVE  /\ Offset(r) \in Int /\ Limit(r) \in Nat /\ Limit(r) <= Size /\ Size \in Nat
           /\ From(r) \in Nat /\ UpTo(r) \in Nat /\ From(r) <= UpTo(r) /\ UpTo(r) <= Size
           /\ Offset(r) \in (-Size)..Size /\ (Offset(r) < 0 => Limit(r) = 0)
           /\ From(r) = Start(Offset(r)) /\ (Limit(r) = 0 => UpTo(r) = Size)
           /\ (Limit(r) # 0 => Offset(r) >= 0 /\ UpTo(r) = Offset(r) + Limit(r))
<1>1. Size \in Nat
  BY BidiReadAssumption
<1>2. \/ Offset(r) \in 0..(Size - 1) /\ Limit(r) \in 0..(Size - Offset(r))
      \/ Offset(r) \in (-Size)..(-1) /\ Limit(r) = 0
  BY BidiReadAssumption
<1> QED BY <1>1, <1>2 DEF From, UpTo, Start, End

LEMMA BytesFacts ==
    ASSUME NEW m \in Nat, NEW n \in Nat, m <= n
    PROVE  /\ Bytes(m, n) \in Seq(Nat) /\ Len(Bytes(m, n)) = n - m
           /\ \A i \in 1..(n - m) : Bytes(m, n)[i] = m + i
<1>1. n - m \in Nat
  OBVIOUS
<1>2. \A i \in 1..(n - m) : m + i \in Nat
  OBVIOUS
<1>3. Bytes(m, n) \in [1..(n - m) -> Nat]
  BY <1>2 DEF Bytes
<1>4. Bytes(m, n) \in Seq(Nat)
  BY <1>1, <1>3
<1> QED BY <1>1, <1>3, <1>4 DEF Bytes

\* Two runs of bytes that meet are one.
LEMMA BytesConcat ==
    ASSUME NEW f \in Nat, NEW m \in Nat, NEW n \in Nat, f <= m, m <= n
    PROVE  Bytes(f, m) \o Bytes(m, n) = Bytes(f, n)
<1>1. /\ Bytes(f, m) \in Seq(Nat) /\ Len(Bytes(f, m)) = m - f
      /\ \A i \in 1..(m - f) : Bytes(f, m)[i] = f + i
  BY BytesFacts
<1>2. /\ Bytes(m, n) \in Seq(Nat) /\ Len(Bytes(m, n)) = n - m
      /\ \A i \in 1..(n - m) : Bytes(m, n)[i] = m + i
  BY BytesFacts
<1>3. /\ Bytes(f, n) \in Seq(Nat) /\ Len(Bytes(f, n)) = n - f
      /\ \A i \in 1..(n - f) : Bytes(f, n)[i] = f + i
  BY BytesFacts
<1> DEFINE c == Bytes(f, m) \o Bytes(m, n)
<1>4. /\ c \in Seq(Nat) /\ Len(c) = (m - f) + (n - m)
      /\ \A i \in 1..((m - f) + (n - m)) :
            c[i] = IF i <= m - f THEN Bytes(f, m)[i] ELSE Bytes(m, n)[i - (m - f)]
  <2>1. /\ c \in Seq(Nat) /\ Len(c) = Len(Bytes(f, m)) + Len(Bytes(m, n))
        /\ \A i \in 1..(Len(Bytes(f, m)) + Len(Bytes(m, n))) :
              c[i] = IF i <= Len(Bytes(f, m)) THEN Bytes(f, m)[i]
                                              ELSE Bytes(m, n)[i - Len(Bytes(f, m))]
    BY <1>1, <1>2, ConcatProperties
  <2> QED BY <1>1, <1>2, <2>1
<1> HIDE DEF c
<1>5. Len(c) = n - f
  BY <1>4
<1>6. \A i \in 1..(n - f) : c[i] = f + i
  <2> SUFFICES ASSUME NEW i \in 1..(n - f) PROVE c[i] = f + i
    OBVIOUS
  <2>1. CASE i <= m - f
    BY <1>1, <1>4, <2>1
  <2>2. CASE i > m - f
    <3>1. i - (m - f) \in 1..(n - m)
      BY <2>2
    <3> QED BY <1>2, <1>4, <2>2, <3>1
  <2> QED BY <2>1, <2>2
<1>7. c = Bytes(f, n)
  BY <1>3, <1>4, <1>5, <1>6
<1> QED BY <1>7 DEF c

\* A chunk ends at its last byte, and is not mistaken for an error.
LEMMA ChunkFacts ==
    ASSUME NEW m \in Nat, NEW c \in Seq(Nat), Chunk(c, m)
    PROVE  Last(c) = m + Len(c) /\ Len(c) \in Nat \ {0} /\ c # Error
<1>1. Len(c) \in Nat /\ Len(c) > 0 /\ c = Bytes(m, m + Len(c))
  BY DEF Chunk
<1>2. m + Len(c) \in Nat /\ m <= m + Len(c)
  BY <1>1
<1>3. \A i \in 1..Len(c) : c[i] = m + i
  <2>1. \A i \in 1..((m + Len(c)) - m) : Bytes(m, m + Len(c))[i] = m + i
    BY <1>2, BytesFacts
  <2> QED BY <1>1, <2>1
<1>4. c[Len(c)] = m + Len(c) /\ c[1] = m + 1
  BY <1>1, <1>3
<1> QED BY <1>1, <1>4 DEF Last, Error

LEMMA SeqElems == ASSUME NEW S, NEW s \in Seq(S) PROVE \A k \in DOMAIN s : s[k] \in S
  OBVIOUS

\* An element of an extended sequence is the new one or an old one.
LEMMA AppendElems ==
    ASSUME NEW S, NEW s \in Seq(S), NEW e \in S
    PROVE  /\ Append(s, e) \in Seq(S) /\ Len(Append(s, e)) = Len(s) + 1 /\ Append(s, e) # <<>>
           /\ Len(s) \in Nat /\ (\A k \in DOMAIN s : k \in Nat /\ 1 <= k /\ k <= Len(s))
           /\ Len(s) + 1 \in DOMAIN Append(s, e) /\ Append(s, e)[Len(s) + 1] = e
           /\ \A k \in DOMAIN s : k \in DOMAIN Append(s, e) /\ Append(s, e)[k] = s[k]
           /\ \A k \in DOMAIN Append(s, e) : k = Len(s) + 1 \/ k \in DOMAIN s
  OBVIOUS

\* The elements of a tail are those after the head.
LEMMA TailElems ==
    ASSUME NEW S, NEW s \in Seq(S), s # <<>>
    PROVE  /\ Tail(s) \in Seq(S) /\ Head(s) \in S /\ Len(Tail(s)) = Len(s) - 1
           /\ Len(s) \in Nat \ {0}
           /\ 1 \in DOMAIN s /\ Head(s) = s[1]
           /\ \A k \in DOMAIN Tail(s) : k \in Nat \ {0} /\ k + 1 \in DOMAIN s /\ Tail(s)[k] = s[k + 1]
           /\ \A k \in DOMAIN s : k = 1 \/ (k \in Nat /\ k - 1 \in DOMAIN Tail(s) /\ k > 1)
<1>1. Tail(s) \in Seq(S) /\ Head(s) \in S /\ Len(Tail(s)) = Len(s) - 1
  BY HeadTailProperties
<1>2. Len(s) \in Nat /\ Len(s) # 0 /\ DOMAIN s = 1..Len(s) /\ DOMAIN Tail(s) = 1..(Len(s) - 1)
  BY <1>1
<1> QED BY <1>1, <1>2

\* The records, field by field.
LEMMA ReadFields ==
    ASSUME TypeOK, NEW a \in ranges
    PROVE  /\ a \in Reads /\ a.id \in Nat /\ a.r \in Readers /\ a.offset \in Int /\ a.length \in Nat
           /\ a.id < next_range_id /\ a.offset \in (-Size)..Size
<1>1. a \in Reads /\ a.id < next_range_id /\ a.offset \in (-Size)..Size
  BY DEF TypeOK
<1> QED BY <1>1 DEF Reads

LEMMA ProtoFields ==
    ASSUME TypeOK, NEW i \in DOMAIN reqs, NEW p \in reqs[i]
    PROVE  p \in Protos /\ p.id \in Nat /\ p.offset \in Int /\ p.length \in Nat
<1>1. reqs \in Seq(SUBSET Protos)
  BY DEF TypeOK
<1>2. reqs[i] \in SUBSET Protos
  BY <1>1, SeqElems
<1> QED BY <1>2 DEF Protos

LEMMA ResponseFields ==
    ASSUME NEW d \in Responses
    PROVE  /\ d.id \in Nat /\ d.offset \in Nat /\ d.data \in Seq(Nat) /\ d.end \in BOOLEAN
           /\ d.intact \in BOOLEAN /\ EndOf(d) \in Nat /\ EndOf(d) = d.offset + Len(d.data)
           /\ Len(d.data) \in Nat
  BY DEF Responses, EndOf

LEMMA RespsFields ==
    ASSUME TypeOK, NEW k \in DOMAIN resps
    PROVE  resps[k] \in Responses /\ k \in Nat
<1>1. resps \in Seq(Responses)
  BY DEF TypeOK
<1> QED BY <1>1, SeqElems

LEMMA ServedFields ==
    ASSUME TypeOK, NEW s \in serving
    PROVE  s \in Served /\ s.id \in Nat /\ s.offset \in Nat /\ s.upto \in Nat
<1>1. s \in Served
  BY DEF TypeOK
<1> QED BY <1>1 DEF Served

-----------------------------------------------------------------------------
(***************************************************************************)
(* Delivery: what a step does to the readers.                              *)
(***************************************************************************)
\* A chunk that follows a position.
LEMMA FollowsFacts ==
    ASSUME NEW r \in Readers, NEW m \in Nat, NEW c \in Seq(Nat), Follows(r, c, m)
    PROVE  /\ c[1] - 1 \in Nat /\ Last(c) = (c[1] - 1) + Len(c) /\ Len(c) \in Nat \ {0} /\ c # Error
           /\ Last(c) \in Nat /\ m < Last(c) /\ m <= c[1] - 1 /\ Last(c) <= UpTo(r)
           /\ \A i \in 1..Len(c) : c[i] = (c[1] - 1) + i
           /\ r \notin bad => c = Bytes(m, m + Len(c)) /\ Last(c) = m + Len(c) /\ c[1] - 1 = m
<1> DEFINE p == c[1] - 1
<1>1. Len(c) \in Nat /\ Len(c) > 0 /\ c[1] \in Nat
  BY DEF Follows
<1>2. p \in Nat /\ m <= p /\ Chunk(c, p) /\ Last(c) <= UpTo(r) /\ (r \notin bad => p = m)
  BY <1>1 DEF Follows, After
<1> HIDE DEF p
<1>3. Last(c) = p + Len(c) /\ Len(c) \in Nat \ {0} /\ c # Error
  BY <1>2, ChunkFacts
<1>4. p + Len(c) \in Nat /\ p <= p + Len(c) /\ c = Bytes(p, p + Len(c))
  BY <1>1, <1>2 DEF Chunk
<1>5. \A i \in 1..((p + Len(c)) - p) : Bytes(p, p + Len(c))[i] = p + i
  BY <1>2, <1>4, BytesFacts
<1>6. \A i \in 1..Len(c) : c[i] = p + i
  <2>1. (p + Len(c)) - p = Len(c)
    BY <1>1, <1>2
  <2> QED BY <1>4, <1>5, <2>1
<1>7. r \notin bad => c = Bytes(m, m + Len(c)) /\ Last(c) = m + Len(c) /\ p = m
  BY <1>2, <1>3, <1>4
<1>8. Last(c) \in Nat /\ m < Last(c)
  BY <1>2, <1>3
<1> QED BY <1>2, <1>3, <1>6, <1>7, <1>8 DEF p

\* Where that ends which a reader has seen.
LEMMA SeenToFacts ==
    ASSUME TypeOK, NEW r \in Readers, SeenOk(r)
    PROVE  /\ seen[r] \in Seq(Nat) /\ Len(seen[r]) \in Nat
           /\ SeenTo(r) \in Nat /\ From(r) + Len(seen[r]) <= SeenTo(r) /\ SeenTo(r) <= UpTo(r)
           /\ r \notin bad => SeenTo(r) = From(r) + Len(seen[r])
           /\ \A i \in 1..Len(seen[r]) : seen[r][i] \in Nat /\ seen[r][i] <= SeenTo(r)
<1>1. /\ seen[r] \in Seq(Nat) /\ Len(seen[r]) \in Nat /\ From(r) \in Nat /\ UpTo(r) \in Nat
      /\ From(r) <= UpTo(r)
  BY RangeOf DEF TypeOK
<1> DEFINE q == seen[r]
<1>2. CASE q = <<>>
  <2>1. Len(q) = 0 /\ SeenTo(r) = From(r)
    BY <1>2 DEF SeenTo
  <2> QED BY <1>1, <2>1
<1>3. CASE q # <<>>
  <2>1. Len(q) > 0 /\ Len(q) \in 1..Len(q) /\ SeenTo(r) = q[Len(q)] /\ \A i \in 1..Len(q) : q[i] \in Nat
    BY <1>1, <1>3 DEF SeenTo, Last
  <2>2. From(r) + Len(q) <= q[Len(q)] /\ q[Len(q)] <= UpTo(r)
    BY <2>1 DEF SeenOk
  <2>3. \A i \in 1..Len(q) : q[i] <= q[Len(q)]
    <3> SUFFICES ASSUME NEW i \in 1..Len(q) PROVE q[i] <= q[Len(q)]
      OBVIOUS
    <3>1. CASE i = Len(q)
      BY <2>1, <3>1
    <3>2. CASE i # Len(q)
      <4>1. i < Len(q)
        BY <1>1, <3>2
      <4>2. q[i] < q[Len(q)]
        BY <2>1, <4>1 DEF SeenOk
      <4>3. q[i] \in Nat /\ q[Len(q)] \in Nat
        BY <2>1
      <4> QED BY <4>2, <4>3
    <3> QED BY <3>1, <3>2
  <2>4. r \notin bad => q[Len(q)] = From(r) + Len(q)
    <3> SUFFICES ASSUME r \notin bad PROVE q[Len(q)] = From(r) + Len(q)
      OBVIOUS
    <3> DEFINE n == From(r) + Len(q)
    <3>1. q = Bytes(From(r), n)
      BY DEF SeenOk
    <3>2. n \in Nat /\ From(r) <= n /\ n - From(r) = Len(q)
      BY <1>1
    <3>3. \A i \in 1..(n - From(r)) : Bytes(From(r), n)[i] = From(r) + i
      BY <1>1, <3>2, BytesFacts
    <3> QED BY <2>1, <3>1, <3>2, <3>3
  <2> QED BY <1>1, <2>1, <2>2, <2>3, <2>4
<1> QED BY <1>2, <1>3

\* A chunk that follows is added to what the reader has seen.
LEMMA SeenAppend ==
    ASSUME TypeOK, NEW r \in Readers, SeenOk(r), NEW c \in Seq(Nat), Follows(r, c, SeenTo(r)),
           seen'[r] = seen[r] \o c, bad' = bad
    PROVE  SeenOk(r)' /\ SeenTo(r)' = Last(c)
<1> DEFINE q == seen[r]
           t == SeenTo(r)
           n == Len(seen[r])
           p == c[1] - 1
           f == From(r)
           u == UpTo(r)
<1>1. /\ q \in Seq(Nat) /\ n \in Nat /\ t \in Nat /\ f + n <= t /\ t <= u
      /\ r \notin bad => t = f + n
      /\ \A i \in 1..n : q[i] \in Nat /\ q[i] <= t
  BY SeenToFacts
<1>2. /\ p \in Nat /\ Last(c) = p + Len(c) /\ Len(c) \in Nat \ {0} /\ t <= p /\ Last(c) <= u
      /\ \A i \in 1..Len(c) : c[i] = p + i
      /\ r \notin bad => c = Bytes(t, t + Len(c))
  BY <1>1, FollowsFacts
<1>3. f \in Nat /\ u \in Nat
  BY RangeOf
<1>4. /\ seen'[r] \in Seq(Nat) /\ Len(seen'[r]) = n + Len(c)
      /\ \A i \in 1..(n + Len(c)) : seen'[r][i] = IF i <= n THEN q[i] ELSE c[i - n]
  BY <1>1, ConcatProperties
<1>5. /\ \A i \in 1..n : f + i <= q[i] /\ q[i] <= u
      /\ \A i, j \in 1..n : i < j => q[i] < q[j]
      /\ r \notin bad => q = Bytes(f, f + n)
  BY DEF SeenOk
<1>5a. seen'[r] = q \o c
  OBVIOUS
<1> HIDE DEF q, t, n, p, f, u
<1>5b. n \in Nat /\ Len(c) \in Nat /\ Len(c) > 0 /\ p \in Nat /\ t \in Nat /\ f \in Nat /\ u \in Nat
      /\ f + n <= t /\ t <= p /\ p + Len(c) <= u
  BY <1>1, <1>2, <1>3
<1>6. \A i \in 1..(n + Len(c)) :
         \/ i \in 1..n /\ seen'[r][i] = q[i]
         \/ i > n /\ seen'[r][i] = p + (i - n)
  <2> SUFFICES ASSUME NEW i \in 1..(n + Len(c)), i > n PROVE seen'[r][i] = p + (i - n)
    BY <1>1, <1>2, <1>4, SMTT(30)
  <2>1. i - n \in 1..Len(c)
    BY <1>1, <1>2
  <2> QED BY <1>1, <1>2, <1>4, <2>1, SMTT(30)
<1>7. \A i \in 1..Len(seen'[r]) : f + i <= seen'[r][i] /\ seen'[r][i] <= u
  <2> SUFFICES ASSUME NEW i \in 1..(n + Len(c)) PROVE f + i <= seen'[r][i] /\ seen'[r][i] <= u
    BY <1>4
  <2>1. CASE i \in 1..n /\ seen'[r][i] = q[i]
    BY <1>5, <2>1
  <2>2. CASE i > n /\ seen'[r][i] = p + (i - n)
    BY <1>5b, <2>2
  <2> QED BY <1>6, <2>1, <2>2
<1>8. \A i, j \in 1..Len(seen'[r]) : i < j => seen'[r][i] < seen'[r][j]
  <2> SUFFICES ASSUME NEW i \in 1..(n + Len(c)), NEW j \in 1..(n + Len(c)), i < j
               PROVE  seen'[r][i] < seen'[r][j]
    BY <1>4
  <2>1. CASE j <= n
    <3>1. i \in 1..n /\ j \in 1..n
      BY <1>1, <1>2, <2>1
    <3> QED BY <1>1, <1>4, <1>5, <2>1, <3>1
  <2>2. CASE i <= n /\ j > n
    <3>1. i \in 1..n
      BY <1>1, <1>2, <2>2
    <3>2. seen'[r][i] = q[i] /\ seen'[r][j] = p + (j - n) /\ q[i] \in Nat /\ q[i] <= t
      BY <1>1, <1>4, <1>6, <2>2, <3>1
    <3> QED BY <1>1, <1>2, <2>2, <3>2
  <2>3. CASE i > n
    <3>1. seen'[r][i] = p + (i - n) /\ seen'[r][j] = p + (j - n)
      <4>1. ~(i \in 1..n) /\ ~(j \in 1..n)
        BY <1>5b, <2>3
      <4> QED BY <1>6, <4>1
    <3>2. p + (i - n) < p + (j - n)
      BY <1>5b
    <3> QED BY <3>1, <3>2, Zenon
  <2>4. j <= n \/ (i <= n /\ j > n) \/ i > n
    BY <1>5b
  <2> QED BY <2>1, <2>2, <2>3, <2>4, Zenon
<1>9. r \notin bad => seen'[r] = Bytes(f, f + Len(seen'[r]))
  <2> SUFFICES ASSUME r \notin bad PROVE seen'[r] = Bytes(f, f + Len(seen'[r]))
    OBVIOUS
  <2> DEFINE e == t + Len(c)
  <2>1. t \in Nat /\ e \in Nat /\ f <= t /\ t <= e /\ f + Len(seen'[r]) = e /\ t = f + n
    BY <1>1, <1>2, <1>3, <1>4
  <2>2. q = Bytes(f, t) /\ c = Bytes(t, e)
    BY <1>2, <1>5, <2>1
  <2> HIDE DEF e
  <2>3. Bytes(f, t) \o Bytes(t, e) = Bytes(f, e)
    BY <1>3, <2>1, BytesConcat
  <2> QED BY <1>5a, <2>1, <2>2, <2>3
<1>10. SeenTo(r)' = Last(c)
  <2>1. Len(seen'[r]) > 0 /\ Len(seen'[r]) \in 1..(n + Len(c)) /\ Len(seen'[r]) > n
    BY <1>1, <1>2, <1>4
  <2>2. seen'[r] # <<>>
    BY <2>1
  <2>3. seen'[r][Len(seen'[r])] = p + Len(c)
    <3>1. Len(seen'[r]) = n + Len(c) /\ ~(n + Len(c) \in 1..n) /\ (n + Len(c)) - n = Len(c)
      BY <1>4, <1>5b
    <3>2. seen'[r][n + Len(c)] = p + ((n + Len(c)) - n)
      BY <1>6, <2>1, <3>1
    <3> QED BY <3>1, <3>2
  <2> QED BY <1>2, <2>2, <2>3 DEF SeenTo, Last
<1> QED BY <1>7, <1>8, <1>9, <1>10 DEF SeenOk, f, u

\* The positions of a reader, and what its channel holds.
LEMMA Positions ==
    ASSUME TypeOK, NEW r \in Readers, ReaderInv(r)
    PROVE  /\ seen[r] \in Seq(Nat) /\ Len(seen[r]) \in Nat
           /\ inbox[r] \in Seq(Seq(Nat)) /\ Len(inbox[r]) \in Nat /\ DOMAIN inbox[r] = 1..Len(inbox[r])
           /\ \A k \in DOMAIN inbox[r] : inbox[r][k] \in Seq(Nat)
           /\ outcome[r] = "open" => \A k \in DOMAIN inbox[r] : Before(r, k) \in Nat /\ Before(r, k) <= UpTo(r)
           /\ outcome[r] = "open" /\ ~Told(r) => Reached(r) \in Nat /\ Reached(r) <= UpTo(r)
<1>1. /\ seen[r] \in Seq(Nat) /\ Len(seen[r]) \in Nat
      /\ inbox[r] \in Seq(Seq(Nat)) /\ Len(inbox[r]) \in Nat /\ DOMAIN inbox[r] = 1..Len(inbox[r])
  BY DEF TypeOK
<1>2. \A k \in DOMAIN inbox[r] : inbox[r][k] \in Seq(Nat)
  BY <1>1, SeqElems
<1>3. ASSUME outcome[r] = "open", NEW k \in 1..(Len(inbox[r]) + 1), k = 1 \/ inbox[r][k - 1] # Error
      PROVE  Before(r, k) \in Nat /\ Before(r, k) <= UpTo(r)
  <2>1. CASE k = 1
    BY <2>1, SeenToFacts DEF Before, ReaderInv
  <2>2. CASE k # 1
    <3>1. k - 1 \in DOMAIN inbox[r] /\ Before(r, k) = Last(inbox[r][k - 1])
      BY <1>1, <2>2 DEF Before, SeenTo, Last
    <3>2. Len(inbox[r][k - 1]) > 0 /\ Last(inbox[r][k - 1]) <= UpTo(r)
      BY <1>3, <2>2, <3>1 DEF ReaderInv, InboxOk, Follows
    <3>3. Last(inbox[r][k - 1]) \in Nat
      <4>1. inbox[r][k - 1] \in Seq(Nat)
        BY <1>2, <3>1
      <4> QED BY <3>2, <4>1 DEF Last
    <3> QED BY <3>1, <3>2, <3>3
  <2> QED BY <2>1, <2>2
<1>4. ASSUME outcome[r] = "open", NEW k \in DOMAIN inbox[r]
      PROVE  Before(r, k) \in Nat /\ Before(r, k) <= UpTo(r)
  <2>1. k = 1 \/ inbox[r][k - 1] # Error
    <3> SUFFICES ASSUME k # 1, inbox[r][k - 1] = Error PROVE FALSE
      OBVIOUS
    <3>1. k - 1 \in DOMAIN inbox[r] /\ k - 1 # Len(inbox[r])
      BY <1>1
    <3> QED BY <1>4, <3>1 DEF ReaderInv, InboxOk
  <2>2. k \in 1..(Len(inbox[r]) + 1)
    BY <1>1
  <2> QED BY <1>3, <1>4, <2>1, <2>2
<1>5. ASSUME outcome[r] = "open", ~Told(r) PROVE Reached(r) \in Nat /\ Reached(r) <= UpTo(r)
  <2> DEFINE k == Len(inbox[r]) + 1
  <2>1. k \in 1..(Len(inbox[r]) + 1) /\ (k = 1 \/ inbox[r][k - 1] # Error)
    BY <1>1, <1>5 DEF Told, Last
  <2> QED BY <1>3, <1>5, <2>1 DEF Reached
<1> QED BY <1>1, <1>2, <1>4, <1>5

\* A reader that a step does not touch.
LEMMA ReaderFrame ==
    ASSUME NEW r \in Readers, ReaderInv(r),
           outcome'[r] = outcome[r], seen'[r] = seen[r], inbox'[r] = inbox[r],
           Queued(r)' <=> Queued(r),
           Outgoing(r)' <=> Outgoing(r), Outgoing(r) => out' = out,
           Active(r)' <=> Active(r),
           \A a \in ranges' : a.r = r => \E b \in ranges : b.r = r /\ b.offset = a.offset,
           r \in notify' <=> r \in notify, pc' = "closing" <=> pc = "closing",
           closed => closed', r \in bad' <=> r \in bad, r \in cut => r \in cut', failed => failed'
    PROVE  ReaderInv(r)'
<1>1. /\ Told(r)' <=> Told(r)
      /\ Reached(r)' = Reached(r)
      /\ \A k \in DOMAIN inbox[r] : Before(r, k)' = Before(r, k)
  BY DEF Told, Reached, Before, SeenTo, Last
<1>2. Position(r)' = Position(r)
  BY <1>1 DEF Position
<1>3. QueueOk(r)'
  BY DEF ReaderInv, QueueOk
<1>4. SeenOk(r)'
  BY DEF ReaderInv, SeenOk
<1>5. InboxOk(r)'
  BY <1>1 DEF ReaderInv, InboxOk, Chunk, Last, Follows, After
<1>6. SourceOk(r)'
  BY <1>1, <1>2 DEF ReaderInv, SourceOk, Chunk, Last, Follows, After
<1>7. CompleteOk(r)'
  BY <1>1, <1>2 DEF ReaderInv, CompleteOk
<1>8. ClosingOk(r)'
  BY <1>1 DEF ReaderInv, ClosingOk
<1>9. BadOk(r)'
  BY DEF ReaderInv, BadOk
<1> QED BY <1>3, <1>4, <1>5, <1>6, <1>7, <1>8, <1>9 DEF ReaderInv

\* A step that touches no reader: only the worker's stream, or the descriptor.
LEMMA DeliveryFrame ==
    ASSUME DeliveryInv, UNCHANGED <<outcome, seen, inbox, requests, out, ranges, notify>>,
           pc' = pc \/ (pc \in {"run", "connect"} /\ pc' \in {"run", "connect"}),
           closed => closed', failed => failed', UNCHANGED <<bad, cut>>
    PROVE  DeliveryInv'
<1>1. ASSUME NEW r \in Readers PROVE ReaderInv(r)'
  <2>1. /\ Queued(r)' <=> Queued(r)
        /\ Outgoing(r)' <=> Outgoing(r)
        /\ Active(r)' <=> Active(r)
        /\ pc' = "closing" <=> pc = "closing"
    BY DEF Queued, Outgoing, Active
  <2> QED BY <2>1, ReaderFrame DEF DeliveryInv
<1> QED BY <1>1 DEF DeliveryInv

\* read_range: the reader waits in the queue of requests.
LEMMA DeliveryReadRange ==
    ASSUME TypeOK, DeliveryInv, NEW r \in Readers, outcome[r] = "none",
           requests' = Append(requests, r), outcome' = [outcome EXCEPT ![r] = "open"],
           UNCHANGED <<seen, inbox, pc, out, ranges, notify, closed, bad, cut, failed>>
    PROVE  DeliveryInv'
<1>1. /\ outcome'[r] = "open" /\ \A q \in Readers : q # r => outcome'[q] = outcome[q]
  BY DEF TypeOK
<1>2. /\ Len(requests) + 1 \in DOMAIN requests' /\ requests'[Len(requests) + 1] = r
      /\ \A k \in DOMAIN requests : k \in DOMAIN requests' /\ requests'[k] = requests[k]
      /\ \A k \in DOMAIN requests' : k = Len(requests) + 1 \/ k \in DOMAIN requests
  BY AppendElems DEF TypeOK
<1>3. QueueOk(r)
  BY DEF DeliveryInv, ReaderInv
<1>4. ~Queued(r) /\ ~Active(r) /\ ~Outgoing(r) /\ inbox[r] = <<>> /\ seen[r] = <<>> /\ r \notin bad
  BY <1>3 DEF QueueOk
<1>5. \A i, j \in DOMAIN requests' : requests'[i] = requests'[j] => i = j
  BY <1>2, <1>4 DEF DeliveryInv, Queued
<1>6. ASSUME NEW q \in Readers, q # r PROVE ReaderInv(q)'
  <2>1. Queued(q)' <=> Queued(q)
    BY <1>2, <1>6 DEF Queued
  <2>2. (Outgoing(q)' <=> Outgoing(q)) /\ (Active(q)' <=> Active(q))
    BY DEF Outgoing, Active
  <2> QED BY <1>1, <1>6, <2>1, <2>2, ReaderFrame DEF DeliveryInv
<1>7. ReaderInv(r)'
  <2>1. Queued(r)' /\ ~Active(r)' /\ ~Outgoing(r)' /\ inbox'[r] = <<>> /\ seen'[r] = <<>> /\ r \notin bad'
    BY <1>2, <1>4 DEF Queued, Active, Outgoing
  <2>2. QueueOk(r)' /\ InboxOk(r)' /\ CompleteOk(r)'
    BY <1>1, <2>1 DEF QueueOk, InboxOk, CompleteOk
  <2>3. SeenOk(r)' /\ ClosingOk(r)' /\ BadOk(r)'
    BY <1>4, <2>1 DEF DeliveryInv, ReaderInv, SeenOk, ClosingOk, BadOk
  <2>4. SourceOk(r)'
    BY <2>1 DEF SourceOk, Active, After
  <2> QED BY <2>2, <2>3, <2>4 DEF ReaderInv
<1> QED BY <1>5, <1>6, <1>7 DEF DeliveryInv

\* The readers a step of one reader does not touch.
LEMMA OneReader ==
    ASSUME DeliveryInv, NEW r \in Readers,
           \A q \in Readers : q # r => outcome'[q] = outcome[q] /\ seen'[q] = seen[q] /\ inbox'[q] = inbox[q],
           UNCHANGED <<requests, pc, out, ranges, closed, bad, cut, failed>>,
           notify' = notify \/ notify' = notify \ {r}, ReaderInv(r)'
    PROVE  DeliveryInv'
<1>1. ASSUME NEW q \in Readers, q # r PROVE ReaderInv(q)'
  <2>1. (Queued(q)' <=> Queued(q)) /\ (Outgoing(q)' <=> Outgoing(q)) /\ (Active(q)' <=> Active(q))
    BY DEF Queued, Outgoing, Active
  <2>2. q \in notify' <=> q \in notify
    BY <1>1
  <2> QED BY <1>1, <2>1, <2>2, ReaderFrame DEF DeliveryInv
<1> QED BY <1>1 DEF DeliveryInv

\* RangeReader::next takes a chunk.
LEMMA DeliveryNextChunk ==
    ASSUME TypeOK, DeliveryInv, NEW r \in Readers, outcome[r] = "open", inbox[r] # <<>>,
           Head(inbox[r]) # Error,
           inbox' = [inbox EXCEPT ![r] = Tail(@)], seen' = [seen EXCEPT ![r] = @ \o Head(inbox[r])],
           UNCHANGED <<outcome, requests, pc, out, ranges, notify, closed, bad, cut, failed>>
    PROVE  DeliveryInv'
<1> DEFINE c == Head(inbox[r])
           n == Len(seen[r])
<1>0. ReaderInv(r)
  BY DEF DeliveryInv
<1>1. /\ inbox'[r] = Tail(inbox[r]) /\ seen'[r] = seen[r] \o c
      /\ \A q \in Readers : q # r => seen'[q] = seen[q] /\ inbox'[q] = inbox[q]
  BY DEF TypeOK
<1>2. /\ seen[r] \in Seq(Nat) /\ n \in Nat /\ inbox[r] \in Seq(Seq(Nat))
      /\ DOMAIN inbox[r] = 1..Len(inbox[r])
  BY <1>0, Positions
<1>3. /\ inbox'[r] \in Seq(Seq(Nat)) /\ c \in Seq(Nat) /\ Len(inbox'[r]) = Len(inbox[r]) - 1
      /\ Len(inbox[r]) \in Nat \ {0} /\ 1 \in DOMAIN inbox[r] /\ c = inbox[r][1]
      /\ \A k \in DOMAIN inbox'[r] : /\ k \in Nat \ {0} /\ k + 1 \in DOMAIN inbox[r]
                                     /\ inbox'[r][k] = inbox[r][k + 1]
      /\ DOMAIN inbox'[r] = 1..(Len(inbox[r]) - 1)
  <2> DEFINE T == Seq(Nat)
             q == inbox[r]
  <2>1. q \in Seq(T) /\ q # <<>> /\ inbox'[r] = Tail(q) /\ c = Head(q)
    BY <1>1, <1>2
  <2>2. T = Seq(Nat) /\ q = inbox[r]
    OBVIOUS
  <2> HIDE DEF T, q, c
  <2>3. /\ Tail(q) \in Seq(T) /\ Head(q) \in T /\ Len(Tail(q)) = Len(q) - 1
        /\ Len(q) \in Nat \ {0} /\ 1 \in DOMAIN q /\ Head(q) = q[1]
        /\ \A k \in DOMAIN Tail(q) : k \in Nat \ {0} /\ k + 1 \in DOMAIN q /\ Tail(q)[k] = q[k + 1]
    BY <2>1, TailElems
  <2>4. DOMAIN Tail(q) = 1..(Len(q) - 1)
    BY <2>3
  <2> QED BY <2>1, <2>2, <2>3, <2>4
<1> HIDE DEF c, n
<1>4. From(r) \in Nat /\ UpTo(r) \in Nat /\ From(r)' = From(r) /\ UpTo(r)' = UpTo(r)
  BY RangeOf DEF From, UpTo
<1>5. Follows(r, c, SeenTo(r))
  BY <1>0, <1>3 DEF ReaderInv, InboxOk, Before, c
<1>6. seen'[r] = seen[r] \o c /\ Follows(r, c, SeenTo(r)) /\ SeenOk(r) /\ c \in Seq(Nat) /\ bad' = bad
  BY <1>0, <1>1, <1>3, <1>5 DEF ReaderInv
<1>7. SeenOk(r)' /\ SeenTo(r)' = Last(c)
  BY <1>2, <1>6, SeenAppend
<1>8. SeenOk(r)'
  BY <1>7
<1>9a. /\ Len(inbox'[r]) + 1 = Len(inbox[r])
       /\ Len(inbox[r]) # 1 => /\ Len(inbox[r]) - 1 \in DOMAIN inbox'[r] /\ inbox'[r] # <<>>
                               /\ Len(inbox'[r]) \in DOMAIN inbox'[r]
  <2> DEFINE L == Len(inbox[r])
  <2>1. L \in Nat \ {0} /\ Len(inbox'[r]) = L - 1 /\ DOMAIN inbox'[r] = 1..(L - 1)
    BY <1>3
  <2>2. inbox'[r] = <<>> => Len(inbox'[r]) = 0
    OBVIOUS
  <2> HIDE DEF L
  <2>3. /\ (L - 1) + 1 = L
        /\ L # 1 => L - 1 \in 1..(L - 1) /\ L - 1 # 0
    BY <2>1
  <2> QED BY <2>1, <2>2, <2>3 DEF L
<1>9. /\ \A k \in DOMAIN inbox'[r] : Before(r, k)' = Before(r, k + 1)
      /\ Reached(r)' = Reached(r)
  <2>1. Before(r, 1)' = Before(r, 2)
    <3>1. Before(r, 2) = Last(c)
      BY <1>3 DEF Before, SeenTo, Last
    <3>2. Before(r, 1)' = SeenTo(r)'
      BY DEF Before
    <3> QED BY <1>7, <3>1, <3>2
  <2>2. ASSUME NEW k \in 1..(Len(inbox[r]) - 1), k # 1 PROVE Before(r, k)' = Before(r, k + 1)
    <3>1. k - 1 \in DOMAIN inbox'[r]
      BY <1>3, <2>2
    <3>2. inbox'[r][k - 1] = inbox[r][k] /\ k + 1 # 1 /\ (k + 1) - 1 = k
      BY <1>3, <2>2, <3>1
    <3> QED BY <2>2, <3>2 DEF Before, Last, SeenTo
  <2>3. CASE Len(inbox[r]) = 1
    <3>1. Len(inbox'[r]) + 1 = 1 /\ Len(inbox[r]) + 1 = 2
      BY <1>3, <2>3
    <3>2. Reached(r)' = Before(r, 1)'
      BY <3>1 DEF Reached
    <3> QED BY <1>3, <2>1, <2>2, <3>1, <3>2 DEF Reached
  <2>4. CASE Len(inbox[r]) # 1
    <3>1. /\ Len(inbox'[r]) + 1 = Len(inbox[r]) /\ Len(inbox[r]) # 1
          /\ Len(inbox[r]) - 1 \in DOMAIN inbox'[r]
      BY <1>9a, <2>4
    <3>2. inbox'[r][Len(inbox[r]) - 1] = inbox[r][Len(inbox[r])]
      BY <1>3, <3>1
    <3>3. Reached(r)' = Last(inbox'[r][Len(inbox[r]) - 1])
      BY <3>1 DEF Reached, Before, SeenTo, Last
    <3>4. Reached(r) = Last(inbox[r][Len(inbox[r])])
      <4>1. Len(inbox[r]) + 1 # 1 /\ (Len(inbox[r]) + 1) - 1 = Len(inbox[r])
        BY <1>3
      <4> QED BY <4>1 DEF Reached, Before, SeenTo, Last
    <3>5. \A k \in DOMAIN inbox'[r] : k \in 1..(Len(inbox[r]) - 1)
      BY <1>3
    <3> QED BY <2>1, <2>2, <3>2, <3>3, <3>4, <3>5 DEF Last
  <2> QED BY <2>3, <2>4
<1>10. Told(r)' <=> Told(r)
  <2>1. CASE Len(inbox[r]) = 1
    <3>1. inbox'[r] = <<>> /\ ~Told(r)
      BY <1>3, <2>1 DEF Told, Last, c
    <3> QED BY <3>1 DEF Told
  <2>2. CASE Len(inbox[r]) # 1
    <3>1. inbox'[r] # <<>> /\ Len(inbox'[r]) \in DOMAIN inbox'[r] /\ Len(inbox'[r]) + 1 = Len(inbox[r])
      BY <1>9a, <2>2
    <3>2. inbox'[r][Len(inbox'[r])] = inbox[r][Len(inbox[r])]
      BY <1>3, <3>1
    <3> QED BY <3>1, <3>2 DEF Told, Last
  <2> QED BY <2>1, <2>2
<1>11. /\ (Queued(r)' <=> Queued(r)) /\ (Outgoing(r)' <=> Outgoing(r)) /\ (Active(r)' <=> Active(r))
       /\ Position(r)' = Position(r) /\ ~Queued(r)
  BY <1>0, <1>9 DEF Queued, Outgoing, Active, Position, ReaderInv, QueueOk
<1>12. InboxOk(r)'
  <2> SUFFICES ASSUME NEW k \in DOMAIN inbox'[r]
               PROVE  \/ inbox'[r][k] = Error /\ k = Len(inbox'[r])
                      \/ inbox'[r][k] # Error /\ Follows(r, inbox'[r][k], Before(r, k)')
    BY <1>4 DEF InboxOk, Chunk, Last, Error, Bytes, Follows, After
  <2>1. k + 1 = Len(inbox[r]) => k = Len(inbox'[r])
    BY <1>3
  <2> QED BY <1>0, <1>3, <1>9, <2>1 DEF ReaderInv, InboxOk
<1>13. SourceOk(r)' /\ CompleteOk(r)' /\ QueueOk(r)' /\ ClosingOk(r)' /\ BadOk(r)'
  <2>1. SourceOk(r)'
    BY <1>0, <1>4, <1>9, <1>10, <1>11 DEF ReaderInv, SourceOk, Chunk, Last, Follows, After
  <2>2. CompleteOk(r)'
    BY <1>0, <1>4, <1>10, <1>11 DEF ReaderInv, CompleteOk
  <2>3. QueueOk(r)'
    BY <1>11 DEF QueueOk
  <2>4. ClosingOk(r)' /\ BadOk(r)'
    BY <1>0, <1>10, <1>11 DEF ReaderInv, ClosingOk, BadOk
  <2> QED BY <2>1, <2>2, <2>3, <2>4
<1> QED BY <1>1, <1>8, <1>12, <1>13, OneReader DEF ReaderInv

\* RangeReader::next takes an error, or finds that its sender is gone; or the reader is dropped.
LEMMA DeliveryReaderEnds ==
    ASSUME TypeOK, DeliveryInv, NEW r \in Readers, NEW end \in {"error", "eof", "dropped"},
           outcome[r] # "none", outcome' = [outcome EXCEPT ![r] = end],
           \/ end = "error" /\ inbox[r] # <<>> /\ inbox' = [inbox EXCEPT ![r] = Tail(@)]
           \/ end = "eof" /\ outcome[r] = "open" /\ inbox[r] = <<>> /\ ~HasSender(r) /\ inbox' = inbox
           \/ end = "dropped" /\ inbox' = [inbox EXCEPT ![r] = <<>>],
           UNCHANGED <<seen, requests, pc, out, ranges, notify, closed, bad, cut, failed>>
    PROVE  DeliveryInv'
<1>0. ReaderInv(r)
  BY DEF DeliveryInv
<1>1. /\ outcome'[r] = end
      /\ \A q \in Readers : q # r => outcome'[q] = outcome[q] /\ inbox'[q] = inbox[q]
      /\ end = "dropped" => inbox'[r] = <<>>
  BY DEF TypeOK
<1>2. (Queued(r)' <=> Queued(r)) /\ (Outgoing(r)' <=> Outgoing(r)) /\ (Active(r)' <=> Active(r))
  BY DEF Queued, Outgoing, Active
<1>3. QueueOk(r)'
  BY <1>0, <1>1, <1>2 DEF ReaderInv, QueueOk
<1>4. SeenOk(r)'
  BY <1>0 DEF ReaderInv, SeenOk
<1>5. InboxOk(r)' /\ SourceOk(r)'
  BY <1>1 DEF InboxOk, SourceOk, After
<1>6. CompleteOk(r)'
  <2>1. CASE end = "eof"
    <3>1. ~Active(r) /\ ~Queued(r) /\ ~Outgoing(r) /\ ~Told(r) /\ inbox[r] = <<>> /\ outcome[r] = "open"
      BY <2>1 DEF HasSender, Active, Queued, Outgoing, Told
    <3>2. (r \notin bad /\ Position(r) = UpTo(r)) \/ closed \/ r \in cut
      BY <1>0, <3>1 DEF ReaderInv, CompleteOk
    <3>3. Position(r) = SeenTo(r)
      BY <3>1 DEF Position, Reached, Before
    <3>4. r \notin bad => SeenTo(r) = From(r) + Len(seen[r])
      BY <1>0, SeenToFacts DEF ReaderInv
    <3>5. From(r) \in Nat /\ UpTo(r) \in Nat /\ Len(seen[r]) \in Nat
      BY <1>0, RangeOf, Positions
    <3> QED BY <1>1, <2>1, <3>2, <3>3, <3>4, <3>5 DEF CompleteOk
  <2>2. CASE end # "eof"
    BY <1>1, <2>2 DEF CompleteOk
  <2> QED BY <2>1, <2>2
<1>7. ClosingOk(r)' /\ BadOk(r)'
  BY <1>0, <1>1, <1>2 DEF ReaderInv, ClosingOk, BadOk
<1>8. ReaderInv(r)'
  BY <1>3, <1>4, <1>5, <1>6, <1>7 DEF ReaderInv
<1> QED BY <1>1, <1>8, OneReader

\* Something is put into the channel of a reader, behind what is there.
LEMMA InboxAppend ==
    ASSUME TypeOK, NEW r \in Readers, ReaderInv(r), outcome[r] = "open", ~Told(r),
           NEW c \in Seq(Nat), inbox'[r] = Append(inbox[r], c), seen'[r] = seen[r], outcome'[r] = outcome[r],
           c = Error \/ (c # Error /\ Follows(r, c, Reached(r))), bad' = bad
    PROVE  InboxOk(r)' /\ (Told(r)' <=> c = Error) /\ Reached(r)' = Last(c)
<1>1. /\ inbox[r] \in Seq(Seq(Nat)) /\ Len(inbox[r]) \in Nat /\ DOMAIN inbox[r] = 1..Len(inbox[r])
  BY Positions
<1>2. /\ Len(inbox'[r]) = Len(inbox[r]) + 1 /\ inbox'[r] # <<>>
      /\ inbox'[r][Len(inbox[r]) + 1] = c
      /\ \A k \in DOMAIN inbox[r] : inbox'[r][k] = inbox[r][k]
      /\ \A k \in DOMAIN inbox'[r] : k = Len(inbox[r]) + 1 \/ k \in DOMAIN inbox[r]
  <2> DEFINE T == Seq(Nat)
             q == inbox[r]
  <2>1. q \in Seq(T) /\ c \in T /\ inbox'[r] = Append(q, c)
    BY <1>1
  <2>2. q = inbox[r]
    OBVIOUS
  <2> HIDE DEF T, q
  <2>3. /\ Append(q, c) \in Seq(T) /\ Len(Append(q, c)) = Len(q) + 1 /\ Append(q, c)[Len(q) + 1] = c
        /\ Len(q) \in Nat
        /\ \A k \in DOMAIN q : Append(q, c)[k] = q[k]
        /\ \A k \in DOMAIN Append(q, c) : k = Len(q) + 1 \/ k \in DOMAIN q
    BY <2>1, AppendElems
  <2>4. Append(q, c) # <<>>
    BY <2>1, AppendElems
  <2> QED BY <2>1, <2>2, <2>3, <2>4
<1>3. Last(inbox'[r]) = c
  BY <1>2 DEF Last
<1>4. \A k \in 1..(Len(inbox[r]) + 1) : Before(r, k)' = Before(r, k)
  <2> SUFFICES ASSUME NEW k \in 1..(Len(inbox[r]) + 1) PROVE Before(r, k)' = Before(r, k)
    OBVIOUS
  <2>1. k # 1 => k - 1 \in DOMAIN inbox[r]
    BY <1>1
  <2> QED BY <1>2, <2>1 DEF Before, Last, SeenTo
<1>5. Reached(r)' = Last(c)
  <2>1. Len(inbox'[r]) + 1 # 1 /\ (Len(inbox'[r]) + 1) - 1 = Len(inbox[r]) + 1
    BY <1>1, <1>2
  <2> QED BY <1>2, <2>1 DEF Reached, Before, Last, SeenTo
<1>6. InboxOk(r)'
  <2> SUFFICES ASSUME NEW k \in DOMAIN inbox'[r]
               PROVE  \/ inbox'[r][k] = Error /\ k = Len(inbox'[r])
                      \/ inbox'[r][k] # Error /\ Follows(r, inbox'[r][k], Before(r, k)')
    BY DEF InboxOk, Chunk, Last, Error, Bytes, Follows, After
  <2>1. CASE k = Len(inbox[r]) + 1
    <3>1. Before(r, k)' = Reached(r)
      BY <1>1, <1>4, <2>1 DEF Reached
    <3> QED BY <1>2, <2>1, <3>1
  <2>2. CASE k \in DOMAIN inbox[r]
    <3>1. ~(inbox[r][k] = Error /\ k = Len(inbox[r]))
      BY <2>2 DEF Told, Last
    <3>2. Before(r, k)' = Before(r, k)
      BY <1>1, <1>4, <2>2
    <3> QED BY <1>2, <2>2, <3>1, <3>2 DEF ReaderInv, InboxOk
  <2> QED BY <1>2, <2>1, <2>2
<1> QED BY <1>2, <1>3, <1>5, <1>6 DEF Told, Last, Error

\* Handler::send.
LEMMA DeliverySend ==
    ASSUME TypeOK, DeliveryInv, HandlerSend
    PROVE  DeliveryInv'
<1>0. PICK r \in Readers : r = out[1]
  BY DEF HandlerSend, TypeOK
<1>1. /\ pc = "send" /\ pc' = "run" /\ out' = <<>>
      /\ UNCHANGED <<outcome, seen, requests, ranges, notify, closed, bad, cut, failed>>
      /\ IF outcome[r] = "dropped" THEN inbox' = inbox
                                   ELSE inbox' = [inbox EXCEPT ![r] = Append(@, out[2])]
  BY <1>0 DEF HandlerSend, app, net, history
<1>2. r \in Readers /\ out[2] \in Seq(Nat)
  BY <1>1 DEF TypeOK
<1>3. ReaderInv(r) /\ Outgoing(r)
  BY <1>0, <1>1, <1>2 DEF DeliveryInv, Outgoing
<1>4. ASSUME NEW q \in Readers, q # r PROVE ReaderInv(q)'
  <2>1. ~Outgoing(q) /\ ~Outgoing(q)'
    BY <1>0, <1>1, <1>4 DEF Outgoing
  <2>2. (Queued(q)' <=> Queued(q)) /\ (Active(q)' <=> Active(q))
    BY <1>1 DEF Queued, Active
  <2>3. inbox'[q] = inbox[q]
    BY <1>1, <1>2, <1>4 DEF TypeOK
  <2> QED BY <1>1, <1>4, <2>1, <2>2, <2>3, ReaderFrame DEF DeliveryInv
<1>5. /\ (Queued(r)' <=> Queued(r)) /\ (Active(r)' <=> Active(r)) /\ ~Outgoing(r)' /\ ~Queued(r)
      /\ outcome[r] # "none" /\ r \notin notify
  BY <1>1, <1>3 DEF Queued, Active, Outgoing, ReaderInv, QueueOk, ClosingOk
<1>6. ReaderInv(r)'
  <2>1. QueueOk(r)' /\ SeenOk(r)'
    BY <1>1, <1>3, <1>5 DEF ReaderInv, QueueOk, SeenOk
  <2>2. ClosingOk(r)' /\ BadOk(r)'
    BY <1>1, <1>3, <1>5 DEF ReaderInv, ClosingOk, BadOk
  <2>3. CASE outcome[r] # "open"
    <3>1. InboxOk(r)' /\ SourceOk(r)'
      BY <1>1, <2>3 DEF InboxOk, SourceOk, After
    <3>2. CompleteOk(r)'
      BY <1>1, <1>3, <2>3 DEF ReaderInv, CompleteOk
    <3> QED BY <2>1, <2>2, <3>1, <3>2 DEF ReaderInv
  <2>4. CASE outcome[r] = "open"
    <3>1. ~Told(r) /\ Follows(r, out[2], Reached(r))
      BY <1>3, <2>4 DEF ReaderInv, SourceOk, After
    <3>2. Reached(r) \in Nat
      BY <1>2, <1>3, <2>4, <3>1, Positions
    <3>3. out[2] # Error
      BY <1>2, <3>1, <3>2, FollowsFacts
    <3>4. inbox'[r] = Append(inbox[r], out[2])
      BY <1>1, <1>2, <2>4 DEF TypeOK
    <3>5. InboxOk(r)' /\ ~Told(r)' /\ Reached(r)' = Last(out[2])
      BY <1>1, <1>2, <1>3, <2>4, <3>1, <3>3, <3>4, InboxAppend
    <3>6. Position(r)' = Position(r)
      BY <1>3, <1>5, <3>5 DEF Position
    <3>7. SourceOk(r)'
      BY <1>1, <1>3, <1>5, <2>4, <3>1, <3>5, <3>6 DEF ReaderInv, SourceOk, After
    <3>8. CompleteOk(r)'
      BY <1>1, <1>3, <1>5, <2>4, <3>1, <3>6 DEF ReaderInv, CompleteOk
    <3> QED BY <2>1, <2>2, <3>5, <3>7, <3>8 DEF ReaderInv
  <2> QED BY <2>3, <2>4
<1> QED BY <1>1, <1>4, <1>6 DEF DeliveryInv

\* close_readers tells a reader.
LEMMA DeliveryCloseReader ==
    ASSUME TypeOK, DeliveryInv, NEW r \in Readers, close_reader(r)
    PROVE  DeliveryInv'
<1>1. /\ pc = "closing" /\ r \in notify /\ notify' = notify \ {r}
      /\ UNCHANGED <<outcome, seen, requests, pc, out, ranges, closed, bad, cut, failed>>
      /\ IF outcome[r] = "dropped" THEN inbox' = inbox
                                   ELSE inbox' = [inbox EXCEPT ![r] = Append(@, Error)]
  BY DEF close_reader, app, net, history
<1>2. \A q \in Readers : q # r => inbox'[q] = inbox[q]
  BY <1>1 DEF TypeOK
<1>3. ReaderInv(r) /\ Active(r) /\ ~Outgoing(r) /\ ~Queued(r) /\ outcome[r] # "none"
  BY <1>1 DEF DeliveryInv, ReaderInv, ClosingOk, QueueOk, Outgoing
<1>4. /\ Active(r)' /\ ~Queued(r)' /\ ~Outgoing(r)'
  BY <1>1, <1>3 DEF Queued, Active, Outgoing
<1>5. QueueOk(r)' /\ SeenOk(r)' /\ CompleteOk(r)' /\ BadOk(r)'
  <2>1. outcome[r] # "eof" \/ Len(seen[r]) = UpTo(r) - From(r) \/ closed \/ r \in cut
    BY <1>3 DEF ReaderInv, CompleteOk
  <2> QED BY <1>1, <1>3, <1>4, <2>1 DEF ReaderInv, QueueOk, SeenOk, CompleteOk, BadOk
<1>6. CASE outcome[r] # "open"
  <2>1. InboxOk(r)' /\ SourceOk(r)' /\ ClosingOk(r)'
    BY <1>1, <1>6 DEF InboxOk, SourceOk, ClosingOk, After
  <2>2. ReaderInv(r)'
    BY <1>5, <2>1 DEF ReaderInv
  <2> QED BY <1>1, <1>2, <2>2, OneReader
<1>7. CASE outcome[r] = "open"
  <2>1. ~Told(r)
    BY <1>1, <1>3, <1>7 DEF ReaderInv, SourceOk, After
  <2>2. inbox'[r] = Append(inbox[r], Error) /\ Error \in Seq(Nat)
    BY <1>1, <1>7 DEF TypeOK, Error
  <2>3. InboxOk(r)' /\ Told(r)'
    <3> DEFINE c == Error
    <3>1. c \in Seq(Nat) /\ inbox'[r] = Append(inbox[r], c) /\ c = Error
      BY <2>2
    <3> HIDE DEF c
    <3> QED BY <1>1, <1>3, <1>7, <2>1, <3>1, InboxAppend
  <2>4. SourceOk(r)' /\ ClosingOk(r)'
    BY <1>1, <1>4, <2>3 DEF SourceOk, ClosingOk, After
  <2>5. ReaderInv(r)'
    BY <1>5, <2>3, <2>4 DEF ReaderInv
  <2> QED BY <1>1, <1>2, <2>5, OneReader
<1> QED BY <1>6, <1>7

\* After an error, a reader that comes later is told at once.
LEMMA DeliveryFuture ==
    ASSUME TypeOK, DeliveryInv, FutureReader
    PROVE  DeliveryInv'
<1>0. requests # <<>> /\ requests \in Seq(Readers)
  BY DEF FutureReader, TypeOK
<1>1. /\ 1 \in DOMAIN requests /\ Head(requests) = requests[1] /\ Head(requests) \in Readers
      /\ \A k \in DOMAIN Tail(requests) : k \in Nat \ {0} /\ k + 1 \in DOMAIN requests /\ Tail(requests)[k] = requests[k + 1]
      /\ \A k \in DOMAIN requests : k = 1 \/ (k \in Nat /\ k - 1 \in DOMAIN Tail(requests) /\ k > 1)
  BY <1>0, TailElems
<1>2. PICK r \in Readers : r = Head(requests)
  BY <1>1
<1>3. /\ pc = "err" /\ requests' = Tail(requests)
      /\ UNCHANGED <<outcome, seen, pc, out, ranges, notify, closed, bad, cut, failed>>
      /\ inbox' = [inbox EXCEPT ![r] = IF outcome[r] = "dropped" THEN @ ELSE Append(@, Error)]
  BY <1>2 DEF FutureReader, app, worker, net, history
<1>4. /\ \A q \in Readers : q # r => inbox'[q] = inbox[q]
      /\ outcome[r] = "open" => inbox'[r] = Append(inbox[r], Error)
  BY <1>3 DEF TypeOK
<1>5. \A i, j \in DOMAIN requests' : requests'[i] = requests'[j] => i = j
  <2> SUFFICES ASSUME NEW i \in DOMAIN requests', NEW j \in DOMAIN requests', requests'[i] = requests'[j]
               PROVE  i = j
    OBVIOUS
  <2>1. i + 1 \in DOMAIN requests /\ j + 1 \in DOMAIN requests /\ requests[i + 1] = requests[j + 1]
    BY <1>1, <1>3
  <2>2. i + 1 = j + 1
    BY <2>1 DEF DeliveryInv
  <2>3. i \in Nat /\ j \in Nat
    BY <1>1, <1>3
  <2> QED BY <2>2, <2>3
<1>6. Queued(r) /\ ~Queued(r)'
  <2>1. Queued(r)
    BY <1>1, <1>2 DEF Queued
  <2>2. ASSUME NEW i \in DOMAIN requests', requests'[i] = r PROVE FALSE
    <3>1. i \in Nat \ {0} /\ i + 1 \in DOMAIN requests /\ requests[i + 1] = requests[1]
      BY <1>1, <1>2, <1>3, <2>2
    <3>2. i + 1 = 1
      BY <1>1, <3>1 DEF DeliveryInv
    <3> QED BY <3>1, <3>2
  <2> QED BY <2>1, <2>2 DEF Queued
<1>7. ASSUME NEW q \in Readers, q # r PROVE ReaderInv(q)'
  <2>1. Queued(q)' <=> Queued(q)
    <3>1. ASSUME NEW k \in DOMAIN requests, requests[k] = q PROVE \E j \in DOMAIN Tail(requests) : Tail(requests)[j] = q
      <4>1. k # 1
        BY <1>1, <1>2, <1>7, <3>1
      <4>2. k \in Nat /\ k - 1 \in DOMAIN Tail(requests)
        BY <1>1, <4>1
      <4>3. Tail(requests)[k - 1] = requests[(k - 1) + 1] /\ (k - 1) + 1 = k
        BY <1>1, <4>2
      <4> QED BY <3>1, <4>2, <4>3
    <3> QED BY <1>1, <1>3, <3>1 DEF Queued
  <2>2. (Outgoing(q)' <=> Outgoing(q)) /\ (Active(q)' <=> Active(q))
    BY <1>3 DEF Outgoing, Active
  <2> QED BY <1>3, <1>4, <1>7, <2>1, <2>2, ReaderFrame DEF DeliveryInv
<1>8. /\ ReaderInv(r) /\ ~Active(r) /\ ~Outgoing(r) /\ inbox[r] = <<>> /\ seen[r] = <<>>
      /\ outcome[r] # "none" /\ ~Active(r)' /\ ~Outgoing(r)' /\ r \notin notify
  BY <1>3, <1>6 DEF DeliveryInv, ReaderInv, QueueOk, ClosingOk, Active, Outgoing
<1>9. ReaderInv(r)'
  <2>1. QueueOk(r)' /\ SeenOk(r)' /\ SourceOk(r)' /\ ClosingOk(r)' /\ BadOk(r)'
    BY <1>3, <1>6, <1>8 DEF ReaderInv, QueueOk, SeenOk, SourceOk, ClosingOk, Active, BadOk
  <2>2. CASE outcome[r] # "open"
    <3>1. InboxOk(r)' /\ CompleteOk(r)'
      BY <1>3, <1>8, <2>2 DEF ReaderInv, InboxOk, CompleteOk
    <3> QED BY <2>1, <3>1 DEF ReaderInv
  <2>3. CASE outcome[r] = "open"
    <3>1. InboxOk(r)' /\ Told(r)'
      <4> DEFINE c == Error
      <4>1. c \in Seq(Nat) /\ inbox'[r] = Append(inbox[r], c) /\ c = Error
        BY <1>4, <2>3 DEF Error
      <4>2. ~Told(r)
        BY <1>8 DEF Told
      <4> HIDE DEF c
      <4> QED BY <1>3, <1>8, <2>3, <4>1, <4>2, InboxAppend
    <3>2. CompleteOk(r)'
      BY <1>3, <2>3, <3>1 DEF CompleteOk
    <3> QED BY <2>1, <3>1, <3>2 DEF ReaderInv
  <2> QED BY <2>2, <2>3
<1> QED BY <1>3, <1>5, <1>7, <1>9 DEF DeliveryInv

\* The parts of the invariant of a reader that only depend on what it received.
LEMMA ReceivedFrame ==
    ASSUME NEW r \in Readers, ReaderInv(r), UNCHANGED <<outcome, seen, inbox>>, r \in bad => r \in bad'
    PROVE  /\ SeenOk(r)' /\ InboxOk(r)' /\ (Told(r)' <=> Told(r)) /\ Reached(r)' = Reached(r)
<1>1. /\ Told(r)' <=> Told(r)
      /\ Reached(r)' = Reached(r)
      /\ \A k \in DOMAIN inbox[r] : Before(r, k)' = Before(r, k)
  BY DEF Told, Reached, Before, SeenTo, Last
<1>2. InboxOk(r)'
  BY <1>1 DEF ReaderInv, InboxOk, Chunk, Last, Follows, After
<1> QED BY <1>1, <1>2 DEF ReaderInv, SeenOk

\* The worker returns: nobody reads, or the service ended the stream.
LEMMA DeliveryReturns ==
    ASSUME TypeOK, DeliveryInv, pc \in {"run", "err"}, Returns,
           closed \/ \A r \in Readers : outcome[r] # "open"
    PROVE  DeliveryInv'
<1>1. /\ pc' = "ok" /\ ranges' = {} /\ requests' = <<>>
      /\ UNCHANGED <<outcome, seen, inbox, out, notify, closed, bad, cut, failed>>
  BY DEF Returns, Disconnect, app, history
<1>2. ASSUME NEW r \in Readers PROVE ReaderInv(r)'
  <2>1. ReaderInv(r) /\ ~Queued(r)' /\ ~Active(r)' /\ ~Outgoing(r)' /\ r \notin notify
    BY <1>1 DEF DeliveryInv, ReaderInv, ClosingOk, Queued, Active, Outgoing
  <2>2. SeenOk(r)' /\ InboxOk(r)'
    BY <1>1, <2>1, ReceivedFrame
  <2>3. QueueOk(r)' /\ SourceOk(r)' /\ CompleteOk(r)' /\ ClosingOk(r)' /\ BadOk(r)'
    BY <1>1, <2>1 DEF ReaderInv, QueueOk, SourceOk, CompleteOk, ClosingOk, Active, BadOk
  <2> QED BY <2>2, <2>3 DEF ReaderInv
<1> QED BY <1>1, <1>2 DEF DeliveryInv

\* close_readers clears the map when everybody was told.
LEMMA DeliveryClosed ==
    ASSUME TypeOK, DeliveryInv, ReadersClosed
    PROVE  DeliveryInv'
<1>1. /\ pc = "closing" /\ notify = {} /\ pc' = "err" /\ ranges' = {}
      /\ UNCHANGED <<outcome, seen, inbox, requests, out, notify, closed, bad, cut, failed>>
  BY DEF ReadersClosed, Disconnect, app, history
<1>2. ASSUME NEW r \in Readers PROVE ReaderInv(r)'
  <2>1. /\ ReaderInv(r) /\ (Queued(r)' <=> Queued(r)) /\ ~Active(r)' /\ ~Outgoing(r)' /\ ~Outgoing(r)
    BY <1>1 DEF DeliveryInv, Queued, Active, Outgoing
  <2>2. SeenOk(r)' /\ InboxOk(r)' /\ (Told(r)' <=> Told(r)) /\ Reached(r)' = Reached(r)
    BY <1>1, <2>1, ReceivedFrame
  <2>3. outcome[r] = "open" /\ Active(r) => Told(r)
    BY <1>1, <2>1 DEF ReaderInv, ClosingOk
  <2>4. Position(r)' = Position(r)
    BY <2>1, <2>2 DEF Position
  <2>5. QueueOk(r)' /\ SourceOk(r)' /\ ClosingOk(r)' /\ BadOk(r)'
    BY <1>1, <2>1 DEF ReaderInv, QueueOk, SourceOk, ClosingOk, Active, BadOk
  <2>6. CompleteOk(r)'
    BY <1>1, <2>1, <2>2, <2>3, <2>4 DEF ReaderInv, CompleteOk
  <2> QED BY <2>2, <2>5, <2>6 DEF ReaderInv
<1> QED BY <1>1, <1>2 DEF DeliveryInv

\* The worker gives up: close_readers begins.
LEMMA DeliveryGiveUp ==
    ASSUME TypeOK, DeliveryInv, pc \in {"run", "connect"}, CloseReaders,
           UNCHANGED <<outcome, seen, inbox, requests, out, closed, bad, cut>>
    PROVE  DeliveryInv'
<1>0. ranges' = ranges /\ notify' = {a.r : a \in ranges} /\ pc' = "closing"
  BY DEF CloseReaders
<1>1. ASSUME NEW r \in Readers PROVE ReaderInv(r)'
  <2>1. /\ ReaderInv(r) /\ (Queued(r)' <=> Queued(r)) /\ ~Outgoing(r)' /\ ~Outgoing(r)
        /\ Active(r)' <=> Active(r)
        /\ Active(r)' <=> r \in notify'
    BY <1>0 DEF DeliveryInv, Queued, Active, Outgoing
  <2>2. SeenOk(r)' /\ InboxOk(r)' /\ (Told(r)' <=> Told(r)) /\ Reached(r)' = Reached(r)
    BY <2>1, ReceivedFrame
  <2>3. Position(r)' = Position(r)
    BY <2>1, <2>2 DEF Position
  <2>4. outcome[r] = "open" /\ Active(r) => ~Told(r)
    BY <2>1 DEF ReaderInv, SourceOk
  <2>5. QueueOk(r)' /\ ClosingOk(r)' /\ BadOk(r)'
    BY <1>0, <2>1 DEF ReaderInv, QueueOk, ClosingOk, BadOk
  <2>6. SourceOk(r)'
    BY <1>0, <2>1, <2>2, <2>3, <2>4 DEF ReaderInv, SourceOk, After
  <2>7. CompleteOk(r)'
    BY <2>1, <2>2, <2>3 DEF ReaderInv, CompleteOk
  <2> QED BY <2>2, <2>5, <2>6, <2>7 DEF ReaderInv
<1> QED BY <1>1 DEF DeliveryInv

\* insert_ranges: the queued readers become active reads.
LEMMA DeliveryInsert ==
    ASSUME TypeOK, DeliveryInv, insert_ranges
    PROVE  DeliveryInv'
<1> DEFINE new == {ActiveRead(next_range_id + i - 1, requests[i]) : i \in DOMAIN requests}
<1>1. /\ pc = "run" /\ ~failed /\ requests' = <<>> /\ ranges' = ranges \cup new
      /\ UNCHANGED <<outcome, seen, inbox, pc, out, notify, closed, bad, cut, failed>>
  BY DEF insert_ranges, app, history, Selecting
<1>2. /\ \A a \in new : \E i \in DOMAIN requests : a.r = requests[i] /\ a.offset = Offset(a.r)
      /\ \A i \in DOMAIN requests : \E a \in new : a.r = requests[i]
  <2>1. \A id, r : ActiveRead(id, r).r = r /\ ActiveRead(id, r).offset = Offset(r)
    BY DEF ActiveRead
  <2>2. ASSUME NEW a \in new PROVE \E i \in DOMAIN requests : a.r = requests[i] /\ a.offset = Offset(a.r)
    <3>1. PICK i \in DOMAIN requests : a = ActiveRead(next_range_id + i - 1, requests[i])
      BY Zenon
    <3>2. a.r = requests[i] /\ a.offset = Offset(requests[i])
      BY <2>1, <3>1, Zenon
    <3> QED BY <3>2
  <2>3. ASSUME NEW i \in DOMAIN requests PROVE \E a \in new : a.r = requests[i]
    BY <2>1, Zenon
  <2> QED BY <2>2, <2>3
<1>3. \A r \in Readers : Queued(r) <=> \E a \in new : a.r = r
  BY <1>2 DEF Queued
<1> HIDE DEF new
<1>4. ASSUME NEW r \in Readers, ~Queued(r) PROVE ReaderInv(r)'
  <2>1. /\ ReaderInv(r) /\ ~Queued(r)' /\ (Outgoing(r)' <=> Outgoing(r))
        /\ \A a \in ranges' : a.r = r => a \in ranges
    BY <1>1, <1>3, <1>4 DEF DeliveryInv, Queued, Outgoing
  <2>2. Active(r)' <=> Active(r)
    BY <1>1, <2>1 DEF Active
  <2> QED BY <1>1, <1>4, <2>1, <2>2, ReaderFrame
<1>5. ASSUME NEW r \in Readers, Queued(r) PROVE ReaderInv(r)'
  <2>1. /\ ReaderInv(r) /\ ~Queued(r)' /\ ~Outgoing(r)' /\ Active(r)' /\ ~Active(r)
        /\ inbox[r] = <<>> /\ seen[r] = <<>> /\ outcome[r] # "none" /\ r \notin notify /\ r \notin bad
    BY <1>1, <1>3, <1>5 DEF DeliveryInv, ReaderInv, QueueOk, ClosingOk, Queued, Outgoing, Active
  <2>2. SeenOk(r)' /\ InboxOk(r)' /\ (Told(r)' <=> Told(r)) /\ Reached(r)' = Reached(r) /\ ~Told(r)
    BY <1>1, <2>1, ReceivedFrame DEF Told
  <2>3. Position(r)' = From(r)
    <3>1. Position(r)' = Reached(r)
      BY <2>1, <2>2 DEF Position
    <3>2. Reached(r) = From(r)
      BY <2>1, RangeOf DEF Reached, Before, SeenTo, Last
    <3> QED BY <3>1, <3>2
  <2>4. ASSUME NEW a \in ranges', a.r = r PROVE Start(a.offset) = From(r)
    <3>1. a \in new
      BY <1>1, <2>1, <2>4 DEF Active
    <3> QED BY <1>2, <2>4, <3>1 DEF From
  <2>5. SourceOk(r)'
    <3>1. \A a \in ranges' : a.r = r => After(r, Position(r), Start(a.offset))'
      BY <2>3, <2>4, RangeOf DEF After
    <3> QED BY <2>1, <2>2, <3>1 DEF SourceOk
  <2>6. QueueOk(r)' /\ CompleteOk(r)' /\ ClosingOk(r)' /\ BadOk(r)'
    BY <1>1, <2>1 DEF ReaderInv, QueueOk, CompleteOk, ClosingOk, BadOk
  <2> QED BY <2>2, <2>5, <2>6 DEF ReaderInv
<1> QED BY <1>1, <1>4, <1>5 DEF DeliveryInv

\* What handle_range_data needs of a response d to an active read a, and what it does with it.
Continues(a, d) ==
    /\ d.offset = Start(a.offset) /\ d.data = Bytes(d.offset, EndOf(d))
    /\ EndOf(d) <= UpTo(a.r) /\ (d.end => EndOf(d) = UpTo(a.r))

\* A turn of handle_ranges, for the read a it finds: from position p to e, whose data c is
\* handed to the reader, or is dropped for its checksum, or there is none; the read goes on
\* as b, or ends here.
LEMMA DeliveryItem ==
    ASSUME TypeOK, DeliveryInv, pc = "run", NEW a \in ranges, NEW b, NEW c \in Seq(Nat), NEW end \in BOOLEAN,
           NEW p \in Nat, NEW e \in Nat, p <= e, e <= UpTo(a.r), p = Start(a.offset),
           \A x \in ranges : x.r = a.r => x = a,
           b.r = a.r, Start(b.offset) = e,
           ranges' = IF end THEN ranges \ {a} ELSE (ranges \ {a}) \cup {b},
           IF c = <<>> THEN UNCHANGED <<pc, out>> /\ (a.r \in bad' \/ e = p)
                       ELSE pc' = "send" /\ out' = <<a.r, c>> /\ c = Bytes(p, e),
           end => a.r \in cut' \/ (a.r \notin bad' /\ e = UpTo(a.r)),
           bad \subseteq bad', bad' \subseteq bad \cup {a.r}, cut \subseteq cut',
           failed => failed', a.r \in bad' => a.r \in bad \/ failed',
           UNCHANGED <<outcome, seen, inbox, requests, notify, closed>>
    PROVE  DeliveryInv'
<1>1. PICK r \in Readers : r = a.r
  BY ReadFields
<1>4. /\ \A x \in ranges' : x.r # r => x \in ranges
      /\ \A x \in ranges : x.r # r => x \in ranges'
      /\ \A x \in ranges' : x.r = r => x = b /\ ~end
      /\ ~end => b \in ranges'
  BY <1>1
<1>5. ASSUME NEW q \in Readers, q # r PROVE ReaderInv(q)'
  <2>1. (Queued(q)' <=> Queued(q)) /\ (Active(q)' <=> Active(q)) /\ (pc' = "closing" <=> pc = "closing")
    BY <1>4, <1>5 DEF Queued, Active
  <2>2. ~Outgoing(q) /\ ~Outgoing(q)'
    BY <1>1, <1>5 DEF Outgoing
  <2>3. (q \in bad' <=> q \in bad) /\ (q \in cut => q \in cut')
    BY <1>1, <1>5
  <2> QED BY <1>4, <1>5, <2>1, <2>2, <2>3, ReaderFrame DEF DeliveryInv
<1>6. /\ ReaderInv(r) /\ Active(r) /\ ~Outgoing(r) /\ ~Queued(r) /\ ~Queued(r)' /\ outcome[r] # "none"
      /\ r \notin notify
      /\ Outgoing(r)' <=> c # <<>>
      /\ Active(r)' <=> ~end
      /\ Outgoing(r)' => out'[2] = c
  <2>1. ReaderInv(r) /\ Active(r) /\ ~Outgoing(r)
    BY <1>1 DEF DeliveryInv, Active, Outgoing
  <2>2. ~Queued(r) /\ outcome[r] # "none" /\ r \notin notify
    BY <2>1 DEF ReaderInv, QueueOk, ClosingOk
  <2>3. ~Queued(r)'
    BY <2>2 DEF Queued
  <2>4. (Outgoing(r)' <=> c # <<>>) /\ (Outgoing(r)' => out'[2] = c)
    BY <1>1 DEF Outgoing
  <2>5. Active(r)' <=> ~end
    BY <1>1, <1>4 DEF Active
  <2> QED BY <2>1, <2>2, <2>3, <2>4, <2>5
<1>7. SeenOk(r)' /\ InboxOk(r)' /\ (Told(r)' <=> Told(r)) /\ Reached(r)' = Reached(r)
  BY <1>6, ReceivedFrame
<1>8. ASSUME outcome[r] = "open"
      PROVE  /\ ~Told(r) /\ Reached(r) \in Nat /\ After(r, Reached(r), p)
             /\ Outgoing(r)' => Follows(r, c, Reached(r))' /\ Position(r)' = e
             /\ ~Outgoing(r)' => Position(r)' = Reached(r) /\ (r \in bad' \/ e = p)
  <2>1. ~Told(r)
    BY <1>6, <1>8 DEF ReaderInv, SourceOk
  <2>2. Reached(r) \in Nat
    BY <1>6, <1>8, <2>1, Positions
  <2>3. After(r, Reached(r), p)
    BY <1>1, <1>6, <1>8, <2>1 DEF ReaderInv, SourceOk, Position
  <2>4. ASSUME Outgoing(r)' PROVE Follows(r, c, Reached(r))' /\ Position(r)' = e
    <3>1. c # <<>> /\ c = Bytes(p, e) /\ Len(c) \in Nat /\ Len(c) > 0
      BY <1>6, <2>4
    <3>2. Len(Bytes(p, e)) = e - p /\ \A i \in 1..(e - p) : Bytes(p, e)[i] = p + i
      BY BytesFacts
    <3>3. Len(c) = e - p /\ c[1] = p + 1 /\ Last(c) = e /\ p + Len(c) = e
      BY <3>1, <3>2, SMTT(30) DEF Last
    <3>4. c[1] - 1 = p /\ Chunk(c, p)
      BY <3>1, <3>3 DEF Chunk
    <3>5. Position(r)' = e
      BY <1>6, <2>4, <3>3 DEF Position, Last
    <3>6. After(r, Reached(r), p)'
      BY <1>7, <2>3 DEF After
    <3> QED BY <1>1, <3>1, <3>3, <3>4, <3>5, <3>6 DEF Follows, Chunk, Last
  <2>5. ASSUME ~Outgoing(r)' PROVE Position(r)' = Reached(r) /\ (r \in bad' \/ e = p)
    BY <1>1, <1>6, <1>7, <2>5 DEF Position
  <2> QED BY <2>1, <2>2, <2>3, <2>4, <2>5
<1>9. SourceOk(r)'
  <2> SUFFICES ASSUME outcome[r] = "open" PROVE SourceOk(r)'
    BY DEF SourceOk
  <2>1. After(r, Position(r), e)'
    <3>1. CASE Outgoing(r)'
      BY <1>8, <3>1 DEF After
    <3>2. CASE ~Outgoing(r)'
      BY <1>8, <3>2 DEF After
    <3> QED BY <3>1, <3>2
  <2>2. Outgoing(r)' => Follows(r, out[2], Reached(r))'
    BY <1>6, <1>8 DEF Follows, After, Chunk, Last
  <2>3. \A x \in ranges' : x.r = r => After(r, Position(r), Start(x.offset))'
    BY <1>4, <2>1 DEF After
  <2>4. ~Told(r)'
    BY <1>7, <1>8
  <2> QED BY <2>2, <2>3, <2>4 DEF SourceOk
<1>10. CompleteOk(r)'
  <2> SUFFICES ASSUME outcome[r] = "open", end, r \notin bad', r \notin cut' PROVE Position(r)' = UpTo(r)
    BY <1>1, <1>6 DEF ReaderInv, CompleteOk
  <2>1. e = UpTo(r) /\ r \notin bad
    BY <1>1
  <2> QED BY <1>8, <2>1 DEF After
<1>11. QueueOk(r)' /\ ClosingOk(r)' /\ BadOk(r)'
  <2>1. r \in bad' => failed'
    BY <1>1, <1>6 DEF ReaderInv, BadOk
  <2> QED BY <1>6, <2>1 DEF QueueOk, ClosingOk, BadOk
<1> QED BY <1>5, <1>7, <1>9, <1>10, <1>11 DEF DeliveryInv, ReaderInv

\* The first item on the stream, seen from the read it belongs to: an item in order continues
\* the read; one that is not finds a complete read.
LEMMA HeadResponse ==
    ASSUME IInv, pc = "run", resps # <<>>, NEW a \in ranges, NEW d, d = Head(resps), a.id = d.id
    PROVE  /\ d \in Responses
           /\ {b \in ranges : b.id = d.id} = {a}
           /\ \A b \in ranges : b.r = a.r => b = a
           /\ InOrder(a, d) => Continues(a, d)
           /\ ~InOrder(a, d) => a.length = 0 /\ Start(a.offset) = UpTo(a.r)
<1>0. TypeOK /\ WithinObject /\ WorkerInv /\ WireInv
  BY DEF IInv
<1>1. resps \in Seq(Responses)
  BY <1>0 DEF TypeOK
<1>2. d \in Responses /\ 1 \in DOMAIN resps /\ d = resps[1] /\ \A k \in DOMAIN resps : 1 <= k
  BY <1>1, TailElems
<1>3. /\ d.offset \in Nat /\ d.data \in Seq(Nat) /\ Len(d.data) \in Nat /\ d.end \in BOOLEAN
      /\ d.intact \in BOOLEAN /\ EndOf(d) = d.offset + Len(d.data)
  BY <1>2, ResponseFields
<1>4. /\ {b \in ranges : b.id = d.id} = {a}
      /\ \A b \in ranges : b.r = a.r => b = a
      /\ RemainingOk(a)
  BY <1>0 DEF WorkerInv
<1>5. a.length = 0 \/ ReadOk(a)
  BY <1>0 DEF WireInv, Streaming
<1>6. /\ a.r \in Readers /\ a.offset \in (-Size)..Size /\ a.offset \in Int /\ a.length \in Nat
      /\ UpTo(a.r) \in Nat /\ Size \in Nat /\ a \in Reads
  BY <1>0, ReadFields, RangeOf
<1>8. d.data = Bytes(d.offset, EndOf(d))
  BY <1>0, <1>2 DEF WithinObject
<1>9. CASE a.length = 0
  <2>1. a.offset >= 0 /\ a.offset = UpTo(a.r) /\ Start(a.offset) = a.offset
    BY <1>4, <1>6, <1>9 DEF RemainingOk, Unbounded, Start
  <2>2. InOrder(a, d) => d.offset = a.offset /\ Len(d.data) = 0
    BY <1>3, <1>6, <1>9, <2>1 DEF InOrder, Unbounded
  <2> QED BY <1>2, <1>3, <1>4, <1>6, <1>8, <1>9, <2>1, <2>2 DEF Continues
<1>10. CASE a.length # 0
  <2>1. 1 \in Coming(a.id) /\ d.offset = Start(a.offset)
    BY <1>2, <1>5, <1>10 DEF ReadOk, ComingOk, Coming
  <2>2. EndOf(d) <= UpTo(a.r) /\ (d.end => EndOf(d) = UpTo(a.r))
    BY <1>2, <1>5, <1>10, <2>1 DEF ReadOk, ExtentOk
  <2>3. Continues(a, d)
    BY <1>8, <2>1, <2>2 DEF Continues
  <2>4. InOrder(a, d)
    <3>1. a.offset >= 0 => d.offset = a.offset
      BY <1>6, <2>1 DEF Start
    <3>2. a.length = Unbounded \/ Len(d.data) <= a.length
      BY <1>3, <1>4, <1>6, <2>2, <3>1 DEF RemainingOk
    <3> QED BY <3>1, <3>2 DEF InOrder
  <2> QED BY <1>2, <1>4, <2>3, <2>4
<1> QED BY <1>9, <1>10

-----------------------------------------------------------------------------
(***************************************************************************)
(* Types.                                                                  *)
(***************************************************************************)
\* A channel is changed within its capacity.
LEMMA InboxType ==
    ASSUME TypeOK, NEW r \in Readers, NEW v \in Seq(Seq(Nat)), Len(v) <= ChannelSize,
           inbox' = [inbox EXCEPT ![r] = v]
    PROVE  inbox' \in [Readers -> Seq(Seq(Nat))] /\ \A q \in Readers : Len(inbox'[q]) <= ChannelSize
<1> DEFINE T == Seq(Seq(Nat))
<1>1. inbox \in [Readers -> T] /\ (\A q \in Readers : Len(inbox[q]) <= ChannelSize) /\ v \in T
  BY DEF TypeOK
<1> HIDE DEF T
<1>2. inbox' \in [Readers -> T] /\ \A q \in Readers : Len(inbox'[q]) <= ChannelSize
  BY <1>1
<1> QED BY <1>2 DEF T

\* The application.
LEMMA TypeReadRange == ASSUME TypeOK, NEW r \in Readers, read_range(r) PROVE TypeOK'
<1>1. /\ panicked' \in BOOLEAN
      /\ outcome' \in [Readers -> {"none", "open", "eof", "error", "dropped"}]
  BY DEF TypeOK, read_range
<1>2. requests' \in Seq(Readers)
  <2>1. requests \in Seq(Readers)
    BY DEF TypeOK
  <2> QED BY <2>1, AppendElems DEF read_range
<1> QED BY <1>1, <1>2 DEF TypeOK, read_range, worker, net, history

LEMMA TypeNext == ASSUME TypeOK, DeliveryInv, NEW r \in Readers, next(r) PROVE TypeOK'
<1>1. outcome' \in [Readers -> {"none", "open", "eof", "error", "dropped"}]
  BY DEF TypeOK, next
<1>2. ReaderInv(r)
  BY DEF DeliveryInv
<1>3. /\ seen[r] \in Seq(Nat) /\ inbox[r] \in Seq(Seq(Nat)) /\ Len(inbox[r]) \in Nat
      /\ Len(inbox[r]) <= ChannelSize /\ ChannelSize \in Nat
  BY <1>2, Positions, BidiReadAssumption DEF TypeOK
<1>4. inbox[r] # <<>> => /\ Tail(inbox[r]) \in Seq(Seq(Nat)) /\ Len(Tail(inbox[r])) <= ChannelSize
                         /\ Head(inbox[r]) \in Seq(Nat)
  <2> DEFINE T == Seq(Nat)
             q == inbox[r]
  <2>1. q \in Seq(T) /\ Len(q) \in Nat /\ Len(q) <= ChannelSize /\ ChannelSize \in Nat
    BY <1>3
  <2> HIDE DEF T, q
  <2>2. q # <<>> => Tail(q) \in Seq(T) /\ Len(Tail(q)) <= ChannelSize /\ Head(q) \in T
    BY <2>1, TailElems
  <2> QED BY <2>2 DEF T, q
<1>5. inbox' \in [Readers -> Seq(Seq(Nat))] /\ \A q \in Readers : Len(inbox'[q]) <= ChannelSize
  <2>1. CASE inbox' = inbox
    BY <2>1 DEF TypeOK
  <2>2. CASE inbox[r] # <<>> /\ inbox' = [inbox EXCEPT ![r] = Tail(@)]
    BY <1>4, <2>2, InboxType
  <2> QED BY <2>1, <2>2 DEF next
<1>6. seen' \in [Readers -> Seq(Nat)]
  <2>1. CASE seen' = seen
    BY <2>1 DEF TypeOK
  <2>2. CASE inbox[r] # <<>> /\ seen' = [seen EXCEPT ![r] = @ \o Head(inbox[r])]
    <3>1. seen[r] \o Head(inbox[r]) \in Seq(Nat)
      BY <1>3, <1>4, <2>2
    <3> QED BY <2>2, <3>1 DEF TypeOK
  <2> QED BY <2>1, <2>2 DEF next
<1> QED BY <1>1, <1>5, <1>6 DEF TypeOK, next, worker, net, history

LEMMA TypeDrop == ASSUME TypeOK, (\E r \in Readers : DropReader(r)) \/ DropDescriptor PROVE TypeOK'
<1>1. ASSUME NEW r \in Readers, DropReader(r) PROVE TypeOK'
  <2>1. outcome' \in [Readers -> {"none", "open", "eof", "error", "dropped"}]
    BY <1>1 DEF TypeOK, DropReader
  <2>2. inbox' \in [Readers -> Seq(Seq(Nat))] /\ \A q \in Readers : Len(inbox'[q]) <= ChannelSize
    <3> DEFINE v == <<>>
    <3>1. v \in Seq(Seq(Nat)) /\ Len(v) <= ChannelSize /\ inbox' = [inbox EXCEPT ![r] = v]
      BY <1>1, BidiReadAssumption DEF DropReader
    <3> HIDE DEF v
    <3> QED BY <3>1, InboxType
  <2> QED BY <1>1, <2>1, <2>2 DEF TypeOK, DropReader, worker, net, history
<1>2. CASE DropDescriptor
  BY <1>2 DEF TypeOK, DropDescriptor, worker, net, history
<1> QED BY <1>1, <1>2

\* The readers' channels.
LEMMA TypeSend == ASSUME TypeOK, HandlerSend PROVE TypeOK'
<1>1. PICK r \in Readers : r = out[1]
  BY DEF HandlerSend, TypeOK
<1>2. out[2] \in Seq(Nat)
  BY DEF HandlerSend, TypeOK
<1>3. inbox[r] \in Seq(Seq(Nat)) /\ ChannelSize \in Nat
  BY BidiReadAssumption DEF TypeOK
<1>4. Len(inbox[r]) < ChannelSize => /\ Append(inbox[r], out[2]) \in Seq(Seq(Nat))
                                     /\ Len(Append(inbox[r], out[2])) <= ChannelSize
  <2> DEFINE T == Seq(Nat)
             q == inbox[r]
             c == out[2]
  <2>1. q \in Seq(T) /\ c \in T /\ ChannelSize \in Nat
    BY <1>2, <1>3
  <2> HIDE DEF T, q, c
  <2>2. Len(q) < ChannelSize => Append(q, c) \in Seq(T) /\ Len(Append(q, c)) <= ChannelSize
    BY <2>1, AppendElems
  <2> QED BY <2>2 DEF T, q, c
<1>5. inbox' \in [Readers -> Seq(Seq(Nat))] /\ \A q \in Readers : Len(inbox'[q]) <= ChannelSize
  <2>1. CASE inbox' = inbox
    BY <2>1 DEF TypeOK
  <2>2. CASE Len(inbox[r]) < ChannelSize /\ inbox' = [inbox EXCEPT ![r] = Append(@, out[2])]
    BY <1>4, <2>2, InboxType
  <2> QED BY <1>1, <2>1, <2>2 DEF HandlerSend
<1> QED BY <1>5 DEF TypeOK, HandlerSend, app, net, history

LEMMA TypeTell ==
    ASSUME TypeOK, NEW r \in Readers, Len(inbox[r]) < ChannelSize,
           inbox' = [inbox EXCEPT ![r] = Append(@, Error)]
    PROVE  inbox' \in [Readers -> Seq(Seq(Nat))] /\ \A q \in Readers : Len(inbox'[q]) <= ChannelSize
<1>1. Append(inbox[r], Error) \in Seq(Seq(Nat)) /\ Len(Append(inbox[r], Error)) <= ChannelSize
  <2> DEFINE T == Seq(Nat)
             q == inbox[r]
             c == Error
  <2>1. q \in Seq(T) /\ c \in T /\ ChannelSize \in Nat /\ Len(q) < ChannelSize
    BY BidiReadAssumption DEF TypeOK, Error
  <2> HIDE DEF T, q, c
  <2>2. Append(q, c) \in Seq(T) /\ Len(Append(q, c)) <= ChannelSize
    BY <2>1, AppendElems
  <2> QED BY <2>2 DEF T, q, c
<1> QED BY <1>1, InboxType

LEMMA TypeClosing ==
    ASSUME TypeOK, DeliveryInv,
           (\E r \in Readers : close_reader(r)) \/ FutureReader \/ ReadersClosed \/ Returns,
           pc # "send", todo = 0, ~failed
    PROVE  TypeOK'
<1>1. ASSUME NEW r \in Readers, close_reader(r) PROVE TypeOK'
  <2>1. inbox' \in [Readers -> Seq(Seq(Nat))] /\ \A q \in Readers : Len(inbox'[q]) <= ChannelSize
    <3>1. CASE inbox' = inbox
      BY <3>1 DEF TypeOK
    <3>2. CASE inbox' # inbox
      BY <1>1, <3>2, TypeTell DEF close_reader
    <3> QED BY <3>1, <3>2
  <2> QED BY <1>1, <2>1 DEF TypeOK, close_reader, app, net, history
<1>2. CASE FutureReader
  <2>1. requests \in Seq(Readers) /\ requests # <<>>
    BY <1>2 DEF FutureReader, TypeOK
  <2>2. Tail(requests) \in Seq(Readers) /\ Head(requests) \in Readers /\ 1 \in DOMAIN requests /\ Head(requests) = requests[1]
    BY <2>1, TailElems
  <2>3. PICK r \in Readers : r = Head(requests)
    BY <2>2
  <2>4. inbox[r] = <<>>
    BY <2>2, <2>3 DEF DeliveryInv, ReaderInv, QueueOk, Queued
  <2>5. inbox' \in [Readers -> Seq(Seq(Nat))] /\ \A q \in Readers : Len(inbox'[q]) <= ChannelSize
    <3>1. CASE outcome[r] = "dropped"
      <4>1. inbox' = inbox
        BY <1>2, <2>3, <3>1 DEF FutureReader, TypeOK
      <4> QED BY <4>1 DEF TypeOK
    <3>2. CASE outcome[r] # "dropped"
      <4>1. inbox' = [inbox EXCEPT ![r] = Append(@, Error)]
        BY <1>2, <2>3, <3>2 DEF FutureReader
      <4>2. Len(inbox[r]) < ChannelSize
        BY <2>4, BidiReadAssumption
      <4> QED BY <4>1, <4>2, TypeTell
    <3> QED BY <3>1, <3>2
  <2> QED BY <1>2, <2>2, <2>5 DEF TypeOK, FutureReader, app, worker, net, history
<1>3. CASE ReadersClosed
  BY <1>3 DEF TypeOK, ReadersClosed, Disconnect, app, history
<1>4. CASE Returns
  BY <1>4 DEF TypeOK, Returns, Disconnect, app, history
<1> QED BY <1>1, <1>2, <1>3, <1>4

-----------------------------------------------------------------------------
(***************************************************************************)
(* The worker's reads and the object.                                      *)
(***************************************************************************)
\* What a stream is asked for, for one read.
LEMMA ProtoOf ==
    ASSUME NEW a \in Reads, RemainingOk(a), a.offset \in (-Size)..Size
    PROVE  /\ as_proto(a) \in Protos /\ as_proto(a).id = a.id /\ as_proto(a).offset = a.offset
           /\ as_proto(a).length # 0 => a.offset >= 0 /\ a.offset + as_proto(a).length <= Size
           /\ a.length # 0 => End(as_proto(a).offset, as_proto(a).length) = UpTo(a.r)
<1>1. a.id \in Nat /\ a.r \in Readers /\ a.offset \in Int /\ a.length \in Nat
  BY DEF Reads
<1>2. /\ Size \in Nat /\ UpTo(a.r) \in Nat /\ UpTo(a.r) <= Size
      /\ Limit(a.r) = 0 => UpTo(a.r) = Size
  BY <1>1, RangeOf
<1>3. as_proto(a) = [id |-> a.id, offset |-> a.offset, length |-> IF a.length = Unbounded THEN 0 ELSE a.length]
  BY DEF as_proto
<1>4. as_proto(a) \in Protos
  BY <1>1, <1>3 DEF Protos
<1>5. as_proto(a).length # 0 => a.length # Unbounded /\ as_proto(a).length = a.length
  BY <1>3
<1>6. a.length # Unbounded => a.offset >= 0 /\ a.offset + a.length = UpTo(a.r)
  BY DEF RemainingOk
<1>7. a.length = Unbounded => Limit(a.r) = 0 /\ as_proto(a).length = 0
  BY <1>3 DEF RemainingOk
<1>8. a.length # Unbounded => as_proto(a).length = a.length
  BY <1>3
<1> QED BY <1>1, <1>2, <1>3, <1>4, <1>5, <1>6, <1>7, <1>8 DEF End

\* The reads that insert_ranges makes of the queued requests.
NewReads == {ActiveRead(next_range_id + i - 1, requests[i]) : i \in DOMAIN requests}

LEMMA NewReadsOk ==
    ASSUME TypeOK, DeliveryInv
    PROVE  /\ \A a \in NewReads : /\ a \in Reads /\ a.offset \in (-Size)..Size
                                  /\ next_range_id <= a.id /\ a.id < next_range_id + Len(requests)
                                  /\ RemainingOk(a) /\ Queued(a.r)
           /\ \A a, b \in NewReads : a.id = b.id \/ a.r = b.r => a = b
<1>1. /\ requests \in Seq(Readers) /\ next_range_id \in Nat /\ Len(requests) \in Nat
      /\ DOMAIN requests = 1..Len(requests)
  BY DEF TypeOK
<1>2. ASSUME NEW i \in DOMAIN requests, NEW a, a = ActiveRead(next_range_id + i - 1, requests[i])
      PROVE  /\ a \in Reads /\ a.offset \in (-Size)..Size
             /\ a.id = next_range_id + i - 1 /\ a.r = requests[i]
             /\ RemainingOk(a)
  <2>1. requests[i] \in Readers /\ i \in Nat \ {0}
    BY <1>1
  <2>2. PICK r \in Readers : r = requests[i]
    BY <2>1
  <2>3. PICK n \in Nat : n = next_range_id + i - 1
    BY <1>1, <2>1
  <2>4. a = [id |-> n, r |-> r, offset |-> Offset(r), length |-> IF Limit(r) = 0 THEN Unbounded ELSE Limit(r)]
    BY <1>2, <2>2, <2>3 DEF ActiveRead
  <2>5. /\ Offset(r) \in Int /\ Limit(r) \in Nat /\ Limit(r) <= Size /\ Size \in Nat
        /\ From(r) \in Nat /\ UpTo(r) \in Nat
        /\ Offset(r) \in (-Size)..Size
        /\ From(r) = Start(Offset(r))
        /\ (Limit(r) # 0 => Offset(r) >= 0 /\ UpTo(r) = Offset(r) + Limit(r))
    BY RangeOf
  <2>6. Unbounded \in Nat /\ Limit(r) # Unbounded
    BY <2>5 DEF Unbounded
  <2>7. a.id = n /\ a.r = r /\ a.offset = Offset(r) /\ a.length = IF Limit(r) = 0 THEN Unbounded ELSE Limit(r)
    BY <2>4
  <2>8. a \in Reads
    BY <2>4, <2>5, <2>6 DEF Reads
  <2>9. RemainingOk(a)
    BY <2>5, <2>6, <2>7 DEF RemainingOk
  <2> QED BY <2>2, <2>3, <2>5, <2>7, <2>8, <2>9
<1>3. ASSUME NEW a \in NewReads
      PROVE  \E i \in DOMAIN requests : a = ActiveRead(next_range_id + i - 1, requests[i])
  BY Zenon DEF NewReads
<1>4. ASSUME NEW a \in NewReads
      PROVE  /\ a \in Reads /\ a.offset \in (-Size)..Size
             /\ next_range_id <= a.id /\ a.id < next_range_id + Len(requests)
             /\ RemainingOk(a) /\ Queued(a.r)
  <2>1. PICK i \in DOMAIN requests : a = ActiveRead(next_range_id + i - 1, requests[i])
    BY <1>3
  <2>2. /\ a \in Reads /\ a.offset \in (-Size)..Size /\ a.id = next_range_id + i - 1 /\ a.r = requests[i]
        /\ RemainingOk(a)
    BY <1>2, <2>1
  <2> QED BY <1>1, <2>2 DEF Queued
<1>5. ASSUME NEW a \in NewReads, NEW b \in NewReads, a.id = b.id \/ a.r = b.r PROVE a = b
  <2>1. PICK i \in DOMAIN requests : a = ActiveRead(next_range_id + i - 1, requests[i])
    BY <1>3
  <2>2. PICK j \in DOMAIN requests : b = ActiveRead(next_range_id + j - 1, requests[j])
    BY <1>3
  <2>3. a.id = next_range_id + i - 1 /\ a.r = requests[i]
    BY <1>2, <2>1
  <2>4. b.id = next_range_id + j - 1 /\ b.r = requests[j]
    BY <1>2, <2>2
  <2>5. i = j
    BY <1>1, <1>5, <2>3, <2>4 DEF DeliveryInv
  <2> QED BY <2>1, <2>2, <2>5
<1> QED BY <1>4, <1>5

\* What insert_ranges does to the stream and to the worker.
LEMMA InsertEffect ==
    ASSUME TypeOK, DeliveryInv, WorkerInv, insert_ranges
    PROVE  /\ pc = "run" /\ ~failed /\ ranges' = ranges \cup NewReads
           /\ next_range_id' = next_range_id + Len(requests) /\ requests' = <<>>
           /\ UNCHANGED <<app, inbox, pc, out, reconnect_attempts, notify, stream, resps, serving,
                          faults, todo, failed, history>>
           /\ reqs' = IF stream = "open" THEN Append(reqs, {as_proto(a) : a \in NewReads}) ELSE reqs
           /\ next_range_id' \in Nat /\ next_range_id <= next_range_id'
           /\ {as_proto(a) : a \in NewReads} \in SUBSET Protos
<1>1. /\ pc = "run" /\ ~failed /\ ranges' = ranges \cup NewReads
      /\ next_range_id' = next_range_id + Len(requests) /\ requests' = <<>>
      /\ UNCHANGED <<app, inbox, pc, out, reconnect_attempts, notify, stream, resps, serving,
                     faults, todo, failed, history>>
      /\ reqs' = IF stream = "open" THEN Append(reqs, {as_proto(a) : a \in NewReads}) ELSE reqs
  BY Zenon DEF insert_ranges, NewReads, Sent, Selecting
<1>2. next_range_id' \in Nat /\ next_range_id <= next_range_id'
  BY <1>1 DEF TypeOK
<1>3. \A a \in NewReads : as_proto(a) \in Protos
  BY NewReadsOk, ProtoOf
<1>4. {as_proto(a) : a \in NewReads} \in SUBSET Protos
  BY <1>3
<1> QED BY <1>1, <1>2, <1>4

LEMMA InsertWorker ==
    ASSUME TypeOK, DeliveryInv, WithinObject, WorkerInv, insert_ranges
    PROVE  TypeOK' /\ WithinObject' /\ WorkerInv'
<1> DEFINE P == {as_proto(a) : a \in NewReads}
<1>1. /\ pc = "run" /\ ~failed /\ ranges' = ranges \cup NewReads
      /\ next_range_id' = next_range_id + Len(requests) /\ requests' = <<>>
      /\ UNCHANGED <<app, inbox, pc, out, reconnect_attempts, notify, stream, resps, serving,
                     faults, todo, failed, history>>
      /\ reqs' = IF stream = "open" THEN Append(reqs, P) ELSE reqs
      /\ next_range_id' \in Nat /\ next_range_id <= next_range_id'
      /\ P \in SUBSET Protos /\ next_range_id \in Nat
  BY InsertEffect DEF TypeOK
<1>2. /\ \A a \in NewReads : /\ a \in Reads /\ a.offset \in (-Size)..Size
                             /\ next_range_id <= a.id /\ a.id < next_range_id'
                             /\ RemainingOk(a) /\ Queued(a.r)
      /\ \A a, b \in NewReads : a.id = b.id \/ a.r = b.r => a = b
  BY <1>1, NewReadsOk
<1>3. ASSUME NEW p \in P PROVE p.offset \in (-Size)..Size /\ p.id < next_range_id' /\ (p.length # 0 => p.offset >= 0 /\ p.offset + p.length <= Size)
  <2>1. PICK a \in NewReads : p = as_proto(a)
    OBVIOUS
  <2> QED BY <1>2, <2>1, ProtoOf
<1> HIDE DEF P
<1>4. reqs \in Seq(SUBSET Protos)
  BY DEF TypeOK
<1>5. reqs' \in Seq(SUBSET Protos) /\ \A i \in DOMAIN reqs' : (i \in DOMAIN reqs /\ reqs'[i] = reqs[i]) \/ reqs'[i] = P
  BY <1>1, <1>4, AppendElems
<1>6. TypeOK'
  <2>1. ranges' \subseteq Reads /\ \A a \in ranges' : a.id < next_range_id' /\ a.offset \in (-Size)..Size
    <3>1. \A a \in ranges : a \in Reads /\ a.id \in Nat /\ a.id < next_range_id /\ a.offset \in (-Size)..Size
      BY ReadFields
    <3>2. \A a \in ranges : a.id < next_range_id'
      BY <1>1, <3>1
    <3> QED BY <1>1, <1>2, <3>1, <3>2
  <2>2. requests' \in Seq(Readers)
    BY <1>1
  <2> QED BY <1>1, <1>5, <2>1, <2>2 DEF TypeOK, app, history
<1>7. WithinObject'
  <2>1. ASSUME NEW i \in DOMAIN reqs', NEW p \in reqs'[i]
        PROVE  p.offset \in (-Size)..Size /\ p.id < next_range_id' /\ (p.length # 0 => p.offset >= 0 /\ p.offset + p.length <= Size)
    <3>1. CASE i \in DOMAIN reqs /\ reqs'[i] = reqs[i]
      <4>1. p.id \in Nat /\ p.id < next_range_id
        BY <2>1, <3>1, ProtoFields DEF WithinObject
      <4>2. p.id < next_range_id'
        BY <1>1, <4>1
      <4> QED BY <2>1, <3>1, <4>2 DEF WithinObject
    <3>2. CASE reqs'[i] = P
      BY <1>3, <2>1, <3>2
    <3> QED BY <1>5, <3>1, <3>2
  <2>2. ASSUME NEW s \in serving PROVE s.offset <= s.upto /\ s.upto <= Size /\ s.id < next_range_id'
    <3>1. s.id \in Nat /\ s.id < next_range_id
      BY ServedFields DEF WithinObject
    <3> QED BY <1>1, <3>1 DEF WithinObject
  <2>3. ASSUME NEW k \in DOMAIN resps
        PROVE  /\ resps[k].data = Bytes(resps[k].offset, EndOf(resps[k]))
               /\ EndOf(resps[k]) <= Size /\ resps[k].id < next_range_id'
    <3>1. resps[k].id \in Nat /\ resps[k].id < next_range_id
      BY RespsFields, ResponseFields DEF WithinObject
    <3> QED BY <1>1, <3>1 DEF WithinObject
  <2> QED BY <1>1, <2>1, <2>2, <2>3 DEF WithinObject, EndOf, Bytes
<1>8. WorkerInv'
  <2>1. ASSUME NEW a \in ranges', NEW b \in ranges', a.id = b.id \/ a.r = b.r PROVE a = b
    <3>1. ASSUME NEW x \in ranges, NEW y \in NewReads PROVE x.id # y.id /\ x.r # y.r
      <4>1. x.id \in Nat /\ x.id < next_range_id /\ x.r \in Readers
        BY ReadFields
      <4>2. y \in Reads /\ next_range_id <= y.id /\ Queued(y.r)
        BY <1>2
      <4>3. y.id \in Nat /\ y.r \in Readers
        BY <4>2 DEF Reads
      <4>4. ~Active(y.r)
        BY <4>2, <4>3 DEF DeliveryInv, ReaderInv, QueueOk
      <4> QED BY <1>1, <4>1, <4>2, <4>3, <4>4 DEF Active
    <3> QED BY <1>1, <1>2, <2>1, <3>1 DEF WorkerInv
  <2>2. \A a \in ranges' : RemainingOk(a)
    BY <1>1, <1>2 DEF WorkerInv
  <2> QED BY <1>1, <2>1, <2>2 DEF WorkerInv, history, RemainingOk, Start, From, UpTo, Unbounded, End
<1> QED BY <1>6, <1>7, <1>8

\* The service answers for a range s with d, and goes on with what is in X or with nothing.
Responds(s, d, X) ==
    /\ s \in serving /\ d \in Responses /\ d.id = s.id /\ d.offset = s.offset
    /\ d.data = Bytes(d.offset, EndOf(d)) /\ EndOf(d) <= s.upto /\ (d.end => EndOf(d) = s.upto)
    /\ resps' = Append(resps, d) /\ serving' = (serving \ {s}) \cup X
    /\ (X = {} /\ d.end) \/ (X = {[s EXCEPT !.offset = EndOf(d)]} /\ ~d.end)
    /\ faults' \in 0..MaxFaults
    /\ UNCHANGED <<client, stream, reqs, history>>

\* The data of a response lies within what is being served.
LEMMA DataFacts ==
    ASSUME TypeOK, WithinObject, NEW s \in serving, NEW n \in Nat, n <= s.upto - s.offset,
           NEW end \in BOOLEAN, NEW intact \in BOOLEAN, NEW d, d = Data(s, n, end, intact)
    PROVE  /\ d \in Responses /\ d.id = s.id /\ d.offset = s.offset /\ EndOf(d) = s.offset + n
           /\ d.data = Bytes(d.offset, EndOf(d)) /\ EndOf(d) <= s.upto /\ d.end = end /\ d.intact = intact
<1>1. s.id \in Nat /\ s.offset \in Nat /\ s.upto \in Nat
  BY ServedFields
<1>2. s.offset + n \in Nat /\ s.offset <= s.offset + n /\ s.offset + n <= s.upto
  BY <1>1
<1> DEFINE x == s.offset
           y == s.offset + n
<1>3. x \in Nat /\ y \in Nat /\ x <= y /\ y - x = n
  BY <1>1, <1>2
<1>4. d = [id |-> s.id, offset |-> x, data |-> Bytes(x, y), end |-> end, intact |-> intact]
  BY DEF Data
<1> HIDE DEF x, y
<1>5. Bytes(x, y) \in Seq(Nat) /\ Len(Bytes(x, y)) = n
  BY <1>3, BytesFacts
<1>6. d.id = s.id /\ d.offset = x /\ d.data = Bytes(x, y) /\ d.end = end /\ d.intact = intact
  BY <1>4
<1>7. d \in Responses
  BY <1>1, <1>3, <1>4, <1>5 DEF Responses
<1>8. EndOf(d) = x + n
  BY <1>5, <1>6 DEF EndOf
<1>9. EndOf(d) = y
  BY <1>8 DEF x, y
<1> QED BY <1>2, <1>6, <1>7, <1>9 DEF x, y

LEMMA RespondResponds ==
    ASSUME TypeOK, WithinObject, NEW s \in serving, NEW n \in Nat, NEW end \in BOOLEAN, NEW intact \in BOOLEAN,
           Respond(s, n, end, intact), faults' \in 0..MaxFaults
    PROVE  Live /\ \E d, X : Responds(s, d, X)
<1>0. n \in Nat /\ s.offset \in Nat /\ s.upto \in Nat /\ s \in Served
  BY ServedFields
<1> DEFINE d == Data(s, n, end, intact)
           X == IF end THEN {} ELSE {[s EXCEPT !.offset = @ + n]}
<1>1. /\ Live /\ n <= s.upto - s.offset /\ (end => n = s.upto - s.offset)
      /\ resps' = Append(resps, d) /\ serving' = (serving \ {s}) \cup X
      /\ UNCHANGED <<client, stream, reqs, history>>
  BY DEF Respond
<1> HIDE DEF d
<1>2. /\ d \in Responses /\ d.id = s.id /\ d.offset = s.offset /\ EndOf(d) = s.offset + n
      /\ d.data = Bytes(d.offset, EndOf(d)) /\ EndOf(d) <= s.upto /\ d.end = end
  BY <1>1, DataFacts DEF d
<1>3. d.end => EndOf(d) = s.upto
  BY <1>0, <1>1, <1>2
<1>4. (X = {} /\ d.end) \/ (X = {[s EXCEPT !.offset = EndOf(d)]} /\ ~d.end)
  BY <1>2
<1> HIDE DEF X
<1>5. Responds(s, d, X)
  BY <1>1, <1>2, <1>3, <1>4 DEF Responds
<1> QED BY <1>1, <1>5

LEMMA ServeResponds ==
    ASSUME TypeOK, WithinObject, NEW s \in serving, NEW n \in 0..MaxChunk, NEW end \in BOOLEAN, Serve(s, n, end)
    PROVE  Live /\ \E d, X : Responds(s, d, X)
<1>1. PICK ok \in BOOLEAN : ok = TRUE
  OBVIOUS
<1>2. Respond(s, n, end, ok) /\ faults' = faults
  BY <1>1 DEF Serve
<1>3. n \in Nat /\ faults' \in 0..MaxFaults
  BY <1>2, BidiReadAssumption DEF TypeOK
<1> QED BY <1>2, <1>3, RespondResponds

LEMMA CorruptResponds ==
    ASSUME TypeOK, WithinObject, NEW s \in serving, NEW n \in 1..MaxChunk, NEW end \in BOOLEAN, Corrupt(s, n, end)
    PROVE  Live /\ \E d, X : Responds(s, d, X)
<1>1. PICK ok \in BOOLEAN : ok = FALSE
  OBVIOUS
<1>2. Respond(s, n, end, ok) /\ faults < MaxFaults /\ faults' = faults + 1
  BY <1>1 DEF Corrupt
<1>3. n \in Nat /\ faults' \in 0..MaxFaults
  BY <1>2, BidiReadAssumption DEF TypeOK
<1> QED BY <1>2, <1>3, RespondResponds

LEMMA RespondsWorker ==
    ASSUME TypeOK, WithinObject, WorkerInv, Live, NEW s, NEW d, NEW X, Responds(s, d, X)
    PROVE  TypeOK' /\ WithinObject' /\ WorkerInv'
<1>1. /\ s \in serving /\ d \in Responses /\ d.id = s.id /\ d.offset = s.offset
      /\ d.data = Bytes(d.offset, EndOf(d)) /\ EndOf(d) <= s.upto
      /\ resps' = Append(resps, d) /\ serving' = (serving \ {s}) \cup X
      /\ X = {} \/ X = {[s EXCEPT !.offset = EndOf(d)]}
      /\ faults' \in 0..MaxFaults
      /\ UNCHANGED <<client, stream, reqs, history>>
  BY DEF Responds
<1>2. /\ s \in Served /\ s.id \in Nat /\ s.offset \in Nat /\ s.upto \in Nat /\ s.upto <= Size
      /\ s.id < next_range_id /\ Size \in Nat
  BY <1>1, ServedFields, BidiReadAssumption DEF WithinObject
<1>3. EndOf(d) \in Nat
  BY <1>1, ResponseFields
<1>4. \A u \in X : u \in Served /\ u.id = s.id /\ u.offset = EndOf(d) /\ u.upto = s.upto
  BY <1>1, <1>2, <1>3 DEF Served
<1>5. /\ resps' \in Seq(Responses)
      /\ \A k \in DOMAIN resps' : (k \in DOMAIN resps /\ resps'[k] = resps[k]) \/ resps'[k] = d
      /\ todo \in 0..Len(resps')
  <2>1. resps \in Seq(Responses) /\ todo \in 0..Len(resps)
    BY DEF TypeOK
  <2> QED BY <1>1, <2>1, AppendElems
<1>6. serving' \subseteq Served
  BY <1>1, <1>4 DEF TypeOK
<1>7. TypeOK'
  BY <1>1, <1>5, <1>6 DEF TypeOK, client, app, worker, history
<1>8. WithinObject'
  <2>1. \A u \in serving' : u.offset <= u.upto /\ u.upto <= Size /\ u.id < next_range_id
    BY <1>1, <1>2, <1>4 DEF WithinObject
  <2>2. \A k \in DOMAIN resps' :
         /\ resps'[k].data = Bytes(resps'[k].offset, EndOf(resps'[k]))
         /\ EndOf(resps'[k]) <= Size /\ resps'[k].id < next_range_id
    BY <1>1, <1>2, <1>3, <1>5 DEF WithinObject
  <2> QED BY <1>1, <2>1, <2>2 DEF WithinObject, client, worker, EndOf, Bytes
<1>9. WorkerInv'
  BY <1>1 DEF WorkerInv, client, worker, history, Live, RemainingOk, Start, From, UpTo, Unbounded, End
<1> QED BY <1>7, <1>8, <1>9

\* What TakeRequest makes of a request.
Serving(p) == [id |-> p.id, offset |-> Start(p.offset), upto |-> End(p.offset, p.length)]

LEMMA TakenFacts ==
    ASSUME TypeOK, WithinObject, NEW i \in DOMAIN reqs, NEW p \in reqs[i]
    PROVE  /\ Serving(p) \in Served /\ Serving(p).id = p.id /\ Serving(p).offset = Start(p.offset)
           /\ Serving(p).upto = End(p.offset, p.length) /\ Serving(p).id < next_range_id
           /\ Serving(p).offset <= Serving(p).upto /\ Serving(p).upto <= Size
<1>1. p.id \in Nat /\ p.offset \in Int /\ p.length \in Nat
  BY ProtoFields
<1>2. /\ p.offset \in (-Size)..Size /\ p.id < next_range_id /\ Size \in Nat
      /\ p.length # 0 => p.offset >= 0 /\ p.offset + p.length <= Size
  BY BidiReadAssumption DEF WithinObject
<1>3. /\ Start(p.offset) \in Nat /\ End(p.offset, p.length) \in Nat
      /\ Start(p.offset) <= End(p.offset, p.length) /\ End(p.offset, p.length) <= Size
  BY <1>1, <1>2 DEF Start, End
<1>4. Serving(p).id = p.id /\ Serving(p).offset = Start(p.offset) /\ Serving(p).upto = End(p.offset, p.length)
  BY DEF Serving
<1>5. Serving(p) \in Served
  BY <1>1, <1>3 DEF Serving, Served
<1> QED BY <1>2, <1>3, <1>4, <1>5

LEMMA TakeEffect ==
    ASSUME TypeOK, TakeRequest
    PROVE  /\ Live /\ 1 \in DOMAIN reqs /\ reqs' \in Seq(SUBSET Protos)
           /\ serving' = serving \cup {Serving(p) : p \in reqs[1]}
           /\ \A k \in DOMAIN reqs' : k \in Nat \ {0} /\ k + 1 \in DOMAIN reqs /\ reqs'[k] = reqs[k + 1]
           /\ \A k \in DOMAIN reqs : k = 1 \/ (k \in Nat /\ k - 1 \in DOMAIN reqs' /\ k > 1)
           /\ UNCHANGED <<client, stream, resps, faults, history>>
<1>1. /\ Live /\ reqs # <<>> /\ reqs' = Tail(reqs)
      /\ serving' = serving \cup {Serving(p) : p \in Head(reqs)}
      /\ UNCHANGED <<client, stream, resps, faults, history>>
  BY Zenon DEF TakeRequest, Serving
<1>2. reqs \in Seq(SUBSET Protos)
  BY DEF TypeOK
<1>3. /\ Tail(reqs) \in Seq(SUBSET Protos) /\ 1 \in DOMAIN reqs /\ Head(reqs) = reqs[1]
      /\ \A k \in DOMAIN Tail(reqs) : k \in Nat \ {0} /\ k + 1 \in DOMAIN reqs /\ Tail(reqs)[k] = reqs[k + 1]
      /\ \A k \in DOMAIN reqs : k = 1 \/ (k \in Nat /\ k - 1 \in DOMAIN Tail(reqs) /\ k > 1)
  BY <1>1, <1>2, TailElems
<1> QED BY <1>1, <1>3

LEMMA TakeWorker ==
    ASSUME TypeOK, WithinObject, WorkerInv, TakeRequest
    PROVE  TypeOK' /\ WithinObject' /\ WorkerInv'
<1>1. /\ Live /\ 1 \in DOMAIN reqs /\ reqs' \in Seq(SUBSET Protos)
      /\ serving' = serving \cup {Serving(p) : p \in reqs[1]}
      /\ \A k \in DOMAIN reqs' : k \in Nat \ {0} /\ k + 1 \in DOMAIN reqs /\ reqs'[k] = reqs[k + 1]
      /\ UNCHANGED <<client, stream, resps, faults, history>>
  BY TakeEffect
<1>2. \A s \in serving' : s \in serving \/ \E p \in reqs[1] : s = Serving(p)
  BY <1>1
<1>3. serving' \subseteq Served
  BY <1>1, <1>2, TakenFacts DEF TypeOK
<1>4. TypeOK'
  BY <1>1, <1>3 DEF TypeOK, client, app, worker, history
<1>5. \A s \in serving' : s.offset <= s.upto /\ s.upto <= Size /\ s.id < next_range_id
  BY <1>1, <1>2, TakenFacts DEF WithinObject
<1>6. WithinObject'
  BY <1>1, <1>5 DEF WithinObject, client, worker, EndOf, Bytes
<1>7. WorkerInv'
  BY <1>1 DEF WorkerInv, client, worker, history, Live, RemainingOk, Start, From, UpTo, Unbounded, End
<1> QED BY <1>4, <1>6, <1>7

\* A turn of handle_ranges for the item d: it belongs to the read a, or to none.
Handles(a, d) ==
    /\ a.id = d.id
    /\ ranges' = IF d.end THEN ranges \ {a}
                 ELSE (ranges \ {a}) \cup {IF InOrder(a, d) THEN update(a, d) ELSE a}
    /\ failed' = (failed \/ ~Valid(a, d))
    /\ bad' = bad \cup (IF InOrder(a, d) /\ ~d.intact THEN {a.r} ELSE {})
    /\ cut' = cut \cup (IF d.end /\ a.r \in bad' THEN {a.r} ELSE {})
    /\ IF Valid(a, d) /\ d.data # <<>> THEN pc' = "send" /\ out' = <<a.r, d.data>> ELSE UNCHANGED <<pc, out>>
Unknown(d) ==
    /\ \A a \in ranges : a.id # d.id
    /\ failed' /\ UNCHANGED <<ranges, bad, cut, pc, out>>

LEMMA HandleEffect ==
    ASSUME IInv, NEW n \in 1..MaxResponses, handle_range_data(n)
    PROVE  /\ pc = "run" /\ resps # <<>> /\ resps' = Tail(resps) /\ Head(resps) \in Responses
           /\ n \in 1..Len(resps) /\ todo' = n - 1
           /\ UNCHANGED <<app, inbox, requests, next_range_id, reconnect_attempts, notify, stream, reqs,
                          serving, faults, closed>>
           /\ Unknown(Head(resps)) \/ \E a \in ranges : Handles(a, Head(resps))
<1>1. PICK d : d = Head(resps)
  OBVIOUS
<1> DEFINE here    == {a \in ranges : a.id = d.id}
           rest    == ranges \ here
           ok      == here # {} /\ \A a \in here : Valid(a, d)
           dropped == {a \in here : InOrder(a, d) /\ ~d.intact}
<1>2. /\ pc = "run" /\ n \in 1..Len(resps) /\ todo' = n - 1 /\ resps' = Tail(resps)
      /\ UNCHANGED <<app, inbox, requests, next_range_id, reconnect_attempts, notify, stream, reqs,
                     serving, faults, closed>>
  BY DEF handle_range_data, InHand
<1>3. resps # <<>> /\ d \in Responses
  <2>1. resps \in Seq(Responses)
    BY DEF IInv, TypeOK
  <2>2. resps # <<>>
    BY <1>2, <2>1
  <2> QED BY <1>1, <2>1, <2>2, TailElems
<1>4. /\ ranges' = IF d.end THEN rest
                   ELSE rest \cup {IF InOrder(a, d) THEN update(a, d) ELSE a : a \in here}
      /\ failed' = (failed \/ ~ok)
      /\ bad' = bad \cup {a.r : a \in dropped}
      /\ cut' = cut \cup {a.r : a \in {b \in here : d.end /\ b.r \in bad'}}
      /\ IF ok /\ d.data # <<>>
           THEN pc' = "send" /\ \E a \in here : out' = <<a.r, d.data>>
           ELSE UNCHANGED <<pc, out>>
  BY <1>1, Zenon DEF handle_range_data
<1>5. CASE here = {}
  <2>1. ~ok /\ rest = ranges /\ dropped = {}
    BY <1>5
  <2>2. {IF InOrder(a, d) THEN update(a, d) ELSE a : a \in here} = {}
    BY <1>5
  <2>3. {a.r : a \in dropped} = {} /\ {a.r : a \in {b \in here : d.end /\ b.r \in bad'}} = {}
    BY <1>5, <2>1
  <2>4. ranges' = ranges /\ failed' /\ bad' = bad /\ cut' = cut /\ UNCHANGED <<pc, out>>
    BY <1>4, <2>1, <2>2, <2>3
  <2>5. Unknown(d)
    BY <1>5, <2>4 DEF Unknown
  <2> QED BY <1>1, <1>2, <1>3, <2>5
<1>6. CASE here # {}
  <2>1. PICK a \in ranges : a.id = d.id
    BY <1>6
  <2>2. here = {a}
    BY <1>1, <1>2, <1>3, <2>1, HeadResponse
  <2>3. ok <=> Valid(a, d)
    BY <2>2
  <2>4. /\ {IF InOrder(x, d) THEN update(x, d) ELSE x : x \in here} = {IF InOrder(a, d) THEN update(a, d) ELSE a}
        /\ {x.r : x \in dropped} = IF InOrder(a, d) /\ ~d.intact THEN {a.r} ELSE {}
        /\ {x.r : x \in {b \in here : d.end /\ b.r \in bad'}} = IF d.end /\ a.r \in bad' THEN {a.r} ELSE {}
    BY <2>2
  <2>5. (\E x \in here : out' = <<x.r, d.data>>) <=> out' = <<a.r, d.data>>
    BY <2>2
  <2>6. rest = ranges \ {a}
    BY <2>2
  <2> HIDE DEF here, rest, ok, dropped
  <2>7. Handles(a, d)
    BY <1>4, <2>1, <2>3, <2>4, <2>5, <2>6 DEF Handles
  <2> QED BY <1>1, <1>2, <1>3, <2>7
<1> QED BY <1>5, <1>6

\* The rest of a read after a response.
LEMMA UpdateFacts ==
    ASSUME NEW a \in Reads, a.offset \in (-Size)..Size, RemainingOk(a),
           NEW d \in Responses, EndOf(d) <= Size, Continues(a, d), InOrder(a, d)
    PROVE  /\ update(a, d) \in Reads /\ update(a, d).id = a.id /\ update(a, d).r = a.r
           /\ update(a, d).offset = EndOf(d) /\ EndOf(d) \in (-Size)..Size
           /\ Start(EndOf(d)) = EndOf(d)
           /\ RemainingOk(update(a, d)) /\ (a.length = 0 => update(a, d).length = 0)
<1>1. a.id \in Nat /\ a.r \in Readers /\ a.offset \in Int /\ a.length \in Nat
  BY DEF Reads
<1>2. /\ d.offset \in Nat /\ Len(d.data) \in Nat /\ EndOf(d) = d.offset + Len(d.data) /\ EndOf(d) \in Nat
  BY ResponseFields
<1>3. Size \in Nat /\ UpTo(a.r) \in Nat /\ UpTo(a.r) <= Size /\ From(a.r) \in Nat /\ Unbounded = Size + 1
  BY <1>1, RangeOf DEF Unbounded
<1>5. a.length # Unbounded => Len(d.data) <= a.length /\ a.offset >= 0 /\ a.offset + a.length = UpTo(a.r) /\ d.offset = a.offset
  BY DEF InOrder, RemainingOk
<1>6. /\ update(a, d).id = a.id /\ update(a, d).r = a.r /\ update(a, d).offset = EndOf(d)
      /\ update(a, d).length = IF a.length = Unbounded THEN a.length ELSE a.length - Len(d.data)
  BY DEF update, EndOf, Reads
<1>7. update(a, d) \in Reads
  <2>1. update(a, d).offset \in Int /\ update(a, d).length \in Nat
    BY <1>1, <1>2, <1>5, <1>6
  <2> QED BY <1>2, <2>1 DEF Reads, update
<1>8. Start(EndOf(d)) = EndOf(d) /\ d.offset = Start(a.offset)
  BY <1>2 DEF Start, Continues
<1>9. RemainingOk(update(a, d))
  <2>1. a.length = Unbounded <=> Limit(a.r) = 0
    BY DEF RemainingOk
  <2>2. From(a.r) <= d.offset
    BY <1>8 DEF RemainingOk
  <2>3. update(a, d).length = Unbounded <=> a.length = Unbounded
    BY <1>1, <1>2, <1>3, <1>5, <1>6
  <2>4. From(a.r) <= EndOf(d)
    BY <1>2, <1>3, <2>2
  <2>5. a.length # Unbounded => EndOf(d) + update(a, d).length = UpTo(a.r)
    BY <1>1, <1>2, <1>3, <1>5, <1>6, SMTT(30)
  <2> QED BY <1>2, <1>6, <1>8, <2>1, <2>3, <2>4, <2>5 DEF RemainingOk
<1> QED BY <1>1, <1>2, <1>3, <1>5, <1>6, <1>7, <1>8, <1>9

\* What becomes of the read that an item belongs to.
LEMMA NextRead ==
    ASSUME IInv, pc = "run", resps # <<>>, NEW a \in ranges, NEW d, d = Head(resps), a.id = d.id,
           NEW b, b = IF InOrder(a, d) THEN update(a, d) ELSE a
    PROVE  /\ b \in Reads /\ b.id = a.id /\ b.r = a.r /\ b.offset \in (-Size)..Size /\ RemainingOk(b)
           /\ a.length = 0 => b.length = 0
           /\ Start(b.offset) = IF InOrder(a, d) THEN EndOf(d) ELSE Start(a.offset)
<1>0. TypeOK /\ WithinObject /\ WorkerInv
  BY DEF IInv
<1>1. /\ a \in Reads /\ a.offset \in (-Size)..Size /\ RemainingOk(a)
  BY <1>0, ReadFields DEF WorkerInv
<1>2. CASE ~InOrder(a, d)
  BY <1>1, <1>2
<1>3. CASE InOrder(a, d)
  <2>1. d \in Responses /\ Continues(a, d)
    BY <1>3, HeadResponse
  <2>2. EndOf(d) <= Size
    <3>1. resps \in Seq(Responses)
      BY <1>0 DEF TypeOK
    <3>2. 1 \in DOMAIN resps /\ d = resps[1]
      BY <3>1, TailElems
    <3> QED BY <1>0, <3>2 DEF WithinObject
  <2>3. /\ update(a, d) \in Reads /\ update(a, d).id = a.id /\ update(a, d).r = a.r
        /\ update(a, d).offset = EndOf(d) /\ EndOf(d) \in (-Size)..Size
        /\ Start(EndOf(d)) = EndOf(d)
        /\ RemainingOk(update(a, d)) /\ (a.length = 0 => update(a, d).length = 0)
    BY <1>1, <1>3, <2>1, <2>2, UpdateFacts
  <2>4. b = update(a, d)
    BY <1>3
  <2> QED BY <1>3, <2>3, <2>4
<1> QED BY <1>2, <1>3

LEMMA HandleWorker ==
    ASSUME IInv, NEW n \in 1..MaxResponses, handle_range_data(n)
    PROVE  TypeOK' /\ WithinObject' /\ WorkerInv'
<1>0. TypeOK /\ WithinObject /\ WorkerInv
  BY DEF IInv
<1>1. PICK d \in Responses : d = Head(resps)
  BY HandleEffect
<1>2. /\ pc = "run" /\ resps # <<>> /\ resps' = Tail(resps) /\ n \in 1..Len(resps) /\ todo' = n - 1
      /\ UNCHANGED <<app, inbox, requests, next_range_id, reconnect_attempts, notify, stream, reqs,
                     serving, faults, closed>>
      /\ Unknown(d) \/ \E a \in ranges : Handles(a, d)
  BY <1>1, HandleEffect
<1>3. resps \in Seq(Responses)
  BY <1>0 DEF TypeOK
<1>4. /\ resps' \in Seq(Responses) /\ 1 \in DOMAIN resps /\ d = resps[1]
      /\ \A k \in DOMAIN resps' : k + 1 \in DOMAIN resps /\ resps'[k] = resps[k + 1]
  BY <1>1, <1>2, <1>3, TailElems
<1>4a. todo' \in 0..Len(resps')
  BY <1>2, <1>3
<1>5. d.data \in Seq(Nat)
  BY ResponseFields
<1>6. WithinObject'
  <2>1. \A k \in DOMAIN resps' :
         /\ resps'[k].data = Bytes(resps'[k].offset, EndOf(resps'[k]))
         /\ EndOf(resps'[k]) <= Size /\ resps'[k].id < next_range_id
    BY <1>0, <1>4 DEF WithinObject
  <2> QED BY <1>0, <1>2, <2>1 DEF WithinObject, EndOf, Bytes
<1>7. ASSUME NEW a \in ranges, Handles(a, d) PROVE TypeOK' /\ WorkerInv'
  <2>0. a.id = d.id
    BY <1>7 DEF Handles
  <2>1. a.id < next_range_id /\ a.r \in Readers
    BY <1>0, ReadFields
  <2>2. PICK b : b = IF InOrder(a, d) THEN update(a, d) ELSE a
    OBVIOUS
  <2>2a. b \in Reads /\ b.id = a.id /\ b.r = a.r /\ b.offset \in (-Size)..Size /\ RemainingOk(b)
    BY <1>1, <1>2, <2>0, <2>2, NextRead
  <2>3. \A c \in ranges' : (c \in ranges /\ c # a) \/ c = b
    BY <1>7, <2>2 DEF Handles
  <2>4. ranges' \subseteq Reads /\ \A c \in ranges' : c.id < next_range_id /\ c.offset \in (-Size)..Size
    BY <1>0, <2>1, <2>2a, <2>3, ReadFields
  <2>5. pc' \in {"run", "send"} /\ (IF pc' = "send" THEN out' \in Readers \X Seq(Nat) ELSE out' = <<>>)
    BY <1>0, <1>2, <1>5, <1>7, <2>1 DEF Handles, TypeOK
  <2>5a. failed' \in BOOLEAN
    BY <1>7, Zenon DEF Handles
  <2>5b. bad' \subseteq Readers /\ cut' \subseteq bad'
    BY <1>0, <1>7, <2>1 DEF Handles, TypeOK
  <2>6. TypeOK'
    BY <1>0, <1>2, <1>4, <1>4a, <2>4, <2>5, <2>5a, <2>5b DEF TypeOK, app
  <2>7. \A x, y \in ranges' : x.id = y.id \/ x.r = y.r => x = y
    BY <1>0, <2>2a, <2>3 DEF WorkerInv
  <2>8. \A x \in ranges' : RemainingOk(x)
    BY <1>0, <2>2a, <2>3 DEF WorkerInv
  <2>9. WorkerInv'
    BY <1>0, <1>2, <2>5, <2>7, <2>8 DEF WorkerInv, RemainingOk, Start, From, UpTo, Unbounded, End
  <2> QED BY <2>6, <2>9
<1>8. ASSUME Unknown(d) PROVE TypeOK' /\ WorkerInv'
  <2>1. failed' \in BOOLEAN
    <3>1. failed' = (failed \/ ~({a \in ranges : a.id = d.id} # {} /\ \A a \in {a \in ranges : a.id = d.id} : Valid(a, d)))
      BY <1>1, Zenon DEF handle_range_data
    <3> QED BY <3>1, Zenon
  <2>2. TypeOK'
    BY <1>0, <1>2, <1>4, <1>4a, <1>8, <2>1 DEF TypeOK, app, Unknown
  <2>3. WorkerInv'
    BY <1>0, <1>2, <1>8 DEF WorkerInv, Unknown, RemainingOk, Start, From, UpTo, Unbounded, End
  <2> QED BY <2>2, <2>3
<1> QED BY <1>2, <1>6, <1>7, <1>8

\* Every reader is served by the turn as DeliveryItem says.
LEMMA DeliveryHandle ==
    ASSUME IInv, NEW n \in 1..MaxResponses, handle_range_data(n)
    PROVE  DeliveryInv'
<1>0. TypeOK /\ DeliveryInv /\ WorkerInv
  BY DEF IInv
<1>1. PICK d \in Responses : d = Head(resps)
  BY HandleEffect
<1>2. /\ pc = "run" /\ resps # <<>>
      /\ UNCHANGED <<outcome, seen, inbox, requests, notify, closed>>
      /\ Unknown(d) \/ \E a \in ranges : Handles(a, d)
  BY <1>1, HandleEffect DEF app
<1>3. CASE Unknown(d)
  <2>1. failed' /\ UNCHANGED <<ranges, bad, cut, pc, out>>
    BY <1>3 DEF Unknown
  <2> QED BY <1>0, <1>2, <2>1, DeliveryFrame
<1>4. ASSUME NEW a \in ranges, Handles(a, d) PROVE DeliveryInv'
  <2>1. a.id = d.id
    BY <1>4 DEF Handles
  <2>2. /\ \A x \in ranges : x.r = a.r => x = a
        /\ InOrder(a, d) => Continues(a, d)
        /\ ~InOrder(a, d) => Start(a.offset) = UpTo(a.r)
    BY <1>1, <1>2, <2>1, HeadResponse
  <2>3. PICK b : b = IF InOrder(a, d) THEN update(a, d) ELSE a
    OBVIOUS
  <2>4. b.r = a.r /\ Start(b.offset) = IF InOrder(a, d) THEN EndOf(d) ELSE Start(a.offset)
    BY <1>1, <1>2, <2>1, <2>3, NextRead
  <2>5. PICK p : p = Start(a.offset)
    OBVIOUS
  <2>6. PICK e : e = Start(b.offset)
    OBVIOUS
  <2>7. PICK c : c = IF Valid(a, d) THEN d.data ELSE <<>>
    OBVIOUS
  <2>8. PICK end \in BOOLEAN : end = d.end
    BY ResponseFields
  <2>9. /\ a.r \in Readers /\ UpTo(a.r) \in Nat /\ a.offset \in (-Size)..Size /\ Size \in Nat
        /\ d.offset \in Nat /\ d.data \in Seq(Nat) /\ Len(d.data) \in Nat /\ EndOf(d) = d.offset + Len(d.data)
    BY <1>0, ReadFields, RangeOf, ResponseFields, BidiReadAssumption
  <2>10. p \in Nat /\ e \in Nat /\ p <= e /\ e <= UpTo(a.r)
    <3>1. p \in Nat
      BY <2>5, <2>9 DEF Start
    <3>2. CASE InOrder(a, d)
      BY <2>2, <2>4, <2>5, <2>6, <2>9, <3>1, <3>2 DEF Continues
    <3>3. CASE ~InOrder(a, d)
      BY <2>2, <2>4, <2>5, <2>6, <2>9, <3>1, <3>3
    <3> QED BY <3>2, <3>3
  <2>11. c \in Seq(Nat)
    BY <2>7, <2>9
  <2>12. ranges' = IF end THEN ranges \ {a} ELSE (ranges \ {a}) \cup {b}
    BY <1>4, <2>3, <2>8 DEF Handles
  <2>13. /\ bad \subseteq bad' /\ bad' \subseteq bad \cup {a.r} /\ cut \subseteq cut' /\ (failed => failed')
         /\ end /\ a.r \in bad' => a.r \in cut'
         /\ InOrder(a, d) /\ ~d.intact => a.r \in bad' /\ failed'
         /\ ~(InOrder(a, d) /\ ~d.intact) => bad' = bad
         /\ IF Valid(a, d) /\ d.data # <<>> THEN pc' = "send" /\ out' = <<a.r, d.data>> ELSE UNCHANGED <<pc, out>>
    BY <1>4, <2>8 DEF Handles, Valid
  <2>14. end => e = UpTo(a.r)
    BY <2>2, <2>4, <2>6, <2>8 DEF Continues
  <2>15. IF c = <<>> THEN UNCHANGED <<pc, out>> /\ (a.r \in bad' \/ e = p)
                     ELSE pc' = "send" /\ out' = <<a.r, c>> /\ c = Bytes(p, e)
    <3>1. CASE c = <<>>
      <4>1. UNCHANGED <<pc, out>>
        BY <2>7, <2>13, <3>1
      <4>2. a.r \in bad' \/ e = p
        <5>1. CASE ~InOrder(a, d)
          BY <2>4, <2>5, <2>6, <5>1
        <5>2. CASE InOrder(a, d) /\ ~d.intact
          BY <2>13, <5>2
        <5>3. CASE InOrder(a, d) /\ d.intact
          <6>1. d.data = <<>>
            BY <2>7, <3>1, <5>3 DEF Valid
          <6>2. EndOf(d) = d.offset
            BY <2>9, <6>1
          <6> QED BY <2>2, <2>4, <2>5, <2>6, <5>3, <6>2 DEF Continues
        <5> QED BY <5>1, <5>2, <5>3
      <4> QED BY <3>1, <4>1, <4>2
    <3>2. CASE c # <<>>
      <4>1. Valid(a, d) /\ c = d.data /\ InOrder(a, d)
        BY <2>7, <3>2 DEF Valid
      <4>2. c = Bytes(p, e)
        BY <2>2, <2>4, <2>5, <2>6, <4>1 DEF Continues
      <4> QED BY <2>13, <3>2, <4>1, <4>2
    <3> QED BY <3>1, <3>2
  <2>16. /\ end => a.r \in cut' \/ (a.r \notin bad' /\ e = UpTo(a.r))
         /\ a.r \in bad' => a.r \in bad \/ failed'
    BY <2>13, <2>14
  <2> QED BY <1>0, <1>2, <2>2, <2>4, <2>5, <2>6, <2>10, <2>11, <2>12, <2>13, <2>15, <2>16, DeliveryItem, ZenonT(60)
<1> QED BY <1>2, <1>3, <1>4

\* What is left of a queue when the rest is lost.
LEMMA Prefix ==
    ASSUME NEW q \in Seq(Responses), NEW n \in 0..Len(q)
    PROVE  /\ SubSeq(q, 1, n) \in Seq(Responses) /\ Len(SubSeq(q, 1, n)) = n
           /\ DOMAIN SubSeq(q, 1, n) = 1..n
           /\ \A k \in DOMAIN SubSeq(q, 1, n) : k \in DOMAIN q /\ SubSeq(q, 1, n)[k] = q[k]
  OBVIOUS

\* Losing the stream and opening the next one.
LEMMA StreamWorker ==
    ASSUME TypeOK, WithinObject, WorkerInv,
           Reconnect \/ ConnectOk \/ ConnectFails \/ RangesFailed
             \/ \E kind \in {"closed", "transient", "redirect", "permanent"} : Break(kind)
    PROVE  TypeOK' /\ WithinObject' /\ WorkerInv'
<1>0. \A a \in ranges : a.r \in Readers
  BY ReadFields
<1>1. CASE Reconnect
  <2>1. /\ pc = "run" /\ resps = <<>> /\ stream # "open" /\ ranges' = ranges
        /\ pc' \in {"connect", "closing"} /\ notify' \subseteq Readers /\ out' = out
        /\ reconnect_attempts' = reconnect_attempts + 1
        /\ todo = 0 /\ ~failed /\ UNCHANGED <<app, inbox, requests, next_range_id, todo, failed, net, history>>
    <3>1. /\ pc = "run" /\ resps = <<>> /\ stream # "open" /\ out' = out
          /\ reconnect_attempts' = reconnect_attempts + 1
          /\ todo = 0 /\ ~failed /\ UNCHANGED <<app, inbox, requests, next_range_id, todo, failed, net, history>>
      BY <1>1 DEF Reconnect, Selecting
    <3>2. \/ pc' = "connect" /\ ranges' = ranges /\ notify' = notify
          \/ pc' = "closing" /\ ranges' = ranges /\ notify' = {a.r : a \in ranges}
      BY <1>1 DEF Reconnect, CloseReaders
    <3> QED BY <1>0, <3>1, <3>2, ZenonT(60) DEF TypeOK
  <2>2. TypeOK'
    BY <2>1 DEF TypeOK, app, net, history
  <2> QED BY <2>1, <2>2 DEF WithinObject, WorkerInv, net, history, EndOf, Bytes, RemainingOk, Start, From, UpTo, Unbounded, End
<1>2. CASE ConnectOk
  <2> DEFINE P == {as_proto(a) : a \in ranges}
  <2>1. /\ pc = "connect" /\ pc' = "run" /\ stream' = "open" /\ reqs' = <<P>>
        /\ UNCHANGED <<app, inbox, requests, out, ranges, next_range_id, reconnect_attempts,
                       notify, todo, failed, resps, serving, faults, history>>
    BY <1>2 DEF ConnectOk
  <2>2. ASSUME NEW a \in ranges
        PROVE  /\ as_proto(a) \in Protos /\ as_proto(a).offset \in (-Size)..Size /\ as_proto(a).id < next_range_id
               /\ as_proto(a).length # 0 => as_proto(a).offset >= 0 /\ as_proto(a).offset + as_proto(a).length <= Size
    <3>1. a \in Reads /\ RemainingOk(a) /\ a.offset \in (-Size)..Size /\ a.id < next_range_id
      BY ReadFields DEF WorkerInv
    <3> QED BY <3>1, ProtoOf
  <2>3. P \in SUBSET Protos
    BY <2>2
  <2>4. \A p \in P : /\ p.offset \in (-Size)..Size /\ p.id < next_range_id
                     /\ p.length # 0 => p.offset >= 0 /\ p.offset + p.length <= Size
    BY <2>2
  <2> HIDE DEF P
  <2>5. reqs' \in Seq(SUBSET Protos) /\ \A i \in DOMAIN reqs' : reqs'[i] = P
    BY <2>1, <2>3
  <2>6. TypeOK'
    BY <2>1, <2>5 DEF TypeOK, app, history
  <2>7. WithinObject'
    BY <2>1, <2>4, <2>5 DEF WithinObject, EndOf, Bytes
  <2>8. WorkerInv'
    BY <2>1 DEF WorkerInv, history, RemainingOk, Start, From, UpTo, Unbounded, End
  <2> QED BY <2>6, <2>7, <2>8
<1>3. CASE ConnectFails
  <2>1. /\ pc = "connect" /\ pc' = "closing" /\ ranges' = ranges /\ notify' \subseteq Readers
        /\ faults' \in 0..MaxFaults
        /\ UNCHANGED <<app, inbox, requests, out, next_range_id, reconnect_attempts, todo, failed, stream,
                       reqs, resps, serving, history>>
    BY <1>0, <1>3, BidiReadAssumption DEF ConnectFails, CloseReaders, TypeOK
  <2>2. TypeOK'
    BY <2>1 DEF TypeOK, app, history
  <2> QED BY <2>1, <2>2 DEF WithinObject, WorkerInv, history, EndOf, Bytes, RemainingOk, Start, From, UpTo, Unbounded, End
<1>4. ASSUME NEW kind \in {"closed", "transient", "redirect", "permanent"}, Break(kind)
      PROVE  TypeOK' /\ WithinObject' /\ WorkerInv'
  <2>1. /\ Live /\ faults' \in 0..MaxFaults /\ stream' = kind /\ closed' = (closed \/ kind = "closed")
        /\ reqs' = <<>> /\ serving' = {} /\ resps' \in {resps, SubSeq(resps, 1, todo)}
        /\ UNCHANGED <<client, bad, cut>>
    BY <1>4, BidiReadAssumption DEF Break, TypeOK
  <2>2. /\ resps' \in Seq(Responses) /\ reqs' \in Seq(SUBSET Protos) /\ todo \in 0..Len(resps')
        /\ \A k \in DOMAIN resps' : k \in DOMAIN resps /\ resps'[k] = resps[k]
    <3>1. <<>> \in Seq(SUBSET Protos) /\ resps \in Seq(Responses) /\ todo \in 0..Len(resps)
      BY DEF TypeOK
    <3> QED BY <2>1, <3>1, Prefix
  <2>2a. closed' \in BOOLEAN
    BY <2>1, Zenon DEF TypeOK
  <2>3. TypeOK'
    BY <2>1, <2>2, <2>2a DEF TypeOK, client, app, worker
  <2>4. WithinObject'
    BY <2>1, <2>2 DEF WithinObject, client, worker, EndOf, Bytes
  <2>5. WorkerInv'
    BY <2>1 DEF WorkerInv, client, worker, Live, RemainingOk, Start, From, UpTo, Unbounded, End
  <2> QED BY <2>3, <2>4, <2>5
<1>5. CASE RangesFailed
  <2>1. /\ pc = "run" /\ todo = 0 /\ pc' = "closing" /\ ranges' = ranges /\ notify' \subseteq Readers
        /\ UNCHANGED <<app, inbox, requests, out, next_range_id, reconnect_attempts, todo, net, history>>
    BY <1>0, <1>5 DEF RangesFailed, CloseReaders
  <2>1a. ~failed' /\ failed' \in BOOLEAN
    BY <1>5, Zenon DEF RangesFailed
  <2>2. TypeOK'
    BY <2>1, <2>1a DEF TypeOK, app, net, history
  <2> QED BY <2>1, <2>2 DEF WithinObject, WorkerInv, net, history, EndOf, Bytes, RemainingOk, Start, From, UpTo, Unbounded, End
<1> QED BY <1>1, <1>2, <1>3, <1>4, <1>5

-----------------------------------------------------------------------------
(***************************************************************************)
(* The stream: what a step does to the reads that are on it.               *)
(***************************************************************************)
\* A step that touches neither the reads nor the stream.
LEMMA WireFrame ==
    ASSUME WireInv, UNCHANGED <<ranges, reqs, resps, serving, stream, failed>>, Streaming' => Streaming
    PROVE  WireInv'
  BY DEF WireInv, ReadOk, ComingOk, BusyOk, AskedOk, EndOk, ExtentOk, KnownInv, PlaceOk, Coming,
         EndOf, Start, End, UpTo

\* A stream that breaks, and the one that replaces it.
LEMMA WireBreak ==
    ASSUME TypeOK, WireInv, NEW kind \in {"closed", "transient", "redirect", "permanent"}, Break(kind)
    PROVE  WireInv'
<1>1. /\ Live /\ stream' # "open" /\ reqs' = <<>> /\ serving' = {} /\ resps' \in {resps, SubSeq(resps, 1, todo)}
      /\ UNCHANGED <<ranges, pc, failed>>
  BY DEF Break, client, worker
<1>2. (\A a \in ranges : (failed /\ a.length = 0) \/ ReadOk(a)) /\ (~failed => KnownInv)
  BY <1>1 DEF WireInv, Live, Streaming
<1>3. PICK n \in Nat : /\ \A k \in DOMAIN resps' : k \in DOMAIN resps /\ resps'[k] = resps[k]
                       /\ \A k \in DOMAIN resps : k \in Nat /\ (k \in DOMAIN resps' <=> k <= n)
  <2>1. resps \in Seq(Responses) /\ todo \in 0..Len(resps) /\ Len(resps) \in Nat /\ todo \in Nat
    BY DEF TypeOK
  <2>2. CASE resps' = resps
    <3>1. /\ \A k \in DOMAIN resps' : k \in DOMAIN resps /\ resps'[k] = resps[k]
          /\ \A k \in DOMAIN resps : k \in Nat /\ (k \in DOMAIN resps' <=> k <= Len(resps))
      BY <2>1, <2>2
    <3> QED BY <2>1, <3>1
  <2>3. CASE resps' = SubSeq(resps, 1, todo)
    <3>1. /\ \A k \in DOMAIN resps' : k \in DOMAIN resps /\ resps'[k] = resps[k]
          /\ DOMAIN resps' = 1..todo
      BY <2>1, <2>3, Prefix
    <3>2. \A k \in DOMAIN resps : k \in Nat /\ (k \in DOMAIN resps' <=> k <= todo)
      BY <2>1, <3>1
    <3> QED BY <2>1, <3>1, <3>2
  <2> QED BY <1>1, <2>2, <2>3
<1>4. ASSUME NEW a \in ranges, ReadOk(a) PROVE ReadOk(a)'
  <2> DEFINE C == Coming(a.id)
             D == Coming(a.id)'
  <2>1. /\ \A k \in D : k \in C /\ resps'[k] = resps[k] /\ k \in Nat
        /\ \A k \in C : k \in Nat /\ (k \in D <=> k <= n)
    BY <1>3 DEF Coming
  <2>2. /\ \A k \in C : (\A j \in C : k <= j) => resps[k].offset = Start(a.offset)
        /\ \A j, k \in C : j < k /\ (\A l \in C : l <= j \/ k <= l) => resps[k].offset = EndOf(resps[j])
        /\ \A k \in C : resps[k].end => \A j \in C : j <= k
    BY <1>4 DEF ReadOk, ComingOk, EndOk
  <2> HIDE DEF C, D
  <2>3. ComingOk(a)'
    <3>1. ASSUME NEW k \in D, \A j \in D : k <= j PROVE resps'[k].offset = Start(a.offset)
      <4>1. k \in C /\ \A j \in C : k <= j
        BY <2>1, <3>1
      <4> QED BY <2>1, <2>2, <4>1
    <3>2. ASSUME NEW j \in D, NEW k \in D, j < k, \A l \in D : l <= j \/ k <= l
          PROVE  resps'[k].offset = EndOf(resps'[j])
      <4>1. j \in C /\ k \in C /\ \A l \in C : l <= j \/ k <= l
        BY <2>1, <3>2
      <4> QED BY <2>1, <2>2, <3>2, <4>1
    <3> QED BY <1>1, <3>1, <3>2 DEF ComingOk, D, Start, EndOf
  <2>4. EndOk(a)'
    BY <2>1, <2>2 DEF EndOk, D
  <2>5. BusyOk(a)' /\ AskedOk(a)'
    BY <1>1 DEF BusyOk, AskedOk
  <2>6. ExtentOk(a)'
    <3>1. a.length # 0 => \A k \in C : EndOf(resps[k]) <= UpTo(a.r) /\ (resps[k].end => EndOf(resps[k]) = UpTo(a.r))
      BY <1>4 DEF ReadOk, ExtentOk, C
    <3>2. a.length # 0 => \A k \in D : EndOf(resps'[k]) <= UpTo(a.r) /\ (resps'[k].end => EndOf(resps'[k]) = UpTo(a.r))
      BY <2>1, <3>1
    <3> QED BY <1>1, <3>2 DEF ExtentOk, D, EndOf, UpTo, End
  <2> QED BY <2>3, <2>4, <2>5, <2>6 DEF ReadOk
<1>5. ~failed => KnownInv'
  BY <1>1, <1>2, <1>3 DEF KnownInv
<1>6. \A a \in ranges' : (failed' /\ a.length = 0) \/ ReadOk(a)'
  BY <1>1, <1>2, <1>4
<1> QED BY <1>1, <1>5, <1>6 DEF WireInv

LEMMA WireConnect ==
    ASSUME TypeOK, WorkerInv, ConnectOk
    PROVE  WireInv'
<1> DEFINE P == {as_proto(a) : a \in ranges}
<1>1. /\ reqs' = <<P>> /\ ranges' = ranges /\ resps' = <<>> /\ serving' = {}
  BY DEF ConnectOk, WorkerInv
<1>2. ASSUME NEW a \in ranges
      PROVE  /\ as_proto(a).id = a.id /\ as_proto(a).offset = a.offset
             /\ a.length # 0 => End(as_proto(a).offset, as_proto(a).length) = UpTo(a.r)
  BY ReadFields, ProtoOf DEF WorkerInv
<1>3. ASSUME NEW p \in P PROVE \E a \in ranges : p = as_proto(a)
  OBVIOUS
<1>4. \A a \in ranges : as_proto(a) \in P
  OBVIOUS
<1> HIDE DEF P
<1>5. /\ \A i \in DOMAIN reqs' : i = 1 /\ reqs'[i] = P
      /\ 1 \in DOMAIN reqs' /\ reqs'[1] = P
  BY <1>1
<1>6. ASSUME NEW a \in ranges, NEW p \in P, p.id = a.id PROVE p = as_proto(a)
  <2>1. PICK b \in ranges : p = as_proto(b)
    BY <1>3
  <2>2. b.id = a.id
    BY <1>2, <1>6, <2>1
  <2> QED BY <2>1, <2>2 DEF WorkerInv
<1>7. ASSUME NEW a \in ranges PROVE ReadOk(a)' /\ PlaceOk(a)'
  <2>1. Coming(a.id)' = {}
    BY <1>1 DEF Coming
  <2>2. ComingOk(a)' /\ BusyOk(a)' /\ EndOk(a)'
    BY <1>1, <2>1 DEF ComingOk, BusyOk, EndOk
  <2>3. AskedOk(a)'
    <3> SUFFICES ASSUME NEW i \in DOMAIN reqs', NEW p \in reqs'[i], p.id = a.id
                 PROVE  /\ Start(p.offset) = Start(a.offset)
                        /\ \A j \in DOMAIN reqs' : \A q \in reqs'[j] : q.id = a.id => i = j /\ p = q
      BY <1>1, <2>1 DEF AskedOk, Start
    <3>1. p \in P /\ p = as_proto(a)
      BY <1>5, <1>6
    <3> QED BY <1>2, <1>5, <1>6, <3>1
  <2>4. ExtentOk(a)'
    <3> SUFFICES ASSUME a.length # 0, NEW i \in DOMAIN reqs', NEW p \in reqs'[i], p.id = a.id
                 PROVE  End(p.offset, p.length) = UpTo(a.r)
      BY <1>1, <2>1 DEF ExtentOk, End, UpTo
    <3>1. p = as_proto(a)
      BY <1>5, <1>6
    <3> QED BY <1>2, <3>1
  <2>5. PlaceOk(a)'
    BY <1>2, <1>4, <1>5 DEF PlaceOk
  <2> QED BY <2>2, <2>3, <2>4, <2>5 DEF ReadOk
<1>8. KnownInv'
  <2>1. \A i \in DOMAIN reqs' : \A p \in reqs'[i] : \E a \in ranges' : a.id = p.id
    BY <1>1, <1>2, <1>3, <1>5
  <2> QED BY <1>1, <2>1 DEF KnownInv
<1> QED BY <1>1, <1>7, <1>8 DEF WireInv

\* insert_ranges asks for the new reads, whose ids nothing on the stream has.
LEMMA WireInsert ==
    ASSUME TypeOK, DeliveryInv, WithinObject, WorkerInv, WireInv, insert_ranges
    PROVE  WireInv'
<1> DEFINE P == {as_proto(a) : a \in NewReads}
<1>1. /\ pc = "run" /\ ~failed /\ ranges' = ranges \cup NewReads
      /\ UNCHANGED <<pc, stream, resps, serving, failed>>
      /\ reqs' = IF stream = "open" THEN Append(reqs, P) ELSE reqs
      /\ P \in SUBSET Protos /\ next_range_id \in Nat
  BY InsertEffect DEF TypeOK
<1>2. /\ \A a \in NewReads : /\ a \in Reads /\ a.offset \in (-Size)..Size
                             /\ next_range_id <= a.id /\ a.id \in Nat
                             /\ RemainingOk(a)
      /\ \A a, b \in NewReads : a.id = b.id => a = b
  <2>1. /\ \A a \in NewReads : /\ a \in Reads /\ a.offset \in (-Size)..Size
                               /\ next_range_id <= a.id /\ RemainingOk(a)
        /\ \A a, b \in NewReads : a.id = b.id => a = b
    BY NewReadsOk
  <2> QED BY <2>1 DEF Reads
<1>3. ASSUME NEW a \in NewReads
      PROVE  /\ as_proto(a).id = a.id /\ as_proto(a).offset = a.offset /\ as_proto(a) \in P
             /\ a.length # 0 => End(as_proto(a).offset, as_proto(a).length) = UpTo(a.r)
  BY <1>2, ProtoOf
<1>4. ASSUME NEW p \in P PROVE \E a \in NewReads : p = as_proto(a)
  OBVIOUS
<1> HIDE DEF P
<1>5. /\ \A i \in DOMAIN reqs : i \in DOMAIN reqs' /\ reqs'[i] = reqs[i]
      /\ \A i \in DOMAIN reqs' :
           \/ i \in DOMAIN reqs /\ reqs'[i] = reqs[i]
           \/ i \notin DOMAIN reqs /\ i = Len(reqs) + 1 /\ reqs'[i] = P /\ stream = "open"
      /\ stream = "open" => Len(reqs) + 1 \in DOMAIN reqs' /\ reqs'[Len(reqs) + 1] = P
  <2>1. reqs \in Seq(SUBSET Protos)
    BY DEF TypeOK
  <2>2. Len(reqs) + 1 \notin DOMAIN reqs
    BY <2>1
  <2>3. CASE stream = "open"
    <3>1. reqs' = Append(reqs, P)
      BY <1>1, <2>3
    <3>2. /\ Len(reqs) + 1 \in DOMAIN Append(reqs, P) /\ Append(reqs, P)[Len(reqs) + 1] = P
          /\ \A k \in DOMAIN reqs : k \in DOMAIN Append(reqs, P) /\ Append(reqs, P)[k] = reqs[k]
          /\ \A k \in DOMAIN Append(reqs, P) : k = Len(reqs) + 1 \/ k \in DOMAIN reqs
      BY <1>1, <2>1, AppendElems
    <3> QED BY <2>2, <2>3, <3>1, <3>2
  <2>4. CASE stream # "open"
    BY <1>1, <2>4
  <2> QED BY <2>3, <2>4
<1>6. (\A a \in ranges : ReadOk(a)) /\ KnownInv /\ (stream = "open" => \A a \in ranges : PlaceOk(a))
  BY <1>1 DEF WireInv, Streaming
<1>7. ASSUME NEW a \in ranges, NEW p \in P PROVE a.id # p.id
  <2>1. PICK b \in NewReads : p = as_proto(b)
    BY <1>4
  <2>2. a.id \in Nat /\ a.id < next_range_id
    BY ReadFields
  <2> QED BY <1>1, <1>2, <1>3, <2>1, <2>2
<1>8. ASSUME NEW a \in ranges PROVE ReadOk(a)' /\ (stream = "open" => PlaceOk(a)')
  <2>1. ReadOk(a) /\ Coming(a.id)' = Coming(a.id)
    BY <1>1, <1>6 DEF Coming
  <2>2. ASSUME NEW i \in DOMAIN reqs', NEW p \in reqs'[i], p.id = a.id PROVE i \in DOMAIN reqs /\ p \in reqs[i]
    BY <1>5, <1>7, <2>2
  <2>3. ComingOk(a)' /\ BusyOk(a)' /\ EndOk(a)'
    BY <1>1, <2>1 DEF ReadOk, ComingOk, BusyOk, EndOk, EndOf, Start
  <2>4. AskedOk(a)'
    BY <1>1, <2>1, <2>2 DEF ReadOk, AskedOk, Start
  <2>5. ExtentOk(a)'
    BY <1>1, <2>1, <2>2 DEF ReadOk, ExtentOk, End, UpTo, EndOf
  <2>6. stream = "open" => PlaceOk(a)'
    BY <1>1, <1>5, <1>6, <2>1 DEF PlaceOk
  <2> QED BY <2>3, <2>4, <2>5, <2>6 DEF ReadOk
<1>9. ASSUME NEW a \in NewReads PROVE ReadOk(a)' /\ (stream = "open" => PlaceOk(a)')
  <2>1. a.id \in Nat /\ next_range_id <= a.id
    BY <1>2
  <2>2. Coming(a.id)' = {}
    <3>1. ASSUME NEW k \in DOMAIN resps PROVE resps[k].id # a.id
      <4>1. resps[k].id \in Nat /\ resps[k].id < next_range_id
        BY RespsFields, ResponseFields DEF WithinObject
      <4> QED BY <1>1, <2>1, <4>1
    <3> QED BY <1>1, <3>1 DEF Coming
  <2>3. \A s \in serving' : s.id # a.id
    <3>1. ASSUME NEW s \in serving PROVE s.id # a.id
      <4>1. s.id \in Nat /\ s.id < next_range_id
        BY ServedFields DEF WithinObject
      <4> QED BY <1>1, <2>1, <4>1
    <3> QED BY <1>1, <3>1
  <2>4. ASSUME NEW i \in DOMAIN reqs', NEW p \in reqs'[i], p.id = a.id
        PROVE  i = Len(reqs) + 1 /\ p = as_proto(a)
    <3>1. CASE i \in DOMAIN reqs /\ reqs'[i] = reqs[i]
      <4>1. p.id \in Nat /\ p.id < next_range_id
        BY <2>4, <3>1, ProtoFields DEF WithinObject
      <4> QED BY <1>1, <2>1, <2>4, <4>1
    <3>2. CASE i = Len(reqs) + 1 /\ reqs'[i] = P
      <4>1. PICK b \in NewReads : p = as_proto(b)
        BY <1>4, <2>4, <3>2
      <4>2. b = a
        BY <1>2, <1>3, <2>4, <4>1
      <4> QED BY <3>2, <4>1, <4>2
    <3> QED BY <1>5, <3>1, <3>2
  <2>5. ComingOk(a)' /\ BusyOk(a)' /\ EndOk(a)'
    BY <2>2, <2>3 DEF ComingOk, BusyOk, EndOk
  <2>6. AskedOk(a)'
    <3> SUFFICES ASSUME NEW i \in DOMAIN reqs', NEW p \in reqs'[i], p.id = a.id
                 PROVE  /\ Start(p.offset) = Start(a.offset)
                        /\ \A j \in DOMAIN reqs' : \A q \in reqs'[j] : q.id = a.id => i = j /\ p = q
      BY <2>2, <2>3 DEF AskedOk, Start
    <3> QED BY <1>3, <2>4
  <2>7. ExtentOk(a)'
    <3> SUFFICES ASSUME a.length # 0, NEW i \in DOMAIN reqs', NEW p \in reqs'[i], p.id = a.id
                 PROVE  End(p.offset, p.length) = UpTo(a.r)
      BY <2>2, <2>3 DEF ExtentOk, End, UpTo
    <3> QED BY <1>3, <2>4
  <2>8. stream = "open" => PlaceOk(a)'
    BY <1>3, <1>5 DEF PlaceOk
  <2> QED BY <2>5, <2>6, <2>7, <2>8 DEF ReadOk
<1>10. KnownInv'
  <2>1. \A i \in DOMAIN reqs' : \A p \in reqs'[i] : \E a \in ranges' : a.id = p.id
    BY <1>1, <1>3, <1>4, <1>5, <1>6 DEF KnownInv
  <2> QED BY <1>1, <1>6, <2>1 DEF KnownInv
<1> QED BY <1>1, <1>8, <1>9, <1>10 DEF WireInv

\* TakeRequest moves the reads of a request to the service.
LEMMA WireTake ==
    ASSUME TypeOK, WithinObject, WireInv, TakeRequest
    PROVE  WireInv'
<1>1. /\ Live /\ 1 \in DOMAIN reqs
      /\ serving' = serving \cup {Serving(p) : p \in reqs[1]}
      /\ \A k \in DOMAIN reqs' : k \in Nat \ {0} /\ k + 1 \in DOMAIN reqs /\ reqs'[k] = reqs[k + 1]
      /\ \A k \in DOMAIN reqs : k = 1 \/ (k \in Nat /\ k - 1 \in DOMAIN reqs' /\ k > 1)
      /\ UNCHANGED <<ranges, pc, stream, resps, failed>>
  BY TakeEffect DEF client, worker
<1>2. /\ \A s \in serving' : s \in serving \/ \E p \in reqs[1] : s = Serving(p)
      /\ \A p \in reqs[1] : Serving(p) \in serving'
      /\ serving \subseteq serving'
  BY <1>1
<1>3. \A p \in reqs[1] : /\ Serving(p).id = p.id /\ Serving(p).offset = Start(p.offset)
                         /\ Serving(p).upto = End(p.offset, p.length)
  BY <1>1, TakenFacts
<1>4. /\ \A a \in ranges : (failed /\ a.length = 0) \/ ReadOk(a)
      /\ ~failed => KnownInv /\ (stream = "open" => \A a \in ranges : PlaceOk(a))
  BY <1>1 DEF WireInv, Live, Streaming
<1>5. ASSUME NEW a \in ranges, ReadOk(a) PROVE ReadOk(a)' /\ (PlaceOk(a) => PlaceOk(a)')
  <2>1. ReadOk(a) /\ Coming(a.id)' = Coming(a.id)
    BY <1>1, <1>5 DEF Coming
  <2>2. ComingOk(a)' /\ EndOk(a)'
    BY <1>1, <2>1 DEF ReadOk, ComingOk, EndOk, EndOf, Start
  <2>3. ASSUME NEW p \in reqs[1], p.id = a.id
        PROVE  /\ Coming(a.id) = {} /\ (\A s \in serving : s.id # a.id) /\ Start(p.offset) = Start(a.offset)
               /\ \A j \in DOMAIN reqs : \A q \in reqs[j] : q.id = a.id => j = 1 /\ q = p
    BY <1>1, <2>1, <2>3 DEF ReadOk, AskedOk
  <2>4. BusyOk(a)'
    <3> SUFFICES ASSUME NEW s \in serving', s.id = a.id
                 PROVE  /\ \A u \in serving' : u.id = a.id => u = s
                        /\ Coming(a.id) = {} => s.offset = Start(a.offset)
                        /\ \A k \in Coming(a.id) : /\ ~resps[k].end
                                                   /\ (\A j \in Coming(a.id) : j <= k) => s.offset = EndOf(resps[k])
      BY <1>1, <2>1 DEF BusyOk, Start, EndOf
    <3>1. CASE \E p \in reqs[1] : p.id = a.id
      <4>1. PICK p \in reqs[1] : p.id = a.id
        BY <3>1
      <4>2. ASSUME NEW u \in serving', u.id = a.id PROVE u = Serving(p)
        <5>1. u \notin serving
          BY <2>3, <4>1, <4>2
        <5>2. PICK q \in reqs[1] : u = Serving(q)
          BY <1>2, <5>1
        <5>3. q = p
          BY <1>1, <1>3, <2>3, <4>1, <4>2, <5>2
        <5> QED BY <5>2, <5>3
      <4> QED BY <1>3, <2>3, <4>1, <4>2
    <3>2. CASE ~\E p \in reqs[1] : p.id = a.id
      <4>1. \A u \in serving' : u.id = a.id => u \in serving
        BY <1>2, <1>3, <3>2
      <4> QED BY <2>1, <4>1 DEF ReadOk, BusyOk
    <3> QED BY <3>1, <3>2
  <2>5. AskedOk(a)'
    <3> SUFFICES ASSUME NEW i \in DOMAIN reqs', NEW p \in reqs'[i], p.id = a.id
                 PROVE  /\ Coming(a.id) = {} /\ (\A s \in serving' : s.id # a.id) /\ Start(p.offset) = Start(a.offset)
                        /\ \A j \in DOMAIN reqs' : \A q \in reqs'[j] : q.id = a.id => i = j /\ p = q
      BY <1>1, <2>1 DEF AskedOk, Start
    <3>1. i \in Nat \ {0} /\ i + 1 \in DOMAIN reqs /\ p \in reqs[i + 1]
      BY <1>1
    <3>2. /\ Coming(a.id) = {} /\ (\A s \in serving : s.id # a.id) /\ Start(p.offset) = Start(a.offset)
          /\ \A j \in DOMAIN reqs : \A q \in reqs[j] : q.id = a.id => i + 1 = j /\ p = q
      BY <2>1, <3>1 DEF ReadOk, AskedOk
    <3>3. \A q \in reqs[1] : q.id # a.id
      BY <1>1, <3>1, <3>2
    <3>4. \A s \in serving' : s.id # a.id
      BY <1>2, <1>3, <3>2, <3>3
    <3>5. ASSUME NEW j \in DOMAIN reqs', NEW q \in reqs'[j], q.id = a.id PROVE i = j /\ p = q
      <4>1. j \in Nat /\ j + 1 \in DOMAIN reqs /\ q \in reqs[j + 1]
        BY <1>1, <3>5
      <4>2. i + 1 = j + 1 /\ p = q
        BY <3>2, <3>5, <4>1
      <4> QED BY <3>1, <4>1, <4>2
    <3> QED BY <3>2, <3>4, <3>5
  <2>6. ExtentOk(a)'
    <3> SUFFICES ASSUME a.length # 0
                 PROVE  /\ \A i \in DOMAIN reqs' : \A p \in reqs'[i] : p.id = a.id => End(p.offset, p.length) = UpTo(a.r)
                        /\ \A s \in serving' : s.id = a.id => s.upto = UpTo(a.r)
                        /\ \A k \in Coming(a.id) : /\ EndOf(resps[k]) <= UpTo(a.r)
                                                   /\ resps[k].end => EndOf(resps[k]) = UpTo(a.r)
      BY <1>1, <2>1 DEF ExtentOk, End, UpTo, EndOf
    <3>1. ExtentOk(a)
      BY <2>1 DEF ReadOk
    <3>2. \A i \in DOMAIN reqs' : \A p \in reqs'[i] : p.id = a.id => End(p.offset, p.length) = UpTo(a.r)
      BY <1>1, <3>1 DEF ExtentOk
    <3>3. \A s \in serving' : s.id = a.id => s.upto = UpTo(a.r)
      BY <1>1, <1>2, <1>3, <3>1 DEF ExtentOk
    <3> QED BY <3>1, <3>2, <3>3 DEF ExtentOk
  <2>7. ASSUME PlaceOk(a) PROVE PlaceOk(a)'
    <3>1. PlaceOk(a)
      BY <2>7
    <3>2. ASSUME NEW i \in DOMAIN reqs, NEW p \in reqs[i], p.id = a.id
          PROVE  \/ \E j \in DOMAIN reqs' : \E q \in reqs'[j] : q.id = a.id
                 \/ \E s \in serving' : s.id = a.id
      <4>1. CASE i = 1
        BY <1>2, <1>3, <3>2, <4>1
      <4>2. CASE i # 1
        <5>1. i \in Nat /\ i - 1 \in DOMAIN reqs'
          BY <1>1, <4>2
        <5>2. reqs'[i - 1] = reqs[(i - 1) + 1] /\ (i - 1) + 1 = i
          BY <1>1, <5>1
        <5> QED BY <3>2, <5>1, <5>2
      <4> QED BY <4>1, <4>2
    <3> QED BY <1>1, <1>2, <2>1, <3>1, <3>2 DEF PlaceOk
  <2> QED BY <2>2, <2>4, <2>5, <2>6, <2>7 DEF ReadOk
<1>6. ASSUME ~failed PROVE KnownInv'
  <2>1. \A i \in DOMAIN reqs' : \A p \in reqs'[i] : \E a \in ranges' : a.id = p.id
    BY <1>1, <1>4, <1>6 DEF KnownInv
  <2>2. \A s \in serving' : \E a \in ranges' : a.id = s.id
    BY <1>1, <1>2, <1>3, <1>4, <1>6 DEF KnownInv
  <2> QED BY <1>1, <1>4, <1>6, <2>1, <2>2 DEF KnownInv
<1>7. ASSUME NEW a \in ranges'
      PROVE  /\ (failed' /\ a.length = 0) \/ ReadOk(a)'
             /\ ~failed' /\ stream' = "open" => PlaceOk(a)'
  BY <1>1, <1>4, <1>5
<1> QED BY <1>1, <1>6, <1>7 DEF WireInv

\* An answer of the service takes the place of what it answers.
LEMMA WireRespond ==
    ASSUME TypeOK, WithinObject, WireInv, Live, NEW s, NEW d, NEW X, Responds(s, d, X)
    PROVE  WireInv'
<1>1. /\ s \in serving /\ d \in Responses /\ d.id = s.id /\ d.offset = s.offset
      /\ EndOf(d) <= s.upto /\ (d.end => EndOf(d) = s.upto)
      /\ resps' = Append(resps, d) /\ serving' = (serving \ {s}) \cup X
      /\ (X = {} /\ d.end) \/ (X = {[s EXCEPT !.offset = EndOf(d)]} /\ ~d.end)
      /\ UNCHANGED <<ranges, pc, stream, reqs, failed>>
  BY DEF Responds, client, worker
<1>2. \A u \in X : u.id = s.id /\ u.offset = EndOf(d) /\ u.upto = s.upto
  <2>1. s \in Served
    BY <1>1, ServedFields
  <2> QED BY <1>1, <2>1 DEF Served
<1>3. PICK n \in Nat : n = Len(resps) + 1
  BY DEF TypeOK
<1>4. /\ n \in DOMAIN resps' /\ resps'[n] = d /\ n \notin DOMAIN resps
      /\ \A k \in DOMAIN resps : k \in DOMAIN resps' /\ resps'[k] = resps[k] /\ k < n /\ k \in Nat
      /\ \A k \in DOMAIN resps' : k = n \/ k \in DOMAIN resps
  <2>1. resps \in Seq(Responses)
    BY DEF TypeOK
  <2> QED BY <1>1, <1>3, <2>1, AppendElems
<1>5. /\ \A a \in ranges : (failed /\ a.length = 0) \/ ReadOk(a)
      /\ ~failed => KnownInv /\ (stream = "open" => \A a \in ranges : PlaceOk(a))
  BY <1>1 DEF WireInv, Live, Streaming
<1>6. ASSUME NEW a \in ranges, a.id # s.id, ReadOk(a) PROVE ReadOk(a)' /\ (PlaceOk(a) => PlaceOk(a)')
  <2>1. /\ ReadOk(a) /\ Coming(a.id)' = Coming(a.id)
        /\ \A k \in Coming(a.id) : resps'[k] = resps[k]
        /\ \A u : u.id = a.id => (u \in serving' <=> u \in serving)
    BY <1>1, <1>2, <1>4, <1>6 DEF Coming
  <2>2. ComingOk(a)' /\ EndOk(a)'
    BY <1>1, <2>1, ZenonT(60) DEF ReadOk, ComingOk, EndOk, EndOf, Start
  <2>3. BusyOk(a)'
    <3>1. BusyOk(a)
      BY <2>1 DEF ReadOk
    <3>2. \A k \in Coming(a.id)' : resps'[k] = resps[k]
      BY <2>1
    <3>3. \A u \in serving' : u.id = a.id => u \in serving
      BY <2>1
    <3>4. ASSUME NEW u \in serving', u.id = a.id
          PROVE  /\ \A v \in serving' : v.id = a.id => v = u
                 /\ Coming(a.id)' = {} => u.offset = Start(a.offset)
                 /\ \A k \in Coming(a.id)' : /\ ~resps'[k].end
                                             /\ (\A j \in Coming(a.id)' : j <= k) => u.offset = EndOf(resps'[k])
      <4>1. u \in serving
        BY <3>3, <3>4
      <4>2. /\ \A v \in serving : v.id = a.id => v = u
            /\ Coming(a.id) = {} => u.offset = Start(a.offset)
            /\ \A k \in Coming(a.id) : /\ ~resps[k].end
                                       /\ (\A j \in Coming(a.id) : j <= k) => u.offset = EndOf(resps[k])
        BY <3>1, <3>4, <4>1 DEF BusyOk
      <4> QED BY <2>1, <3>2, <3>3, <4>2
    <3> QED BY <3>4 DEF BusyOk, EndOf, Start
  <2>4. AskedOk(a)'
    BY <1>1, <2>1 DEF ReadOk, AskedOk, Start
  <2>5. ExtentOk(a)'
    BY <1>1, <2>1 DEF ReadOk, ExtentOk, EndOf, End, UpTo
  <2>6. PlaceOk(a) => PlaceOk(a)'
    BY <1>1, <2>1 DEF PlaceOk
  <2> QED BY <2>2, <2>3, <2>4, <2>5, <2>6 DEF ReadOk
<1>7. ASSUME NEW a \in ranges, a.id = s.id, ReadOk(a) PROVE ReadOk(a)' /\ PlaceOk(a)'
  <2>1. /\ ReadOk(a) /\ n \in Coming(a.id)' /\ n \notin Coming(a.id)
        /\ Coming(a.id)' = Coming(a.id) \cup {n}
        /\ \A k \in Coming(a.id) : resps'[k] = resps[k] /\ k < n /\ k \in Nat
    BY <1>1, <1>4, <1>7 DEF Coming
  <2>2. /\ \A u \in serving : u.id = a.id => u = s
        /\ Coming(a.id) = {} => s.offset = Start(a.offset)
        /\ \A k \in Coming(a.id) : /\ ~resps[k].end
                                   /\ (\A j \in Coming(a.id) : j <= k) => s.offset = EndOf(resps[k])
    BY <1>1, <1>7, <2>1 DEF ReadOk, BusyOk
  <2>3. \A u \in serving' : u.id = a.id => u \in X
    BY <1>1, <1>7, <2>2
  <2>4. ComingOk(a)'
    <3>1. ASSUME NEW k \in Coming(a.id)', \A j \in Coming(a.id)' : k <= j PROVE resps'[k].offset = Start(a.offset)
      <4>1. CASE k = n
        <5>1. Coming(a.id) = {}
          BY <1>3, <2>1, <3>1, <4>1
        <5> QED BY <1>1, <1>4, <2>2, <4>1, <5>1
      <4>2. CASE k # n
        BY <2>1, <3>1, <4>2 DEF ReadOk, ComingOk
      <4> QED BY <4>1, <4>2
    <3>2. ASSUME NEW j \in Coming(a.id)', NEW k \in Coming(a.id)', j < k,
                 \A l \in Coming(a.id)' : l <= j \/ k <= l
          PROVE  resps'[k].offset = EndOf(resps'[j])
      <4>1. j \in Coming(a.id) /\ resps'[j] = resps[j]
        BY <1>3, <2>1, <3>2
      <4>2. CASE k = n
        <5>1. \A l \in Coming(a.id) : l <= j
          BY <1>3, <2>1, <3>2, <4>2
        <5> QED BY <1>1, <1>4, <2>2, <4>1, <4>2, <5>1
      <4>3. CASE k # n
        <5>1. k \in Coming(a.id) /\ resps'[k] = resps[k]
          BY <2>1, <4>3
        <5> QED BY <2>1, <3>2, <4>1, <5>1 DEF ReadOk, ComingOk
      <4> QED BY <4>2, <4>3
    <3> QED BY <1>1, <3>1, <3>2 DEF ComingOk, Start, EndOf
  <2>5. BusyOk(a)'
    <3> SUFFICES ASSUME NEW u \in serving', u.id = a.id
                 PROVE  /\ \A v \in serving' : v.id = a.id => v = u
                        /\ \A k \in Coming(a.id)' : /\ ~resps'[k].end
                                                    /\ (\A j \in Coming(a.id)' : j <= k) => u.offset = EndOf(resps'[k])
      BY <2>1 DEF BusyOk, EndOf
    <3>1. u \in X /\ X # {} /\ X = {u} /\ ~d.end /\ u.offset = EndOf(d)
      BY <1>1, <1>2, <2>3
    <3>2. \A v \in serving' : v.id = a.id => v = u
      BY <2>3, <3>1
    <3>3. ASSUME NEW k \in Coming(a.id)'
          PROVE  ~resps'[k].end /\ ((\A j \in Coming(a.id)' : j <= k) => u.offset = EndOf(resps'[k]))
      <4>1. CASE k = n
        BY <1>4, <3>1, <4>1
      <4>2. CASE k # n
        <5>1. k \in Coming(a.id) /\ resps'[k] = resps[k] /\ k < n /\ k \in Nat
          BY <2>1, <4>2
        <5>2. ~(n <= k)
          BY <1>3, <5>1
        <5> QED BY <2>1, <2>2, <5>1, <5>2
      <4> QED BY <4>1, <4>2
    <3> QED BY <3>2, <3>3
  <2>6. AskedOk(a)'
    <3>1. \A i \in DOMAIN reqs : \A p \in reqs[i] : p.id # a.id
      BY <1>1, <1>7, <2>1 DEF ReadOk, AskedOk
    <3> QED BY <1>1, <3>1 DEF AskedOk
  <2>7. EndOk(a)'
    <3> SUFFICES ASSUME NEW k \in Coming(a.id)', resps'[k].end, NEW j \in Coming(a.id)' PROVE j <= k
      BY DEF EndOk
    <3>1. k = n
      BY <2>1, <2>2
    <3> QED BY <1>3, <2>1, <3>1
  <2>8. ExtentOk(a)'
    <3> SUFFICES ASSUME a.length # 0
                 PROVE  /\ \A u \in serving' : u.id = a.id => u.upto = UpTo(a.r)
                        /\ \A k \in Coming(a.id)' : /\ EndOf(resps'[k]) <= UpTo(a.r)
                                                    /\ resps'[k].end => EndOf(resps'[k]) = UpTo(a.r)
      BY <1>1, <2>1 DEF ReadOk, ExtentOk, End, UpTo, EndOf
    <3>1. s.upto = UpTo(a.r)
      BY <1>1, <1>7, <2>1 DEF ReadOk, ExtentOk
    <3>2. \A u \in serving' : u.id = a.id => u.upto = UpTo(a.r)
      BY <1>2, <2>3, <3>1
    <3>3. ASSUME NEW k \in Coming(a.id)' PROVE EndOf(resps'[k]) <= UpTo(a.r) /\ (resps'[k].end => EndOf(resps'[k]) = UpTo(a.r))
      <4>1. CASE k = n
        BY <1>1, <1>4, <3>1, <4>1
      <4>2. CASE k # n
        BY <2>1, <4>2 DEF ReadOk, ExtentOk
      <4> QED BY <4>1, <4>2
    <3> QED BY <3>2, <3>3
  <2>9. PlaceOk(a)'
    <3>1. CASE X # {}
      BY <1>1, <1>2, <1>7, <3>1 DEF PlaceOk
    <3>2. CASE X = {} /\ d.end
      BY <1>4, <2>1, <3>2 DEF PlaceOk
    <3> QED BY <1>1, <3>1, <3>2
  <2> QED BY <2>4, <2>5, <2>6, <2>7, <2>8, <2>9 DEF ReadOk
<1>8. ASSUME ~failed PROVE KnownInv'
  <2>1. \A u \in serving' : \E a \in ranges' : a.id = u.id
    BY <1>1, <1>2, <1>5, <1>8 DEF KnownInv
  <2>2. \A k \in DOMAIN resps' : \E a \in ranges' : a.id = resps'[k].id
    BY <1>1, <1>4, <1>5, <1>8 DEF KnownInv
  <2> QED BY <1>1, <1>5, <1>8, <2>1, <2>2 DEF KnownInv
<1>9. ASSUME NEW a \in ranges'
      PROVE  /\ (failed' /\ a.length = 0) \/ ReadOk(a)'
             /\ ~failed' /\ stream' = "open" => PlaceOk(a)'
  BY <1>1, <1>5, <1>6, <1>7
<1> QED BY <1>1, <1>8, <1>9 DEF WireInv

\* The worker takes the first response.  A read a becomes b: what is left of it continues
\* what is left on the stream.
LEMMA WireTail ==
    ASSUME TypeOK, resps # <<>>, resps' = Tail(resps), UNCHANGED <<reqs, serving>>,
           NEW a \in ranges, ReadOk(a), NEW b, b.id = a.id, b.r = a.r, b.length # 0 => a.length # 0,
           \/ resps[1].id # a.id /\ Start(b.offset) = Start(a.offset)
           \/ resps[1].id = a.id /\ Start(b.offset) = EndOf(resps[1]) /\ ~resps[1].end
    PROVE  ReadOk(b)' /\ (PlaceOk(a) => PlaceOk(b)')
<1>1. /\ 1 \in DOMAIN resps
      /\ \A k \in DOMAIN resps' : k \in Nat \ {0} /\ k + 1 \in DOMAIN resps /\ resps'[k] = resps[k + 1]
      /\ \A k \in DOMAIN resps : k = 1 \/ (k \in Nat /\ k - 1 \in DOMAIN resps' /\ k > 1)
  <2>1. resps \in Seq(Responses)
    BY DEF TypeOK
  <2> QED BY <2>1, TailElems
<1> DEFINE C == Coming(a.id)
           D == Coming(b.id)'
<1>2. /\ \A k \in D : k \in Nat \ {0} /\ k + 1 \in C /\ resps'[k] = resps[k + 1]
      /\ \A k \in C : k = 1 \/ (k \in Nat /\ k - 1 \in D /\ k > 1)
      /\ 1 \in C <=> resps[1].id = a.id
  <2>1. ASSUME NEW k \in C, k # 1 PROVE k \in Nat /\ k - 1 \in D /\ k > 1
    <3>1. k \in DOMAIN resps /\ resps[k].id = a.id
      BY <2>1 DEF Coming
    <3>2. k \in Nat /\ k - 1 \in DOMAIN resps' /\ k > 1
      BY <1>1, <2>1, <3>1
    <3>3. resps'[k - 1] = resps[(k - 1) + 1] /\ (k - 1) + 1 = k
      BY <1>1, <3>2
    <3> QED BY <3>1, <3>2, <3>3 DEF Coming
  <2>2. \A k \in D : k \in Nat \ {0} /\ k + 1 \in C /\ resps'[k] = resps[k + 1]
    BY <1>1 DEF Coming
  <2> QED BY <1>1, <2>1, <2>2 DEF Coming
<1>3. /\ \A k \in C : (\A j \in C : k <= j) => resps[k].offset = Start(a.offset)
      /\ \A j, k \in C : j < k /\ (\A l \in C : l <= j \/ k <= l) => resps[k].offset = EndOf(resps[j])
      /\ \A k \in C : resps[k].end => \A j \in C : j <= k
      /\ \A s \in serving : s.id = a.id =>
            /\ \A u \in serving : u.id = a.id => u = s
            /\ C = {} => s.offset = Start(a.offset)
            /\ \A k \in C : ~resps[k].end /\ ((\A j \in C : j <= k) => s.offset = EndOf(resps[k]))
  BY DEF ReadOk, ComingOk, EndOk, BusyOk
<1> HIDE DEF C, D
<1>4. ComingOk(b)'
  <2>1. ASSUME NEW k \in D, \A j \in D : k <= j PROVE resps'[k].offset = Start(b.offset)
    <3>1. k \in Nat \ {0} /\ k + 1 \in C /\ resps'[k] = resps[k + 1]
      BY <1>2
    <3>2. \A l \in C : l = 1 \/ k + 1 <= l
      BY <1>2, <2>1, <3>1
    <3>3. CASE 1 \in C
      <4>1. PICK m \in C : m = k + 1
        BY <3>1
      <4>2. 1 < m /\ \A l \in C : l <= 1 \/ m <= l
        BY <3>1, <3>2, <4>1
      <4>3. resps[m].offset = EndOf(resps[1])
        BY <1>3, <3>3, <4>2
      <4>4. Start(b.offset) = EndOf(resps[1])
        BY <1>2, <3>3
      <4> QED BY <3>1, <4>1, <4>3, <4>4
    <3>4. CASE 1 \notin C
      BY <1>2, <1>3, <3>1, <3>2, <3>4
    <3> QED BY <3>3, <3>4
  <2>2. ASSUME NEW j \in D, NEW k \in D, j < k, \A l \in D : l <= j \/ k <= l
        PROVE  resps'[k].offset = EndOf(resps'[j])
    <3>1. /\ k \in Nat \ {0} /\ k + 1 \in C /\ resps'[k] = resps[k + 1]
          /\ j \in Nat \ {0} /\ j + 1 \in C /\ resps'[j] = resps[j + 1]
      BY <1>2
    <3>2. j + 1 < k + 1
      BY <2>2, <3>1
    <3>3. ASSUME NEW l \in C PROVE l <= j + 1 \/ k + 1 <= l
      <4>1. CASE l = 1
        BY <3>1, <4>1
      <4>2. CASE l # 1
        <5>1. l \in Nat /\ l - 1 \in D
          BY <1>2, <4>2
        <5>2. l - 1 <= j \/ k <= l - 1
          BY <2>2, <5>1
        <5> QED BY <3>1, <5>1, <5>2
      <4> QED BY <4>1, <4>2
    <3>4. PICK x \in C, y \in C : x = j + 1 /\ y = k + 1
      BY <3>1
    <3>5. resps[y].offset = EndOf(resps[x])
      BY <1>3, <3>2, <3>3, <3>4
    <3> QED BY <3>1, <3>4, <3>5
  <2> QED BY <2>1, <2>2 DEF ComingOk, D, Start, EndOf
<1>5. BusyOk(b)'
  <2> SUFFICES ASSUME NEW s \in serving, s.id = a.id
               PROVE  /\ D = {} => s.offset = Start(b.offset)
                      /\ \A k \in D : ~resps'[k].end /\ ((\A j \in D : j <= k) => s.offset = EndOf(resps'[k]))
    BY <1>3 DEF BusyOk, D, Start, EndOf
  <2>1. ASSUME D = {} PROVE s.offset = Start(b.offset)
    <3>1. \A k \in C : k = 1
      BY <1>2, <2>1
    <3>2. CASE 1 \in C
      <4>1. \A j \in C : j <= 1
        BY <3>1
      <4> QED BY <1>2, <1>3, <3>2, <4>1
    <3>3. CASE 1 \notin C
      <4>1. C = {}
        BY <3>1, <3>3
      <4> QED BY <1>2, <1>3, <3>3, <4>1
    <3> QED BY <3>2, <3>3
  <2>2. ASSUME NEW k \in D PROVE ~resps'[k].end /\ ((\A j \in D : j <= k) => s.offset = EndOf(resps'[k]))
    <3>1. k \in Nat \ {0} /\ k + 1 \in C /\ resps'[k] = resps[k + 1]
      BY <1>2
    <3>2. ASSUME \A j \in D : j <= k, NEW l \in C PROVE l <= k + 1
      BY <1>2, <3>1, <3>2
    <3> QED BY <1>3, <3>1, <3>2
  <2> QED BY <2>1, <2>2
<1>6. AskedOk(b)'
  <2>1. ASSUME NEW i \in DOMAIN reqs, NEW p \in reqs[i], p.id = a.id
        PROVE  /\ C = {} /\ (\A s \in serving : s.id # a.id) /\ Start(p.offset) = Start(a.offset)
               /\ \A j \in DOMAIN reqs : \A q \in reqs[j] : q.id = a.id => i = j /\ p = q
    BY <2>1 DEF ReadOk, AskedOk, C
  <2>2. C = {} => D = {} /\ Start(b.offset) = Start(a.offset)
    BY <1>2
  <2> QED BY <2>1, <2>2 DEF AskedOk, D, Start
<1>7. EndOk(b)'
  <2> SUFFICES ASSUME NEW k \in D, resps'[k].end, NEW j \in D PROVE j <= k
    BY DEF EndOk, D
  <2>1. /\ k \in Nat /\ k + 1 \in C /\ resps[k + 1].end /\ j \in Nat /\ j + 1 \in C
    BY <1>2
  <2>2. j + 1 <= k + 1
    BY <1>3, <2>1
  <2> QED BY <2>1, <2>2
<1>8. ExtentOk(b)'
  <2> SUFFICES ASSUME b.length # 0
               PROVE  /\ \A i \in DOMAIN reqs : \A p \in reqs[i] : p.id = a.id => End(p.offset, p.length) = UpTo(a.r)
                      /\ \A s \in serving : s.id = a.id => s.upto = UpTo(a.r)
                      /\ \A k \in D : /\ EndOf(resps'[k]) <= UpTo(a.r)
                                      /\ resps'[k].end => EndOf(resps'[k]) = UpTo(a.r)
    BY DEF ExtentOk, D, End, UpTo, EndOf
  <2>1. ExtentOk(a)
    BY DEF ReadOk
  <2>2. \A k \in C : EndOf(resps[k]) <= UpTo(a.r) /\ (resps[k].end => EndOf(resps[k]) = UpTo(a.r))
    BY <2>1 DEF ExtentOk, C
  <2>3. \A k \in D : EndOf(resps'[k]) <= UpTo(a.r) /\ (resps'[k].end => EndOf(resps'[k]) = UpTo(a.r))
    BY <1>2, <2>2
  <2> QED BY <2>1, <2>3 DEF ExtentOk
<1>9. ASSUME PlaceOk(a) PROVE PlaceOk(b)'
  <2>1. ASSUME NEW k \in C, resps[k].end PROVE \E j \in D : resps'[j].end
    <3>1. k # 1
      BY <1>2, <2>1
    <3>2. k \in Nat /\ k - 1 \in D
      BY <1>2, <3>1
    <3>3. PICK j \in D : j = k - 1
      BY <3>2
    <3>4. j + 1 = k
      BY <3>2, <3>3
    <3>5. resps'[j] = resps[k]
      BY <1>2, <3>4
    <3> QED BY <2>1, <3>5
  <2> QED BY <1>9, <2>1 DEF PlaceOk, C, D
<1> QED BY <1>4, <1>5, <1>6, <1>7, <1>8, <1>9 DEF ReadOk

\* handle_range_data: nothing is left on the stream of a read that ends.
LEMMA WireHandle ==
    ASSUME IInv, NEW n \in 1..MaxResponses, handle_range_data(n)
    PROVE  WireInv'
<1>0. TypeOK /\ WithinObject /\ WorkerInv /\ WireInv
  BY DEF IInv
<1>1. PICK d \in Responses : d = Head(resps)
  BY HandleEffect
<1>2. /\ pc = "run" /\ resps # <<>> /\ resps' = Tail(resps)
      /\ UNCHANGED <<stream, reqs, serving>>
      /\ Unknown(d) \/ \E a \in ranges : Handles(a, d)
  BY <1>1, HandleEffect
<1>3. resps \in Seq(Responses)
  BY <1>0 DEF TypeOK
<1>4. /\ 1 \in DOMAIN resps /\ d = resps[1]
      /\ \A k \in DOMAIN resps' : k \in Nat \ {0} /\ k + 1 \in DOMAIN resps /\ resps'[k] = resps[k + 1]
  BY <1>1, <1>2, <1>3, TailElems
<1>5. /\ \A a \in ranges : (failed /\ a.length = 0) \/ ReadOk(a)
      /\ ~failed => KnownInv /\ (stream = "open" => \A a \in ranges : PlaceOk(a))
  BY <1>0, <1>2 DEF WireInv, Streaming
<1>5a. ASSUME NEW b \in ranges, ReadOk(b), b.id # d.id PROVE ReadOk(b)' /\ (PlaceOk(b) => PlaceOk(b)')
  <2>1. resps[1].id # b.id
    BY <1>4, <1>5a
  <2> QED BY <1>0, <1>2, <1>5a, <2>1, WireTail
<1>6. CASE Unknown(d)
  <2>1. failed' /\ ranges' = ranges /\ \A b \in ranges : b.id # d.id
    BY <1>6 DEF Unknown
  <2>2. \A b \in ranges' : (failed' /\ b.length = 0) \/ ReadOk(b)'
    BY <1>5, <1>5a, <2>1
  <2> QED BY <2>1, <2>2 DEF WireInv
<1>7. ASSUME NEW a \in ranges, Handles(a, d) PROVE WireInv'
  <2>0. /\ a.id = d.id /\ (failed' <=> failed \/ ~Valid(a, d))
        /\ \A b \in ranges : b # a => b.id # d.id
    BY <1>0, <1>7 DEF Handles, WorkerInv
  <2>1. PICK c : c = IF InOrder(a, d) THEN update(a, d) ELSE a
    OBVIOUS
  <2>2. /\ ranges' = IF d.end THEN ranges \ {a} ELSE (ranges \ {a}) \cup {c}
        /\ \A b \in ranges' : (b \in ranges /\ b # a) \/ (b = c /\ ~d.end)
    BY <1>7, <2>1 DEF Handles
  <2>3. /\ c.id = a.id /\ c.r = a.r /\ (a.length = 0 => c.length = 0)
        /\ InOrder(a, d) => Start(c.offset) = EndOf(d)
    BY <1>1, <1>2, <2>0, <2>1, NextRead
  <2>4. ~InOrder(a, d) => a.length = 0 /\ failed' /\ c.length = 0
    <3>1. ~InOrder(a, d) => a.length = 0
      BY <1>1, <1>2, <2>0, HeadResponse
    <3> QED BY <2>0, <2>3, <3>1 DEF Valid
  <2>5. ASSUME ~d.end, InOrder(a, d), ReadOk(a) PROVE ReadOk(c)' /\ (PlaceOk(a) => PlaceOk(c)')
    <3>1. /\ c.id = a.id /\ c.r = a.r /\ (c.length # 0 => a.length # 0)
          /\ resps[1].id = a.id /\ Start(c.offset) = EndOf(resps[1]) /\ ~resps[1].end
      BY <1>4, <2>0, <2>3, <2>5
    <3> QED BY <1>0, <1>2, <2>5, <3>1, WireTail
  <2>6. ASSUME NEW b \in ranges'
        PROVE  /\ (failed' /\ b.length = 0) \/ ReadOk(b)'
               /\ ~failed' /\ stream = "open" => PlaceOk(b)'
    <3>1. CASE b \in ranges /\ b # a
      BY <1>5, <1>5a, <2>0, <3>1
    <3>2. CASE b = c /\ ~d.end
      <4>1. CASE ReadOk(a) /\ InOrder(a, d)
        BY <1>5, <2>0, <2>5, <3>2, <4>1
      <4>2. CASE ~InOrder(a, d)
        BY <2>4, <3>2, <4>2
      <4>3. CASE ~ReadOk(a)
        BY <1>5, <2>0, <2>3, <3>2, <4>3
      <4> QED BY <4>1, <4>2, <4>3
    <3> QED BY <2>2, <3>1, <3>2
  <2>7. ASSUME NEW id, \E b \in ranges : b.id = id,
               id # a.id \/ ~d.end
        PROVE  \E b \in ranges' : b.id = id
    <3>1. CASE id # a.id
      <4>1. PICK b \in ranges : b.id = id
        BY <2>7
      <4>2. b # a /\ b \in ranges'
        BY <2>2, <3>1, <4>1
      <4> QED BY <4>1, <4>2
    <3>2. CASE id = a.id /\ ~d.end
      BY <2>2, <2>3, <3>2
    <3> QED BY <2>7, <3>1, <3>2
  <2>8. ASSUME d.end, ReadOk(a)
        PROVE  /\ \A i \in DOMAIN reqs : \A p \in reqs[i] : p.id # a.id
               /\ \A s \in serving : s.id # a.id
               /\ \A k \in DOMAIN resps' : resps'[k].id # a.id
    <3>1. ReadOk(a) /\ 1 \in Coming(a.id) /\ resps[1].end
      BY <1>4, <2>0, <2>8 DEF Coming
    <3>2. \A i \in DOMAIN reqs : \A p \in reqs[i] : p.id # a.id
      BY <3>1 DEF ReadOk, AskedOk
    <3>3. \A s \in serving : s.id # a.id
      BY <3>1 DEF ReadOk, BusyOk
    <3>4. ASSUME NEW k \in DOMAIN resps', resps'[k].id = a.id PROVE FALSE
      <4>1. k \in Nat \ {0} /\ k + 1 \in Coming(a.id)
        BY <1>4, <3>4 DEF Coming
      <4>2. k + 1 <= 1
        BY <3>1, <4>1 DEF ReadOk, EndOk
      <4> QED BY <4>1, <4>2
    <3> QED BY <3>2, <3>3, <3>4
  <2>9. ASSUME ~failed' PROVE KnownInv'
    <3>0. ~failed /\ ReadOk(a) /\ KnownInv
      BY <1>5, <2>0, <2>9
    <3>1. \A i \in DOMAIN reqs : \A p \in reqs[i] : \E b \in ranges' : b.id = p.id
      BY <2>7, <2>8, <3>0 DEF KnownInv
    <3>2. \A s \in serving : \E b \in ranges' : b.id = s.id
      BY <2>7, <2>8, <3>0 DEF KnownInv
    <3>3. \A k \in DOMAIN resps' : \E b \in ranges' : b.id = resps'[k].id
      <4> SUFFICES ASSUME NEW k \in DOMAIN resps' PROVE \E b \in ranges' : b.id = resps'[k].id
        OBVIOUS
      <4>1. PICK id : id = resps'[k].id
        OBVIOUS
      <4>2. \E b \in ranges : b.id = id
        BY <1>4, <3>0, <4>1 DEF KnownInv
      <4>3. id # a.id \/ ~d.end
        BY <2>8, <3>0, <4>1
      <4> QED BY <2>7, <4>1, <4>2, <4>3
    <3> QED BY <1>2, <3>1, <3>2, <3>3 DEF KnownInv
  <2> QED BY <1>2, <2>6, <2>9 DEF WireInv
<1> QED BY <1>2, <1>6, <1>7

-----------------------------------------------------------------------------
(***************************************************************************)
(* The induction.                                                          *)
(***************************************************************************)
LEMMA InitIInv == Init => IInv
<1> SUFFICES ASSUME Init PROVE IInv
  OBVIOUS
<1>1. TypeOK
  <2>1. /\ outcome \in [Readers -> {"none", "open", "eof", "error", "dropped"}]
        /\ seen \in [Readers -> Seq(Nat)]
        /\ inbox \in [Readers -> Seq(Seq(Nat))]
    <3>1. <<>> \in Seq(Nat) /\ <<>> \in Seq(Seq(Nat))
      OBVIOUS
    <3> QED BY <3>1 DEF Init
  <2>2. \A r \in Readers : Len(inbox[r]) <= ChannelSize
    <3>1. ASSUME NEW r \in Readers PROVE Len(inbox[r]) <= ChannelSize
      <4>1. Len(inbox[r]) = 0
        BY DEF Init
      <4> QED BY <4>1, BidiReadAssumption
    <3> QED BY <3>1
  <2>3. /\ requests \in Seq(Readers) /\ reqs \in Seq(SUBSET Protos) /\ resps \in Seq(Responses)
        /\ pc = "run" /\ out = <<>> /\ stream = "open"
    BY DEF Init
  <2>4. /\ held \in BOOLEAN /\ panicked \in BOOLEAN /\ closed \in BOOLEAN
        /\ ranges = {} /\ notify = {} /\ serving = {} /\ bad = {} /\ cut = {}
        /\ next_range_id \in Nat /\ reconnect_attempts \in Nat
    BY DEF Init
  <2>4a. failed \in BOOLEAN /\ ~failed
    BY Zenon DEF Init
  <2>4b. todo \in 0..Len(resps) /\ todo = 0
    BY DEF Init
  <2>5. faults \in 0..MaxFaults
    BY BidiReadAssumption DEF Init
  <2> QED BY <2>1, <2>2, <2>3, <2>4, <2>4a, <2>4b, <2>5 DEF TypeOK
<1>2. DeliveryInv
  <2>1. ASSUME NEW r \in Readers PROVE ReaderInv(r)
    <3>1. /\ ~Queued(r) /\ ~Active(r) /\ ~Outgoing(r) /\ inbox[r] = <<>> /\ seen[r] = <<>> /\ outcome[r] = "none"
          /\ notify = {} /\ pc = "run" /\ bad = {}
      BY DEF Init, Queued, Active, Outgoing
    <3>2. SeenOk(r)
      <4>1. From(r) \in Nat /\ UpTo(r) \in Nat /\ From(r) <= UpTo(r)
        BY RangeOf
      <4>2. PICK f \in Nat : f = From(r)
        BY <4>1
      <4>3. Bytes(f, f) \in Seq(Nat) /\ Len(Bytes(f, f)) = 0
        BY BytesFacts
      <4>4. Bytes(f, f) = <<>>
        BY <4>3
      <4>5. Len(seen[r]) = 0
        BY <3>1
      <4>6. From(r) + Len(seen[r]) = f
        BY <4>2, <4>5
      <4> QED BY <3>1, <4>1, <4>2, <4>4, <4>6 DEF SeenOk
    <3>3. QueueOk(r) /\ InboxOk(r) /\ SourceOk(r) /\ CompleteOk(r) /\ ClosingOk(r) /\ BadOk(r)
      BY <3>1 DEF QueueOk, InboxOk, SourceOk, CompleteOk, ClosingOk, BadOk
    <3> QED BY <3>2, <3>3 DEF ReaderInv
  <2> QED BY <2>1 DEF DeliveryInv, Init
<1>3. WithinObject /\ WorkerInv
  BY DEF Init, WithinObject, WorkerInv
<1>4. WireInv
  BY DEF Init, WireInv, KnownInv
<1> QED BY <1>1, <1>2, <1>3, <1>4 DEF IInv

\* A step that leaves the reads and the stream alone.
LEMMA WorkerFrame ==
    ASSUME WithinObject, WorkerInv, WireInv, UNCHANGED <<ranges, next_range_id, failed, net, history>>,
           pc' = pc \/ (pc = "send" /\ pc' = "run")
    PROVE  WithinObject' /\ WorkerInv' /\ WireInv'
<1>1. WithinObject'
  BY DEF WithinObject, net, EndOf, Bytes
<1>2. WorkerInv'
  BY DEF WorkerInv, net, history, RemainingOk, Start, From, UpTo, Unbounded, End
<1>3. WireInv'
  BY WireFrame DEF net, Streaming
<1> QED BY <1>1, <1>2, <1>3

LEMMA ApplicationStep ==
    ASSUME IInv, (\E r \in Readers : read_range(r) \/ next(r) \/ DropReader(r)) \/ DropDescriptor
    PROVE  IInv'
<1>0. TypeOK /\ DeliveryInv /\ WithinObject /\ WorkerInv /\ WireInv
  BY DEF IInv
<1>1. UNCHANGED <<worker, net, history>>
  BY DEF read_range, next, DropReader, DropDescriptor
<1>2. UNCHANGED <<pc, out, ranges, next_range_id, notify, failed, net, history, closed, bad, cut>>
  BY <1>1 DEF worker, history
<1>3. WithinObject' /\ WorkerInv' /\ WireInv'
  BY <1>0, <1>2, WorkerFrame
<1>4. ASSUME NEW r \in Readers, read_range(r) PROVE TypeOK' /\ DeliveryInv'
  <2>1. TypeOK'
    BY <1>0, <1>4, TypeReadRange
  <2>2. CASE WorkerReturned
    BY <1>0, <1>2, <1>4, <2>1, <2>2, DeliveryFrame DEF read_range
  <2>3. CASE ~WorkerReturned
    BY <1>0, <1>2, <1>4, <2>1, <2>3, DeliveryReadRange DEF read_range
  <2> QED BY <2>2, <2>3, <2>1
<1>5. ASSUME NEW r \in Readers, next(r) PROVE TypeOK' /\ DeliveryInv'
  <2>1. TypeOK'
    BY <1>0, <1>5, TypeNext
  <2>2. outcome[r] = "open" /\ requests' = requests
    BY <1>5 DEF next
  <2>3. CASE inbox[r] # <<>> /\ Head(inbox[r]) # Error
    <3>1. /\ inbox' = [inbox EXCEPT ![r] = Tail(@)] /\ outcome' = outcome
          /\ seen' = [seen EXCEPT ![r] = @ \o Head(inbox[r])]
      BY <1>5, <2>3 DEF next
    <3> QED BY <1>0, <1>2, <2>1, <2>2, <2>3, <3>1, DeliveryNextChunk
  <2>4. CASE inbox[r] # <<>> /\ Head(inbox[r]) = Error
    <3>1. inbox' = [inbox EXCEPT ![r] = Tail(@)] /\ outcome' = [outcome EXCEPT ![r] = "error"] /\ seen' = seen
      BY <1>5, <2>4 DEF next
    <3>2. PICK e \in {"error", "eof", "dropped"} : e = "error"
      OBVIOUS
    <3> QED BY <1>0, <1>2, <2>1, <2>2, <2>4, <3>1, <3>2, DeliveryReaderEnds
  <2>5. CASE inbox[r] = <<>>
    <3>1. inbox' = inbox /\ outcome' = [outcome EXCEPT ![r] = "eof"] /\ seen' = seen /\ ~HasSender(r)
      BY <1>5, <2>5 DEF next
    <3>2. PICK e \in {"error", "eof", "dropped"} : e = "eof"
      OBVIOUS
    <3> QED BY <1>0, <1>2, <2>1, <2>2, <2>5, <3>1, <3>2, DeliveryReaderEnds
  <2> QED BY <2>1, <2>3, <2>4, <2>5
<1>6. ASSUME NEW r \in Readers, DropReader(r) PROVE TypeOK' /\ DeliveryInv'
  <2>1. TypeOK'
    BY <1>0, <1>6, TypeDrop
  <2>2. /\ inbox' = [inbox EXCEPT ![r] = <<>>] /\ outcome' = [outcome EXCEPT ![r] = "dropped"]
        /\ seen' = seen /\ outcome[r] # "none" /\ requests' = requests
    BY <1>6 DEF DropReader
  <2>3. PICK e \in {"error", "eof", "dropped"} : e = "dropped"
    OBVIOUS
  <2> QED BY <1>0, <1>2, <2>1, <2>2, <2>3, DeliveryReaderEnds
<1>7. CASE DropDescriptor
  <2>1. TypeOK'
    BY <1>0, <1>7, TypeDrop
  <2>2. UNCHANGED <<outcome, seen, inbox, requests>>
    BY <1>7 DEF DropDescriptor
  <2>3. DeliveryInv'
    BY <1>0, <1>2, <2>2, DeliveryFrame
  <2> QED BY <1>3, <2>1, <2>3 DEF IInv
<1> QED BY <1>3, <1>4, <1>5, <1>6, <1>7 DEF IInv

\* The worker talks to its readers, or returns.
LEMMA ReadersStep ==
    ASSUME IInv, HandlerSend \/ (\E r \in Readers : close_reader(r)) \/ ReadersClosed \/ FutureReader
                   \/ RequestsClosed \/ StreamClosed
    PROVE  IInv'
<1>0. TypeOK /\ DeliveryInv /\ WithinObject /\ WorkerInv /\ WireInv
  BY DEF IInv
<1>1. CASE HandlerSend
  <2>1. pc = "send" /\ pc' = "run" /\ UNCHANGED <<ranges, next_range_id, failed, net, history>>
    BY <1>1 DEF HandlerSend
  <2> QED BY <1>0, <1>1, <2>1, TypeSend, DeliverySend, WorkerFrame DEF IInv
<1>2. ASSUME NEW r \in Readers, close_reader(r) PROVE IInv'
  <2>1. pc = "closing" /\ todo = 0 /\ ~failed /\ UNCHANGED <<pc, ranges, next_range_id, failed, net, history>>
    BY <1>0, <1>2 DEF close_reader, TypeOK
  <2>2. TypeOK'
    BY <1>0, <1>2, <2>1, TypeClosing
  <2> QED BY <1>0, <1>2, <2>1, <2>2, DeliveryCloseReader, WorkerFrame DEF IInv
<1>3. CASE FutureReader
  <2>1. pc = "err" /\ todo = 0 /\ ~failed /\ UNCHANGED <<pc, ranges, next_range_id, failed, net, history>>
    BY <1>0, <1>3 DEF FutureReader, worker, TypeOK
  <2>2. TypeOK'
    BY <1>0, <1>3, <2>1, TypeClosing
  <2> QED BY <1>0, <1>3, <2>1, <2>2, DeliveryFuture, WorkerFrame DEF IInv
<1>4. ASSUME Disconnect, ranges' = {}, pc' \in {"err", "ok"} PROVE WithinObject' /\ WorkerInv' /\ WireInv'
  BY <1>4 DEF Disconnect, WithinObject, WorkerInv, WireInv, Streaming
<1>5. CASE ReadersClosed
  <2>1. pc = "closing" /\ todo = 0 /\ ~failed /\ Disconnect /\ ranges' = {} /\ pc' \in {"err", "ok"}
    BY <1>0, <1>5 DEF ReadersClosed, TypeOK
  <2>2. TypeOK'
    BY <1>0, <1>5, <2>1, TypeClosing
  <2> QED BY <1>0, <1>4, <1>5, <2>1, <2>2, DeliveryClosed DEF IInv
<1>6. CASE RequestsClosed \/ StreamClosed
  <2>1. /\ pc \in {"run", "err"} /\ todo = 0 /\ ~failed
        /\ Returns /\ Disconnect /\ ranges' = {} /\ pc' \in {"err", "ok"}
    BY <1>0, <1>6 DEF RequestsClosed, StreamClosed, Selecting, Returns, TypeOK
  <2>2. closed \/ \A r \in Readers : outcome[r] # "open"
    <3>1. CASE RequestsClosed
      BY <3>1 DEF RequestsClosed, NobodyLeft
    <3>2. CASE StreamClosed
      BY <1>0, <3>2 DEF StreamClosed, Selecting, WorkerInv
    <3> QED BY <1>6, <3>1, <3>2
  <2>3. TypeOK'
    BY <1>0, <2>1, TypeClosing
  <2> QED BY <1>0, <1>4, <2>1, <2>2, <2>3, DeliveryReturns DEF IInv
<1> QED BY <1>1, <1>2, <1>3, <1>5, <1>6

\* The worker takes requests and responses.
LEMMA DataStep ==
    ASSUME IInv, insert_ranges \/ \E n \in 1..MaxResponses : handle_range_data(n)
    PROVE  IInv'
<1>0. TypeOK /\ DeliveryInv /\ WithinObject /\ WorkerInv /\ WireInv
  BY DEF IInv
<1>1. CASE insert_ranges
  BY <1>0, <1>1, InsertWorker, DeliveryInsert, WireInsert DEF IInv
<1>2. ASSUME NEW n \in 1..MaxResponses, handle_range_data(n) PROVE IInv'
  BY <1>2, HandleWorker, DeliveryHandle, WireHandle DEF IInv
<1> QED BY <1>1, <1>2

\* The stream breaks and is replaced, or the worker gives up.
LEMMA StreamStep ==
    ASSUME IInv, Reconnect \/ ConnectOk \/ ConnectFails \/ RangesFailed
                   \/ \E kind \in {"closed", "transient", "redirect", "permanent"} : Break(kind)
    PROVE  IInv'
<1>0. TypeOK /\ DeliveryInv /\ WithinObject /\ WorkerInv /\ WireInv
  BY DEF IInv
<1>1. TypeOK' /\ WithinObject' /\ WorkerInv'
  BY <1>0, StreamWorker
<1>2. ASSUME CloseReaders, pc \in {"run", "connect"},
             UNCHANGED <<outcome, seen, inbox, requests, out, closed, bad, cut>>
      PROVE  DeliveryInv' /\ WireInv'
  <2>1. WireInv'
    BY <1>2 DEF CloseReaders, WireInv, Streaming
  <2> QED BY <1>0, <1>2, <2>1, DeliveryGiveUp
<1>3. CASE Reconnect
  <2>1. /\ pc = "run" /\ UNCHANGED <<outcome, seen, inbox, requests, out, reqs, resps, serving, stream, failed,
                                     closed, bad, cut>>
        /\ CloseReaders \/ (pc' = "connect" /\ UNCHANGED <<ranges, notify>>)
    BY <1>3 DEF Reconnect, Selecting, app, net, history
  <2>2. CASE CloseReaders
    BY <1>1, <1>2, <2>1, <2>2 DEF IInv
  <2>3. CASE pc' = "connect" /\ UNCHANGED <<ranges, notify>>
    <3>1. DeliveryInv'
      BY <1>0, <2>1, <2>3, DeliveryFrame
    <3>2. WireInv'
      BY <1>0, <2>1, <2>3, WireFrame DEF Streaming
    <3> QED BY <1>1, <3>1, <3>2 DEF IInv
  <2> QED BY <2>1, <2>2, <2>3
<1>4. CASE ConnectOk
  <2>1. DeliveryInv'
    BY <1>0, <1>4, DeliveryFrame DEF ConnectOk, app, history
  <2>2. WireInv'
    BY <1>0, <1>4, WireConnect
  <2> QED BY <1>1, <2>1, <2>2 DEF IInv
<1>5. CASE ConnectFails
  BY <1>1, <1>2, <1>5 DEF IInv, ConnectFails, app, history
<1>6. ASSUME NEW kind \in {"closed", "transient", "redirect", "permanent"}, Break(kind) PROVE IInv'
  <2>1. DeliveryInv'
    BY <1>0, <1>6, DeliveryFrame DEF Break, client, app, worker
  <2>2. WireInv'
    BY <1>0, <1>6, WireBreak
  <2> QED BY <1>1, <2>1, <2>2 DEF IInv
<1>7. CASE RangesFailed
  BY <1>1, <1>2, <1>7 DEF IInv, RangesFailed, app, history
<1> QED BY <1>3, <1>4, <1>5, <1>6, <1>7

\* The service takes requests and answers them.
LEMMA ServiceStep ==
    ASSUME IInv, \/ TakeRequest
                 \/ \E s \in serving, n \in 0..MaxChunk, end \in BOOLEAN : Serve(s, n, end)
                 \/ \E s \in serving, n \in 1..MaxChunk, end \in BOOLEAN : Corrupt(s, n, end)
    PROVE  IInv'
<1>0. TypeOK /\ DeliveryInv /\ WithinObject /\ WorkerInv /\ WireInv
  BY DEF IInv
<1>1. CASE TakeRequest
  <2>1. DeliveryInv'
    BY <1>0, <1>1, DeliveryFrame DEF TakeRequest, client, app, worker, history
  <2> QED BY <1>0, <1>1, <2>1, TakeWorker, WireTake DEF IInv
<1>2. ASSUME NEW s \in serving, Live, \E d, X : Responds(s, d, X) PROVE IInv'
  <2>1. PICK d, X : Responds(s, d, X)
    BY <1>2
  <2>2. TypeOK' /\ WithinObject' /\ WorkerInv' /\ WireInv'
    BY <1>0, <1>2, <2>1, RespondsWorker, WireRespond
  <2>3. UNCHANGED <<client, history>>
    BY <2>1 DEF Responds
  <2>4. DeliveryInv'
    BY <1>0, <2>3, DeliveryFrame DEF client, app, worker, history
  <2> QED BY <2>2, <2>4 DEF IInv
<1> QED BY <1>0, <1>1, <1>2, ServeResponds, CorruptResponds

LEMMA StepIInv == IInv /\ [Next]_vars => IInv'
<1> SUFFICES ASSUME IInv, [Next]_vars PROVE IInv'
  OBVIOUS
<1>1. CASE UNCHANGED vars
  <2>1. UNCHANGED <<app, inbox, requests, worker, net, history>>
    BY <1>1 DEF vars
  <2>2. TypeOK'
    BY <2>1 DEF IInv, TypeOK, app, worker, net, history
  <2>3. DeliveryInv'
    BY <2>1, DeliveryFrame DEF IInv, app, worker, history
  <2>4. WithinObject' /\ WorkerInv' /\ WireInv'
    BY <2>1, WorkerFrame DEF IInv, worker
  <2> QED BY <2>2, <2>3, <2>4 DEF IInv
<1>2. CASE Next
  BY <1>2, ApplicationStep, ReadersStep, DataStep, StreamStep, ServiceStep
     DEF Next, WorkerSteps, ServiceSteps, Faults
<1> QED BY <1>1, <1>2

-----------------------------------------------------------------------------
(***************************************************************************)
(* Theorems.                                                               *)
(***************************************************************************)
\* The invariant holds in every behaviour, for every set of readers and ranges, every object
\* and channel size, and any number of responses, chunks and faults.
THEOREM Invariance == Spec => []IInv
  BY InitIInv, StepIInv, PTL DEF Spec

\* Every variable has its type, and no channel is overfilled.
THEOREM TypeCorrect == Spec => []TypeOK
<1>1. IInv => TypeOK
  BY DEF IInv
<1> QED BY <1>1, Invariance, PTL

\* A reader gets bytes of its range in order and none twice, and the range from its start without
\* a gap unless handle_ranges dropped some of its data for a checksum, however often the stream
\* was resumed.  Data is dropped only in a response after which every reader that is left is told;
\* a normal end means all of the range, unless the service ended the stream, or range_end came
\* with the response of the dropped data (active_read.rs, remaining_range.rs, worker.rs).
THEOREM ExactReads == Spec => []ReadIsExact
<1>1. IInv => ReadIsExact
  <2> SUFFICES ASSUME IInv, NEW r \in Readers PROVE SeenOk(r) /\ CompleteOk(r) /\ BadOk(r)
    BY DEF ReadIsExact, SeenOk, CompleteOk, BadOk, Active
  <2> QED BY DEF IInv, DeliveryInv, ReaderInv
<1> QED BY <1>1, Invariance, PTL

\* While the stream is up each active read is in exactly one place on it, where its data
\* continues what the reader has; read ids are never shared and no response is for an unknown
\* one (worker.rs, connector.rs).
THEOREM ReadsAreServed == Spec => []EveryActiveReadIsServed
<1>1. IInv => EveryActiveReadIsServed
  <2> SUFFICES ASSUME IInv PROVE EveryActiveReadIsServed
    OBVIOUS
  <2>0. WorkerInv /\ WireInv
    BY DEF IInv
  <2>1. \A a, b \in ranges : a.id = b.id \/ a.r = b.r => a = b
    BY <2>0 DEF WorkerInv
  <2>2. ASSUME pc \in {"run", "send"}, stream = "open", ~failed, NEW a \in ranges
        PROVE  /\ \A k \in Coming(a.id) : IsFirst(k) => resps[k].offset = Start(a.offset)
               /\ \/ /\ Coming(a.id) = {} /\ Busy(a.id) = {}
                     /\ \E p \in Asked(a.id) : Asked(a.id) = {p} /\ Start(p.offset) = Start(a.offset)
                  \/ /\ Asked(a.id) = {}
                     /\ \E s \in Busy(a.id) :
                          /\ Busy(a.id) = {s}
                          /\ Coming(a.id) = {} => s.offset = Start(a.offset)
                          /\ \A k \in Coming(a.id) : IsLast(k) => ~resps[k].end /\ s.offset = EndOf(resps[k])
                  \/ /\ Asked(a.id) = {} /\ Busy(a.id) = {}
                     /\ \E k \in Coming(a.id) : IsLast(k) /\ resps[k].end
    <3>1. ReadOk(a) /\ PlaceOk(a)
      BY <2>0, <2>2 DEF WireInv, Streaming
    <3>2. \A k \in Coming(a.id) : /\ IsFirst(k) <=> \A j \in Coming(a.id) : k <= j
                                  /\ IsLast(k) <=> \A j \in Coming(a.id) : j <= k
      BY DEF Coming, IsFirst, IsLast
    <3>3. \A k \in Coming(a.id) : IsFirst(k) => resps[k].offset = Start(a.offset)
      BY <3>1, <3>2 DEF ReadOk, ComingOk
    <3>4. /\ \A p \in Asked(a.id) : \E i \in DOMAIN reqs : p \in reqs[i] /\ p.id = a.id
          /\ \A i \in DOMAIN reqs : \A p \in reqs[i] : p.id = a.id => p \in Asked(a.id)
          /\ \A s : s \in Busy(a.id) <=> s \in serving /\ s.id = a.id
      BY DEF Asked, Busy
    <3>5. CASE \E i \in DOMAIN reqs : \E p \in reqs[i] : p.id = a.id
      <4>1. PICK i \in DOMAIN reqs : \E p \in reqs[i] : p.id = a.id
        BY <3>5
      <4>2. PICK p \in reqs[i] : p.id = a.id
        BY <4>1
      <4>3. /\ Coming(a.id) = {} /\ (\A s \in serving : s.id # a.id) /\ Start(p.offset) = Start(a.offset)
            /\ \A j \in DOMAIN reqs : \A q \in reqs[j] : q.id = a.id => p = q
        BY <3>1, <4>2 DEF ReadOk, AskedOk
      <4>4. Asked(a.id) = {p} /\ p \in Asked(a.id) /\ Busy(a.id) = {}
        BY <3>4, <4>2, <4>3
      <4> QED BY <3>3, <4>3, <4>4
    <3>6. CASE \E s \in serving : s.id = a.id
      <4>1. PICK s \in serving : s.id = a.id
        BY <3>6
      <4>2. /\ \A u \in serving : u.id = a.id => u = s
            /\ Coming(a.id) = {} => s.offset = Start(a.offset)
            /\ \A k \in Coming(a.id) : /\ ~resps[k].end
                                       /\ (\A j \in Coming(a.id) : j <= k) => s.offset = EndOf(resps[k])
        BY <3>1, <4>1 DEF ReadOk, BusyOk
      <4>3. Asked(a.id) = {}
        BY <3>1, <3>4, <4>1 DEF ReadOk, AskedOk
      <4>4. s \in Busy(a.id) /\ Busy(a.id) = {s}
        BY <3>4, <4>1, <4>2
      <4> QED BY <3>2, <3>3, <4>2, <4>3, <4>4
    <3>7. CASE \E k \in Coming(a.id) : resps[k].end
      <4>1. Asked(a.id) = {}
        BY <3>1, <3>4, <3>7 DEF ReadOk, AskedOk
      <4>2. Busy(a.id) = {}
        BY <3>1, <3>4, <3>7 DEF ReadOk, BusyOk
      <4>3. \E k \in Coming(a.id) : IsLast(k) /\ resps[k].end
        BY <3>1, <3>2, <3>7 DEF ReadOk, EndOk
      <4> QED BY <3>3, <4>1, <4>2, <4>3
    <3> QED BY <2>2, <3>1, <3>5, <3>6, <3>7 DEF PlaceOk
  <2>3. ASSUME pc \in {"run", "send"}, ~failed
        PROVE  {s.id : s \in serving} \cup {resps[i].id : i \in DOMAIN resps} \subseteq {a.id : a \in ranges}
    <3>1. KnownInv
      BY <2>0, <2>3 DEF WireInv, Streaming
    <3> QED BY <3>1 DEF KnownInv
  <2> QED BY <2>1, <2>2, <2>3 DEF EveryActiveReadIsServed
<1> QED BY <1>1, Invariance, PTL
==============================================================================
