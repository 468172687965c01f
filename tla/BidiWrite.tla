----------------------------- MODULE BidiWrite -----------------------------
(***************************************************************************)
(* Appendable uploads of the storage client (storage/src/storage/          *)
(* bidi_write): AppendableObjectWriterTransport in the application's task, *)
(* the background Worker with its ReplayBuffer and Connector, and, from how *)
(* they use it, the service at the other end of the stream.                *)
(*                                                                         *)
(* A byte is named by its place in log, which lists the bytes the          *)
(* application has appended and not lost by dropping a call; so a byte     *)
(* lost, repeated or misplaced after append shows, and log tells which of  *)
(* the bytes given to append it is.  A request carries the offset the      *)
(* client claims for its data; the service refuses one that does not       *)
(* continue what it has.  A broken stream loses the requests in flight,    *)
(* and may lose responses; the next handshake fences it, and what the      *)
(* service received but did not persist is gone.                           *)
(***************************************************************************)
EXTENDS Naturals, Sequences, FiniteSets

CONSTANTS
    MAX_WRITE_CHUNK_SIZE,
    Capacity,          \* ReplayBuffer::capacity
    CHANNEL_BUFFER_SIZE,
    AttemptLimit,      \* the attempt limit of options.retry_policy
    MAX_REDIRECTS_FOLLOWED,
    Openings,          \* <<p, n>>: how the upload starts, see Init
    AppendSizes,       \* the lengths append is called with
    MaxBytes,          \* bound: bytes the application appends
    MaxCalls,          \* bound: calls of flush, finalize and close
    MaxFaults          \* bound: streams and connection attempts that fail,
                       \* responses nobody asked for, calls dropped

\* DEFAULT_REPLAY_BUFFER_SIZE is 16 chunks.  More than 3 suffices: the payload
\* of the opening request stays below the watermark.
ASSUME BidiWriteAssumption ==
    /\ MAX_WRITE_CHUNK_SIZE \in Nat \ {0}
    /\ Capacity \in Nat /\ Capacity > 3 * MAX_WRITE_CHUNK_SIZE
    /\ CHANNEL_BUFFER_SIZE \in Nat \ {0}
    /\ AttemptLimit \in Nat /\ MAX_REDIRECTS_FOLLOWED \in Nat
    /\ Openings \subseteq Nat \X Nat
    /\ AppendSizes \subseteq Nat \ {0}
    /\ MaxBytes \in Nat /\ MaxCalls \in Nat /\ MaxFaults \in Nat
    /\ \A o \in Openings :
         /\ o[1] = o[2] \/ (o[1] < o[2] /\ o[2] <= MAX_WRITE_CHUNK_SIZE)
         /\ o[2] <= MaxBytes

VARIABLES
    \* the application's side, AppendableObjectWriterTransport
    given,             \* bytes given to append (history)
    log,               \* which of them the writer has not lost (history)
    appended,          \* their number, the length of log (history)
    coalescing_buffer,
    ready,             \* chunks the current call still has to send
    write_offset,
    call,              \* the call in progress, or how the writer ended
    calls,             \* flush, finalize and close calls made: the oneshot's id
    reply,             \* what the oneshot of call number `calls' holds
    confirmed,         \* the size returned by the last successful call (history)
    requests,          \* the channel of UploadIntents
    open,              \* the transport still holds its sender
    \* the worker and its connector
    pc,                \* "run", "connect", "wait" for completion, "ok", "err"
    replay_buffer,
    pending_requests,
    persisted_size,
    finalized,
    self_flush_outstanding,
    attempt_count,     \* retry_state
    redirects_followed,
    last_persisted_size,
    fruitless,         \* reconnects after a failure, since the last byte of
                       \* progress (history)
    \* the stream and the service
    stream,            \* "open", or how it ended
    reqs, resps,       \* in flight
    object, final,     \* the object: its persisted bytes, finalized
    received,          \* bytes received and not yet persisted
    rejected,          \* a request did not continue the upload (history)
    faults             \* what MaxFaults counts

history   == <<given, log, appended>>
transport == <<history, coalescing_buffer, ready, write_offset, call, calls, confirmed, open>>
connector == <<attempt_count, redirects_followed, last_persisted_size, fruitless>>
worker    == <<replay_buffer, pending_requests, persisted_size, finalized>>
service   == <<object, final, received, rejected>>
workerSide == <<pc, worker, self_flush_outstanding, connector>>
net       == <<stream, reqs, resps, service, faults>>
vars      == <<transport, reply, requests, workerSide, net>>

Bytes(m, n) == [i \in 1..(n - m) |-> m + i]   \* the bytes m+1..n

NoStatus == MaxBytes + 1   \* the size in a response without write_status
Reply(state, size) == [state |-> state, size |-> size]
Chunk(at, data)  == [at |-> at, data |-> data]
End(c)           == c.at + Len(c.data)
Request(at, data, lookup, finish) ==
    [at |-> at, data |-> data, state_lookup |-> lookup, finish_write |-> finish]

\* new_open, new_reopen and new_open_and_append, up to start_worker: the object
\* has p bytes, or p of the n in the opening request were persisted.
Init ==
    \E o \in Openings : LET p == o[1] n == o[2] IN
    /\ given = n
    /\ log = Bytes(0, n)
    /\ appended = n
    /\ coalescing_buffer = <<>>
    /\ ready = <<>>
    /\ write_offset = n
    /\ call = "idle"
    /\ calls = 0
    /\ reply = Reply("none", 0)
    /\ confirmed = 0
    /\ requests = <<>>
    /\ open = TRUE
    /\ pc = "run"
    /\ replay_buffer = IF p < n THEN <<Chunk(p, Bytes(p, n))>> ELSE <<>>
    /\ pending_requests = <<>>
    /\ persisted_size = p
    /\ finalized = FALSE
    /\ self_flush_outstanding = FALSE
    /\ attempt_count = 0
    /\ redirects_followed = 0
    /\ last_persisted_size = p
    /\ fruitless = 0
    /\ stream = "open"
    /\ reqs = <<>>
    /\ resps = <<>>
    /\ object = Bytes(0, p)
    /\ final = FALSE
    /\ received = Bytes(p, n)
    /\ rejected = FALSE
    /\ faults = 0

-----------------------------------------------------------------------------
(* The application's task.                                                 *)

\* CoalescingBuffer::push: the complete chunks, and what is left of them.
Cut(s) == [i \in 1..(Len(s) \div MAX_WRITE_CHUNK_SIZE) |->
              SubSeq(s, (i - 1) * MAX_WRITE_CHUNK_SIZE + 1, i * MAX_WRITE_CHUNK_SIZE)]
Residual(s) == SubSeq(s, (Len(s) \div MAX_WRITE_CHUNK_SIZE) * MAX_WRITE_CHUNK_SIZE + 1, Len(s))

append(n) ==
    /\ call = "idle"
    /\ given + n <= MaxBytes
    /\ LET all == coalescing_buffer \o Bytes(appended, appended + n) IN
         /\ ready' = Cut(all)
         /\ coalescing_buffer' = Residual(all)
         /\ call' = IF Cut(all) = <<>> THEN "idle" ELSE "append"
    /\ given' = given + n
    /\ log' = log \o Bytes(given, given + n)
    /\ appended' = appended + n
    /\ UNCHANGED <<write_offset, calls, confirmed, open, reply, requests, workerSide, net>>

\* flush, finalize and close begin by draining the coalescing buffer.
Start(op) ==
    /\ call = "idle"
    /\ calls < MaxCalls
    /\ calls' = calls + 1
    /\ reply' = Reply("none", 0)
    /\ call' = op
    /\ ready' = IF coalescing_buffer = <<>> THEN <<>> ELSE <<coalescing_buffer>>
    /\ coalescing_buffer' = <<>>
    /\ UNCHANGED <<history, write_offset, confirmed, open, requests, workerSide, net>>

WorkerEnded == pc \in {"ok", "err"}

append_sub_chunk ==
    /\ call \in {"append", "flush", "finalize", "close"}
    /\ ready # <<>>
    /\ ~WorkerEnded /\ Len(requests) < CHANNEL_BUFFER_SIZE
    /\ requests' = Append(requests, [op |-> "append", at |-> write_offset,
                                     data |-> Head(ready), id |-> 0])
    /\ write_offset' = write_offset + Len(Head(ready))
    /\ ready' = Tail(ready)
    /\ call' = IF call = "append" /\ ready' = <<>> THEN "idle" ELSE call
    /\ UNCHANGED <<history, coalescing_buffer, calls, confirmed, open, reply, workerSide, net>>

\* close is a flush followed by drop_and_join_worker.
Awaiting == [flush |-> "await flush", finalize |-> "await finalize", close |-> "await close"]

SendIntent ==
    /\ call \in DOMAIN Awaiting
    /\ ready = <<>>
    /\ ~WorkerEnded /\ Len(requests) < CHANNEL_BUFFER_SIZE
    /\ requests' = Append(requests, [op |-> IF call = "finalize" THEN "finalize" ELSE "flush",
                                     at |-> write_offset, data |-> <<>>, id |-> calls])
    /\ call' = Awaiting[call]
    /\ UNCHANGED <<history, coalescing_buffer, ready, write_offset, calls, confirmed, open,
                   reply, workerSide, net>>

Awaits == call \in {Awaiting[c] : c \in DOMAIN Awaiting}

\* The oneshot delivers; finalize and close drop the sender and join the worker.
Answered ==
    /\ Awaits
    /\ reply.state = "ok"
    /\ confirmed' = IF call = "await flush" THEN reply.size ELSE confirmed
    /\ call' = IF call = "await flush" THEN "idle" ELSE "join"
    /\ open' = (call = "await flush")
    /\ UNCHANGED <<history, coalescing_buffer, ready, write_offset, calls, reply, requests,
                   workerSide, net>>

\* drop_and_join_worker returns.
Joined ==
    /\ call = "join"
    /\ WorkerEnded
    /\ confirmed' = IF pc = "ok" THEN reply.size ELSE confirmed
    /\ call' = IF pc = "ok" THEN "closed" ELSE "failed"
    /\ UNCHANGED <<history, coalescing_buffer, ready, write_offset, calls, open, reply,
                   requests, workerSide, net>>

\* A send fails because the worker is gone, or the oneshot reports an error:
\* the call fails, as every later one would.
CallFails ==
    /\ call \notin {"idle", "join", "closed", "failed", "dropped"}
    /\ \/ Awaits /\ (reply.state = "err" \/ (reply.state = "none" /\ WorkerEnded))
       \/ ~Awaits /\ WorkerEnded
    /\ call' = "failed"
    /\ open' = FALSE
    /\ UNCHANGED <<history, coalescing_buffer, ready, write_offset, calls, confirmed, reply,
                   requests, workerSide, net>>

\* The application drops the future of an append or a flush, as a timeout around
\* it does.  The chunks the call has not sent are locals of it and go with it,
\* also what earlier calls left in the coalescing buffer: the writer keeps what
\* it has sent and what is in the coalescing buffer now, and goes on from there.
CancelCall ==
    /\ call \in {"append", "flush", "await flush"}
    /\ faults < MaxFaults
    /\ call' = "idle"
    /\ ready' = <<>>
    /\ reply' = Reply("none", 0)
    /\ log' = SubSeq(log, 1, write_offset)
                \o [i \in DOMAIN coalescing_buffer |-> log[coalescing_buffer[i]]]
    /\ appended' = write_offset + Len(coalescing_buffer)
    /\ coalescing_buffer' = Bytes(write_offset, appended')
    /\ faults' = faults + 1
    /\ UNCHANGED <<given, write_offset, calls, confirmed, open, requests, workerSide, stream,
                   reqs, resps, service>>

\* The writer is dropped without close, or with the future of a finalize or a
\* close, which owns it.
DropWriter ==
    /\ call \in {"idle", "finalize", "close", "await finalize", "await close", "join"}
    /\ call' = "dropped"
    /\ open' = FALSE
    /\ UNCHANGED <<history, coalescing_buffer, ready, write_offset, calls, confirmed, reply,
                   requests, workerSide, net>>
-----------------------------------------------------------------------------
(* The worker.                                                             *)

\* What is known of a response: the persisted size, and is_finalized.
HasStatus(r) == r.size # NoStatus

\* ReplayBuffer::unpersisted_bytes.
unpersisted_bytes(buffer) ==
    IF buffer = <<>> THEN 0 ELSE End(buffer[Len(buffer)]) - buffer[1].at
is_full == unpersisted_bytes(replay_buffer) >= Capacity

\* How many of the first n things are good, up to the first that is not.
LongestPrefix(n, good) ==
    CHOOSE k \in 0..n : 1..k \subseteq good /\ (k < n => k + 1 \notin good)

\* Mutant: the chunk that p lands in is dropped.
ack_dropsPartial(buffer, p) == SelectSeq(buffer, LAMBDA c : c.at >= p)

\* Mutant: the chunk that p lands in is kept whole.
ack_keepsPartial(buffer, p) == SelectSeq(buffer, LAMBDA c : End(c) > p)

\* ReplayBuffer::ack: whole chunks go from the front, the one p lands in is cut.
ack(buffer, p) ==
    LET popped == LongestPrefix(Len(buffer), {i \in DOMAIN buffer : End(buffer[i]) <= p})
        kept   == SubSeq(buffer, popped + 1, Len(buffer)) IN
    IF kept # <<>> /\ kept[1].at < p
      THEN [kept EXCEPT ![1] = Chunk(p, SubSeq(@.data, p - @.at + 1, Len(@.data)))]
      ELSE kept

\* Mutant: the watermark is above the capacity.
needs_watermark_flush_late(outstanding, pending, buffer) ==
    /\ ~outstanding
    /\ pending = <<>>
    /\ unpersisted_bytes(buffer) > Capacity

needs_watermark_flush(outstanding, pending, buffer) ==
    /\ ~outstanding
    /\ pending = <<>>
    /\ unpersisted_bytes(buffer) >= Capacity - 2 * MAX_WRITE_CHUNK_SIZE

\* Mutant: only an append carries a probe.
Probe_never(pending, buffer) == <<>>

\* maybe_send_watermark_flush: the probe, if there is to be one.
Probe(pending, buffer) ==
    IF needs_watermark_flush(FALSE, pending, buffer) /\ buffer # <<>>
      THEN <<Request(End(buffer[Len(buffer)]), <<>>, TRUE, FALSE)>>
      ELSE <<>>

\* tx.send: what is sent on a stream that has ended is lost.
Sent(s) == IF stream = "open" THEN reqs \o s ELSE reqs

\* drain_intents_on_error answers whoever still waits with the error.
DrainedReply == IF Awaits /\ reply.state = "none" THEN Reply("err", 0) ELSE reply

\* process_intent and the send that follows it.
ProcessAppend(i) ==
    LET buffer == Append(replay_buffer, Chunk(i.at, i.data))
        probe  == needs_watermark_flush(self_flush_outstanding, pending_requests, buffer) IN
    /\ replay_buffer' = buffer
    /\ self_flush_outstanding' = (self_flush_outstanding \/ probe)
    /\ reqs' = Sent(<<Request(i.at, i.data, probe, FALSE)>>)
    /\ UNCHANGED <<pending_requests, finalized>>

PendingOf(i) == [kind |-> i.op, at |-> i.at, id |-> i.id]
RequestOf(p) == Request(p.at, <<>>, p.kind = "flush", p.kind = "finalize")

ProcessFlushOrFinalize(i) ==
    /\ pending_requests' = Append(pending_requests, PendingOf(i))
    /\ finalized' = (finalized \/ i.op = "finalize")
    /\ reqs' = Sent(<<RequestOf(PendingOf(i))>>)
    /\ UNCHANGED <<replay_buffer, self_flush_outstanding>>

process_intent ==
    /\ pc = "run" /\ ~is_full
    /\ requests # <<>>
    /\ requests' = Tail(requests)
    /\ IF Head(requests).op = "append" THEN ProcessAppend(Head(requests))
                                       ELSE ProcessFlushOrFinalize(Head(requests))
    /\ UNCHANGED <<transport, reply, pc, persisted_size, connector, stream, resps, service,
                   faults>>

\* The channel is closed: tx is dropped, which half-closes the stream.
RequestsClosed ==
    /\ pc = "run" /\ ~is_full
    /\ requests = <<>> /\ ~open
    /\ pc' = "wait"
    /\ UNCHANGED <<transport, reply, requests, worker, self_flush_outstanding, connector, net>>

-----------------------------------------------------------------------------
(* handle_response_success, for a response r of the stream or a handshake. *)

MaxSentOffset ==
    LET ends == {persisted_size}
                  \cup (IF replay_buffer = <<>> THEN {} ELSE {End(replay_buffer[Len(replay_buffer)])})
                  \cup (IF pending_requests = <<>> THEN {} ELSE {pending_requests[Len(pending_requests)].at})
    IN CHOOSE m \in ends : \A e \in ends : e <= m

OutOfRange(r) == HasStatus(r) /\ (r.size < persisted_size \/ r.size > MaxSentOffset)

\* Mutant: a flush is answered by any response, whatever is persisted.
is_satisfied_early(p, r) == IF p.kind = "flush" THEN ~r.final ELSE r.final /\ r.size >= p.at

is_satisfied(p, r) ==
    /\ HasStatus(r) /\ r.size >= p.at
    /\ IF p.kind = "flush" THEN ~r.final ELSE r.final

\* The pending requests answered by r: the longest satisfied prefix.
Matched(r) == LongestPrefix(Len(pending_requests),
                            {i \in DOMAIN pending_requests : is_satisfied(pending_requests[i], r)})

StillPending(r) == SubSeq(pending_requests, Matched(r) + 1, Len(pending_requests))
AlreadyFinalized(r) == HasStatus(r) /\ r.final /\ (~finalized \/ StillPending(r) # <<>>)
Bad(r) == OutOfRange(r) \/ AlreadyFinalized(r)

PersistedAfter(r) == IF HasStatus(r) THEN r.size ELSE persisted_size
ReplayAfter(r) == IF HasStatus(r) THEN ack(replay_buffer, r.size) ELSE replay_buffer

ReplyAfter(r) ==
    IF Awaits /\ ~OutOfRange(r) /\ \E i \in 1..Matched(r) : pending_requests[i].id = calls
      THEN Reply("ok", r.size) ELSE IF Bad(r) THEN DrainedReply ELSE reply

\* The error leaves run through drain_intents_on_error.
ResponseFails(r) ==
    /\ Bad(r)
    /\ pc' = "err"
    /\ reply' = ReplyAfter(r)
    /\ requests' = <<>>
    /\ pending_requests' = <<>>
    /\ self_flush_outstanding' = FALSE
    /\ IF OutOfRange(r) THEN UNCHANGED <<replay_buffer, persisted_size>>
                         ELSE replay_buffer' = ReplayAfter(r) /\ persisted_size' = r.size
    /\ UNCHANGED finalized

\* handle_response, Ok(Some): then the probe is reconsidered (only in run).
HandleResponse ==
    /\ pc \in {"run", "wait"}
    /\ resps # <<>>
    /\ resps' = Tail(resps)
    /\ LET r == Head(resps)
           probe == IF pc = "run" THEN Probe(StillPending(r), ReplayAfter(r)) ELSE <<>> IN
         /\ \/ ResponseFails(r) /\ reqs' = reqs
            \/ /\ ~Bad(r)
               /\ persisted_size' = PersistedAfter(r)
               /\ replay_buffer' = ReplayAfter(r)
               /\ pending_requests' = StillPending(r)
               /\ reply' = ReplyAfter(r)
               /\ self_flush_outstanding' = (probe # <<>> /\ stream = "open")
               /\ reqs' = Sent(probe)
               /\ UNCHANGED <<requests, pc, finalized>>
         /\ fruitless' = IF ~Bad(r) /\ PersistedAfter(r) > persisted_size THEN 0 ELSE fruitless
    /\ UNCHANGED <<transport, attempt_count, redirects_followed, last_persisted_size, stream,
                   service, faults>>
-----------------------------------------------------------------------------
(* The end of a stream, and reconnect.                                     *)

\* The worker leaves run with an error.
WorkerFails ==
    /\ pc' = "err"
    /\ reply' = DrainedReply
    /\ requests' = <<>>
    /\ pending_requests' = <<>>

\* The upload is complete: a trailing status changes nothing.
Complete == finalized /\ pending_requests = <<>>

\* handle_response and wait_for_server_completion once the stream has ended.
StreamFinished ==
    /\ resps = <<>> /\ stream # "open"
    /\ \/ pc = "run" /\ Complete
       \/ pc = "wait" /\ (Complete \/ stream = "closed")
    /\ pc' = "ok"
    /\ UNCHANGED <<transport, reply, requests, worker, self_flush_outstanding, connector, net>>

\* wait_for_server_completion does not reconnect.
CompletionFails ==
    /\ pc = "wait"
    /\ resps = <<>> /\ stream \notin {"open", "closed"}
    /\ ~Complete
    /\ WorkerFails
    /\ UNCHANGED <<transport, replay_buffer, persisted_size, finalized,
                   self_flush_outstanding, connector, net>>

\* Mutant: every reconnect starts with fresh budgets.
Progress_always(size) == TRUE

\* The budgets are reset only when bytes were persisted since.
Progress(size) == size > last_persisted_size

\* Connector::reconnect before it connects: the retry policy, decorated by
\* RetryRedirect, sees the error that ended the stream.
Reconnect ==
    /\ pc = "run" /\ resps = <<>>
    /\ stream # "open" /\ ~Complete
    /\ LET fresh     == Progress(persisted_size)
           attempts  == (IF fresh THEN 0 ELSE attempt_count)
                          + (IF stream = "closed" THEN 1 ELSE 0)
           redirects == (IF fresh THEN 0 ELSE redirects_followed)
                          + (IF stream = "redirect" THEN 1 ELSE 0)
           goesOn    == \/ stream = "closed" /\ attempts < AttemptLimit
                        \/ stream = "redirect" /\ redirects <= MAX_REDIRECTS_FOLLOWED IN
         /\ last_persisted_size' = IF fresh THEN persisted_size ELSE last_persisted_size
         /\ attempt_count' = attempts
         /\ redirects_followed' = redirects
         /\ \/ /\ goesOn
               /\ pc' = "connect"
               /\ fruitless' = IF stream = "closed" THEN fruitless + 1 ELSE fruitless
               /\ UNCHANGED <<reply, requests, pending_requests>>
            \/ ~goesOn /\ WorkerFails /\ UNCHANGED fruitless
    /\ self_flush_outstanding' = FALSE
    /\ UNCHANGED <<transport, replay_buffer, persisted_size, finalized, net>>

\* connect_attempt_loop: a redirect counts in the same budget; the loop may
\* also end with an error of its own (permanent, out of time or attempts).
ConnectFails(kind) ==
    /\ pc = "connect"
    /\ faults < MaxFaults
    /\ faults' = faults + 1
    /\ \/ /\ kind = "redirect" /\ redirects_followed < MAX_REDIRECTS_FOLLOWED
          /\ redirects_followed' = redirects_followed + 1
          /\ UNCHANGED <<pc, reply, requests, pending_requests>>
       \/ /\ kind = "permanent" \/ redirects_followed >= MAX_REDIRECTS_FOLLOWED
          /\ WorkerFails
          /\ UNCHANGED redirects_followed
    /\ UNCHANGED <<transport, replay_buffer, persisted_size, finalized, self_flush_outstanding,
                   attempt_count, last_persisted_size, fruitless, stream, reqs, resps,
                   service>>

\* The requests that restore the session: the unacknowledged chunks, the
\* requests still pending, the probe.
ChunkRequests(buffer) ==
    [i \in DOMAIN buffer |-> Request(buffer[i].at, buffer[i].data, FALSE, FALSE)]
PendingRequests(pending) == [i \in DOMAIN pending |-> RequestOf(pending[i])]

Replayed(pending, buffer) ==
    ChunkRequests(buffer) \o PendingRequests(pending) \o Probe(pending, buffer)

\* The service persists what it receives at a time of its own choosing.  The
\* client sees how far it got in a handshake or an unprompted response, so the
\* first n received bytes are taken to be persisted then.
PersistedBy(n) == object \o SubSeq(received, 1, n)

\* The handshake fences the old stream and reports the object; the rest of what
\* was received is lost.
ConnectOk(n) ==
    /\ pc = "connect"
    /\ n <= Len(received)
    /\ stream' = "open"
    /\ object' = PersistedBy(n)
    /\ received' = <<>>
    /\ resps' = <<>>
    /\ LET r == [size |-> Len(object) + n, final |-> final] IN
         /\ IF Progress(r.size)
              THEN /\ last_persisted_size' = r.size
                   /\ attempt_count' = 0 /\ redirects_followed' = 0
              ELSE UNCHANGED <<last_persisted_size, attempt_count, redirects_followed>>
         /\ fruitless' = IF r.size > persisted_size THEN 0 ELSE fruitless
         /\ \/ ResponseFails(r) /\ reqs' = <<>>
            \/ /\ ~Bad(r)
               /\ persisted_size' = PersistedAfter(r)
               /\ replay_buffer' = ReplayAfter(r)
               /\ pending_requests' = StillPending(r)
               /\ reply' = ReplyAfter(r)
               /\ self_flush_outstanding' = (Probe(StillPending(r), ReplayAfter(r)) # <<>>)
               /\ reqs' = Replayed(StillPending(r), ReplayAfter(r))
               /\ pc' = "run"
               /\ UNCHANGED <<requests, finalized>>
    /\ UNCHANGED <<transport, final, rejected, faults>>

-----------------------------------------------------------------------------
(* The service, external to the repository.                                *)

client == <<transport, reply, requests, workerSide>>

\* Data goes exactly where the upload ends; a request without data may name
\* any offset already received (one that finishes the write, only the last).
Accepts(q) ==
    /\ ~final
    /\ IF q.data = <<>> /\ ~q.finish_write
         THEN q.at <= Len(object) + Len(received)
         ELSE q.at = Len(object) + Len(received)

\* The client's stream: dropping it, as the end of the worker does, cancels it.
Live == stream = "open" /\ ~WorkerEnded

\* A request that flushes persists all that came before it.
Accept(q) ==
    LET all == object \o received \o q.data IN
    /\ IF q.state_lookup \/ q.finish_write
         THEN /\ object' = all
              /\ received' = <<>>
              /\ resps' = Append(resps, [size |-> Len(all), final |-> q.finish_write])
         ELSE /\ received' = received \o q.data
              /\ UNCHANGED <<object, resps>>
    /\ final' = q.finish_write
    /\ reqs' = Tail(reqs)
    /\ UNCHANGED <<stream, rejected>>

\* A request at any other offset ends the stream.
Reject ==
    /\ rejected' = TRUE
    /\ stream' = "permanent"
    /\ reqs' = <<>>
    /\ UNCHANGED <<resps, object, final, received>>

TakeRequest ==
    /\ Live /\ reqs # <<>>
    /\ IF Accepts(Head(reqs)) THEN Accept(Head(reqs)) ELSE Reject
    /\ UNCHANGED <<client, faults>>

\* A response nobody asked for: a refreshed write handle and nothing else, or
\* the size once one more byte is persisted.
Unprompted ==
    /\ Live /\ faults < MaxFaults
    /\ faults' = faults + 1
    /\ \/ /\ resps' = Append(resps, [size |-> NoStatus, final |-> FALSE])
          /\ UNCHANGED <<object, received>>
       \/ /\ received # <<>>
          /\ object' = PersistedBy(1)
          /\ received' = Tail(received)
          /\ resps' = Append(resps, [size |-> Len(object) + 1, final |-> FALSE])
    /\ UNCHANGED <<client, stream, reqs, final, rejected>>

\* The stream ends early; responses on their way may be lost with it.  An error
\* that may be retried is, to a running worker, like the end of the stream, and
\* to one that waits for completion like a permanent error.
Break(kind) ==
    /\ Live /\ faults < MaxFaults
    /\ faults' = faults + 1
    /\ stream' = kind
    /\ reqs' = <<>>
    /\ resps' \in {resps, <<>>}
    /\ UNCHANGED <<client, service>>

\* The client half-closed and everything it sent has been handled.
HalfClosed ==
    /\ Live /\ pc = "wait"
    /\ reqs = <<>>
    /\ stream' = "closed"
    /\ UNCHANGED <<client, reqs, resps, service, faults>>

-----------------------------------------------------------------------------
ApplicationReturns == append_sub_chunk \/ SendIntent \/ Answered \/ Joined \/ CallFails
Application ==
    \/ \E n \in AppendSizes : append(n)
    \/ \E op \in DOMAIN Awaiting : Start(op)
    \/ CancelCall \/ DropWriter
WorkerSteps == process_intent \/ RequestsClosed \/ HandleResponse \/ StreamFinished
                 \/ CompletionFails \/ Reconnect \/ \E n \in 0..MaxBytes : ConnectOk(n)
ServiceSteps == TakeRequest \/ HalfClosed
Environment ==
    \/ Unprompted
    \/ \E kind \in {"closed", "redirect", "permanent"} : Break(kind)
    \/ \E kind \in {"redirect", "permanent"} : ConnectFails(kind)
Next == ApplicationReturns \/ Application \/ WorkerSteps \/ ServiceSteps \/ Environment

Spec == Init /\ [][Next]_vars
\* The tasks run, and the service answers on a stream that does not break;
\* the application need not call, nor the environment interfere.
FairSpec == Spec /\ WF_vars(ApplicationReturns) /\ WF_vars(WorkerSteps) /\ WF_vars(ServiceSteps)

-----------------------------------------------------------------------------
(* Properties.                                                             *)

Offsets   == 0..MaxBytes
Chunks    == [at : Offsets, data : Seq(Nat)]
Intents   == [op : {"append", "flush", "finalize"}, at : Offsets, data : Seq(Nat), id : Nat]
Pending   == [kind : {"flush", "finalize"}, at : Offsets, id : Nat]
Requests  == [at : Offsets, data : Seq(Nat), state_lookup : BOOLEAN, finish_write : BOOLEAN]
Responses == [size : 0..NoStatus, final : BOOLEAN]
Ended     == {"closed", "failed", "dropped"}
Busy      == {"append", "flush", "finalize", "close", "await flush", "await finalize",
              "await close", "join"}

\* Every variable keeps its type; the channel never holds more intents than it
\* has slots, and no chunk handed to the worker is empty or exceeds the limit
\* of the protocol.
TypeOK ==
    /\ given \in Offsets /\ log \in Seq(Nat)
    /\ appended \in Offsets /\ write_offset \in Offsets /\ confirmed \in Offsets
    /\ coalescing_buffer \in Seq(Nat) /\ ready \in Seq(Seq(Nat))
    /\ call \in Busy \cup Ended \cup {"idle"} /\ calls \in 0..MaxCalls
    /\ reply \in [state : {"none", "ok", "err"}, size : Offsets]
    /\ open \in BOOLEAN
    /\ requests \in Seq(Intents) /\ Len(requests) <= CHANNEL_BUFFER_SIZE
    /\ pc \in {"run", "connect", "wait", "ok", "err"}
    /\ replay_buffer \in Seq(Chunks)
    /\ \A i \in DOMAIN replay_buffer : Len(replay_buffer[i].data) \in 1..MAX_WRITE_CHUNK_SIZE
    /\ pending_requests \in Seq(Pending)
    /\ persisted_size \in Offsets /\ last_persisted_size \in Offsets
    /\ finalized \in BOOLEAN /\ self_flush_outstanding \in BOOLEAN
    /\ attempt_count \in Nat /\ redirects_followed \in Nat /\ fruitless \in Nat
    /\ stream \in {"open", "closed", "redirect", "permanent"}
    /\ reqs \in Seq(Requests) /\ resps \in Seq(Responses)
    /\ object \in Seq(Nat) /\ received \in Seq(Nat)
    /\ final \in BOOLEAN /\ rejected \in BOOLEAN /\ faults \in 0..MaxFaults

\* A sequence of chunks (or requests) that carries exactly the bytes m+1..n,
\* each at its own offset.
Carries(s, m, n) ==
    IF s = <<>> THEN m = n
    ELSE /\ s[1].at = m /\ End(s[Len(s)]) = n
         /\ \A i \in DOMAIN s : s[i].data = Bytes(s[i].at, End(s[i]))
         /\ \A i \in 2..Len(s) : s[i].at = End(s[i - 1])

\* Where the intents not yet taken from the channel begin.
Taken == IF requests = <<>> THEN write_offset ELSE requests[1].at

\* Whatever happens to streams and whichever call is dropped, the worker can
\* still resend every byte the service has not acknowledged: the replay buffer
\* and the channel hold exactly the bytes between persisted_size and
\* write_offset (ack trims neither too much nor too little), and between calls
\* the rest is in the coalescing buffer, as a dropped call left it.
ReplayCoversUnacknowledged ==
    ~WorkerEnded =>
      /\ Carries(replay_buffer, persisted_size, Taken)
      /\ Carries(requests, Taken, write_offset)
      /\ coalescing_buffer = Bytes(appended - Len(coalescing_buffer), appended)
      /\ ready = <<>> => write_offset + Len(coalescing_buffer) = appended

\* How far the upload gets with the first n of the requests s, from the offset m.
Reached(s, m, n) ==
    LET data == {i \in 1..n : s[i].data # <<>>} IN
    IF data = {} THEN m ELSE End(s[CHOOSE i \in data : \A j \in data : j <= i])

\* The requests on a live stream continue, without gap or overlap, what the
\* service has received, also those resent by a reconnect that trimmed a chunk
\* and put pending requests behind it, and they end where the channel begins;
\* nothing follows the request that finishes the write.  So none was ever
\* refused.
StreamContinuesObject ==
    /\ ~rejected
    /\ stream = "open" /\ pc \in {"run", "wait"} =>
         LET reached(n) == Reached(reqs, Len(object) + Len(received), n) IN
         /\ \A i \in DOMAIN reqs :
              /\ reqs[i].data = Bytes(reqs[i].at, End(reqs[i]))
              /\ IF reqs[i].data = <<>> /\ ~reqs[i].finish_write
                   THEN reqs[i].at <= reached(i - 1) ELSE reqs[i].at = reached(i - 1)
              /\ reqs[i].finish_write => i = Len(reqs)
         /\ reached(Len(reqs)) = Taken

\* needs_watermark_flush: above the watermark a response is always owed, so the
\* worker that stops taking intents when the buffer is full gets to run again.
ResponseIsOwed ==
    pc = "run" /\ stream = "open"
      /\ unpersisted_bytes(replay_buffer) >= Capacity - 2 * MAX_WRITE_CHUNK_SIZE
    => \/ resps # <<>>
       \/ \E i \in DOMAIN reqs : reqs[i].state_lookup \/ reqs[i].finish_write

\* Connector: the application's retry policy bounds the consecutive reconnects
\* that make no byte progress, also with redirects and handshakes in between.
FruitlessReconnectsAreBounded == fruitless # 0 => fruitless < AttemptLimit

\* The bytes given to append that the object has.
Persisted == [i \in DOMAIN object |-> log[object[i]]]

\* The upload is an AppendableObject: the object is a prefix of what was
\* appended, flush and close return only when all of it is persisted, and a
\* finalized object is whole; bytes are lost only when the application drops a
\* call of append or flush, and never one that was persisted.
Object == INSTANCE AppendableObject WITH object <- Persisted, busy <- call \in Busy
ImplementsObject == Object!Spec

\* Every call of append, flush, finalize or close returns, also when the replay
\* buffer is full, the stream breaks, or the worker ends while it waits.
EveryCallReturns == (call \in Busy) ~> (call \notin Busy)
=============================================================================
