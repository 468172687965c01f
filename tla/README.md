# A TLA+ verification of the hand-written core of google-cloud-rust

`google-cloud-rust` is a workspace of Rust client libraries for Google Cloud. Most
of its lines are generated request/response code without state. The parts with
logic of their own are a handful of hand-written crates; this project models the ones
with concurrency, failure and recovery: `pubsub` (a batching, ordering and hedging
publisher, and a subscriber with lease management), the bidirectional streams of
`storage` (resumable appendable uploads and multiplexed ranged reads), and what every
client shares, the token cache of `auth` and the retry loop of `gax`.

Paths below are relative to `src/src/` unless they start with `src/`.

## 1. Inventory

| Component | State | Operations | Interacts with | What is hard | What makes it correct |
|---|---|---|---|---|---|
| `pubsub/src/publisher/client.rs`, `future.rs`: `Publisher` | a channel sender | `publish`, `flush`, `resume_publish`, drop | Dispatcher, by a channel; futures by oneshots | futures resolved by other tasks | every future resolves; `flush` returns |
| `pubsub/src/publisher/actor.rs`: `Dispatcher` | map of ordering key to actor handle, a JoinMap of actor tasks | forward publish / flush / resume, early return, graceful shutdown | one batch actor per key | flushes overlap; an actor may be gone; shutdown with full queues | flush covers every key; a graceful shutdown loses nothing |
| `actor.rs`: `SequentialBatchActor` (an ordering key) | pending messages, batch, paused flag, lazy timer, JoinSet with at most one task | `run`: join, timer, publish, flush, resume, closed; `flush_all`; `pause` | RPC task | select! takes ready branches in any order; a failure races with what is queued | order, no overtaking after a failure, nothing stranded |
| `actor.rs`: `ConcurrentBatchActor` (no key) | batch, timer, JoinSet | the same, without order | many RPC tasks | `join_all` panics when a task panicked | each message in one request; flush is a barrier |
| `publisher/batch.rs`: `Batch` | messages and their size | `push`, `at_threshold`, `can_add`, `drain` | both actors | messages at or above the limit | requests respect the limits |
| `publisher/hedging.rs`, `token_bucket.rs` | FIFO of scheduled hedges, timer, tokens, per-batch state | dispatch, initial and hedged RPC, expiry, refill, cancel | batch actors | several RPCs race for one batch | one outcome; bounded extra load; every batch resolves |
| `pubsub/src/subscriber/lease_loop.rs`, `lease_state.rs`, `lease_state/*.rs` | messages under lease and their status, pending acks/nacks, tasks | add, ack, nack, confirm, flush, extend/expire, shutdown | stream, handlers, RPC tasks | biased select over independent channels, shutdown at any time | no success is reported that did not happen; nothing is left behind |
| `subscriber/handler.rs`, `shutdown_token.rs`, `shutdown_behavior.rs` | ack ID, sender, oneshot | `ack`, `nack`, drop, `confirmed_ack`, `confirmed_nack`, `shutdown` | lease loop | answers by loop, expiry, shutdown or drop | every wait ends, with the truth |
| `subscriber/exactly_once_retry.rs`, `leaser.rs` | IDs still to settle | attempt, classify partial errors, retry, exhaust | lease loop, by a channel | partial success over several attempts | every ID is reported |
| `subscriber/message_stream.rs`, `stream.rs`, `keepalive.rs` | pool of messages, stream, pong deadline | `next`, `populate_pool`, close, reconnect, keepalive | lease loop, gRPC | cancellation, reconnects, a deadline racing a pong | messages leased before they are delivered |
| `auth/src/token_cache.rs` | watch channel with the last token or error | refresh task, readers | credentials | failing and late refreshes | readers get a token or an error, never wait for a task that is gone |
| `gax/src/retry_loop_internal.rs` and the policies, throttler, backoff | attempt count, deadline, bucket | attempt, back off, throttle | every client | limits combine | no attempt after the limits; non-idempotent calls are not retried |
| `lro/src` pollers | operation name, polling state | poll, back off | gax | transient polling errors | the result is polled until done |
| `gax-internal/src/http.rs`, `grpc.rs` | none per call | attempt: credentials, timeout, RPC | gax, auth | calls share the token cache and the throttler | every call returns |
| `storage/src/storage/bidi_write` | coalescing buffer, offsets; replay buffer, pending requests, retry and redirect budgets | `append`, `flush`, `finalize`, `close`, drop; worker loop, watermark probe, reconnect, replay | gRPC stream, gax retry loop | resume from a persisted size inside a chunk; a full buffer with no response owed | the object is what was appended; a flush tells the truth; every call returns |
| `storage/src/storage/bidi` | active ranges and what remains of each, one bounded channel per reader | `read_range`, `next`, drop; worker loop, reconnect, resume | gRPC stream, gax retry loop | ranges come and go while the stream reconnects; one slow reader blocks the worker | every reader gets its bytes once and in order, and an end |
| `bigquery/src/write`, `spanner/src` | stream offsets; transactions, sessions | append, resume; run, retry | gRPC | retries with state | see the plan |
| everything else | none | generated clients, builders, I/O, parsing | | | not modelled |

The hazards found while reading, each at its line and with the properties that would
catch it going wrong, are listed in `PROJECT.json`.

## 2. Modules

`Batch` holds the size arithmetic of `batch.rs`: a message is its number and its
estimated size. `at_threshold` and `can_add` have the code's names.

`SequentialBatchActor` is the actor of an ordering key. `pc = "select"` is the
`select!` of `run`; `"join"` and `"last"` are the two `join_next().await` points in
`flush_all`; `cont` is what `run` does after `flush_all` (answer a Flush, disarm the
timer, stop). Between two awaits the code is sequential, so an action is everything
from one await to the next; `move_to_batch_and_flush` is the loop with its three
exits. An RPC task resolves the futures of its messages and becomes joinable only
then, as in `batch_resolve_publish_futures`; it may succeed, fail or panic. `hist`,
`fut`, `replied` and `sent` are what the application and the service observe.

`OrderingKey` is the abstract specification: what one ordering key promises to the
application, in terms of `hist`, `fut`, `replied`, `sent` only. `ResumeRace` adds a
history variable for a documented usage pattern.

`ConcurrentBatchActor` is the actor of messages without a key. A panic of an RPC task
makes `join_all` panic (`JoinAllPanics`): the actor is dead, its JoinSet aborts the
remaining tasks, and its queue is dropped.

`Publisher` composes both actors (instances `S` and `C`) with the `Publisher` handle,
the Dispatcher, and the tasks that wait for a flush. Two keys, one of each kind, are
enough to see keys influence each other; the actors' own modules check more commands.
Once `C` is dead, the next command for it makes the Dispatcher return, and the JoinMap
aborts the other actor (`AbortOrdered`). A flush call returns in that case too
(`abandoned`), and the caller cannot distinguish it from a completed flush.

`Hedging` is `hedging.rs` with the token bucket, in discrete time: `left` is the time
until a scheduled hedge expires, `timer` the time until the scheduler wakes up, tokens
are scaled integers as in the code. A retry policy without time limit (`total_timeout` is
`None`, `hedging.rs:117-124`) is a `TotalTimeout` that is never reached: the cap of 10 s per
attempt that is then left is one of the ways a hedged RPC fails. It is not composed with the actors: what they need
of it is `EveryBatchResolvesOnce`.

`LeaseLoop` is the subscriber from the message pool to the ack RPCs. The loop is a
`biased` select over four branches. A pass polls them in order; `pc = "past"` is a pass
that has found the message channel empty. On a current-thread runtime no other task
runs within a pass; on a multi-threaded one any may. `config` is chosen initially: the
shutdown behaviour, the kind of runtime, and whether the application uses `ack()` on
exactly-once handlers or always waits with `confirmed_ack()`. Clocks are abstracted:
a lease may reach its maximum age at any time, and the flush timer may fire whenever it
is polled. Which leases are extended, and when, touches none of the variables.

`BidiWrite` is an appendable upload: the transport in the application's task (`call` is the
call in progress, `ready` the chunks it still has to send, `reply` its oneshot), the worker
with its replay buffer, pending requests and watermark probe (`pc` is its place: the
select of `run`, reconnecting, waiting for completion, or how it ended), the connector's
budgets, and, marked external, the stream and the service. The k-th byte of the
application is the number k, so a lost, repeated or misplaced byte shows; a request
carries the offset the client claims, and the service refuses one that does not continue
what it has. A stream may break at any time, with or without the responses on their way;
a handshake fences it, and any prefix of what the service had received may turn out to be
persisted. `CancelCall` is the application dropping the future of an `append` or a `flush`, as a timeout
around it does, at any of its awaits: the chunks the call had not sent are locals of the
future and go with it, and the writer goes on without them; a `finalize` or `close` owns the
writer and takes it along (`DropWriter`). So that byte k stays the k-th byte of the object,
`log` says which of the bytes `given` to `append` it is; the service, the worker and the
offsets know nothing of `log`. `AppendableObject` is the abstract specification: an object
that is a growing prefix of what was appended, confirmations that speak of persisted bytes
only, and a call in progress (`busy`) as the one thing whose loss may lose bytes, one run of
them, none persisted. The mapping reads the object through `log` (`Persisted`). Left out:
checksums, write handles and routing tokens, backpressure of `tx.send` (the request
channel of the stream is unbounded), and the retries within one connection attempt, which
`RetryLoop` has. Persistence of bytes nobody asked about is folded into the handshake or
the unprompted response that shows it. A transient stream error is, to the running worker,
the same as a stream that ended, and to one that waits for completion the same as a
permanent error, so it needs no kind of its own.

`BidiRead` is the multiplexed read: the readers with their bounded channels, the worker
(`pc`: select, sending to one reader, reconnecting, telling the readers of an error, the
loop after an error, returned), the connector with its resume policy, and the service.
`ActiveRead` and `as_proto` keep the code's encoding, in which a length of 0 asks for
everything to the end. A response carries any number of items, of one range or several: `handle_range_data` is one
turn of the loop of `handle_ranges`, `todo` what is left of the response in hand, and `failed`
the error the loop has captured and returns at its end (`RangesFailed`). As in the code an
item with `range_end` removes its read before the data is looked at, another one advances the
read before the checksum is, and after an error the loop goes on. `bad` and `cut` are history:
whose data was dropped for its checksum, and whose `range_end` was handled all the same. Data
in a handshake response is treated as the next response; ranges lie within the object and none is requested at
the opening; the checksum of a whole object and the read handle are left out. The channel
closes for a reader when no `ActiveRead` holds its sender, whatever the reason.

`TokenCache` is the refresh task with the watch channel and its waiters; `RetryLoop` is
`retry_loop` with the default policy (`Aip194Strict`, time and attempt limits), the
truncated exponential backoff and the `CircuitBreaker`. `UnaryCall` composes the two
(instances `Cache` and `Retry`): calls made by several tasks share the cache and the
throttler; an attempt gets its headers from the credentials, then sends the request with
the effective timeout. The wait for a connection before the timeout runs (`grpc.rs:522`) is
part of the attempt, which supposes that a channel gets ready or fails within it. Time is a
countdown and advances when nothing is due: sleeps end
on time, and the jitter is at least one tick. A panic of the token provider is not
modelled.

Every `MC*` module only instantiates its component for TLC. The theorems about a component
are in a module of their own, named after it and ending in `Proofs`, that extends it; section 4
lists them. Each component states its `TypeOK`; the run of `SequentialBatchActor` checks it, and
the theorem modules prove it for their components as the first conjunct of the invariant.

## 3. Runs

| Run | Instance | Question |
|---|---|---|
| `ordered_key` | 5 commands, sizes 1 and 3, at most 2 messages or 4 bytes per batch | ordering, barrier, nothing stranded, refinement of `OrderingKey` (batching limits included), liveness |
| `no_key` | 4 commands, same limits | partition into requests, barrier, resolution around a panic |
| `publisher` | 4 commands on two keys, at most 2 messages per batch | flush over all keys, isolation of keys, graceful shutdown, every call served and every task ended |
| `hedging` | 2 batches, delay 2, total timeout 5, 2 units per token, 5 earned per success, capacity 5 | budget, pacing, timer and queue, one outcome per batch |
| `lease_safety` | 1 at-least-once and 2 exactly-once IDs, 2 IDs per request, NackImmediately, both runtimes | truthful results, no lost lease, order of add and process |
| `lease_completion` | 1 ID of each kind, 1 per request, all 8 configurations | every wait returns, shutdown completes |
| `bidi_write` | chunks of 2, capacity 7, appends of 3, at most 8 bytes, 2 calls, 2 faults or dropped calls, opened with 2 bytes of which 1 is persisted | replay, offsets, watermark, budgets, refinement of `AppendableObject`, every call returns |
| `bidi_read` | 2 readers, a segment of 2 bytes and a tail of 1, on 3 bytes, channel of 1, chunks of up to 2, 2 items on the way in one response or two, 2 faults | exact data, nothing forgotten by a reconnect, every read ends |
| `unary_call` | 2 calls, one idempotent; time limit 4, 3 attempts, delays 1 and 2, 3 tokens with 1 as minimum, slacks 3 and 2 | limits together, no repeated unsafe request, waiters of the cache, every call returns |
| `resume_race`, `lease_fire_and_forget`, `bidi_read_resume` | smallest that show it | see Findings |

Why the bounds are enough. With 2 messages per batch and 5 commands, three messages
around a flush, a resume or a failure fit: one inflight, one batched or pending, one
queued; size 3 next to 1 makes a message that does not fit after another one and a
batch that is full by bytes. Four commands in `publisher` are enough for the cases that
cross keys: a publish on each key, a flush that kills the actor without a key, and one
more command that makes the Dispatcher return and abort the actor of the other key.
Longer sequences within a key are the business of
`ordered_key` and `no_key`. Two
batches make the hedging queue have two entries, and capacity 5 with 2 units per token
has partly filled, exactly sufficient and capped buckets. Two exactly-once IDs in one
request are needed for partial results; one ID per request makes every flush threshold
an edge. The exactly-once IDs are interchangeable, and `lease_safety`, which has no
liveness property, uses that symmetry.

In `bidi_write` an append of 3 over chunks of 2 leaves a residue, and makes the size the
service reports fall inside a chunk; with capacity 7 the watermark lies at 3, which the
first appended chunk reaches behind the byte left of the opening payload, and two more
fill the buffer, so 8 bytes reach a full buffer and a blocked channel. An append of 3 behind a residue of 1 has
two chunks to send, so a dropped call loses none, one or both, the byte of the earlier append too. Two faults are a failure during the recovery from a failure. In `bidi_read` two
readers are needed for one to block or fail the other, a channel of 1 is full after one
chunk, and ranges of two bytes and of one served in chunks of up to two give a resume at the
start, in the middle and at the end of a range, and two items of one response the corrupt one
before and after the good one, of the same reader and of the other. In `unary_call` the lifetimes make a token expire
within a call, before the refresh, and already on arrival; three throttler tokens let one
call's failures throttle the other.

Deadlock is checked in the runs on `pubsub`, where a finished system stutters in
`Terminated` only when everything has ended, and in `unary_call`, where time goes on. The two storage systems may really stop, with
the application idle and no fault left, so their runs do not check it; their liveness
properties say that nobody is left waiting.

### Fairness

Tokio keeps polling a task that was woken, so each task's next step is weakly fair.
`select!` without `biased` polls in random order, so a branch that stays ready is
eventually taken (`JoinInflight`, `TimerFires`). `Publisher` needs less: its tasks are
weakly fair only as a whole, because each of their steps makes progress. RPCs end because the client sends them
under a retry policy with a time limit; armed timers fire; time passes. In `LeaseLoop`
the branches of the biased select are fair as a whole, and its timer events, which are
polled first, individually. The application owes nothing: it may stop publishing, hold
a handler for ever, never drop the publisher. The one exception is
`WaitForProcessing`, whose purpose is to wait for the application; there the
application is assumed to consume its handlers. In `BidiWrite` and `BidiRead` the tasks and
a service on an unbroken stream are fair, and in `BidiRead` the readers that are not
dropped keep reading, since backpressure is the design; faults and calls are not fair. In
`UnaryCall` each call's next step and the refresh task are fair and the provider answers
(its own requests have time limits), while the service may never answer: the effective
timeout ends the attempt. Time is strongly fair, because calls that come and go within a
tick would otherwise hold the clock back for ever, which no real clock does.

## 4. Proofs

Every theorem holds for all values of the constants that the named assumptions admit:
thresholds, sizes, limits and numbers of commands are natural numbers (positive where the
code needs it), and the sets of calls, batches and IDs are arbitrary, also infinite. Each
proof has the same shape: an inductive invariant, checked with TLC before it was proved; a
lemma for the initial states; a lemma per action and conjunct it can disturb; `Invariance`,
`Spec => []IInv`; and the properties as consequences. The invariants are conjunctions of
named parts, in the order in which they need each other.

| Module | About | Theorems that state a property of a run |
|---|---|---|
| `SequentialBatchActorProofs` | actor of an ordering key | `TypeOK`, `BatchEmptyWhileInflight`, `PausedIsDrained`, `WaitingMessagesHaveTimer`, `SentInOrder`, `FlushBarrier`, `NoOvertake`, `ImplementsOrderingKey` |
| `ConcurrentBatchActorProofs` | actor without a key | `FlushBarrier`, `RequestsArePartition` |
| `UnaryCallProofs` | retry loop and token cache | `RetriesWithinLimits`, `UnsafeRequestsAreSentOnce`, `NoWaiterIsOrphaned`, `ValidTokenIsKept` |
| `HedgingProofs` | hedging and token bucket | `HedgeBudget`, `TimerCoversQueue`, `HedgesArePaced` |
| `LeaseLoopProofs` | subscriber | `OneThreadKeepsOrder`, `ReportsAreTruthful`, `NothingLeftBehind`, `WaitHonoursConfirmedAcks` |
| `BidiReadProofs` | multiplexed read | `ReadIsExact`, `EveryActiveReadIsServed` |
| `BidiWriteProofs` | appendable upload | `ReplayCoversUnacknowledged`, `StreamContinuesObject`, `ResponseIsOwed`, `FruitlessReconnectsAreBounded`, `ImplementsObject` |
| `PublisherProofs` | publisher, dispatcher and both actors composed | `FlushCoversEveryKey`, `KeyOrderSurvivesFailure`, `GracefulShutdownDrains` |

**Induction without induction.** The library's induction theorems take an operator, which
the provers cannot instantiate. `NatSetInduction` states the same principle for a *set* of
natural numbers and follows from the least element of a nonempty set; a property `P` is then
used as the set `{n \in Nat : P(n)}`. (The lemma stands at the head of each module that needs
it, so that every proof module extends only the component it is about.) It gives the lemmas that need
induction over data: that the recursive functions behind `Batch!size`, `RetryLoop!powi` and
`OrderingKey!Backlog` exist and satisfy their recursion, that a batch which grows by a
message that `can_add` admits stays within the limits (both actors), that a finite set
of nacks can be cut into requests of at most `MaxIds` (`LeaseLoopProofs`), and that `Carries`,
`LongestPrefix` and `Reached` mean what their names say (`BidiWriteProofs`). For this reason
these operators are recursive functions, not `RECURSIVE` operators.

**The actor of an ordering key.** `IInv` is the conjunction of `TypeOK`,
`BatchEmptyWhileInflight`, `LastIsDrained`, `PausedInv` and `WaitingMessagesHaveTimer`; the
last four are needed together. `PausedIsDrained` speaks of the select and the end only; a
request may fail in the middle of `flush_all`, so `PausedInv` says that a paused actor is
never at the first join of `flush_all` (the failure empties the pending messages, hence the
loop ends at once) and holds nothing anywhere else. That needs `BatchEmptyWhileInflight`
(the failed request was inflight, so the batch is empty, and only the pending messages have
to be rejected) and `LastIsDrained` (nothing is pending or batched at the last join), which
also makes disarming the timer after `flush_all` safe.

`SentInOrder` is not inductive: the next request comes from the batch, the batch from the
pending messages, those from the queue, and the queue from the application. `LineInv` says
that the five stand in line: each is increasing in the number of submission, each stands
entirely before the next. The lemmas `LineSubmit`, `LineTail`, `LineRecv`, `LineMove`,
`LineSend` and `LineClear` say how a line moves along; every action is one of them or two in
a row.

`FlushBarrier` needs `BarrierInv`: no message is lost (`WaitingIsHeld`), the queue holds the
commands as submitted, and what is queued while `flush_all` serves a Flush was submitted
after it. A Flush is answered in two places. The paused loop holds nothing but the queue,
whose head is the Flush itself, and the queue is increasing. After the last join of
`flush_all` nothing is pending or batched, no RPC task runs, and the queue is younger than
the Flush. So a message that is still held is younger than the Flush that is answered.

`NoOvertake` needs `PromiseInv`. Its core, `FailureIsHandled`, says why nothing overtakes a
failed message: the key is paused, or will be when the failed task is joined, or a Resume was
received after the failure and everything that may still be sent was submitted after that
Resume. Every action is first shown to be one of nine small relations on the messages
(`Submits`, `Passes`, `Resumes`, `Rejects`, `Queues`, `Fills`, `Joins`, `Pauses`, `Ends`), and
the invariant is proved for those.

`ActorKeepsPromise` is the refinement, `Spec => OrderingKey!Spec` under the mapping the run
checks. `StepRefines` takes the same nine relations, and one lemma for each
(`SubmitStep`, `RejectsStep`, `PausesStep`, `EndsStep`, `MovesStep`, `ReplyStep`) shows which step
of `OrderingKey` it is; the others stutter. A request that leaves is the front of the abstract
`Backlog`; that it is uses the line, the barrier and the promise invariants together, and
`Open(batch)` (the batch that is being filled is below its limits) for the limits on requests.

**The actor without a key.** `CoreInv` says that each message is in one place: queue, batch or
one request; `WaitingIsHeld`, that one without an outcome is in the hands of the actor, also
after the panic of `join_all` (the aborted tasks still hold theirs); `AtJoin`, that what is
queued during `join_all` is younger than the Flush in progress; `OutcomeOfRequest`, that the
outcome of an RPC is given to messages of a request only.

**The publisher as a whole.** `Publisher` runs the dispatcher, an actor of each kind and the
flush tasks side by side; a command is on its way in three queues, and a shutdown can end any of
them. The theorems of the actors are about actors that the application calls directly, and lemmas
of a module cannot be cited for an instance of it, so `PublisherProofs` states what the actors
guarantee in terms of the composition. It assumes `MaxCmds \in Nat`, `MsgBytes \subseteq Nat` and
what `Batch` assumes of the options. `IInv` has four parts.

* `DispatcherInv`: the queue holds commands as submitted, in order; a message that was dispatched
  has an actor (`DispatchedInv`); and a flush that was dispatched waits for the actor of every
  earlier message that has no outcome (`WaitersInv`). The last one is `FlushCoversEveryKey` before
  the answers have come; it is inductive because an actor created later than the flush only gets
  messages younger than it, and the answer
  of an actor carries its `Barrier`.
* `OrderedInv` and `UnorderedInv`, for the two actors: the queue of the actor is older than what the
  dispatcher still has (`QueueOf`); a message without an outcome is with the dispatcher or in the
  hands of the actor of its key (`HeldOrQueued`); an answered flush is a barrier (`Barrier`), because
  what is queued during `flush_all` or `join_all` is younger than it (`InProgress`); the dispatcher
  closes a queue only when it sends no more (`ClosedS`, `ClosedC`); an outcome of an RPC is told to
  messages of a request only (`Told`).
* `KeyInv`, why nothing overtakes a failed message: the key is paused, or will be when the failed
  task is joined, or the application resumed the key between that message and all that may still
  be sent after it (`FailureInv`). A message can now also fail by being dropped, by the
  dispatcher's early return or the abort of the actor, while younger commands no longer exist;
  `ReceivedOrDropped` tells the two kinds of failure apart: a message with an outcome is older
  than everything queued, or younger than everything that is left.

`GracefulShutdownDrains` needs one more invariant, `StoppedInv`: the dispatcher has stopped only
after each of its actors returned, and an actor that has returned takes no step. With it a stopped
publisher has nothing queued, held or running, so by `HeldOrQueued` no message waits, and by `Told`
one that was not rejected on a paused key was in a request.

**Calls.** `LimitsOf` ties the clock of a call to its limits: a call that sleeps will wake
within the time limit, and what its next attempt was given exceeds the limit by at most the
delay it sleeps. `EndedWithAnswer` and `TokenExpires` say when the refresh task may be gone,
and that one waiting for the expiration does not wake before it; from them
`NoWaiterIsOrphaned` and the action property `ValidTokenIsKept` follow.

**Hedging.** `Pacing` gives each batch the number `n` of hedges taken out of the queue so
far: at least `n` delays have passed, `n` tokens were taken, and those not spawned any more
were sent or given up. `Budget` balances tokens taken and in the bucket against what
successes earned. `OneOutcome` is the safety half of `EveryBatchResolvesOnce`.

**The subscriber.** `FlowInv` and `ArrivesInv` follow a message and the decision about it to the
loop; `LeaseInv` says what the status of a lease means; `AccountInv`, that every lease that was
added is given up, under lease or pending; `RpcInv` and `ResultInv` tie RPCs, their partial
results and what handlers are told to what the service accepted; `OrderInv` and `WaitInv` are
the parts that hold on one thread and under `WaitForProcessing`.

**The multiplexed read.** The invariant has a half for each side of the worker.
`DeliveryInv` is about the readers. What a reader has seen, the chunks in its channel, the
chunk the worker waits to send and the position of its read on the stream continue each
other (`SeenOk`, `InboxOk`, `SourceOk`), without a gap as long as the reader is not in `bad`,
and increasing all the same when it is; when no source is left, the reader has all of its
range or an error behind what it was sent, unless the service closed the stream or its
`range_end` was handled in a response with dropped data (`CompleteOk`); a reader in `bad` that
still has its read is about to be told (`BadOk`); and `close_readers` leaves out nobody
(`ClosingOk`). That a
chunk is really the next one, whatever stream it came from, is `WireInv`: the responses on
the way for a read continue each other from the worker's position (`ComingOk`), a range
being served continues the last of them (`BusyOk`), a request for it excludes both
(`AskedOk`), a `range_end` is the last response (`EndOk`), all of it ends where the range ends
(`ExtentOk`), and no read is without a place while the stream is up (`PlaceOk`). A new stream
starts with the requests `as_proto` makes of `ranges`, so `RemainingOk` ties a remaining range
to the requested one. `ExtentOk` holds of reads whose remaining length is not 0 only, and once an item failed such a
read promises nothing about the rest of the response: this is
where the finding `bidi_read_resume` shows, and `ReadIsExact` follows all the same because the
worker refuses the data that comes of it. `EveryActiveReadIsServed` is stated with the sets
`Coming`, `Asked` and `Busy`, which the provers handle, not with subsequences of responses.

**The appendable upload.** The bytes are followed from the application to the object, and the
invariant has a part for each place. `AppInv`: the chunks about to be sent (`ReadyOk`) and the
coalescing buffer (`CoalescingOk`) continue `write_offset` up to `appended`, and a call that was
answered has all of its bytes in the object (`ReplyOk`); `log` is as long as what was appended
and not lost (`LogOk`). `WorkerInv`, while the worker runs: the
replay buffer carries the bytes from `persisted_size` to the head of the channel, the channel the
rest (`ChannelOk`); pending requests are in the order of their offsets and a finalize is the last
(`PendingOk`); and no request but that of the current call has its id, which is why the leftovers of a
dropped flush answer nobody (`IdsOk`). `ObjectOk`, `ResponsesOk` and `StreamInv`: object and
received bytes are one run that ends before the head of the channel, responses claim no more than
the object has, and each request on the wire starts where the ones before it lead
(`WireOk`, with `Reached`), so `Accepts` holds and `Reject` is never taken. `OwedInv` is
`ResponseIsOwed` made inductive: above the watermark a probe is outstanding or a request is pending,
and the *last* pending request is on the wire or has its answer on the way; the last is the one that
matters, since requests are answered front to back, and `LastAnswered` shows that a response that
leaves one behind leaves the last one behind. `BudgetInv` bounds the fruitless reconnects by
`attempt_count`, which is reset only by progress beyond `last_persisted_size`.

Three lemmas carry the replay. `AckFacts`: `ack` leaves exactly the bytes after the size
acknowledged, also when it cuts a chunk. `ReplayFacts`: so does a response or a handshake with a
credible size, and every response is credible. `ReplayedFacts`: chunks, pending requests and probe,
in the order in which `Worker::reconnect` sends them, continue the object the handshake reported.
The proof needs `Capacity > 3 * MAX_WRITE_CHUNK_SIZE` at one place: the rest of an opening payload
starts below the watermark, where no probe is sent (the default is 16 chunks).

`UploadImplementsObject` maps every step to one of `AppendableObject`, whose object is `Persisted`:
`append` and the start of a flush, a finalize or a close to `Begin`; a request taken, an unprompted response and a handshake to `Persist`, to `Finalize` when the request
finishes the write, or to nothing; the return of a flush and of the join to `Confirm`, which is
`ReplyOk`; other returns to `Return`; a dropped append or flush to `Cancel`, where `CoalescingOk`
and `ReadyOk` say that what is lost is one run of bytes, between what was sent and the coalescing
buffer, and `ObjectOk` that none of it was persisted; every other step stutters.

Only model-checked: every liveness property and the liveness half of `EveryBatchResolvesOnce`
(fairness and ENABLED are beyond the prover).

## 5. Findings

* `resume_race`: `resume_publish` called after a publish has failed, as in the example
  in its own documentation, may be ignored: the future resolves before the actor has
  joined the RPC, an unpaused actor ignores the resume, and the key is paused afterwards.
* `lease_fire_and_forget`: under `WaitForProcessing`, an exactly-once message acked with
  `ack()` is still under lease when its handler is gone; the shutdown nacks it.
* `bidi_read_resume`: a segment that was received completely, but not its `range_end`, is
  resumed with `read_length` 0, which asks for the rest of the object. The data that comes
  is a `LongRead`, and it interrupts all the readers of the descriptor.

Beside each of these a passing property says what does hold: `NoOvertake` and
`PausedIsDrained`; `WaitHonoursConfirmedAcks`; `ReadIsExact` (the application never sees
a byte beyond its range).

Observations, from reading and from the models, that no run is devoted to:

* `lease_loop.rs:79-85`: `biased` orders the polls of one pass only. On a multi-threaded
  runtime a message can be delivered and acked after the pass polled `message_rx` and
  before it polls `ack_rx`; the ack is then processed first. `OneThreadKeepsOrder` is the
  guarantee that holds.
* `lease_state.rs:341-346`: at shutdown the queued acks are sent in one request, which may
  exceed `MAX_IDS_PER_RPC`; nacks are split.
* `bidi/worker.rs:137-151`, `active_read.rs:47-59`: a `ChecksumMismatch` does not stop the loop
  over a response, and its read has already been advanced. A good item of the same read later in
  the response is delivered: the reader gets bytes with a hole before them, and then the error, or,
  if that item carries `range_end`, a normal end of stream.
* `bidi/worker.rs:225-231`: an item with `range_end` removes its read before the checksum is
  checked. On a mismatch the other readers are interrupted, and the one whose data was bad gets no
  error: its channel just closes, a truncated read with a normal end. The checksum of the whole
  object (`range_reader.rs:110-123`) shows both only to a reader of the whole object; for partial
  ranges it is switched off (`transport.rs:104-115`). `ReadIsExact` states what holds, with `bad` and
  `cut` for exactly these two cases.
* `bidi/worker.rs:74`: a stream that the service closes without an error in the middle of a range
  also is a normal end to its reader (`closed` in `ReadIsExact`).
* `bidi_write/transport.rs:286-296`: `append` and `flush` are not safe to drop. The chunks cut from
  the coalescing buffer are locals of the future while `tx.send` (269) waits for room; a timeout
  around the call loses them, with bytes of earlier appends that returned `Ok`. `write_offset` and the
  running checksum have not advanced, so a later `flush` or `finalize` succeeds and nothing shows that
  bytes are missing. The documentation of `append` and `flush` (`appendable_object_writer.rs`) does not
  mention it. `ImplementsObject` allows exactly this loss (`Cancel`) and no other.
* `bidi_write/worker.rs:397`: after a dropped flush, `[Flush, Finalize]` are pending. If the
  object was finalized before the stream broke, the handshake satisfies neither (a Flush
  wants an unfinalized response), and `finalize` reports "object is already finalized",
  although the comment at 455-463 says it satisfies the pending `Finalize`.
* `bidi/transport.rs:138`: `read_range` panics if the service has ended the stream cleanly
  before; the worker returns on `Ok(None)` although the descriptor lives.
* `bidi/resume_redirect.rs:45`: redirects are followed without limit, past the attempt limit
  of the resume policy; each still counts against later resumes.
* `retry_loop_internal.rs:70`: `remaining_time` is computed before the backoff sleep and given
  to the attempt after it, so an attempt may end later than the time limit by that delay;
  `RetriesWithinLimits` states this bound.
* `retry_loop_internal.rs:83`: a throttled retry "counts as an error for the purposes of the
  retry policy", but not as an attempt: with an attempt limit alone a call may be
  throttled for ever. `EveryCallReturns` holds because the policy has a time limit.
* `publisher/actor.rs:640`: if the service returned fewer message IDs than messages, the futures left
  over would report `Shutdown` although the request succeeded; the models suppose one ID per message.
* `publisher/batch.rs:53`: the size of a message is truncated to a `u32`; a message that large is far
  beyond what the service takes, and sizes are natural numbers in `Batch`.
* `token_cache.rs:103`: the wait for a token has no deadline; neither the attempt timeout nor
  the time limit of the retry policy covers it. Calls return because the provider does.

## 6. Not modelled, and why

* Lease extensions, the StreamingPull keepalive and reconnecting the subscriber's stream:
  clocks that decide when a lease or a stream is given up. `LeaseLoop` lets both happen at
  any time, so its properties do not depend on them.
* The LRO poller, paginators, resumable uploads and reads over HTTP, the bigquery write
  runner, spanner's transaction runner and result sets: sequential loops with state, the
  candidates for further modules.
* The other retry policies and the `AdaptiveThrottler` (random decisions), streaming calls of
  the transports.
* Generated clients, builders, telemetry, credentials (request building around I/O), `wkt`
  conversions, signed URLs: no state of their own.

## 7. Plan

Every invariant and action property that the runs check is proved. What is left is breadth:
further modules, in the order of section 6.
