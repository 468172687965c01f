------------------------------ MODULE Hedging ------------------------------
(***************************************************************************)
(* Request hedging of the publisher: BatchState, HedgingScheduler          *)
(* (pubsub/src/publisher/hedging.rs) and TokenBucket (token_bucket.rs).    *)
(* A batch has one initial RPC and, if that is slow, hedged RPCs; whichever *)
(* completes first takes the senders and cancels the others.               *)
(*                                                                         *)
(* Time is discrete.  A deadline is kept as the ticks left until it; ticks *)
(* pass while the scheduler awaits, the loop of handle_expired_hedges      *)
(* takes no time.  RPC tasks run in parallel with the scheduler.           *)
(***************************************************************************)
EXTENDS Naturals, Sequences, FiniteSets

CONSTANTS
    Batches,       \* bound: the batches the actor dispatches, 1..n
    Delay,         \* HedgingOptions::delay, in ticks
    TotalTimeout,  \* total_timeout, in ticks; None is one that is never reached
    Scale,         \* SCALE: the units of one token
    Refill,        \* refill_amount: units per successful RPC
    MaxScaled      \* max_scaled_tokens

\* set_delay, set_max_tokens and set_refill_ratio clamp away from zero.
ASSUME HedgingAssumption ==
    /\ Delay \in Nat \ {0} /\ TotalTimeout \in Nat
    /\ Scale \in Nat \ {0} /\ Refill \in Nat \ {0} /\ MaxScaled \in Nat \ {0}

VARIABLES
    dispatched,    \* batches given to HedgingSchedulerHandle::dispatch
    winner,        \* txs: "open" until taken, then the outcome of the batch
    cancelled,     \* batches whose cancel_token is cancelled
    initial,       \* the initial attempt of each batch
    hedges,        \* the hedged RPC tasks
    hedged,        \* hedged requests sent per batch (history)
    acquired,      \* tokens taken from the bucket (history)
    oks,           \* batches completed with success (history)
    elapsed,       \* ticks since start_instant, up to TotalTimeout
    tokens,        \* TokenBucket::tokens
    rx, open,      \* the scheduler's channel
    queue,         \* HedgingScheduler::queue
    timer,         \* ticks until the timer fires, NoTimer when it is None
    pc             \* the scheduler: "select", "expire" in the loop, "done"

rpcs      == <<dispatched, winner, cancelled, initial, hedges, hedged, oks>>
scheduler == <<rx, open, queue, timer, pc>>
vars      == <<rpcs, acquired, elapsed, tokens, scheduler>>

NoTimer == Delay + 1
Minus1(n) == IF n = 0 THEN 0 ELSE n - 1

Init ==
    /\ dispatched = {}
    /\ winner = [b \in Batches |-> "open"]
    /\ cancelled = {}
    /\ initial = [b \in Batches |-> "none"]
    /\ hedges = {}
    /\ hedged = [b \in Batches |-> 0]
    /\ acquired = 0
    /\ oks = 0
    /\ elapsed = [b \in Batches |-> 0]
    /\ tokens = 0
    /\ rx = <<>>
    /\ open = TRUE
    /\ queue = <<>>
    /\ timer = NoTimer
    /\ pc = "select"

-----------------------------------------------------------------------------
\* dispatch: the initial attempt is spawned at once, the batch goes to the
\* scheduler's channel (nobody reads it once the scheduler has ended).
dispatch(b) ==
    /\ open
    /\ b \notin dispatched
    /\ dispatched' = dispatched \cup {b}
    /\ initial' = [initial EXCEPT ![b] = "running"]
    /\ rx' = Append(rx, b)
    /\ UNCHANGED <<winner, cancelled, hedges, hedged, oks, acquired, elapsed,
                   tokens, open, queue, timer, pc>>

\* The actor ends and drops the sender.
Close ==
    /\ open
    /\ open' = FALSE
    /\ UNCHANGED <<rpcs, acquired, elapsed, tokens, rx, queue, timer, pc>>

\* TokenBucket::refill, capped.
refill == IF tokens >= MaxScaled THEN tokens
          ELSE IF tokens + Refill < MaxScaled THEN tokens + Refill ELSE MaxScaled

\* Mutant: a late success also refills the bucket and overwrites the outcome.
complete_unlocked(b, outcome) ==
    /\ winner' = [winner EXCEPT ![b] = outcome]
    /\ cancelled' = cancelled \cup {b}
    /\ tokens' = IF outcome = "ok" THEN refill ELSE tokens
    /\ oks' = IF outcome = "ok" /\ winner[b] = "open" THEN oks + 1 ELSE oks

\* complete: the first attempt to get here takes the senders.
complete(b, outcome) ==
    IF winner[b] = "open"
      THEN /\ winner' = [winner EXCEPT ![b] = outcome]
           /\ cancelled' = cancelled \cup {b}
           /\ tokens' = IF outcome = "ok" THEN refill ELSE tokens
           /\ oks' = IF outcome = "ok" THEN oks + 1 ELSE oks
      ELSE UNCHANGED <<winner, cancelled, tokens, oks>>

\* send_initial: the RPC ends and completes the batch.
InitialDone(b, outcome) ==
    /\ initial[b] = "running"
    /\ initial' = [initial EXCEPT ![b] = "done"]
    /\ complete(b, outcome)
    /\ UNCHANGED <<dispatched, hedges, hedged, acquired, elapsed, scheduler>>

\* send_initial: the cancellation branch of select!, or a panic of the RPC; the
\* task ends without completing the batch.
InitialStops(b) ==
    /\ initial[b] = "running"
    /\ initial' = [initial EXCEPT ![b] = "done"]
    /\ UNCHANGED <<dispatched, winner, cancelled, hedges, hedged, oks, acquired,
                   elapsed, tokens, scheduler>>

\* The last reference to a BatchState goes away with its senders inside: the
\* futures and the actor's JoinSet see closed channels.
Held(b) ==
    \/ initial[b] = "running"
    \/ \E h \in hedges : h.batch = b
    \/ \E i \in DOMAIN rx : rx[i] = b
    \/ \E i \in DOMAIN queue : queue[i].batch = b

StateDropped(b) ==
    /\ b \in dispatched /\ winner[b] = "open" /\ ~Held(b)
    /\ winner' = [winner EXCEPT ![b] = "dropped"]
    /\ UNCHANGED <<dispatched, cancelled, initial, hedges, hedged, oks, acquired,
                   elapsed, tokens, scheduler>>

-----------------------------------------------------------------------------
\* send_hedged_rpc: nothing is sent for a batch already resolved, or when no
\* time is left.
HedgeStart(h) ==
    /\ h.st = "spawned"
    /\ IF h.batch \in cancelled \/ elapsed[h.batch] >= TotalTimeout
         THEN hedges' = hedges \ {h} /\ UNCHANGED hedged
         ELSE /\ hedges' = (hedges \ {h}) \cup {[h EXCEPT !.st = "running"]}
              /\ hedged' = [hedged EXCEPT ![h.batch] = @ + 1]
    /\ UNCHANGED <<dispatched, winner, cancelled, initial, oks, acquired,
                   elapsed, tokens, scheduler>>

\* The hedged RPC fails, which is ignored, or is cancelled.
HedgeFails(h) ==
    /\ h.st = "running"
    /\ hedges' = hedges \ {h}
    /\ UNCHANGED <<dispatched, winner, cancelled, initial, hedged, oks, acquired,
                   elapsed, tokens, scheduler>>

HedgeSucceeds(h) ==
    /\ h.st = "running"
    /\ hedges' = hedges \ {h}
    /\ complete(h.batch, "ok")
    /\ UNCHANGED <<dispatched, initial, hedged, acquired, elapsed, scheduler>>

-----------------------------------------------------------------------------
\* HedgeItem: the hedge of a batch, the ticks until it is due, and its number.
Item(b, n, k) == [batch |-> b, left |-> n, attempt |-> k]

\* handle_new_batch.
NewBatch ==
    /\ pc = "select" /\ rx # <<>>
    /\ queue' = Append(queue, Item(Head(rx), Delay, 1))
    /\ timer' = IF timer = NoTimer THEN Delay ELSE timer
    /\ rx' = Tail(rx)
    /\ UNCHANGED <<rpcs, acquired, elapsed, tokens, open, pc>>

TimerFires ==
    /\ pc = "select" /\ timer = 0
    /\ pc' = "expire"
    /\ UNCHANGED <<rpcs, acquired, elapsed, tokens, rx, open, queue, timer>>

Expired == queue # <<>> /\ Head(queue).left = 0

\* Mutant: an expired hedge is spawned without a token.
ExpireItemFree ==
    /\ pc = "expire" /\ Expired
    /\ LET item == Head(queue)
       IN  IF item.batch \notin cancelled
             THEN /\ hedges' = hedges \cup
                        {[batch |-> item.batch, attempt |-> item.attempt, st |-> "spawned"]}
                  /\ tokens' = IF tokens >= Scale THEN tokens - Scale ELSE tokens
                  /\ acquired' = acquired + 1
                  /\ queue' = Append(Tail(queue),
                                Item(item.batch, Delay, item.attempt + 1))
             ELSE queue' = Tail(queue) /\ UNCHANGED <<hedges, tokens, acquired>>
    /\ UNCHANGED <<dispatched, winner, cancelled, initial, hedged, oks, elapsed,
                   rx, open, timer, pc>>

\* Mutant: an expired hedge is rescheduled without delay.
ExpireItemAtOnce ==
    /\ pc = "expire" /\ Expired
    /\ LET item == Head(queue)
       IN  IF item.batch \notin cancelled /\ tokens >= Scale
             THEN /\ hedges' = hedges \cup
                        {[batch |-> item.batch, attempt |-> item.attempt, st |-> "spawned"]}
                  /\ tokens' = tokens - Scale
                  /\ acquired' = acquired + 1
                  /\ queue' = Append(Tail(queue),
                                Item(item.batch, 0, item.attempt + 1))
             ELSE queue' = Tail(queue) /\ UNCHANGED <<hedges, tokens, acquired>>
    /\ UNCHANGED <<dispatched, winner, cancelled, initial, hedged, oks, elapsed,
                   rx, open, timer, pc>>

\* One iteration of the loop of handle_expired_hedges, with try_acquire.
ExpireItem ==
    /\ pc = "expire" /\ Expired
    /\ LET item == Head(queue)
       IN  IF item.batch \notin cancelled /\ tokens >= Scale
             THEN /\ hedges' = hedges \cup
                        {[batch |-> item.batch, attempt |-> item.attempt, st |-> "spawned"]}
                  /\ tokens' = tokens - Scale
                  /\ acquired' = acquired + 1
                  /\ queue' = Append(Tail(queue),
                                Item(item.batch, Delay, item.attempt + 1))
             ELSE queue' = Tail(queue) /\ UNCHANGED <<hedges, tokens, acquired>>
    /\ UNCHANGED <<dispatched, winner, cancelled, initial, hedged, oks, elapsed,
                   rx, open, timer, pc>>

\* Mutant: the timer is not armed again after the loop.
ExpireEndUnarmed ==
    /\ pc = "expire" /\ ~Expired
    /\ timer' = NoTimer
    /\ pc' = "select"
    /\ UNCHANGED <<rpcs, acquired, elapsed, tokens, rx, open, queue>>

\* The loop ends; the timer is armed for the new front of the queue.
ExpireEnd ==
    /\ pc = "expire" /\ ~Expired
    /\ timer' = IF queue = <<>> THEN NoTimer ELSE Head(queue).left
    /\ pc' = "select"
    /\ UNCHANGED <<rpcs, acquired, elapsed, tokens, rx, open, queue>>

\* The channel is closed and empty: the scheduler ends, its queue is dropped.
SchedulerEnds ==
    /\ pc = "select" /\ rx = <<>> /\ ~open
    /\ pc' = "done"
    /\ queue' = <<>>
    /\ timer' = NoTimer
    /\ UNCHANGED <<rpcs, acquired, elapsed, tokens, rx, open>>

\* One tick of the clock.
Tick ==
    /\ pc # "expire"
    /\ elapsed' = [b \in Batches |->
                     IF b \in dispatched /\ elapsed[b] < TotalTimeout
                       THEN elapsed[b] + 1 ELSE elapsed[b]]
    /\ queue' = [i \in DOMAIN queue |-> [queue[i] EXCEPT !.left = Minus1(@)]]
    /\ timer' = IF timer = NoTimer THEN NoTimer ELSE Minus1(timer)
    /\ UNCHANGED <<rpcs, acquired, tokens, rx, open, pc>>

-----------------------------------------------------------------------------
Scheduler == NewBatch \/ TimerFires \/ ExpireItem \/ ExpireEnd \/ SchedulerEnds
Initial(b) == InitialStops(b) \/ \E o \in {"ok", "err"} : InitialDone(b, o)
Hedge(h) == HedgeStart(h) \/ HedgeFails(h) \/ HedgeSucceeds(h)

Next ==
    \/ \E b \in Batches : dispatch(b) \/ Initial(b) \/ StateDropped(b)
    \/ \E h \in hedges : Hedge(h)
    \/ Scheduler
    \/ Close
    \/ Tick

Spec == Init /\ [][Next]_vars

\* The runtime polls the scheduler and the RPC tasks, RPCs end, dropping is
\* immediate, and time passes.
Fairness ==
    /\ WF_vars(Scheduler)
    /\ WF_vars(TimerFires)
    /\ WF_vars(Tick)
    /\ \A b \in Batches : WF_vars(Initial(b)) /\ WF_vars(StateDropped(b))
    /\ \A b \in Batches :
          WF_vars(\E h \in hedges : h.batch = b /\ Hedge(h))

FairSpec == Spec /\ Fairness

-----------------------------------------------------------------------------
Items == [batch : Batches, left : 0..Delay, attempt : Nat]

TypeOK ==
    /\ dispatched \subseteq Batches /\ cancelled \subseteq Batches
    /\ winner \in [Batches -> {"open", "ok", "err", "dropped"}]
    /\ initial \in [Batches -> {"none", "running", "done"}]
    /\ hedges \subseteq [batch : Batches, attempt : Nat, st : {"spawned", "running"}]
    /\ hedged \in [Batches -> Nat]
    /\ acquired \in Nat /\ oks \in Nat
    /\ elapsed \in [Batches -> 0..TotalTimeout]
    /\ tokens \in 0..MaxScaled
    /\ rx \in Seq(Batches) /\ open \in BOOLEAN
    /\ queue \in Seq(Items)
    /\ timer \in 0..NoTimer
    /\ pc \in {"select", "expire", "done"}

\* The bucket limits hedging: the tokens taken never exceed what the successful
\* RPCs earned, and no more hedged requests are sent than tokens were taken.
HedgeBudget ==
    /\ acquired * Scale + tokens <= oks * Refill
    /\ \A b \in Batches : hedged[b] <= acquired

\* While a hedge is scheduled the timer is armed and fires no later than any
\* deadline in the queue: the timer covers the front, and the queue is in the
\* order of its deadlines, as hedging.rs:216-221 claims.
TimerCoversQueue ==
    /\ \A i, j \in DOMAIN queue : i < j => queue[i].left <= queue[j].left
    /\ pc = "select" /\ queue # <<>> => timer <= Head(queue).left

\* The k-th hedged request of a batch is sent no earlier than k delays after the
\* batch was dispatched.
HedgesArePaced == \A b \in Batches : hedged[b] * Delay <= elapsed[b]

\* A batch that has its outcome keeps it, whichever of its RPCs and their
\* cancellation come first (hedging.rs:147-161).
OutcomeIsFinal ==
    [][\A b \in Batches : winner[b] # "open" => winner'[b] = winner[b]]_vars

\* Every dispatched batch gets one outcome, so that Flush and shutdown, which wait
\* for it in the actor's JoinSet, end.
EveryBatchResolvesOnce ==
    /\ \A b \in Batches : b \in dispatched ~> winner[b] # "open"
    /\ OutcomeIsFinal
=============================================================================
