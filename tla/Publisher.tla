----------------------------- MODULE Publisher -----------------------------
(***************************************************************************)
(* The whole publisher (pubsub/src/publisher): the Publisher handle, the   *)
(* Dispatcher task, and two batch actors, the one of an ordering key       *)
(* (SequentialBatchActor) and the one of messages without a key            *)
(* (ConcurrentBatchActor).  The actors are the instances S and C; their    *)
(* queues are fed by the Dispatcher instead of by the application.         *)
(***************************************************************************)
EXTENDS Naturals, Sequences, FiniteSets

CONSTANTS CountThreshold, ByteThreshold, TopicBytes, MaxCmds, MsgBytes

ASSUME PublisherAssumption == MaxCmds \in Nat /\ MsgBytes \subseteq Nat

VARIABLES
    hist,         \* the commands the application submitted (history)
    alive,        \* some clone of Publisher has not been dropped
    drx,          \* Dispatcher::rx
    dpc,          \* the Dispatcher: "run", "wait" (for its actors), "stopped"
                  \* after a graceful end, "aborted" after an early return
    actors,       \* the keys of batch_actors
    waiters,      \* the flush tasks: which actors each one still waits for
    returned,     \* the flush calls that returned because every actor answered
    abandoned,    \* the flush calls that returned because a oneshot was dropped,
                  \* after an RPC task panicked (the application cannot tell)
    fut,          \* what each message's PublishFuture resolved to
    rxS, openS, pending_msgs, batchS, paused, timerS, inflightS, pcS, contS,
    repliedS, sentS,
    rxC, openC, batchC, timerC, inflightC, pcC, contC, repliedC, droppedC, sentC

dispatcher == <<hist, alive, drx, dpc, actors, waiters, returned, abandoned>>
ordered    == <<rxS, openS, pending_msgs, batchS, paused, timerS, inflightS, pcS,
                contS, repliedS, sentS>>
unordered  == <<rxC, openC, batchC, timerC, inflightC, pcC, contC, repliedC,
                droppedC, sentC>>
vars       == <<dispatcher, fut, ordered, unordered>>

Ids  == 1..MaxCmds
Keys == {"key", ""}

S == INSTANCE SequentialBatchActor WITH
        rx <- rxS, open <- openS, batch <- batchS, timer <- timerS,
        inflight <- inflightS, pc <- pcS, cont <- contS,
        replied <- repliedS, sent <- sentS
C == INSTANCE ConcurrentBatchActor WITH
        rx <- rxC, open <- openC, batch <- batchC, timer <- timerC,
        inflight <- inflightC, pc <- pcC, cont <- contC,
        replied <- repliedC, dropped <- droppedC, sent <- sentC

Init ==
    /\ S!Init /\ C!Init
    /\ alive = TRUE
    /\ drx = <<>>
    /\ dpc = "run"
    /\ actors = {}
    /\ waiters = [f \in Ids |-> {}]
    /\ returned = {}
    /\ abandoned = {}

Resolve(ids, outcome) == [i \in Ids |-> IF i \in ids THEN outcome ELSE fut[i]]
IdsWith(s, op) == {s[i].id : i \in {j \in DOMAIN s : s[j].op = op}}

-----------------------------------------------------------------------------
\* Publisher::publish, flush, resume_publish.  When the Dispatcher is gone the
\* send fails: the oneshot of a message is dropped and flush returns at once.
Submit(op, key, bytes) ==
    /\ alive
    /\ Len(hist) < MaxCmds
    /\ LET cmd  == [op |-> op, key |-> key, id |-> Len(hist) + 1, bytes |-> bytes]
           gone == dpc \in {"stopped", "aborted"}
       IN  /\ hist' = Append(hist, cmd)
           /\ drx' = IF gone THEN drx ELSE Append(drx, cmd)
           /\ fut' = IF gone /\ op = "publish" THEN Resolve({cmd.id}, "shutdown") ELSE fut
           /\ abandoned' = IF gone /\ op = "flush" THEN abandoned \cup {cmd.id}
                                                   ELSE abandoned
    /\ UNCHANGED <<alive, dpc, actors, waiters, returned, ordered, unordered>>

DropPublisher ==
    /\ alive
    /\ alive' = FALSE
    /\ UNCHANGED <<hist, drx, dpc, actors, waiters, returned, abandoned, fut, ordered,
                   unordered>>

-----------------------------------------------------------------------------
Finished(key) == IF key = "" THEN pcC \in {"done", "dead"} ELSE pcS = "done"

\* The command as the batch actor receives it.
Forward(cmd) == [op |-> cmd.op, id |-> cmd.id, bytes |-> cmd.bytes]

\* The commands cmd goes to each actor of keys.
SendTo(keys, cmd) ==
    /\ rxS' = IF "key" \in keys THEN Append(rxS, Forward(cmd)) ELSE rxS
    /\ rxC' = IF "" \in keys THEN Append(rxC, Forward(cmd)) ELSE rxC
    /\ UNCHANGED <<openS, pending_msgs, batchS, paused, timerS, inflightS, pcS, contS,
                   repliedS, sentS, openC, batchC, timerC, inflightC, pcC, contC,
                   repliedC, droppedC, sentC>>

Received(op) == dpc = "run" /\ drx # <<>> /\ Head(drx).op = op

\* Mutant: every actor is resumed.
TargetsAll(cmd) == IF cmd.op = "publish" THEN {cmd.key} ELSE actors

\* The actors a command is for: the actor of the key, or every actor for Flush.
Targets(cmd) ==
    CASE cmd.op = "publish" -> {cmd.key}
      [] cmd.op = "flush"   -> actors
      [] cmd.op = "resume"  -> {cmd.key} \cap actors

DispatchPublish ==
    /\ Received("publish")
    /\ ~Finished(Head(drx).key)
    /\ SendTo({Head(drx).key}, Head(drx))
    /\ actors' = actors \cup {Head(drx).key}
    /\ drx' = Tail(drx)
    /\ UNCHANGED <<hist, alive, dpc, waiters, returned, abandoned, fut>>

\* Flush goes to every actor; a task of its own waits for all of them.
DispatchFlush ==
    /\ Received("flush")
    /\ \A key \in actors : ~Finished(key)
    /\ SendTo(actors, Head(drx))
    /\ waiters' = [waiters EXCEPT ![Head(drx).id] = actors]
    /\ drx' = Tail(drx)
    /\ UNCHANGED <<hist, alive, dpc, actors, returned, abandoned, fut>>

DispatchResume ==
    /\ Received("resume")
    /\ \A key \in Targets(Head(drx)) : ~Finished(key)
    /\ SendTo(Targets(Head(drx)), Head(drx))
    /\ drx' = Tail(drx)
    /\ UNCHANGED <<hist, alive, dpc, actors, waiters, returned, abandoned, fut>>

\* A send fails because its actor is gone: the Dispatcher returns.  Its queue is
\* dropped, the actors lose their senders and their tasks are to be aborted.  (A
\* Flush may have reached another actor before; nobody waits for its answer, and
\* that actor is closed or aborted anyway.)
DispatcherReturns ==
    /\ dpc = "run" /\ drx # <<>>
    /\ \E key \in Targets(Head(drx)) : Finished(key)
    /\ dpc' = "aborted"
    /\ fut' = Resolve(IdsWith(drx, "publish"), "shutdown")
    /\ abandoned' = abandoned \cup IdsWith(drx, "flush")
    /\ drx' = <<>>
    /\ openS' = FALSE /\ openC' = FALSE
    /\ UNCHANGED <<hist, alive, actors, waiters, returned, rxS, pending_msgs, batchS,
                   paused, timerS, inflightS, pcS, contS, repliedS, sentS, rxC, batchC,
                   timerC, inflightC, pcC, contC, repliedC, droppedC, sentC>>

\* Every Publisher is dropped and the queue is empty: the Dispatcher drops the
\* handles of its actors and waits for their tasks.
DispatcherCloses ==
    /\ dpc = "run" /\ drx = <<>> /\ ~alive
    /\ dpc' = "wait"
    /\ openS' = FALSE /\ openC' = FALSE
    /\ UNCHANGED <<hist, alive, drx, actors, waiters, returned, abandoned, fut, rxS,
                   pending_msgs, batchS, paused, timerS, inflightS, pcS, contS, repliedS,
                   sentS, rxC, batchC, timerC, inflightC, pcC, contC, repliedC, droppedC,
                   sentC>>

\* Mutant: the Dispatcher does not wait for its actors.
DispatcherEndsUnwaited ==
    /\ dpc = "wait"
    /\ dpc' = "stopped"
    /\ UNCHANGED <<hist, alive, drx, actors, waiters, returned, abandoned, fut, ordered,
                   unordered>>

DispatcherEnds ==
    /\ dpc = "wait"
    /\ \A key \in actors : Finished(key)
    /\ dpc' = "stopped"
    /\ UNCHANGED <<hist, alive, drx, actors, waiters, returned, abandoned, fut, ordered,
                   unordered>>

-----------------------------------------------------------------------------
\* The task spawned for a flush: all the actors have answered, or one of them
\* dropped its oneshot, which ends the wait for that actor as well.
Answered(f, key) == IF key = "" THEN f \in repliedC ELSE f \in repliedS
Dropped(f, key) ==
    \/ key = "" /\ (f \in droppedC \/ pcC \in {"done", "dead"})
    \/ key = "key" /\ pcS = "done"

\* Mutant: the task waits for an answer even from an actor that is gone.
FlushReturnsAnswered(f) ==
    /\ f \in IdsWith(hist, "flush") \ (returned \cup abandoned)
    /\ f \notin IdsWith(drx, "flush")
    /\ \A key \in waiters[f] : Answered(f, key)
    /\ returned' = returned \cup {f}
    /\ UNCHANGED <<hist, alive, drx, dpc, actors, waiters, abandoned, fut, ordered,
                   unordered>>

\* Mutant: the task waits for any one of the actors.
FlushReturnsEarly(f) ==
    /\ f \in IdsWith(hist, "flush") \ (returned \cup abandoned)
    /\ f \notin IdsWith(drx, "flush")
    /\ waiters[f] # {} => \E key \in waiters[f] : Answered(f, key)
    /\ returned' = returned \cup {f}
    /\ UNCHANGED <<hist, alive, drx, dpc, actors, waiters, abandoned, fut, ordered,
                   unordered>>

FlushReturns(f) ==
    /\ f \in IdsWith(hist, "flush") \ (returned \cup abandoned)
    /\ f \notin IdsWith(drx, "flush")
    /\ \A key \in waiters[f] : Answered(f, key) \/ Dropped(f, key)
    /\ IF \A key \in waiters[f] : Answered(f, key)
         THEN returned' = returned \cup {f} /\ UNCHANGED abandoned
         ELSE abandoned' = abandoned \cup {f} /\ UNCHANGED returned
    /\ UNCHANGED <<hist, alive, drx, dpc, actors, waiters, fut, ordered, unordered>>

-----------------------------------------------------------------------------
\* The actors run beside the Dispatcher.
OrderedActor   == (S!Select \/ S!FlushAll) /\ UNCHANGED <<dispatcher, unordered>>
UnorderedActor == C!Actor /\ UNCHANGED <<dispatcher, ordered>>
OrderedRpc     == S!Rpc /\ UNCHANGED <<dispatcher, unordered>>
UnorderedRpc   == C!Rpc /\ UNCHANGED <<dispatcher, ordered>>

\* After an early return the runtime aborts the actor of the ordering key at an
\* await: whatever it held, and its RPC task, are dropped.
AbortOrdered ==
    /\ dpc = "aborted" /\ "key" \in actors /\ pcS # "done"
    /\ fut' = Resolve({m \in IdsWith(rxS, "publish") \cup S!IdsOf(pending_msgs)
                              \cup S!IdsOf(batchS) \cup S!IdsOf(inflightS.msgs) :
                          fut[m] = "waiting"}, "shutdown")
    /\ rxS' = <<>> /\ pending_msgs' = <<>> /\ batchS' = <<>>
    /\ inflightS' = S!NoTask
    /\ pcS' = "done"
    /\ UNCHANGED <<dispatcher, openS, paused, timerS, contS, repliedS, sentS, unordered>>

Terminated ==
    /\ dpc \in {"stopped", "aborted"} /\ ~alive
    /\ \A key \in actors : Finished(key)
    /\ UNCHANGED vars

Application ==
    \/ \E key \in Keys, b \in MsgBytes : Submit("publish", key, b)
    \/ Submit("flush", "", 0)
    \/ \E key \in Keys : Submit("resume", key, 0)
    \/ DropPublisher

Dispatcher ==
    \/ DispatchPublish \/ DispatchFlush \/ DispatchResume
    \/ DispatcherReturns \/ DispatcherCloses \/ DispatcherEnds

Tasks ==
    \/ Dispatcher
    \/ \E f \in Ids : FlushReturns(f)
    \/ OrderedActor \/ UnorderedActor \/ OrderedRpc \/ UnorderedRpc
    \/ AbortOrdered

Next == Application \/ Tasks \/ Terminated

Spec == Init /\ [][Next]_vars

\* The tasks of the publisher run as long as one of them can, in any order; the
\* application owes nothing.
Fairness == WF_vars(Tasks)

FairSpec == Spec /\ Fairness

-----------------------------------------------------------------------------
\* A flush waits only for actors that exist.
TypeOK ==
    /\ fut \in [Ids -> {"waiting", "ok", "rpc", "paused", "shutdown"}]
    /\ alive \in BOOLEAN
    /\ dpc \in {"run", "wait", "stopped", "aborted"}
    /\ actors \subseteq Keys
    /\ waiters \in [Ids -> SUBSET actors]
    /\ returned \subseteq Ids /\ abandoned \subseteq Ids

\* Publisher::flush is answered only when every message published before it, on
\* any key, has reached a terminal state (client.rs:137-139).
FlushCoversEveryKey ==
    \A f \in returned : \A m \in 1..(f - 1) :
        hist[m].op = "publish" => fut[m] # "waiting"

\* A message of the ordering key is not sent after an earlier one of that key
\* failed, unless the application resumed THAT key in between (client.rs:97-99).
KeyOrderSurvivesFailure ==
    \A m \in Ids : fut[m] \in {"rpc", "paused", "shutdown"} /\ hist[m].key = "key" =>
        \A i \in DOMAIN sentS : m \notin S!IdsOf(sentS[i]) =>
            \A n \in S!IdsOf(sentS[i]) : m < n =>
                \E r \in (m + 1)..(n - 1) : hist[r].op = "resume" /\ hist[r].key = "key"

\* A graceful shutdown loses nothing: when the Dispatcher has ended after waiting
\* for its actors (actor.rs:185-196), every message was sent, or rejected on a
\* paused key; none is waiting and none was dropped unsent.
GracefulShutdownDrains ==
    dpc = "stopped" /\ pcC # "dead" =>
        \A m \in DOMAIN hist : hist[m].op = "publish" =>
            \/ fut[m] = "paused"
            \/ /\ fut[m] # "waiting"
               /\ \/ \E i \in DOMAIN sentS : m \in S!IdsOf(sentS[i])
                  \/ \E i \in DOMAIN sentC : m \in C!IdsOf(sentC[i])

\* The calls the application is still waiting for.
Unresolved == {m \in IdsWith(hist, "publish") : fut[m] = "waiting"}
Unreturned == IdsWith(hist, "flush") \ (returned \cup abandoned)

\* Every future resolves, every call of flush returns, and after the last
\* Publisher is dropped the background tasks end, also when the Dispatcher returns
\* early and aborts its actors.  (What is served stays served and the application
\* makes at most MaxCmds calls, so each call is served if, again and again, none is
\* left.)
EverythingCompletes ==
    []<>(/\ Unresolved = {} /\ Unreturned = {}
         /\ alive \/ dpc \in {"stopped", "aborted"})
=============================================================================
