------------------------ MODULE ConcurrentBatchActor ------------------------
(***************************************************************************)
(* The background task that publishes the messages WITHOUT an ordering key *)
(* (pubsub/src/publisher/actor.rs, struct ConcurrentBatchActor): requests  *)
(* are sent as soon as a batch is full, any number of them at a time.      *)
(*                                                                         *)
(* The actor is interrupted only in the select! of run (pc = "select") and *)
(* in JoinSet::join_all, after a Flush or when rx is closed (pc = "join"). *)
(* join_all panics if an RPC task panicked (pc = "dead"): what the actor   *)
(* owned is dropped, and with it the senders of every waiting future.      *)
(***************************************************************************)
EXTENDS Batch, FiniteSets

CONSTANTS
    MaxCmds,      \* bound: commands the application submits
    MsgBytes      \* the sizes a message may have

ASSUME ConcurrentAssumption == MaxCmds \in Nat /\ MsgBytes \subseteq Nat

VARIABLES
    hist,         \* the commands submitted so far (history)
    fut,          \* what each message's PublishFuture resolved to
    replied,      \* the Flush commands whose oneshot was answered
    dropped,      \* the Flush commands whose oneshot was dropped unanswered
    sent,         \* the Publish requests sent, oldest first (history)
    rx,           \* context.rx
    open,         \* the Dispatcher still holds the sender of rx
    batch,        \* the batch being filled
    timer,        \* the delay timer is armed
    inflight,     \* the JoinSet: the RPC tasks not yet joined
    pc,           \* the await at which the actor stands
    cont          \* the Flush (tx) or the shutdown (0) that awaits join_all

client == <<hist, fut, replied, dropped, sent>>
queue  == <<rx, open>>
actor  == <<batch, timer, inflight, pc, cont>>
vars   == <<client, queue, actor>>

Ids      == 1..MaxCmds
Commands == [op : {"publish", "flush", "resume"}, id : Ids, bytes : Nat]
Failures == {"rpc", "shutdown"}
IdsOf(s) == {s[i].id : i \in DOMAIN s}

Init ==
    /\ hist = <<>>
    /\ fut = [i \in Ids |-> "waiting"]
    /\ replied = {}
    /\ dropped = {}
    /\ sent = <<>>
    /\ rx = <<>>
    /\ open = TRUE
    /\ batch = <<>>
    /\ timer = FALSE
    /\ inflight = {}
    /\ pc = "select"
    /\ cont = 0

Resolve(ids, outcome) == [i \in Ids |-> IF i \in ids THEN outcome ELSE fut[i]]

-----------------------------------------------------------------------------
\* The application submits a command; a dead actor no longer receives it, so
\* the oneshot it carries is dropped.
Submit(op, bytes) ==
    /\ open
    /\ Len(hist) < MaxCmds
    /\ LET cmd == [op |-> op, id |-> Len(hist) + 1, bytes |-> bytes]
       IN  /\ hist' = Append(hist, cmd)
           /\ rx' = IF pc = "dead" THEN rx ELSE Append(rx, cmd)
           /\ fut' = IF pc = "dead" /\ op = "publish"
                       THEN Resolve({cmd.id}, "shutdown") ELSE fut
           /\ dropped' = IF pc = "dead" /\ op = "flush"
                           THEN dropped \cup {cmd.id} ELSE dropped
    /\ UNCHANGED <<replied, sent, open, actor>>

Close ==
    /\ open
    /\ open' = FALSE
    /\ UNCHANGED <<client, rx, actor>>

-----------------------------------------------------------------------------
\* send: one more RPC task.
Spawn(b) == [status |-> "running", msgs |-> b]

\* flush: drain the batch, if it is not empty, into a request.
flush ==
    /\ batch' = <<>>
    /\ inflight' = inflight \cup (IF batch = <<>> THEN {} ELSE {Spawn(batch)})
    /\ sent' = IF batch = <<>> THEN sent ELSE Append(sent, batch)

\* Mutant: the batch that is full before the message arrives is not flushed.
add_msg_overfull(msg) ==
    LET b == Append(batch, msg)
    IN  IF at_threshold(b)
          THEN /\ inflight' = inflight \cup {Spawn(b)}
               /\ sent' = Append(sent, b)
               /\ batch' = <<>>
          ELSE batch' = b /\ UNCHANGED <<inflight, sent>>

\* add_msg_and_flush: a batch that has no room for msg goes first (an empty one
\* is never sent), and the batch with msg goes when it is full.
add_msg_and_flush(msg) ==
    LET fits  == can_add(batch, msg)
        first == IF fits \/ batch = <<>> THEN <<>> ELSE <<batch>>
        b     == IF fits THEN Append(batch, msg) ELSE <<msg>>
        full  == IF at_threshold(b) THEN <<b>> ELSE <<>>
        out   == first \o full
    IN  /\ sent' = sent \o out
        /\ inflight' = inflight \cup {Spawn(out[i]) : i \in DOMAIN out}
        /\ batch' = IF full = <<>> THEN b ELSE <<>>

-----------------------------------------------------------------------------
\* An RPC task ends: it resolves the futures of its messages, or drops their
\* senders when it panics.
FutureOf(outcome) ==
    CASE outcome = "ok"    -> "ok"
      [] outcome = "err"   -> "rpc"
      [] outcome = "panic" -> "shutdown"

RpcDone(task, outcome) ==
    /\ task.status \in {"running", "aborting"}
    /\ inflight' = (inflight \ {task}) \cup {[task EXCEPT !.status = outcome]}
    /\ fut' = Resolve(IdsOf(task.msgs), FutureOf(outcome))
    /\ UNCHANGED <<hist, replied, dropped, sent, queue, batch, timer, pc, cont>>

-----------------------------------------------------------------------------
Recv(op) ==
    /\ pc = "select"
    /\ rx # <<>>
    /\ Head(rx).op = op
    /\ rx' = Tail(rx)
    /\ UNCHANGED open

\* The join branch of select! removes a finished task and ignores its result.
JoinInflight ==
    /\ pc = "select"
    /\ \E task \in inflight :
          task.status # "running" /\ inflight' = inflight \ {task}
    /\ UNCHANGED <<client, queue, batch, timer, pc, cont>>

TimerFires ==
    /\ pc = "select" /\ timer
    /\ flush
    /\ timer' = FALSE
    /\ UNCHANGED <<hist, fut, replied, dropped, queue, pc, cont>>

\* Mutant: the timer is armed only by a message that finds others in the batch.
RecvPublishLateTimer ==
    /\ Recv("publish")
    /\ add_msg_and_flush(Head(rx))
    /\ timer' = (batch # <<>> /\ batch' # <<>>)
    /\ UNCHANGED <<hist, fut, replied, dropped, pc, cont>>

RecvPublish ==
    /\ Recv("publish")
    /\ add_msg_and_flush(Head(rx))
    /\ timer' = (batch' # <<>>)
    /\ UNCHANGED <<hist, fut, replied, dropped, pc, cont>>

\* Mutant: the batch being filled is not part of what a Flush waits for.
RecvFlushInflightOnly ==
    /\ Recv("flush")
    /\ pc' = "join" /\ cont' = Head(rx).id
    /\ UNCHANGED <<client, batch, timer, inflight>>

RecvFlush ==
    /\ Recv("flush")
    /\ flush
    /\ pc' = "join" /\ cont' = Head(rx).id
    /\ UNCHANGED <<hist, fut, replied, dropped, timer>>

\* Nothing to resume: a publisher without ordering key never pauses.
RecvResume ==
    /\ Recv("resume")
    /\ UNCHANGED <<client, actor>>

RecvClosed ==
    /\ pc = "select" /\ rx = <<>> /\ ~open
    /\ flush
    /\ pc' = "join" /\ cont' = 0
    /\ UNCHANGED <<hist, fut, replied, dropped, queue, timer>>

\* join_all returns: every task has ended and none of them panicked.
JoinAll ==
    /\ pc = "join"
    /\ \A task \in inflight : task.status \in {"ok", "err"}
    /\ inflight' = {}
    /\ pc' = IF cont = 0 THEN "done" ELSE "select"
    /\ timer' = (timer /\ cont = 0)
    /\ replied' = IF cont = 0 THEN replied ELSE replied \cup {cont}
    /\ cont' = 0
    /\ UNCHANGED <<hist, fut, dropped, sent, queue, batch>>

(***************************************************************************)
(* join_all meets a task that panicked, and panics.  The actor's task ends *)
(* without a further await: the JoinSet asks the tasks still running to    *)
(* abort, and the commands in rx are dropped with their oneshots.          *)
(***************************************************************************)
Queued(op) == {rx[i].id : i \in {j \in DOMAIN rx : rx[j].op = op}}

JoinAllPanics ==
    /\ pc = "join"
    /\ \E task \in inflight : task.status = "panic"
    /\ fut' = Resolve(Queued("publish"), "shutdown")
    /\ dropped' = dropped \cup ({cont} \ {0}) \cup Queued("flush")
    /\ rx' = <<>>
    /\ inflight' = {[t EXCEPT !.status = "aborting"] :
                        t \in {u \in inflight : u.status = "running"}}
    /\ timer' = FALSE
    /\ pc' = "dead"
    /\ cont' = 0
    /\ UNCHANGED <<hist, replied, sent, open, batch>>

\* The runtime gets round to an aborted task and drops it.
TaskAborted ==
    /\ \E task \in inflight :
          /\ task.status = "aborting"
          /\ inflight' = inflight \ {task}
          /\ fut' = Resolve(IdsOf(task.msgs), "shutdown")
    /\ UNCHANGED <<hist, replied, dropped, sent, queue, batch, timer, pc, cont>>

-----------------------------------------------------------------------------
Terminated == pc \in {"done", "dead"} /\ ~open /\ UNCHANGED vars

Actor ==
    \/ JoinInflight \/ TimerFires
    \/ RecvPublish \/ RecvFlush \/ RecvResume \/ RecvClosed
    \/ JoinAll \/ JoinAllPanics

Application ==
    \/ \E b \in MsgBytes : Submit("publish", b)
    \/ \E op \in {"flush", "resume"} : Submit(op, 0)
    \/ Close

Rpc ==
    \/ \E task \in inflight, o \in {"ok", "err", "panic"} : RpcDone(task, o)
    \/ TaskAborted

Next == Application \/ Actor \/ Rpc \/ Terminated

Spec == Init /\ [][Next]_vars

\* As for SequentialBatchActor: tokio polls every branch that stays ready, RPCs
\* end, timers fire.  Every running task is polled, whichever else is.
Fairness ==
    /\ WF_vars(Actor)
    /\ WF_vars(TimerFires)
    /\ WF_vars(TaskAborted)
    /\ \A m \in Ids : WF_vars(\E task \in inflight, o \in {"ok", "err", "panic"} :
                                 m \in IdsOf(task.msgs) /\ RpcDone(task, o))

FairSpec == Spec /\ Fairness

-----------------------------------------------------------------------------
Tasks == [status : {"running", "aborting", "ok", "err", "panic"},
          msgs : Seq(Commands) \ {<<>>}]

\* No request is empty.
TypeOK ==
    /\ hist \in Seq(Commands)
    /\ Len(hist) \in 0..MaxCmds
    /\ fut \in [Ids -> {"waiting", "ok"} \cup Failures]
    /\ replied \subseteq Ids /\ dropped \subseteq Ids
    /\ sent \in Seq(Seq(Commands))
    /\ rx \in Seq(Commands)
    /\ open \in BOOLEAN
    /\ batch \in Seq(Commands)
    /\ timer \in BOOLEAN
    /\ inflight \subseteq Tasks
    /\ pc \in {"select", "join", "done", "dead"}
    /\ cont \in 0..MaxCmds

\* A flush is answered only after every message published before it is resolved
\* (client.rs:137-139).  A flush whose actor died is not answered but dropped.
FlushBarrier ==
    \A f \in replied : \A m \in 1..(f - 1) :
        hist[m].op = "publish" => fut[m] # "waiting"

\* A message goes into exactly one request, and the requests respect the
\* batching options.
RequestsArePartition ==
    /\ \A i \in DOMAIN sent : WithinLimits(sent[i])
    /\ \A i, j \in DOMAIN sent : i # j => IdsOf(sent[i]) \cap IdsOf(sent[j]) = {}
    /\ \A m \in 1..Len(hist) : fut[m] \in {"ok", "rpc"} =>
            \E i \in DOMAIN sent : m \in IdsOf(sent[i])

\* Every future resolves.
EveryPublishResolves ==
    \A m \in Ids : (Len(hist) >= m /\ hist[m].op = "publish") ~> fut[m] # "waiting"

=============================================================================
