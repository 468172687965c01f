------------------------ MODULE SequentialBatchActor ------------------------
(***************************************************************************)
(* The background task that publishes the messages of ONE ordering key     *)
(* (pubsub/src/publisher/actor.rs, struct SequentialBatchActor), together  *)
(* with the application that sends it commands and the Publish RPC tasks   *)
(* it spawns.                                                              *)
(*                                                                         *)
(* The actor is one tokio task.  It is only interrupted where it awaits,   *)
(* so an action below is the code between two awaits: in the select! of    *)
(* run (pc = "select"), and at the two join_next().await of flush_all      *)
(* (pc = "join" and pc = "last").  The RPC task runs beside the actor; it  *)
(* resolves the futures of its messages itself, before the actor joins it. *)
(***************************************************************************)
EXTENDS Batch, FiniteSets

CONSTANTS
    MaxCmds,      \* bound: commands the application submits
    MsgBytes      \* the sizes a message may have

ASSUME SequentialAssumption == MaxCmds \in Nat /\ MsgBytes \subseteq Nat

VARIABLES
    hist,         \* the commands submitted so far, oldest first (history)
    fut,          \* what each message's PublishFuture resolved to
    replied,      \* the Flush commands whose oneshot was answered
    sent,         \* the Publish requests sent, oldest first (history)
    rx,           \* context.rx: commands not yet received
    open,         \* the Dispatcher still holds the sender of rx
    pending_msgs, \* messages received and not yet in a batch
    batch,        \* the batch being filled
    paused,       \* the key is paused
    timer,        \* the delay timer is armed
    inflight,     \* the JoinSet: at most one RPC task
    pc,           \* the await at which the actor stands
    cont          \* what runs when flush_all returns

client == <<hist, fut, replied, sent>>
queue  == <<rx, open>>
actor  == <<pending_msgs, batch, paused, timer, inflight, pc, cont>>
vars   == <<client, queue, actor>>

Ids      == 1..MaxCmds
Commands == [op : {"publish", "flush", "resume"}, id : Ids, bytes : Nat]
Failures == {"rpc", "paused", "shutdown"}
Outcomes == {"waiting", "ok"} \cup Failures

NoTask   == [status |-> "none", msgs |-> <<>>]
IdsOf(s) == {s[i].id : i \in DOMAIN s}
Idle     == [kind |-> "none", tx |-> 0]

Init ==
    /\ hist = <<>>
    /\ fut = [i \in Ids |-> "waiting"]
    /\ replied = {}
    /\ sent = <<>>
    /\ rx = <<>>
    /\ open = TRUE
    /\ pending_msgs = <<>>
    /\ batch = <<>>
    /\ paused = FALSE
    /\ timer = FALSE
    /\ inflight = NoTask
    /\ pc = "select"
    /\ cont = Idle

-----------------------------------------------------------------------------
(***************************************************************************)
(* The application, through Publisher::publish, flush and resume_publish.  *)
(* A command is identified by its position in the order of submission.     *)
(***************************************************************************)
Submit(op, bytes) ==
    /\ open
    /\ Len(hist) < MaxCmds
    /\ LET cmd == [op |-> op, id |-> Len(hist) + 1, bytes |-> bytes]
       IN  /\ hist' = Append(hist, cmd)
           /\ rx' = Append(rx, cmd)
    /\ UNCHANGED <<fut, replied, sent, open, actor>>

\* Every Publisher is dropped, and with it the sender of rx.
Close ==
    /\ open
    /\ open' = FALSE
    /\ UNCHANGED <<client, rx, actor>>

-----------------------------------------------------------------------------
(***************************************************************************)
(* send: an RPC task is spawned for the drained batch.                     *)
(***************************************************************************)
send(b) ==
    /\ inflight' = [status |-> "running", msgs |-> b]
    /\ sent' = Append(sent, b)

\* flush: drain b, if it is not empty, into a request; task is what the
\* JoinSet holds beforehand.
flush(b, task) ==
    /\ batch' = <<>>
    /\ IF b = <<>> THEN inflight' = task /\ UNCHANGED sent
                   ELSE send(b)

\* The loop of move_to_batch_and_flush stops after n messages of p have been
\* moved: because b is full, or the next message does not fit, or p is empty.
FullAfter(p, b, n) == n > 0 /\ at_threshold(b \o SubSeq(p, 1, n))
NextDoesNotFit(p, b, n) ==
    /\ n < Len(p)
    /\ b \o SubSeq(p, 1, n) # <<>>
    /\ ~can_add(b \o SubSeq(p, 1, n), p[n + 1])
Stops(p, b, n) == FullAfter(p, b, n) \/ NextDoesNotFit(p, b, n) \/ n = Len(p)

\* move_to_batch_and_flush on the pending messages p.
move_to_batch_and_flush(p, task) ==
    \E n \in 0..Len(p) :
        /\ Stops(p, batch, n)
        /\ \A k \in 0..(n - 1) : ~Stops(p, batch, k)
        /\ pending_msgs' = SubSeq(p, n + 1, Len(p))
        /\ IF FullAfter(p, batch, n) \/ NextDoesNotFit(p, batch, n)
              THEN flush(batch \o SubSeq(p, 1, n), task)
              ELSE /\ batch' = batch \o SubSeq(p, 1, n)
                   /\ inflight' = task
                   /\ UNCHANGED sent

(***************************************************************************)
(* handle_inflight_join: JoinSet::join_next returned.  A failed or         *)
(* panicked task pauses the key, which fails every pending message; an     *)
(* empty JoinSet returns None at once.                                     *)
(***************************************************************************)
Joinable   == inflight.status # "running"
JoinFailed == inflight.status \in {"err", "panic"}
PendingAfterJoin == IF JoinFailed THEN <<>> ELSE pending_msgs
Rejected(ids) == [i \in Ids |-> IF i \in ids THEN "paused" ELSE fut[i]]

\* Mutant: pause leaves the futures of the pending messages unresolved.
handle_inflight_join_silent ==
    /\ paused' = (paused \/ JoinFailed)
    /\ UNCHANGED fut

\* Mutant: a failed request fails the pending messages and does not pause the key.
handle_inflight_join_unpaused ==
    /\ UNCHANGED paused
    /\ fut' = IF JoinFailed THEN Rejected(IdsOf(pending_msgs)) ELSE fut

handle_inflight_join ==
    /\ paused' = (paused \/ JoinFailed)
    /\ fut' = IF JoinFailed THEN Rejected(IdsOf(pending_msgs)) ELSE fut

-----------------------------------------------------------------------------
(***************************************************************************)
(* The Publish RPC task: it learns the outcome, resolves the futures of    *)
(* its messages, and only then becomes joinable.  A task that panics drops *)
(* its oneshot senders, which the futures report as Shutdown.              *)
(***************************************************************************)
FutureOf(outcome) ==
    CASE outcome = "ok"    -> "ok"
      [] outcome = "err"   -> "rpc"
      [] outcome = "panic" -> "shutdown"

RpcDone(outcome) ==
    /\ inflight.status = "running"
    /\ inflight' = [inflight EXCEPT !.status = outcome]
    /\ fut' = [i \in Ids |-> IF i \in IdsOf(inflight.msgs)
                               THEN FutureOf(outcome) ELSE fut[i]]
    /\ UNCHANGED <<hist, replied, sent, queue, pending_msgs, batch, paused,
                   timer, pc, cont>>

-----------------------------------------------------------------------------
(***************************************************************************)
(* The loop of run while the key is paused: only rx is polled.             *)
(***************************************************************************)
Recv(op) ==
    /\ pc = "select"
    /\ rx # <<>>
    /\ Head(rx).op = op
    /\ rx' = Tail(rx)
    /\ UNCHANGED open

RxClosed == pc = "select" /\ rx = <<>> /\ ~open

PausedPublish ==
    /\ paused
    /\ Recv("publish")
    /\ fut' = Rejected({Head(rx).id})
    /\ UNCHANGED <<hist, replied, sent, actor>>

PausedFlush ==
    /\ paused
    /\ Recv("flush")
    /\ replied' = replied \cup {Head(rx).id}
    /\ UNCHANGED <<hist, fut, sent, actor>>

PausedResume ==
    /\ paused
    /\ Recv("resume")
    /\ paused' = FALSE
    /\ UNCHANGED <<client, pending_msgs, batch, timer, inflight, pc, cont>>

PausedClosed ==
    /\ paused
    /\ RxClosed
    /\ pc' = "done"
    /\ UNCHANGED <<client, queue, pending_msgs, batch, paused, timer, inflight, cont>>

-----------------------------------------------------------------------------
(***************************************************************************)
(* The branches of select! while the key is not paused.  select! polls     *)
(* them in random order, so any ready branch may be taken.                 *)
(***************************************************************************)
\* Mutant: a failed join keeps the pending messages.
JoinKeepsPending ==
    /\ ~paused /\ pc = "select"
    /\ inflight.status # "none" /\ Joinable
    /\ paused' = JoinFailed
    /\ move_to_batch_and_flush(pending_msgs, NoTask)
    /\ UNCHANGED <<hist, fut, replied, queue, timer, pc, cont>>

JoinInflight ==
    /\ ~paused /\ pc = "select"
    /\ inflight.status # "none" /\ Joinable
    /\ handle_inflight_join
    /\ move_to_batch_and_flush(PendingAfterJoin, NoTask)
    /\ UNCHANGED <<hist, replied, queue, timer, pc, cont>>

\* flush_all is entered; it stands at its first join_next().await.
StartFlushAll(kind, tx) ==
    /\ pc' = "join"
    /\ cont' = [kind |-> kind, tx |-> tx]
    /\ UNCHANGED <<client, open, pending_msgs, batch, paused, timer, inflight>>

TimerFires ==
    /\ ~paused /\ pc = "select" /\ timer
    /\ UNCHANGED rx
    /\ StartFlushAll("timer", 0)

\* Mutant: a message is moved to the batch while another batch is inflight.
RecvPublishUnguarded ==
    /\ ~paused
    /\ Recv("publish")
    /\ move_to_batch_and_flush(Append(pending_msgs, Head(rx)), inflight)
    /\ timer' = (pending_msgs' # <<>> \/ batch' # <<>>)
    /\ UNCHANGED <<hist, fut, replied, paused, pc, cont>>

\* Mutant: the timer is disarmed as soon as a request was sent.
RecvPublishDisarming ==
    /\ ~paused
    /\ Recv("publish")
    /\ LET p == Append(pending_msgs, Head(rx))
       IN  IF inflight = NoTask
              THEN move_to_batch_and_flush(p, NoTask)
              ELSE pending_msgs' = p /\ UNCHANGED <<batch, inflight, sent>>
    /\ timer' = (inflight' = NoTask)
    /\ UNCHANGED <<hist, fut, replied, paused, pc, cont>>

\* Mutant: a message goes to the front of the pending messages.
RecvPublishFront ==
    /\ ~paused
    /\ Recv("publish")
    /\ LET p == <<Head(rx)>> \o pending_msgs
       IN  IF inflight = NoTask
              THEN move_to_batch_and_flush(p, NoTask)
              ELSE pending_msgs' = p /\ UNCHANGED <<batch, inflight, sent>>
    /\ timer' = (pending_msgs' # <<>> \/ batch' # <<>>)
    /\ UNCHANGED <<hist, fut, replied, paused, pc, cont>>

RecvPublish ==
    /\ ~paused
    /\ Recv("publish")
    /\ LET p == Append(pending_msgs, Head(rx))
       IN  IF inflight = NoTask
              THEN move_to_batch_and_flush(p, NoTask)
              ELSE pending_msgs' = p /\ UNCHANGED <<batch, inflight, sent>>
    /\ timer' = (pending_msgs' # <<>> \/ batch' # <<>>)
    /\ UNCHANGED <<hist, fut, replied, paused, pc, cont>>

\* Mutant: the oneshot of the Flush is lost.
RecvFlushUnbound ==
    /\ ~paused
    /\ Recv("flush")
    /\ StartFlushAll("flush", 0)

RecvFlush ==
    /\ ~paused
    /\ Recv("flush")
    /\ StartFlushAll("flush", Head(rx).id)

\* Nothing to resume: the key is not paused.
RecvResume ==
    /\ ~paused
    /\ Recv("resume")
    /\ UNCHANGED <<client, actor>>

RecvClosed ==
    /\ ~paused
    /\ RxClosed
    /\ UNCHANGED rx
    /\ StartFlushAll("stop", 0)

-----------------------------------------------------------------------------
(***************************************************************************)
(* flush_all: join the inflight batch, then send and join one batch after  *)
(* the other until nothing is pending, then send what is left in the batch *)
(* although it is not full, and join that.                                 *)
(***************************************************************************)
FlushAllJoin ==
    /\ pc = "join" /\ Joinable
    /\ handle_inflight_join
    /\ IF PendingAfterJoin # <<>>
          THEN /\ move_to_batch_and_flush(PendingAfterJoin, NoTask)
               /\ UNCHANGED pc
          ELSE /\ flush(batch, NoTask)
               /\ pending_msgs' = <<>>
               /\ pc' = "last"
    /\ UNCHANGED <<hist, replied, queue, timer, cont>>

\* Mutant: the caller of flush_all does not wait for the last batch.
FlushAllLastUnjoined ==
    /\ pc = "last"
    /\ pc' = IF cont.kind = "stop" THEN "done" ELSE "select"
    /\ timer' = (timer /\ cont.kind = "stop")
    /\ replied' = IF cont.kind = "flush" THEN replied \cup {cont.tx} ELSE replied
    /\ cont' = Idle
    /\ UNCHANGED <<hist, fut, sent, queue, pending_msgs, batch, paused, inflight>>

\* The last join, and what follows the call of flush_all in run.
FlushAllLast ==
    /\ pc = "last" /\ Joinable
    /\ handle_inflight_join
    /\ pending_msgs' = PendingAfterJoin
    /\ inflight' = NoTask
    /\ pc' = IF cont.kind = "stop" THEN "done" ELSE "select"
    /\ timer' = (timer /\ cont.kind = "stop")
    /\ replied' = IF cont.kind = "flush" THEN replied \cup {cont.tx} ELSE replied
    /\ cont' = Idle
    /\ UNCHANGED <<hist, sent, queue, batch>>

-----------------------------------------------------------------------------
\* The actor has returned from run.
Terminated == pc = "done" /\ ~open /\ UNCHANGED vars

Select ==
    \/ PausedPublish \/ PausedFlush \/ PausedResume \/ PausedClosed
    \/ JoinInflight \/ TimerFires
    \/ RecvPublish \/ RecvFlush \/ RecvResume \/ RecvClosed

FlushAll == FlushAllJoin \/ FlushAllLast

Application ==
    \/ \E b \in MsgBytes : Submit("publish", b)
    \/ \E op \in {"flush", "resume"} : Submit(op, 0)
    \/ Close

Rpc == \E o \in {"ok", "err", "panic"} : RpcDone(o)

Next == Application \/ Select \/ FlushAll \/ Rpc \/ Terminated

Spec == Init /\ [][Next]_vars

(***************************************************************************)
(* Fairness.  The tokio runtime keeps polling a woken task, and select!    *)
(* polls its branches in random order, so a branch that stays ready is     *)
(* eventually taken; an RPC ends because the client retries under a        *)
(* deadline; an armed timer fires.  The application owes nothing.          *)
(***************************************************************************)
Fairness ==
    /\ WF_vars(Select)
    /\ WF_vars(JoinInflight)
    /\ WF_vars(TimerFires)
    /\ WF_vars(FlushAll)
    /\ WF_vars(Rpc)

FairSpec == Spec /\ Fairness

-----------------------------------------------------------------------------
TypeOK ==
    /\ hist \in Seq(Commands)
    /\ Len(hist) \in 0..MaxCmds
    /\ fut \in [Ids -> Outcomes]
    /\ replied \subseteq Ids
    /\ sent \in Seq(Seq(Commands))
    /\ rx \in Seq(Commands)
    /\ open \in BOOLEAN
    /\ pending_msgs \in Seq(Commands)
    /\ batch \in Seq(Commands)
    /\ paused \in BOOLEAN
    /\ timer \in BOOLEAN
    /\ inflight \in [status : {"none", "running", "ok", "err", "panic"},
                     msgs : Seq(Commands)]
    /\ inflight.status = "none" => inflight = NoTask
    /\ pc \in {"select", "join", "last", "done"}
    /\ cont \in [kind : {"none", "timer", "flush", "stop"}, tx : 0..MaxCmds]
    /\ cont.kind = "flush" => cont.tx \in Ids

\* What the comments in pause (actor.rs:578-581) and in move_to_batch_and_flush
\* (550-551) rely on: no message waits in the batch while a batch is inflight.
BatchEmptyWhileInflight == inflight # NoTask => batch = <<>>

\* What the comments in the paused loop (439-440, 449-450, 457-458) rely on: a
\* paused key holds no message and has no inflight batch at the select.
PausedIsDrained ==
    paused /\ pc \in {"select", "done"} =>
        pending_msgs = <<>> /\ batch = <<>> /\ inflight = NoTask

\* No message is stranded: whenever the actor waits in its select with messages
\* it has not sent, the timer that will send them is armed.
WaitingMessagesHaveTimer ==
    pc = "select" /\ (pending_msgs # <<>> \/ batch # <<>>) => timer

\* The futures of every message published before a Flush are resolved when the
\* Flush is answered (client.rs:137-139).
FlushBarrier ==
    \A f \in replied : \A m \in 1..(f - 1) :
        hist[m].op = "publish" => fut[m] # "waiting"

\* The position in the order of requests: within and between requests, messages
\* leave in the order in which they were published, each at most once.
SentInOrder ==
    \A i, j \in DOMAIN sent : \A k \in DOMAIN sent[i], l \in DOMAIN sent[j] :
        i < j \/ (i = j /\ k < l) => sent[i][k].id < sent[j][l].id

\* The promise of an ordering key (client.rs:97-99): once a message failed, no
\* later message is sent, unless the application asked in between to resume.
NoOvertake ==
    \A m \in Ids : fut[m] \in Failures =>
        \A i \in DOMAIN sent : m \notin IdsOf(sent[i]) =>
            \A n \in IdsOf(sent[i]) : m < n =>
                \E r \in (m + 1)..(n - 1) : hist[r].op = "resume"

\* Every future eventually resolves, whatever the application does next, and
\* when the last Publisher is dropped the actor drains and ends (actor.rs:441-509).
EverythingCompletes ==
    /\ \A m \in Ids :
          (Len(hist) >= m /\ hist[m].op = "publish") ~> fut[m] # "waiting"
    /\ ~open ~> pc = "done"

-----------------------------------------------------------------------------
Promise == INSTANCE OrderingKey

\* Seen from outside, the actor with its queue, batch, timer and RPC task does
\* what an ordering key promises, and nothing else.
ImplementsOrderingKey == Promise!Spec
=============================================================================
