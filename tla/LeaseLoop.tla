----------------------------- MODULE LeaseLoop -----------------------------
(***************************************************************************)
(* The subscriber's lease management (pubsub/src/subscriber): the stream   *)
(* that receives messages, the handlers in the hands of the application,   *)
(* the lease loop with its at-least-once and exactly-once lease state, and *)
(* the ack / nack RPCs it spawns, with the exactly-once retry loop.        *)
(*                                                                         *)
(* The loop is a biased select!.  A pass polls its branches in order:      *)
(* events, messages, acks, results.  On a multi-threaded runtime other     *)
(* tasks run while a pass is under way; pc = "past" is a pass that has     *)
(* already found the message channel empty.  On a current-thread runtime   *)
(* nothing runs within a pass.                                             *)
(*                                                                         *)
(* Clocks are abstracted: a timer may fire whenever it is polled, and the  *)
(* maximum lease of a message may elapse at any time (aged).  Which leases *)
(* are extended, and when, does not influence any variable below.          *)
(***************************************************************************)
EXTENDS Naturals, Sequences, FiniteSets

CONSTANTS
    ALO,            \* ack IDs delivered with at-least-once semantics
    EO,             \* ack IDs delivered with exactly-once semantics
    MaxIds,         \* MAX_IDS_PER_RPC
    Configs         \* the configurations to consider: see config

Behaviors == {"WaitForProcessing", "NackImmediately"}

Ids == ALO \cup EO

ASSUME LeaseAssumption ==
    /\ ALO \cap EO = {}
    /\ MaxIds \in Nat \ {0}
    /\ Configs \subseteq [behavior : Behaviors, multi_thread : BOOLEAN,
                         fire_and_forget : BOOLEAN]

VARIABLES
    config,         \* fixed from the start: the ShutdownBehavior, whether the tokio
                    \* runtime has several worker threads, and whether the application
                    \* calls ack() on exactly-once handlers (or only confirmed_ack)
    stage,          \* where each message is: "server", "pool", "app" (a Handler),
                    \* "held" (in confirmed_ack or confirmed_nack), "consumed", "lost"
    verdict,        \* what the application decided: "none", "ack", "nack"
    result,         \* what an exactly-once handler was told
    closed,         \* the stream was closed
    cancelled,      \* the cancellation token
    dropped,        \* the guarding task has dropped the strong senders
    msgq,           \* message_rx
    ackq,           \* ack_rx
    confq,          \* confirmed_rx
    under,          \* under_lease: the status of each ack ID
    to_ack, to_nack,
    aged,           \* messages held for longer than max_lease
    rpcs,           \* pending_acks_nacks
    pc,             \* the loop: "start", "past", "wait" (shutdown), "done"
    added, expired, \* ack IDs ever leased, and those whose lease expired (history)
    processed,      \* ack IDs whose ack or nack was processed (history)
    acked, nacked,  \* ack IDs the service was asked to ack, to nack (history)
    confirmed       \* ack IDs whose ack the service confirmed (history)

application == <<stage, verdict>>
channels    == <<msgq, ackq, confq>>
ghosts      == <<added, expired, processed>>
requests    == <<rpcs, acked, nacked, confirmed>>
leases      == <<under, to_ack, to_nack, aged>>
shutdown    == <<closed, cancelled, dropped>>
vars == <<config, application, result, shutdown, channels, leases, requests, pc, ghosts>>

Behavior      == config.behavior
MultiThread   == config.multi_thread
FireAndForget == config.fire_and_forget

Init ==
    /\ config \in Configs
    /\ stage = [i \in Ids |-> "server"]
    /\ verdict = [i \in Ids |-> "none"]
    /\ result = [i \in Ids |-> "none"]
    /\ closed = FALSE /\ cancelled = FALSE /\ dropped = FALSE
    /\ msgq = <<>> /\ ackq = <<>> /\ confq = <<>>
    /\ under = [i \in Ids |-> "no"]
    /\ to_ack = {} /\ to_nack = {} /\ aged = {}
    /\ rpcs = {} /\ acked = {} /\ nacked = {} /\ confirmed = {}
    /\ pc = "start"
    /\ added = {} /\ expired = {} /\ processed = {}

-----------------------------------------------------------------------------
(***************************************************************************)
(* The channels close when their last strong sender is gone.               *)
(***************************************************************************)
LoopAlive == pc \in {"start", "past"}

\* Mutant: the shutdown guard is held whatever the behavior.
MessageSendersGuarded == ~dropped \/ pc # "done"

\* WaitForProcessing keeps a message sender until the loop has ended.
MessageSenders == ~dropped \/ (Behavior = "WaitForProcessing" /\ pc # "done")

\* Mutant: a handler that waits for its confirmation has given up its sender.
AckSendersUnheld == ~dropped \/ \E i \in Ids : stage[i] = "app"

AckSenders == ~dropped \/ \E i \in Ids : stage[i] \in {"app", "held"}

(***************************************************************************)
(* The stream: populate_pool registers a message with the lease loop       *)
(* before it becomes available; next hands it out with a Handler.  next    *)
(* polls the cancellation first; only another thread can cancel after that *)
(* and before the rest of the poll.                                        *)
(***************************************************************************)
Polling == ~closed /\ (cancelled => MultiThread)

Receive(i) ==
    /\ Polling /\ stage[i] = "server"
    /\ IF MessageSenders
         THEN /\ stage' = [stage EXCEPT ![i] = "pool"]
              /\ msgq' = IF LoopAlive THEN Append(msgq, i) ELSE msgq
         ELSE stage' = [stage EXCEPT ![i] = "lost"] /\ UNCHANGED msgq
    /\ UNCHANGED <<config, verdict, result, shutdown, ackq, confq, leases,
                   requests, pc, ghosts>>

Deliver(i) ==
    /\ Polling /\ stage[i] = "pool"
    /\ stage' = [stage EXCEPT ![i] = IF AckSenders THEN "app" ELSE "lost"]
    /\ UNCHANGED <<config, verdict, result, shutdown, channels, leases, requests,
                   pc, ghosts>>

\* ShutdownToken::shutdown, or the stream is dropped.
Cancel ==
    /\ ~cancelled
    /\ cancelled' = TRUE
    /\ UNCHANGED <<config, application, result, closed, dropped, channels, leases,
                   requests, pc, ghosts>>

\* close: the pool is cleared without a nack, since it holds no handlers yet.
CloseStream(unread) ==
    /\ closed' = TRUE /\ cancelled' = TRUE
    /\ stage' = [i \in Ids |-> IF i \in unread \/ stage[i] = "pool" THEN "lost"
                                 ELSE stage[i]]
    /\ UNCHANGED <<config, verdict, result, dropped, ackq, confq, leases, requests,
                   pc, ghosts>>

\* MessageStream::next sees the cancellation.
Close ==
    /\ cancelled /\ ~closed
    /\ CloseStream({})
    /\ UNCHANGED msgq

\* The stream fails with a permanent error.
StreamFails ==
    /\ Polling
    /\ CloseStream({})
    /\ UNCHANGED msgq

\* A message that cannot be decoded is under lease before the stream fails.
ReceiveCorrupt(i) ==
    /\ Polling /\ stage[i] = "server" /\ MessageSenders
    /\ CloseStream({i})
    /\ msgq' = IF LoopAlive THEN Append(msgq, i) ELSE msgq

\* The task that holds the strong senders drops them.
DropSenders ==
    /\ cancelled /\ ~dropped
    /\ dropped' = TRUE
    /\ UNCHANGED <<config, application, result, closed, cancelled, channels,
                   leases, requests, pc, ghosts>>

-----------------------------------------------------------------------------
(***************************************************************************)
(* The application consumes a handler, each once.  Dropping one nacks.     *)
(* After the loop has left its select! nobody reads ack_rx any more.       *)
(***************************************************************************)
Settle(i, op) ==
    /\ stage[i] = "app"
    /\ verdict' = [verdict EXCEPT ![i] = op]
    /\ ackq' = IF LoopAlive THEN Append(ackq, [op |-> op, id |-> i]) ELSE ackq
    /\ UNCHANGED <<config, shutdown, msgq, confq, leases, requests, pc, ghosts>>

\* ack, nack, or drop: the handler and its sender are gone at once.
AppSettles(i, op) ==
    /\ i \in EO /\ op = "ack" => FireAndForget
    /\ Settle(i, op)
    /\ stage' = [stage EXCEPT ![i] = "consumed"]
    /\ UNCHANGED result

\* confirmed_ack, confirmed_nack: the handler keeps its sender while it waits;
\* if the loop has ended the send fails, whatever result is waiting.
AppAwaits(i, op) ==
    /\ i \in EO
    /\ Settle(i, op)
    /\ IF pc = "done"
         THEN /\ stage' = [stage EXCEPT ![i] = "consumed"]
              /\ result' = [result EXCEPT ![i] = "shutdown"]
         ELSE stage' = [stage EXCEPT ![i] = "held"] /\ UNCHANGED result

\* The result arrives, or its sender was dropped with the loop.
AwaitReturns(i) ==
    /\ stage[i] = "held"
    /\ result[i] # "none" \/ pc = "done"
    /\ stage' = [stage EXCEPT ![i] = "consumed"]
    /\ result' = [result EXCEPT ![i] = IF @ = "none" THEN "shutdown" ELSE @]
    /\ UNCHANGED <<config, verdict, shutdown, channels, leases, requests, pc,
                   ghosts>>

-----------------------------------------------------------------------------
(***************************************************************************)
(* The lease loop.                                                         *)
(***************************************************************************)
Full(s) == Cardinality(s) >= MaxIds
needs_flush ==
    \/ Full(to_ack \cap ALO) \/ Full(to_nack \cap ALO)
    \/ Full(to_ack \cap EO)  \/ Full(to_nack \cap EO)

\* A new pass can begin: at the top, or because the last one found nothing (on a
\* current-thread runtime, whatever is in the channels arrived after it).
NewPass ==
    \/ pc = "start"
    \/ pc = "past" /\ (MultiThread => ackq = <<>> /\ AckSenders /\ confq = <<>>)

Task(kind, ids) == IF ids = {} THEN {} ELSE {[kind |-> kind, ids |-> ids]}

\* LeaseEvent::Flush: by the timer, or because a batch is full.
Flush ==
    /\ NewPass /\ to_ack \cup to_nack # {}
    /\ rpcs' = rpcs \cup Task("ack", to_ack \cap ALO) \cup Task("nack", to_nack \cap ALO)
                    \cup Task("cack", to_ack \cap EO) \cup Task("cnack", to_nack \cap EO)
    /\ acked' = acked \cup to_ack
    /\ nacked' = nacked \cup to_nack
    /\ to_ack' = {} /\ to_nack' = {}
    /\ pc' = "start"
    /\ UNCHANGED <<config, application, result, shutdown, channels, under, aged,
                   confirmed, ghosts>>

\* LeaseEvent::Extend: leases held for too long are given up, unless they are
\* being acked or nacked; an exactly-once handler is told.
Extend ==
    LET over == {i \in aged : under[i] = "Leased"}
    IN  /\ NewPass /\ ~needs_flush /\ over # {}
        /\ under' = [i \in Ids |-> IF i \in over THEN "no" ELSE under[i]]
        /\ result' = [i \in Ids |-> IF i \in over \cap EO THEN "expired" ELSE result[i]]
        /\ expired' = expired \cup over
        /\ pc' = "start"
        /\ UNCHANGED <<config, application, shutdown, channels, to_ack, to_nack,
                       aged, requests, added, processed>>

\* The maximum lease of a message elapses.
Age(i) ==
    /\ under[i] # "no" /\ i \notin aged
    /\ aged' = aged \cup {i}
    /\ UNCHANGED <<config, application, result, shutdown, channels, under, to_ack,
                   to_nack, requests, pc, ghosts>>

\* The message branch: LeaseState::add.
AddMessage ==
    /\ NewPass /\ ~needs_flush /\ msgq # <<>>
    /\ under' = [under EXCEPT ![Head(msgq)] = "Leased"]
    /\ added' = added \cup {Head(msgq)}
    /\ msgq' = Tail(msgq)
    /\ pc' = "start"
    /\ UNCHANGED <<config, application, result, shutdown, ackq, confq, to_ack,
                   to_nack, aged, requests, expired, processed>>

\* The message branch is pending; the pass goes on to the acks.
PassMessages ==
    /\ pc = "start" /\ ~needs_flush /\ msgq = <<>> /\ MessageSenders
    /\ pc' = "past"
    /\ UNCHANGED <<config, application, result, shutdown, channels, leases,
                   requests, ghosts>>

\* Mutant: the acks are polled without looking at the messages first.
AtAcksUnbiased == pc \in {"start", "past"} /\ ~needs_flush

\* Where the acks are polled: later in a pass that found no message.  Unless
\* other threads run, the message channel has not changed since.
AtAcks == pc = "past" /\ (~MultiThread => msgq = <<>> /\ MessageSenders)

\* LeaseState::process for one action.
AckStatus(op) == IF op = "ack" THEN "Acking" ELSE "Nacking"

\* An at-least-once lease ends; an exactly-once lease stays until its confirmation.
StatusAfter(i, op) == IF i \in EO /\ under[i] # "no" THEN AckStatus(op) ELSE "no"

ProcessAction ==
    /\ AtAcks /\ ackq # <<>>
    /\ LET i      == Head(ackq).id
           op     == Head(ackq).op
           leased == under[i] # "no"
       IN  /\ under' = [under EXCEPT ![i] = StatusAfter(i, op)]
           /\ to_ack' = IF op = "ack" /\ (leased \/ i \in ALO)
                          THEN to_ack \cup {i} ELSE to_ack
           /\ to_nack' = IF op = "nack" /\ leased THEN to_nack \cup {i} ELSE to_nack
           /\ processed' = processed \cup {i}
    /\ ackq' = Tail(ackq)
    /\ pc' = "start"
    /\ UNCHANGED <<config, application, result, shutdown, msgq, confq, aged,
                   requests, added, expired>>

\* The results branch: LeaseState::confirm.  A result for a lease that is gone
\* is ignored.
Confirm ==
    /\ AtAcks /\ ackq = <<>> /\ AckSenders /\ confq # <<>>
    /\ LET r   == Head(confq)
           ids == {i \in r.ok \cup r.err : under[i] # "no"}
       IN  /\ under' = [i \in Ids |-> IF i \in ids THEN "no" ELSE under[i]]
           /\ result' = [i \in Ids |-> IF i \notin ids THEN result[i]
                                       ELSE IF i \in r.ok THEN "ok" ELSE "rpc"]
    /\ confq' = Tail(confq)
    /\ pc' = "start"
    /\ UNCHANGED <<config, application, shutdown, msgq, ackq, to_ack, to_nack,
                   aged, requests, ghosts>>

-----------------------------------------------------------------------------
(***************************************************************************)
(* Shutdown.  Pending at-least-once acks are sent, and every other lease   *)
(* is nacked, in batches.  Exactly-once leases are nacked whatever their   *)
(* status, and their handlers are told.                                    *)
(***************************************************************************)
Chunks(s) ==
    CHOOSE p \in SUBSET SUBSET s :
        /\ UNION p = s /\ {} \notin p
        /\ \A c, d \in p : c # d => c \cap d = {}
        /\ \A c \in p : Cardinality(c) <= MaxIds
        /\ Cardinality({c \in p : Cardinality(c) < MaxIds}) <= 1

NackTasks(kind, s) == {[kind |-> kind, ids |-> c] : c \in Chunks(s)}

EvictedResults ==
    [i \in Ids |-> IF i \in EO /\ under[i] # "no" THEN "shutdown" ELSE result[i]]

EvictAndWait(lastAcks, lastNacks) ==
    LET leasedALO == {i \in ALO : under[i] # "no"}
        leasedEO  == {i \in EO : under[i] # "no"}
        ackNow    == (to_ack \cap ALO) \cup (lastAcks \cap ALO)
        nackNow   == (to_nack \cap ALO) \cup (leasedALO \ lastAcks)
    IN  /\ rpcs' = rpcs \cup Task("ack", ackNow) \cup NackTasks("nack", nackNow)
                        \cup NackTasks("cnack", leasedEO)
        /\ acked' = acked \cup ackNow
        /\ nacked' = nacked \cup nackNow \cup leasedEO
        /\ result' = EvictedResults
        /\ under' = [i \in Ids |-> "no"]
        /\ to_ack' = {} /\ to_nack' = {}
        /\ processed' = processed \cup lastAcks \cup lastNacks
        /\ ackq' = <<>>
        /\ pc' = "wait"
        /\ UNCHANGED <<config, application, shutdown, msgq, confq, aged, confirmed,
                       added, expired>>

InQueue(op) == {ackq[k].id : k \in {j \in DOMAIN ackq : ackq[j].op = op}}

\* The message channel is closed: the acks known so far are processed first.
MessagesClosed ==
    /\ NewPass /\ ~needs_flush /\ msgq = <<>> /\ ~MessageSenders
    /\ EvictAndWait(InQueue("ack"), InQueue("nack"))

\* The ack channel is closed: there is no handler left.
AcksClosed ==
    /\ AtAcks /\ ackq = <<>> /\ ~AckSenders
    /\ EvictAndWait({}, {})

\* Mutant: the shutdown does not wait for the RPCs.
ShutdownUnawaited ==
    /\ pc = "wait"
    /\ pc' = "done"
    /\ UNCHANGED <<config, application, result, shutdown, channels, leases,
                   requests, ghosts>>

\* Every pending ack and nack RPC has completed.
ShutdownDone ==
    /\ pc = "wait" /\ rpcs = {}
    /\ pc' = "done"
    /\ UNCHANGED <<config, application, result, shutdown, channels, leases,
                   requests, ghosts>>

-----------------------------------------------------------------------------
(***************************************************************************)
(* The RPCs.  At-least-once results are ignored.  An attempt of the        *)
(* exactly-once retry loop settles some of its IDs, with success or a      *)
(* permanent error, reports them, and retries the others; when the retries *)
(* are exhausted the remaining IDs are reported with the last error.       *)
(***************************************************************************)
RpcDone(t) ==
    /\ t.kind \in {"ack", "nack"}
    /\ rpcs' = rpcs \ {t}
    /\ UNCHANGED <<config, application, result, shutdown, channels, leases, acked,
                   nacked, confirmed, pc, ghosts>>

\* Mutant: unlisted IDs of a failed attempt are confirmed as well.
EoAttemptConfirmsAll(t, ok, err) ==
    /\ t.kind \in {"cack", "cnack"} /\ ok \cup err # {}
    /\ rpcs' = rpcs \ {t}
    /\ confq' = IF LoopAlive THEN Append(confq, [ok |-> t.ids \ err, err |-> err])
                             ELSE confq
    /\ confirmed' = IF t.kind = "cack" THEN confirmed \cup ok ELSE confirmed
    /\ UNCHANGED <<config, application, result, shutdown, msgq, ackq, leases,
                   acked, nacked, pc, ghosts>>

\* Mutant: the IDs left when the retries are exhausted are not reported.
EoAttemptSilent(t, ok, err) ==
    /\ t.kind \in {"cack", "cnack"} /\ ok \cup err # {}
    /\ rpcs' = (rpcs \ {t}) \cup Task(t.kind, t.ids \ (ok \cup err))
    /\ confq' = IF LoopAlive /\ ok # {} THEN Append(confq, [ok |-> ok, err |-> {}])
                                        ELSE confq
    /\ confirmed' = IF t.kind = "cack" THEN confirmed \cup ok ELSE confirmed
    /\ UNCHANGED <<config, application, result, shutdown, msgq, ackq, leases,
                   acked, nacked, pc, ghosts>>

EoAttempt(t, ok, err) ==
    /\ t.kind \in {"cack", "cnack"} /\ ok \cup err # {}
    /\ rpcs' = (rpcs \ {t}) \cup Task(t.kind, t.ids \ (ok \cup err))
    /\ confq' = IF LoopAlive THEN Append(confq, [ok |-> ok, err |-> err]) ELSE confq
    /\ confirmed' = IF t.kind = "cack" THEN confirmed \cup ok ELSE confirmed
    /\ UNCHANGED <<config, application, result, shutdown, msgq, ackq, leases,
                   acked, nacked, pc, ghosts>>

-----------------------------------------------------------------------------
Terminated ==
    /\ pc = "done" /\ closed
    /\ \A i \in Ids : stage[i] \notin {"app", "held"}
    /\ UNCHANGED vars

Stream ==
    \/ Cancel \/ Close \/ StreamFails \/ DropSenders
    \/ \E i \in Ids : Receive(i) \/ ReceiveCorrupt(i) \/ Deliver(i)
Consume(i) ==
    \/ \E op \in {"ack", "nack"} : AppSettles(i, op) \/ AppAwaits(i, op)
    \/ AwaitReturns(i)
Loop ==
    \/ Flush \/ Extend \/ AddMessage \/ PassMessages \/ ProcessAction \/ Confirm
    \/ MessagesClosed \/ AcksClosed \/ ShutdownDone
Rpc(t) ==
    \/ RpcDone(t)
    \/ \E ok \in SUBSET t.ids : \E err \in SUBSET (t.ids \ ok) : EoAttempt(t, ok, err)

Next ==
    \/ Stream
    \/ \E i \in Ids : Consume(i) \/ Age(i)
    \/ Loop
    \/ \E t \in rpcs : Rpc(t)
    \/ Terminated

Spec == Init /\ [][Next]_vars

(***************************************************************************)
(* Fairness.  The loop and its branches are polled, its timers fire, RPCs  *)
(* end (their retries are limited in time), time passes.  The application  *)
(* is not trusted to do anything, except that WaitForProcessing waits for  *)
(* it to consume the handlers it was given.                                *)
(***************************************************************************)
Fairness ==
    /\ WF_vars(Loop) /\ WF_vars(Flush) /\ WF_vars(Extend) /\ WF_vars(DropSenders)
    /\ \A i \in Ids :
          /\ WF_vars(AwaitReturns(i)) /\ WF_vars(Age(i))
          /\ WF_vars(\E t \in rpcs : i \in t.ids /\ Rpc(t))
          /\ WF_vars(Behavior = "WaitForProcessing" /\ Consume(i))

FairSpec == Spec /\ Fairness

-----------------------------------------------------------------------------
\* No request is empty, and a request is confirmed if and only if its messages
\* have exactly-once semantics.
TypeOK ==
    /\ config \in Configs
    /\ stage \in [Ids -> {"server", "pool", "app", "held", "consumed", "lost"}]
    /\ verdict \in [Ids -> {"none", "ack", "nack"}]
    /\ result \in [Ids -> {"none", "ok", "rpc", "expired", "shutdown"}]
    /\ closed \in BOOLEAN /\ cancelled \in BOOLEAN /\ dropped \in BOOLEAN
    /\ msgq \in Seq(Ids)
    /\ ackq \in Seq([op : {"ack", "nack"}, id : Ids])
    /\ confq \in Seq([ok : SUBSET EO, err : SUBSET EO])
    /\ under \in [Ids -> {"no", "Leased", "Acking", "Nacking"}]
    /\ UNION {to_ack, to_nack, aged, added, expired, processed} \subseteq Ids
    /\ acked \cup nacked \cup confirmed \subseteq Ids
    /\ rpcs \subseteq [kind : {"ack", "nack"}, ids : (SUBSET ALO) \ {{}}]
                   \cup [kind : {"cack", "cnack"}, ids : (SUBSET EO) \ {{}}]
    /\ pc \in {"start", "past", "wait", "done"}

\* On a current-thread runtime, where nothing runs during a pass, a message is
\* added to lease management before its ack or nack is processed (the comment
\* in lease_loop.rs:79-85), and so an at-least-once message is acked or nacked,
\* never both: the shutdown does not nack what the application acked.
OneThreadKeepsOrder ==
    ~MultiThread =>
        /\ processed \subseteq added
        /\ \A i \in ALO : ~(i \in acked /\ i \in nacked)

\* What confirmed_ack tells the application of an exactly-once message is true.
\* Ok: the service confirmed exactly that, and the client never nacks it.
\* LeaseExpired: the client has not sent the ack, and will not
\* (lease_state.rs:120-122).  And the client nacks a message that the
\* application acked only at shutdown, and reports that.
ReportsAreTruthful ==
    \A i \in EO :
        /\ result[i] = "ok" /\ verdict[i] = "ack" => i \in confirmed /\ i \notin nacked
        /\ result[i] = "expired" => i \notin acked \cup to_ack
        /\ verdict[i] = "ack" /\ i \in nacked => result[i] = "shutdown"

\* When the shutdown is complete, every message ever leased was acked, nacked or
\* given up as expired, and no RPC is outstanding (shutdown_behavior.rs:25-27).
NothingLeftBehind ==
    pc = "done" => added \subseteq acked \cup nacked \cup expired /\ rpcs = {}

\* WaitForProcessing: what the application acked is not nacked by the client
\* (shutdown_behavior.rs:21-27, lease_state.rs:339-340).
WaitHonoursAcks ==
    Behavior = "WaitForProcessing" => \A i \in Ids : verdict[i] = "ack" => i \notin nacked

\* WaitForProcessing on a current-thread runtime keeps that promise to an
\* application that waits for the confirmation of every exactly-once ack.
WaitHonoursConfirmedAcks == ~MultiThread /\ ~FireAndForget => WaitHonoursAcks

\* Every call of confirmed_ack or confirmed_nack returns.
EveryAwaitReturns == \A i \in EO : stage[i] = "held" ~> stage[i] = "consumed"

\* ShutdownToken::shutdown returns.
ShutdownCompletes == cancelled ~> pc = "done"
=============================================================================
