---------------------------- MODULE OrderingKey ----------------------------
(***************************************************************************)
(* What publishing with an ordering key promises the application: the      *)
(* observable behaviour of Publisher::publish, flush and resume_publish    *)
(* for one key, with no actor, queue, timer or batch in sight.             *)
(***************************************************************************)
EXTENDS Naturals, Sequences

CONSTANTS
    MaxCmds, MsgBytes,
    WithinLimits(_)    \* what the batching options allow in one request

VARIABLES
    hist,      \* the commands the application submitted
    fut,       \* what each message's future resolved to
    replied,   \* the flush commands that returned
    sent       \* the requests sent to the service

vars == <<hist, fut, replied, sent>>

Ids      == 1..MaxCmds
Failures == {"rpc", "paused", "shutdown"}

Init ==
    /\ hist = <<>>
    /\ fut = [i \in Ids |-> "waiting"]
    /\ replied = {}
    /\ sent = <<>>

IdsOf(s)  == {s[i].id : i \in DOMAIN s}
SentIds   == UNION {IdsOf(sent[i]) : i \in DOMAIN sent}
Unsent(c) == c.op = "publish" /\ fut[c.id] = "waiting" /\ c.id \notin SentIds
\* The messages still to be sent, in the order of publication.
Backlog ==
    LET upto[i \in 0..Len(hist)] ==
          IF i = 0 THEN <<>>
          ELSE IF Unsent(hist[i]) THEN Append(upto[i - 1], hist[i]) ELSE upto[i - 1]
    IN  upto[Len(hist)]
Inflight  == {m \in SentIds : fut[m] = "waiting"}

\* After a failure of m, message n may be sent only if the application asked
\* in between to resume.
MayFollow(m, n) ==
    fut[m] \in Failures /\ m < n => \E r \in (m + 1)..(n - 1) : hist[r].op = "resume"

Submit ==
    /\ Len(hist) < MaxCmds
    /\ \E op \in {"publish", "flush", "resume"}, b \in MsgBytes \cup {0} :
          hist' = Append(hist, [op |-> op, id |-> Len(hist) + 1, bytes |-> b])
    /\ UNCHANGED <<fut, replied, sent>>

\* One request at a time, always with the oldest messages, within the limits.
Send ==
    /\ Inflight = {}
    /\ \E k \in 1..Len(Backlog) :
          LET b == SubSeq(Backlog, 1, k)
          IN  /\ \A m \in Ids, n \in IdsOf(b) : MayFollow(m, n)
              /\ WithinLimits(b)
              /\ sent' = Append(sent, b)
    /\ UNCHANGED <<hist, fut, replied>>

\* A request ends, for all of its messages alike.
Resolve ==
    /\ Inflight # {}
    /\ \E o \in {"ok", "rpc", "shutdown"} :
          fut' = [i \in Ids |-> IF i \in Inflight THEN o ELSE fut[i]]
    /\ UNCHANGED <<hist, replied, sent>>

\* The oldest messages are rejected unsent: only after an earlier request failed.
Reject ==
    /\ Inflight = {}
    /\ \E k \in 1..Len(Backlog) :
          LET b == SubSeq(Backlog, 1, k)
          IN  /\ \A n \in IdsOf(b) :
                    \E m \in 1..(n - 1) : fut[m] \in {"rpc", "shutdown"}
              /\ fut' = [i \in Ids |-> IF i \in IdsOf(b) THEN "paused" ELSE fut[i]]
    /\ UNCHANGED <<hist, replied, sent>>

\* flush returns once every message published before it is resolved.
Reply ==
    /\ \E f \in DOMAIN hist \ replied :
          /\ hist[f].op = "flush"
          /\ \A m \in 1..(f - 1) : hist[m].op = "publish" => fut[m] # "waiting"
          /\ replied' = replied \cup {f}
    /\ UNCHANGED <<hist, fut, sent>>

Next == Submit \/ Send \/ Resolve \/ Reject \/ Reply

Spec == Init /\ [][Next]_vars
=============================================================================
