----------------------------- MODULE UnaryCall -----------------------------
(***************************************************************************)
(* A unary RPC of a client (gax-internal/src/http.rs and grpc.rs): the     *)
(* retry loop runs attempts, each of which first asks the credentials, and *)
(* so the token cache, for its headers, and then sends the request with    *)
(* the effective timeout.  The calls share the cache and the throttler.    *)
(***************************************************************************)
EXTENDS Integers

CONSTANTS
    Calls, Idempotent(_),
    TimeLimit, AttemptLimit, initial_delay, maximum_delay,
    max_tokens, min_tokens, error_cost,
    NORMAL_REFRESH_SLACK, SHORT_REFRESH_SLACK, Lifetimes, Forever,
    AttemptTimeout         \* per attempt, of the client or the request

ASSUME PolicyAssumption ==
    /\ TimeLimit \in Nat /\ AttemptLimit \in Nat /\ AttemptTimeout \in Nat
    /\ initial_delay \in Nat \ {0} /\ maximum_delay \in Nat
    /\ initial_delay <= maximum_delay
    /\ max_tokens \in Nat /\ min_tokens \in 0..max_tokens /\ error_cost \in Nat

ASSUME TokenAssumption ==
    /\ NORMAL_REFRESH_SLACK \in Nat /\ SHORT_REFRESH_SLACK \in Nat \ {0}
    /\ Lifetimes \subseteq Int
    /\ Forever \in Nat /\ Forever > NORMAL_REFRESH_SLACK
    /\ \A t \in Lifetimes : t <= Forever

VARIABLES
    cached, task, waiting,
    pc, elapsed, attempts, remaining, wake, started, cur_tokens,
    stage,        \* of the attempt of a call: "no", "headers", "token", "rpc"
    timeout,      \* until the RPC times out
    dropped,      \* every clone of the client is gone
    reached       \* history: of a call that is not idempotent, the
                  \* attempts that may have reached the service

cache == <<cached, task, waiting>>
loop  == <<pc, elapsed, attempts, remaining, wake, started, cur_tokens>>
rpc   == <<stage, timeout, reached, dropped>>
vars  == <<cache, loop, rpc>>

Cache == INSTANCE TokenCache
Retry == INSTANCE RetryLoop

Init ==
    /\ Cache!Init /\ Retry!Init
    /\ stage = [c \in Calls |-> "no"]
    /\ timeout = [c \in Calls |-> 0]
    /\ dropped = FALSE
    /\ reached = [c \in Calls |-> 0]

-----------------------------------------------------------------------------
\* A caller makes a request, and again when it has returned.
Call(c) ==
    /\ ~dropped
    /\ Retry!Call(c)
    /\ stage' = [stage EXCEPT ![c] = "headers"]
    /\ reached' = [reached EXCEPT ![c] = 0]
    /\ UNCHANGED <<cache, timeout, dropped>>

Retries(c) ==
    /\ Retry!Retries(c)
    /\ stage' = [stage EXCEPT ![c] = "headers"]
    /\ UNCHANGED <<cache, timeout, reached, dropped>>

\* The credentials answer: with a token the request goes out, under the effective
\* timeout; an error ends the attempt before the RPC.
Credentials(c) ==
    \/ /\ cached.is = "token"
       /\ stage' = [stage EXCEPT ![c] = "rpc"]
       /\ timeout' = [timeout EXCEPT ![c] = Retry!Least(AttemptTimeout, remaining[c])]
       /\ UNCHANGED loop
    \/ /\ cached.is \in Cache!Errors
       /\ Retry!Fails(c, IF cached.is = "transient" THEN "auth" ELSE "unauthenticated")
       /\ stage' = [stage EXCEPT ![c] = "no"]
       /\ UNCHANGED timeout

\* add_auth_headers: no deadline applies to the wait for a token.
Headers(c) ==
    /\ stage[c] = "headers"
    /\ \/ Cache!Usable /\ Credentials(c) /\ UNCHANGED cache
       \/ /\ ~Cache!Usable
          /\ Cache!Wait(c)
          /\ stage' = [stage EXCEPT ![c] = "token"]
          /\ UNCHANGED <<timeout, loop>>
    /\ UNCHANGED <<reached, dropped>>

TokenArrives(c) ==
    /\ stage[c] = "token" /\ Cache!Woken(c)
    /\ Cache!Take(c)
    /\ Credentials(c)
    /\ UNCHANGED <<reached, dropped>>

\* The RPC ends.  Nothing was sent when there is no connection.
RpcEnds(c, how) ==
    /\ stage[c] = "rpc"
    /\ stage' = [stage EXCEPT ![c] = "no"]
    /\ timeout' = [timeout EXCEPT ![c] = 0]
    /\ IF how = "ok" THEN Retry!Succeeds(c) ELSE Retry!Fails(c, how)
    /\ reached' = [reached EXCEPT ![c] = IF how = "connect" \/ Idempotent(c) THEN @ ELSE @ + 1]
    /\ UNCHANGED <<cache, dropped>>

\* The wait for a connection (grpc.rs:522) comes before the timeout runs; here it
\* is part of the attempt, and the channel gets ready or fails within the timeout.
RpcTimesOut(c) == timeout[c] = 0 /\ RpcEnds(c, "timeout")

Throttled(c) == Retry!Throttled(c) /\ UNCHANGED <<cache, rpc>>

Refresh == Cache!Refresh /\ UNCHANGED <<loop, rpc>>

\* The client is dropped; a call holds on to it.
DropClient ==
    /\ \A c \in Calls : ~Retry!Active(c)
    /\ dropped' = TRUE
    /\ Cache!Abort
    /\ UNCHANGED <<loop, stage, timeout, reached>>

\* One tick of the clock, when everything that is due has happened.
Tick ==
    /\ Cache!Quiet /\ Retry!Quiet
    /\ \A c \in Calls : stage[c] # "headers" /\ ~(stage[c] = "rpc" /\ timeout[c] = 0)
    /\ Cache!Tick /\ Retry!Tick
    /\ timeout' = [c \in Calls |-> Retry!Minus(timeout[c], 1)]
    /\ UNCHANGED <<stage, reached, dropped>>

-----------------------------------------------------------------------------
Outcomes == {"ok", "connect", "unavailable", "permanent"}

Step(c) ==
    Headers(c) \/ TokenArrives(c) \/ Throttled(c) \/ Retries(c) \/ RpcTimesOut(c)

Next ==
    \/ \E c \in Calls : Call(c) \/ Step(c)
    \/ \E c \in Calls, how \in Outcomes : RpcEnds(c, how)
    \/ Refresh \/ DropClient \/ Tick

Spec == Init /\ [][Next]_vars

\* Tasks that are due run, the provider answers, and time passes, however many
\* calls begin and end within a tick.  The service owes nothing: its requests
\* time out.
FairSpec ==
    /\ Spec
    /\ WF_vars(Refresh) /\ SF_vars(Tick)
    /\ \A c \in Calls : WF_vars(Step(c))

-----------------------------------------------------------------------------
(* Properties.                                                             *)

\* RetryLoop: the attempt limit, the time limit and the throttler together.
RetriesWithinLimits == Retry!RetriesWithinLimits

\* TokenCache: nobody waits for a refresh task that is gone.
NoWaiterIsOrphaned == Cache!NoWaiterIsOrphaned

\* TokenCache: failed refreshes do not take a valid token away.
ValidTokenIsKept == Cache!ValidTokenIsKept

\* A request that is not idempotent reaches the service at most once, although
\* failures to get a token or a connection are retried (retry_policy.rs:17-19).
UnsafeRequestsAreSentOnce ==
    \A c \in Calls : ~Idempotent(c) => reached[c] <= 1

\* Every call returns, whatever the service and the provider answer, and however
\* long the throttler holds it back.
EveryCallReturns == \A c \in Calls : Retry!Active(c) ~> ~Retry!Active(c)
=============================================================================
