----------------------------- MODULE RetryLoop -----------------------------
(***************************************************************************)
(* The retry loop of every client (gax/src/retry_loop_internal.rs), with   *)
(* the retry policy Aip194Strict.with_time_limit().with_attempt_limit(),   *)
(* truncated exponential backoff, and a CircuitBreaker shared by all the   *)
(* calls.  What an attempt does is left to the module that uses this one.  *)
(*                                                                         *)
(* Time is counted from the start of each call.  Sleeps end on time; the   *)
(* jitter picks some delay of at least a tick (it is drawn from an         *)
(* interval, and 0 again and again has no probability).                    *)
(***************************************************************************)
EXTENDS Naturals

CONSTANTS
    Calls,
    Idempotent(_),
    TimeLimit, AttemptLimit,             \* of the retry policy
    initial_delay, maximum_delay,        \* of the backoff policy, scaling by 2
    max_tokens, min_tokens, error_cost   \* of the throttler

VARIABLES
    pc,           \* of each caller: "idle", "attempt", "sleep", "ok", "err"
    elapsed,      \* since loop_start
    attempts,     \* attempt_count
    remaining,    \* remaining_time, as it was before the sleep
    wake,         \* until the sleep ends
    started,      \* history: when the last attempt started
    cur_tokens    \* of the throttler

vars == <<pc, elapsed, attempts, remaining, wake, started, cur_tokens>>

Init ==
    /\ pc = [c \in Calls |-> "idle"]
    /\ elapsed = [c \in Calls |-> 0]
    /\ attempts = [c \in Calls |-> 0]
    /\ remaining = [c \in Calls |-> 0]
    /\ wake = [c \in Calls |-> 0]
    /\ started = [c \in Calls |-> 0]
    /\ cur_tokens = max_tokens

Least(a, b) == IF a < b THEN a ELSE b
Minus(a, b) == IF a < b THEN 0 ELSE a - b

\* Mutant: the time the call has already taken is forgotten.
remaining_time_whole(c) == TimeLimit

\* LimitedElapsedTime::remaining_time.
remaining_time(c) == Minus(TimeLimit, elapsed[c])

\* scaling.powi(n), for the default scaling of 2.
powi(n) ==
    LET power[i \in 0..n] == IF i = 0 THEN 1 ELSE 2 * power[i - 1]
    IN  power[n]

\* ExponentialBackoff::delay.
delay(n) == Least(maximum_delay, initial_delay * powi(Minus(n, 1)))

\* CircuitBreaker.
on_success == cur_tokens' = Least(max_tokens, cur_tokens + 1)
on_retry_failure(flow) ==
    IF flow = "permanent" THEN on_success ELSE cur_tokens' = Minus(cur_tokens, error_cost)
throttle_retry_attempt == cur_tokens <= min_tokens

\* Errors before the request was sent, and errors that say it may be sent again.
BeforeRpc == {"connect", "auth"}
Retryable == {"unavailable"}

\* The limits of LimitedElapsedTime and LimitedAttemptCount.
Exhausted(c) == elapsed[c] >= TimeLimit \/ attempts[c] >= AttemptLimit

\* Mutant: a request that is not idempotent is retried like the others.
on_error_anyway(c, e) ==
    IF e \in BeforeRpc \cup Retryable
      THEN IF Exhausted(c) THEN "exhausted" ELSE "continue"
      ELSE "permanent"

\* on_error: Aip194Strict, then the limits.
on_error(c, e) ==
    IF e \in BeforeRpc \/ (Idempotent(c) /\ e \in Retryable)
      THEN IF Exhausted(c) THEN "exhausted" ELSE "continue"
      ELSE "permanent"

-----------------------------------------------------------------------------
\* retry_loop returns; its local variables are gone.
Ends(c, how) ==
    /\ pc' = [pc EXCEPT ![c] = how]
    /\ elapsed' = [elapsed EXCEPT ![c] = 0]
    /\ attempts' = [attempts EXCEPT ![c] = 0]
    /\ remaining' = [remaining EXCEPT ![c] = 0]
    /\ wake' = [wake EXCEPT ![c] = 0]
    /\ started' = [started EXCEPT ![c] = 0]

\* The end of an iteration of the loop and the start of the next: the delay is
\* drawn, the remaining time computed, and if it is enough the loop sleeps.
Backoff(c) ==
    \E d \in 1..delay(attempts[c]) :
       \/ remaining_time(c) < d /\ Ends(c, "err")
       \/ /\ remaining_time(c) >= d
          /\ pc' = [pc EXCEPT ![c] = "sleep"]
          /\ wake' = [wake EXCEPT ![c] = d]
          /\ remaining' = [remaining EXCEPT ![c] = remaining_time(c)]
          /\ UNCHANGED <<elapsed, attempts, started>>

\* The initial attempt is neither delayed nor throttled.
Call(c) ==
    /\ pc[c] \notin {"attempt", "sleep"}
    /\ pc' = [pc EXCEPT ![c] = "attempt"]
    /\ attempts' = [attempts EXCEPT ![c] = 1]
    /\ remaining' = [remaining EXCEPT ![c] = remaining_time(c)]
    /\ UNCHANGED <<elapsed, wake, started, cur_tokens>>

\* inner returns.
Succeeds(c) ==
    /\ pc[c] = "attempt"
    /\ Ends(c, "ok")
    /\ on_success

Fails(c, e) ==
    /\ pc[c] = "attempt"
    /\ IF on_error(c, e) = "continue" THEN Backoff(c) ELSE Ends(c, "err")
    /\ on_retry_failure(on_error(c, e))

\* The sleep ends and the throttler lets the retry go.
Retries(c) ==
    /\ pc[c] = "sleep" /\ wake[c] = 0
    /\ ~throttle_retry_attempt
    /\ pc' = [pc EXCEPT ![c] = "attempt"]
    /\ attempts' = [attempts EXCEPT ![c] = @ + 1]
    /\ started' = [started EXCEPT ![c] = elapsed[c]]
    /\ UNCHANGED <<elapsed, remaining, wake, cur_tokens>>

\* The throttler holds it back: on_throttle ends the call or the loop goes
\* around, without an attempt.
Throttled(c) ==
    /\ pc[c] = "sleep" /\ wake[c] = 0
    /\ throttle_retry_attempt
    /\ IF Exhausted(c) THEN Ends(c, "err") ELSE Backoff(c)
    /\ UNCHANGED cur_tokens

-----------------------------------------------------------------------------
Active(c) == pc[c] \in {"attempt", "sleep"}
Quiet == \A c \in Calls : ~(pc[c] = "sleep" /\ wake[c] = 0)

\* One tick; what is beyond the time limit is all the same.
Tick ==
    /\ elapsed' = [c \in Calls |-> IF Active(c) THEN Least(elapsed[c] + 1, TimeLimit + 1)
                                                ELSE elapsed[c]]
    /\ wake' = [c \in Calls |-> Minus(wake[c], 1)]
    /\ UNCHANGED <<pc, attempts, remaining, started, cur_tokens>>

-----------------------------------------------------------------------------
(* Properties.                                                             *)

\* The limits hold together, with throttled retries in between: no more than
\* AttemptLimit attempts, no retry starts after the time limit, and the time an
\* attempt is given exceeds the limit by no more than the backoff it slept after
\* remaining_time was computed.
RetriesWithinLimits ==
    \A c \in Calls :
      /\ attempts[c] <= IF AttemptLimit = 0 THEN 1 ELSE AttemptLimit
      /\ started[c] <= TimeLimit
      /\ pc[c] = "attempt" =>
           started[c] + remaining[c] <= TimeLimit
                + (IF attempts[c] = 1 THEN 0 ELSE delay(attempts[c] - 1))
=============================================================================
