----------------------------- MODULE TokenCache -----------------------------
(***************************************************************************)
(* The cache of access tokens (auth/src/token_cache.rs): the refresh task, *)
(* the watch channel it publishes to, and the callers of token().          *)
(*                                                                         *)
(* Time is a countdown: a token says how many ticks are left until it      *)
(* expires, a sleeping task how many until it wakes.  Only the provider    *)
(* and the sleeps take time.                                               *)
(***************************************************************************)
EXTENDS Integers

CONSTANTS
    Calls,                 \* the callers
    NORMAL_REFRESH_SLACK, SHORT_REFRESH_SLACK,
    Lifetimes,             \* of the tokens the provider returns; negative: expired
    Forever                \* the lifetime of a token without an expiration

VARIABLES
    cached,       \* the value in the watch channel
    task,         \* refresh_task: "call", "sleep", "expire" or "ended"
    waiting       \* of each caller: in wait_for_next_token, and its wake-up

vars == <<cached, task, waiting>>

Nothing    == [is |-> "none", left |-> 0]
Token(t)   == [is |-> "token", left |-> t]
Failure(e) == [is |-> e, left |-> 0]
Errors     == {"transient", "permanent"}

\* The steps of refresh_task: waiting for the provider; asleep; waiting for the
\* current token to expire before it publishes an error, then asleep (or gone).
Calling           == [st |-> "call", wake |-> 0, then |-> 0]
Sleep(n)          == [st |-> "sleep", wake |-> n, then |-> 0]
ExpireThen(n, m)  == [st |-> "expire", wake |-> n, then |-> m]
Ended             == [st |-> "ended", wake |-> 0, then |-> 0]
Return            == -1

\* TokenCache::new.
Init ==
    /\ cached = Nothing
    /\ task = Calling
    /\ waiting = [c \in Calls |-> "no"]

\* watch::Sender::send wakes everyone in changed().
Send(v) ==
    /\ cached' = v
    /\ waiting' = [c \in Calls |-> IF waiting[c] = "no" THEN "no" ELSE "woken"]
Silent == UNCHANGED <<cached, waiting>>

\* current_expiration is Some.
Expires == cached.is = "token" /\ cached.left # Forever
Later(n) == IF n < 0 THEN 0 ELSE n

-----------------------------------------------------------------------------
(* refresh_task.                                                           *)

ProviderOk(t) ==
    /\ task.st = "call"
    /\ Send(Token(t))
    /\ \/ t = Forever /\ task' = Ended
       \/ /\ t # Forever /\ t > NORMAL_REFRESH_SLACK
          /\ task' = Sleep(t - NORMAL_REFRESH_SLACK)
       \/ t <= NORMAL_REFRESH_SLACK /\ task' = Sleep(SHORT_REFRESH_SLACK)

\* Mutant: the task returns without publishing the error.
ProviderPermanent_silent ==
    /\ task.st = "call"
    /\ task' = Ended
    /\ Silent

\* A permanent error is published when the current token expires, and ends the
\* task.
ProviderPermanent ==
    /\ task.st = "call"
    /\ IF Expires
         THEN task' = ExpireThen(Later(cached.left), Return) /\ Silent
         ELSE task' = Ended /\ Send(Failure("permanent"))

\* Mutant: the error replaces the token although it is still valid.
ProviderTransient_eager ==
    /\ task.st = "call"
    /\ Send(Failure("transient"))
    /\ task' = Sleep(SHORT_REFRESH_SLACK)

\* Mutant: transient errors are not published at all.
ProviderTransient_silent ==
    /\ task.st = "call"
    /\ task' = Sleep(SHORT_REFRESH_SLACK)
    /\ Silent

\* A transient error is published when there is no valid token, or when the token
\* expires before the next attempt.
ProviderTransient ==
    /\ task.st = "call"
    /\ \/ /\ ~Expires \/ cached.left < 0
          /\ Send(Failure("transient"))
          /\ task' = Sleep(SHORT_REFRESH_SLACK)
       \/ /\ Expires /\ cached.left \in 0..(SHORT_REFRESH_SLACK - 1)
          /\ Silent
          /\ task' = ExpireThen(cached.left, SHORT_REFRESH_SLACK - cached.left)
       \/ /\ Expires /\ cached.left >= SHORT_REFRESH_SLACK
          /\ Silent
          /\ task' = Sleep(SHORT_REFRESH_SLACK)

Expired ==
    /\ task.st = "expire" /\ task.wake = 0
    /\ IF task.then = Return
         THEN Send(Failure("permanent")) /\ task' = Ended
         ELSE Send(Failure("transient")) /\ task' = Sleep(task.then)

Wakes ==
    /\ task.st = "sleep" /\ task.wake = 0
    /\ task' = Calling
    /\ Silent

\* AbortOnDrop, once every clone of the cache and every call is gone.
Abort ==
    /\ task' = Ended
    /\ Silent

Provider == (\E t \in Lifetimes : ProviderOk(t)) \/ ProviderTransient \/ ProviderPermanent
Refresh  == Provider \/ Expired \/ Wakes

-----------------------------------------------------------------------------
(* latest_token_and_entity_tag, as the call c sees it.                     *)

\* The cached value is good enough to return at once.
Usable == cached.is \in Errors \/ (cached.is = "token" /\ cached.left >= 0)

\* wait_for_next_token.
Wait(c) == waiting' = [waiting EXCEPT ![c] = "asleep"] /\ UNCHANGED <<cached, task>>

\* changed() returns: the call takes what is there now, even an expired token.
Woken(c) == waiting[c] = "woken"
Take(c)  == waiting' = [waiting EXCEPT ![c] = "no"] /\ UNCHANGED <<cached, task>>

-----------------------------------------------------------------------------
\* Nothing is due: time may pass.
Quiet ==
    /\ ~(task.st \in {"sleep", "expire"} /\ task.wake = 0)
    /\ \A c \in Calls : ~Woken(c)

\* One tick of the clock; a token stays expired.
Tick ==
    /\ cached' = IF Expires /\ cached.left >= 0
                   THEN [cached EXCEPT !.left = @ - 1] ELSE cached
    /\ task' = [task EXCEPT !.wake = Later(@ - 1)]
    /\ UNCHANGED waiting

-----------------------------------------------------------------------------
(* Properties.                                                             *)

\* wait_for_next_token unwraps changed(), which fails when refresh_task has ended
\* without another send: whoever waits still has a task that will answer.
NoWaiterIsOrphaned == \A c \in Calls : waiting[c] = "asleep" => task.st # "ended"

\* Failed refreshes never take a valid token away: an error replaces a token
\* only once it has expired.
ValidTokenIsKept ==
    [][cached.is = "token" /\ cached.left > 0 => cached'.is = "token"]_vars
=============================================================================
