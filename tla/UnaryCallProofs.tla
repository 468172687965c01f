-------------------------- MODULE UnaryCallProofs --------------------------
(***************************************************************************)
(* Proofs about UnaryCall, for any number of calls and any policies: the   *)
(* limits of the retry loop hold together, requests that are not           *)
(* idempotent are sent once, nobody waits for a refresh task that is gone, *)
(* and a valid token is kept.                                              *)
(***************************************************************************)
EXTENDS UnaryCall, Integers, WellFoundedInduction, TLAPS

\* Induction over the natural numbers with the hypothesis given as a set: one
\* that holds 0 and, with every natural number, the next one, holds them all.
LEMMA NatSetInduction ==
    ASSUME NEW T, 0 \in T, \A n \in Nat : n \in T => n + 1 \in T
    PROVE  Nat \subseteq T
<1> DEFINE R   == {ss \in Nat \X Nat : ss[1] < ss[2]}
           Out == Nat \ T
<1>1. IsWellFoundedOn(R, Nat)
  BY NatLessThanWellFounded DEF OpToRel
<1>2. SUFFICES ASSUME Out # {} PROVE FALSE
  OBVIOUS
<1>3. PICK x \in Out : \A y \in Out : ~(<<y, x>> \in R)
  <2>1. Out \subseteq Nat
    OBVIOUS
  <2> HIDE DEF R, Out
  <2> QED BY <1>1, <1>2, <2>1, WFMin, Zenon
<1>4. x # 0 /\ x - 1 \in Nat
  OBVIOUS
<1>5. <<x - 1, x>> \in R
  BY <1>4
<1> QED BY <1>3, <1>4, <1>5

-----------------------------------------------------------------------------
(* The inductive invariant.                                                *)

CacheTypes ==
    /\ cached \in [is : {"none", "token"} \cup Cache!Errors, left : Int]
    /\ task \in [st : {"call", "sleep", "expire", "ended"}, wake : Nat, then : {-1} \cup Nat]
    /\ waiting \in [Calls -> {"no", "asleep", "woken"}]

LoopTypes ==
    /\ pc \in [Calls -> {"idle", "attempt", "sleep", "ok", "err"}]
    /\ elapsed \in [Calls -> Nat]
    /\ attempts \in [Calls -> Nat]
    /\ remaining \in [Calls -> Nat]
    /\ wake \in [Calls -> Nat]
    /\ started \in [Calls -> Nat]

RpcTypes ==
    /\ cur_tokens \in Nat
    /\ stage \in [Calls -> {"no", "headers", "token", "rpc"}]
    /\ timeout \in [Calls -> Nat]
    /\ dropped \in BOOLEAN
    /\ reached \in [Calls -> Nat]

Types == CacheTypes /\ LoopTypes /\ RpcTypes

\* An attempt is in progress while the loop awaits inner, and a call that waits
\* for a token is in its attempt; a dropped client has no calls.
Staged ==
    \A c \in Calls :
      /\ stage[c] # "no" => pc[c] = "attempt"
      /\ waiting[c] # "no" => stage[c] = "token"
      /\ dropped => pc[c] \notin {"attempt", "sleep"}

\* refresh_task ends only with an answer that stays good, or with the client.
EndedWithAnswer ==
    task.st = "ended" =>
        \/ cached.is = "permanent"
        \/ cached.is = "token" /\ cached.left = Forever
        \/ dropped

\* While the task lives the cached token has an expiration, and a task that waits
\* for it does not wake before.
TokenExpires ==
    /\ cached.is = "token" => cached.left <= Forever
    /\ task.st # "ended" => ~(cached.is = "token" /\ cached.left = Forever)
    /\ task.st = "expire" /\ cached.is = "token" => cached.left <= task.wake

\* A request that is not idempotent has not reached the service while its call is
\* in the loop.
UnsafeNotYetSent ==
    \A c \in Calls : ~Idempotent(c) =>
      /\ reached[c] <= 1
      /\ pc[c] \in {"attempt", "sleep"} => reached[c] = 0

\* A call that sleeps wakes within the time limit and may make another attempt;
\* what it was given exceeds the limit by the delay it sleeps.
LimitsOf(c) ==
    /\ pc[c] \notin {"attempt", "sleep"} =>
          elapsed[c] = 0 /\ started[c] = 0 /\ attempts[c] = 0 /\ wake[c] = 0
    /\ pc[c] = "sleep" =>
          /\ attempts[c] >= 1 /\ attempts[c] < AttemptLimit
          /\ elapsed[c] + wake[c] <= TimeLimit
          /\ elapsed[c] + wake[c] + remaining[c] <= TimeLimit + Retry!delay(attempts[c])
    /\ pc[c] = "attempt" =>
          /\ attempts[c] >= 1
          /\ started[c] + remaining[c] <= TimeLimit
               + (IF attempts[c] = 1 THEN 0 ELSE Retry!delay(attempts[c] - 1))
    /\ attempts[c] <= IF AttemptLimit = 0 THEN 1 ELSE AttemptLimit
    /\ started[c] <= TimeLimit
Limits == \A c \in Calls : LimitsOf(c)

IInv ==
    /\ Types /\ Staged
    /\ NoWaiterIsOrphaned /\ EndedWithAnswer /\ TokenExpires
    /\ UnsafeNotYetSent /\ Limits

-----------------------------------------------------------------------------
(* The backoff.                                                            *)

IsPower(n, f) == f = [i \in 0..n |-> IF i = 0 THEN 1 ELSE 2 * f[i - 1]]

\* The recursion that defines powi has a solution for every number of attempts.
LEMMA PowerExists == \A n \in Nat : \E f : IsPower(n, f)
  <1> DEFINE T == {n \in Nat : \E f : IsPower(n, f)}
  <1>1. 0 \in T
    <2>1. IsPower(0, [i \in 0..0 |-> 1])
      BY DEF IsPower
    <2> QED
      BY <2>1
  <1>2. ASSUME NEW n \in Nat, n \in T PROVE n + 1 \in T
    <2>1. PICK f : IsPower(n, f)
      BY <1>2
    <2> DEFINE g == [i \in 0..(n + 1) |-> IF i = n + 1 THEN 2 * f[n] ELSE f[i]]
    <2>2. ASSUME NEW i \in 0..(n + 1)
          PROVE  g[i] = IF i = 0 THEN 1 ELSE 2 * g[i - 1]
      BY <2>1 DEF IsPower
    <2>3. IsPower(n + 1, g)
      BY <2>2 DEF IsPower
    <2> QED
      BY <2>3
  <1> HIDE DEF T
  <1>3. Nat \subseteq T
    BY <1>1, <1>2, NatSetInduction
  <1> QED
    BY <1>3 DEF T

\* A power of two is a natural number.
LEMMA PowiType == \A n \in Nat : Retry!powi(n) \in Nat
  <1> SUFFICES ASSUME NEW n \in Nat PROVE Retry!powi(n) \in Nat
    OBVIOUS
  <1> DEFINE f == CHOOSE f : IsPower(n, f)
  <1>1. IsPower(n, f)
    BY PowerExists
  <1>2. Retry!powi(n) = f[n]
    BY DEF Retry!powi, IsPower
  <1> HIDE DEF f
  <1> DEFINE T == {i \in Nat : i <= n => f[i] \in Nat}
  <1>3. 0 \in T
    BY <1>1 DEF IsPower
  <1>4. ASSUME NEW i \in Nat, i \in T PROVE i + 1 \in T
    <2>1. SUFFICES ASSUME i + 1 <= n PROVE f[i + 1] \in Nat
      OBVIOUS
    <2>2. f[i] \in Nat
      BY <1>4, <2>1
    <2>3. f[i + 1] = 2 * f[i]
      BY <1>1, <2>1 DEF IsPower
    <2> QED
      BY <2>2, <2>3
  <1> HIDE DEF T
  <1>5. Nat \subseteq T
    BY <1>3, <1>4, NatSetInduction
  <1> QED
    BY <1>2, <1>5 DEF T

\* The backoff is a number of ticks.
LEMMA DelayType == \A n \in Nat : Retry!delay(n) \in Nat
  <1> SUFFICES ASSUME NEW n \in Nat PROVE Retry!delay(n) \in Nat
    OBVIOUS
  <1>1. Retry!Minus(n, 1) \in Nat
    BY DEF Retry!Minus
  <1>2. Retry!powi(Retry!Minus(n, 1)) \in Nat
    BY <1>1, PowiType
  <1>3. initial_delay * Retry!powi(Retry!Minus(n, 1)) \in Nat
    BY <1>2, PolicyAssumption
  <1> QED
    BY <1>3, PolicyAssumption DEF Retry!delay, Retry!Least

-----------------------------------------------------------------------------
(* The steps of the retry loop.                                            *)

\* A call that returns leaves nothing behind that a limit speaks of.
LEMMA EndsLimits ==
    ASSUME LoopTypes, Limits, NEW c \in Calls, NEW how \in {"ok", "err"},
           Retry!Ends(c, how)
    PROVE  /\ pc' = [pc EXCEPT ![c] = how]
           /\ LoopTypes' /\ Limits'
  <1>1. pc' = [pc EXCEPT ![c] = how] /\ LoopTypes'
    BY DEF LoopTypes, Retry!Ends
  <1>2. ASSUME NEW d \in Calls PROVE LimitsOf(d)'
    <2>1. LimitsOf(d)
      BY DEF Limits
    <2>2. CASE d = c
      BY <2>2, PolicyAssumption DEF LimitsOf, Retry!Ends, LoopTypes
    <2>3. CASE d # c
      <3>1. /\ pc'[d] = pc[d] /\ elapsed'[d] = elapsed[d] /\ attempts'[d] = attempts[d]
            /\ remaining'[d] = remaining[d] /\ wake'[d] = wake[d]
            /\ started'[d] = started[d]
        BY <2>3 DEF Retry!Ends, LoopTypes
      <3> QED
        BY <2>1, <3>1 DEF LimitsOf
    <2> QED
      BY <2>2, <2>3
  <1> QED
    BY <1>1, <1>2 DEF Limits

\* The end of an iteration: with attempts and time left, the sleep that follows
\* ends within the time limit.
LEMMA BackoffLimits ==
    ASSUME LoopTypes, Limits, NEW c \in Calls, pc[c] \in {"attempt", "sleep"},
           ~Retry!Exhausted(c), Retry!Backoff(c)
    PROVE  /\ \E p \in {"err", "sleep"} : pc' = [pc EXCEPT ![c] = p]
           /\ LoopTypes' /\ Limits'
  <1>1. PICK d \in 1..Retry!delay(attempts[c]) :
           \/ Retry!remaining_time(c) < d /\ Retry!Ends(c, "err")
           \/ /\ Retry!remaining_time(c) >= d
              /\ pc' = [pc EXCEPT ![c] = "sleep"]
              /\ wake' = [wake EXCEPT ![c] = d]
              /\ remaining' = [remaining EXCEPT ![c] = Retry!remaining_time(c)]
              /\ UNCHANGED <<elapsed, attempts, started>>
    BY DEF Retry!Backoff
  <1>2. CASE Retry!Ends(c, "err")
    BY <1>2, EndsLimits
  <1>3. CASE /\ Retry!remaining_time(c) >= d
             /\ pc' = [pc EXCEPT ![c] = "sleep"]
             /\ wake' = [wake EXCEPT ![c] = d]
             /\ remaining' = [remaining EXCEPT ![c] = Retry!remaining_time(c)]
             /\ UNCHANGED <<elapsed, attempts, started>>
    <2>1. /\ attempts[c] \in Nat /\ elapsed[c] \in Nat
          /\ Retry!delay(attempts[c]) \in Nat
      BY DelayType DEF LoopTypes
    <2>2. d \in Nat /\ d >= 1 /\ d <= Retry!delay(attempts[c])
      BY <2>1
    <2>3. elapsed[c] < TimeLimit /\ attempts[c] < AttemptLimit
      BY <2>1, PolicyAssumption DEF Retry!Exhausted
    <2>4. Retry!remaining_time(c) = TimeLimit - elapsed[c]
      BY <2>1, <2>3, PolicyAssumption DEF Retry!remaining_time, Retry!Minus
    <2>5. Retry!remaining_time(c) \in Nat
      BY <2>1, <2>3, <2>4, PolicyAssumption
    <2>6. LoopTypes'
      BY <1>3, <2>2, <2>5 DEF LoopTypes
    <2>7. ASSUME NEW e \in Calls PROVE LimitsOf(e)'
      <3>1. LimitsOf(e)
        BY DEF Limits
      <3>2. CASE e = c
        <4>1. /\ pc'[c] = "sleep" /\ wake'[c] = d
              /\ remaining'[c] = TimeLimit - elapsed[c]
              /\ elapsed'[c] = elapsed[c] /\ attempts'[c] = attempts[c]
              /\ started'[c] = started[c]
          BY <1>3, <2>4 DEF LoopTypes
        <4>2. attempts[c] >= 1 /\ started[c] <= TimeLimit
          BY <3>1, <3>2 DEF LimitsOf
        <4>3. elapsed[c] + d <= TimeLimit
          BY <1>3, <2>1, <2>2, <2>4, PolicyAssumption
        <4>4. elapsed[c] + d + (TimeLimit - elapsed[c])
                 <= TimeLimit + Retry!delay(attempts[c])
          BY <2>1, <2>2, PolicyAssumption
        <4> QED
          BY <2>1, <2>3, <3>1, <3>2, <4>1, <4>2, <4>3, <4>4, PolicyAssumption DEF LimitsOf
      <3>3. CASE e # c
        <4>1. /\ pc'[e] = pc[e] /\ elapsed'[e] = elapsed[e] /\ attempts'[e] = attempts[e]
              /\ remaining'[e] = remaining[e] /\ wake'[e] = wake[e]
              /\ started'[e] = started[e]
          BY <1>3, <3>3 DEF LoopTypes
        <4> QED
          BY <3>1, <4>1 DEF LimitsOf
      <3> QED
        BY <3>2, <3>3
    <2> QED
      BY <1>3, <2>6, <2>7 DEF Limits
  <1> QED
    BY <1>1, <1>2, <1>3

\* The throttler's tokens stay a natural number.
LEMMA TokensType ==
    ASSUME cur_tokens \in Nat,
           Retry!on_success \/ \E flow : Retry!on_retry_failure(flow)
    PROVE  cur_tokens' \in Nat
  BY PolicyAssumption
     DEF Retry!on_success, Retry!on_retry_failure, Retry!Least, Retry!Minus

\* An attempt fails: the call sleeps, or it returns; after an error that is not
\* to be retried it returns.
LEMMA FailsLimits ==
    ASSUME LoopTypes, Limits, cur_tokens \in Nat, NEW c \in Calls, NEW e,
           Retry!Fails(c, e)
    PROVE  /\ \E p \in {"err", "sleep"} :
                /\ pc' = [pc EXCEPT ![c] = p]
                /\ Retry!on_error(c, e) # "continue" => p = "err"
           /\ LoopTypes' /\ Limits' /\ cur_tokens' \in Nat
  <1>1. cur_tokens' \in Nat
    BY TokensType DEF Retry!Fails
  <1>2. CASE Retry!on_error(c, e) # "continue"
    BY <1>1, <1>2, EndsLimits DEF Retry!Fails
  <1>3. CASE Retry!on_error(c, e) = "continue"
    <2>1. ~Retry!Exhausted(c)
      BY <1>3 DEF Retry!on_error
    <2>2. pc[c] = "attempt" /\ Retry!Backoff(c)
      BY <1>3 DEF Retry!Fails
    <2> QED
      BY <1>1, <1>3, <2>1, <2>2, BackoffLimits
  <1> QED
    BY <1>2, <1>3

-----------------------------------------------------------------------------
(* Every step keeps the invariant.                                         *)

LEMMA InitIInv == Init => IInv
  <1> SUFFICES ASSUME Init PROVE IInv
    OBVIOUS
  <1> USE DEF Init, Cache!Init, Retry!Init
  <1>1. Types
    <2>1. CacheTypes
      BY DEF CacheTypes, Cache!Nothing, Cache!Calling, Cache!Errors
    <2>2. LoopTypes
      BY DEF LoopTypes
    <2>3. RpcTypes
      BY PolicyAssumption DEF RpcTypes
    <2> QED
      BY <2>1, <2>2, <2>3 DEF Types
  <1>2. Staged /\ UnsafeNotYetSent
    BY DEF Staged, UnsafeNotYetSent
  <1>3. NoWaiterIsOrphaned /\ EndedWithAnswer /\ TokenExpires
    BY DEF NoWaiterIsOrphaned, Cache!NoWaiterIsOrphaned, EndedWithAnswer, TokenExpires,
           Cache!Nothing, Cache!Calling
  <1>4. ASSUME NEW c \in Calls PROVE LimitsOf(c)
    <2>1. pc[c] = "idle" /\ attempts[c] = 0 /\ started[c] = 0 /\ elapsed[c] = 0 /\ wake[c] = 0
      OBVIOUS
    <2> QED
      BY <2>1, PolicyAssumption DEF LimitsOf
  <1> QED
    BY <1>1, <1>2, <1>3, <1>4 DEF IInv, Limits

\* What the conjuncts about the cache need of a step that leaves the cache alone.
LEMMA CacheKept ==
    ASSUME IInv, UNCHANGED <<cached, task, dropped>>,
           \A c \in Calls : waiting'[c] \in {waiting[c], "no"}
    PROVE  NoWaiterIsOrphaned' /\ EndedWithAnswer' /\ TokenExpires'
  BY DEF IInv, NoWaiterIsOrphaned, Cache!NoWaiterIsOrphaned, EndedWithAnswer, TokenExpires

LEMMA CallStep == ASSUME IInv, NEW c \in Calls, Call(c) PROVE IInv'
  <1> USE DEF IInv, Types
  <1>1. Types'
    BY PolicyAssumption DEF CacheTypes, LoopTypes, RpcTypes, Call, Retry!Call, cache,
       Retry!remaining_time, Retry!Minus
  <1>2. Staged'
    BY DEF Staged, CacheTypes, LoopTypes, RpcTypes, Call, Retry!Call, cache
  <1>3. NoWaiterIsOrphaned' /\ EndedWithAnswer' /\ TokenExpires'
    BY CacheKept DEF Call, cache
  <1>4. UnsafeNotYetSent'
    BY DEF UnsafeNotYetSent, LoopTypes, RpcTypes, Call, Retry!Call
  <1>5. ASSUME NEW d \in Calls PROVE LimitsOf(d)'
    <2>1. LimitsOf(d)
      BY DEF Limits
    <2>2. CASE d = c
      <3>1. /\ pc'[c] = "attempt" /\ attempts'[c] = 1 /\ elapsed'[c] = elapsed[c]
            /\ remaining'[c] = Retry!remaining_time(c) /\ started'[c] = started[c]
        BY DEF LoopTypes, Call, Retry!Call
      <3>2. elapsed[c] = 0 /\ started[c] = 0
        BY <2>1, <2>2 DEF LimitsOf, Call, Retry!Call
      <3>3. Retry!remaining_time(c) = TimeLimit
        BY <3>2, PolicyAssumption DEF Retry!remaining_time, Retry!Minus
      <3> QED
        BY <2>2, <3>1, <3>2, <3>3, PolicyAssumption DEF LimitsOf
    <2>3. CASE d # c
      <3>1. /\ pc'[d] = pc[d] /\ elapsed'[d] = elapsed[d] /\ attempts'[d] = attempts[d]
            /\ remaining'[d] = remaining[d] /\ wake'[d] = wake[d]
            /\ started'[d] = started[d]
        BY <2>3 DEF LoopTypes, Call, Retry!Call
      <3> QED
        BY <2>1, <3>1 DEF LimitsOf
    <2> QED
      BY <2>2, <2>3
  <1> QED
    BY <1>1, <1>2, <1>3, <1>4, <1>5 DEF Limits

LEMMA RetriesStep == ASSUME IInv, NEW c \in Calls, Retries(c) PROVE IInv'
  <1> USE DEF IInv, Types
  <1>1. Types'
    BY DEF CacheTypes, LoopTypes, RpcTypes, Retries, Retry!Retries, cache
  <1>2. Staged'
    BY DEF Staged, CacheTypes, LoopTypes, RpcTypes, Retries, Retry!Retries, cache
  <1>3. NoWaiterIsOrphaned' /\ EndedWithAnswer' /\ TokenExpires'
    BY CacheKept DEF Retries, cache
  <1>4. UnsafeNotYetSent'
    BY DEF UnsafeNotYetSent, LoopTypes, RpcTypes, Retries, Retry!Retries
  <1>5. ASSUME NEW d \in Calls PROVE LimitsOf(d)'
    <2>1. LimitsOf(d)
      BY DEF Limits
    <2>2. CASE d = c
      <3>1. /\ pc[c] = "sleep" /\ wake[c] = 0
            /\ pc'[c] = "attempt" /\ attempts'[c] = attempts[c] + 1
            /\ elapsed'[c] = elapsed[c] /\ remaining'[c] = remaining[c]
            /\ started'[c] = elapsed[c]
        BY DEF LoopTypes, Retries, Retry!Retries
      <3>2. /\ attempts[c] \in Nat /\ elapsed[c] \in Nat /\ remaining[c] \in Nat
            /\ attempts[c] >= 1 /\ attempts[c] < AttemptLimit
            /\ elapsed[c] <= TimeLimit
            /\ elapsed[c] + remaining[c] <= TimeLimit + Retry!delay(attempts[c])
        BY <2>1, <2>2, <3>1 DEF LimitsOf, LoopTypes
      <3>3. attempts[c] + 1 - 1 = attempts[c] /\ attempts[c] + 1 # 1
        BY <3>2
      <3> QED
        BY <2>2, <3>1, <3>2, <3>3, PolicyAssumption DEF LimitsOf
    <2>3. CASE d # c
      <3>1. /\ pc'[d] = pc[d] /\ elapsed'[d] = elapsed[d] /\ attempts'[d] = attempts[d]
            /\ remaining'[d] = remaining[d] /\ wake'[d] = wake[d]
            /\ started'[d] = started[d]
        BY <2>3 DEF LoopTypes, Retries, Retry!Retries
      <3> QED
        BY <2>1, <3>1 DEF LimitsOf
    <2> QED
      BY <2>2, <2>3
  <1> QED
    BY <1>1, <1>2, <1>3, <1>4, <1>5 DEF Limits

LEMMA ThrottledStep == ASSUME IInv, NEW c \in Calls, Throttled(c) PROVE IInv'
  <1> USE DEF IInv, Types
  <1>1. /\ pc[c] = "sleep" /\ UNCHANGED <<cache, rpc, cur_tokens>>
        /\ Retry!Exhausted(c) => Retry!Ends(c, "err")
        /\ ~Retry!Exhausted(c) => Retry!Backoff(c)
    BY DEF Throttled, Retry!Throttled
  <1>2. /\ \E p \in {"err", "sleep"} : pc' = [pc EXCEPT ![c] = p]
        /\ LoopTypes' /\ Limits'
    BY <1>1, EndsLimits, BackoffLimits
  <1>3. Types'
    BY <1>1, <1>2 DEF CacheTypes, RpcTypes, cache, rpc
  <1>4. Staged'
    BY <1>1, <1>2 DEF Staged, LoopTypes, cache, rpc
  <1>5. NoWaiterIsOrphaned' /\ EndedWithAnswer' /\ TokenExpires'
    BY <1>1, CacheKept DEF cache, rpc
  <1>6. UnsafeNotYetSent'
    BY <1>1, <1>2 DEF UnsafeNotYetSent, LoopTypes, rpc
  <1> QED
    BY <1>2, <1>3, <1>4, <1>5, <1>6

\* An attempt ends, before the RPC or with it, and the call fails.
LEMMA FailStep ==
    ASSUME IInv, NEW c \in Calls, NEW e, Retry!Fails(c, e),
           UNCHANGED <<cached, task, dropped>>,
           stage' = [stage EXCEPT ![c] = "no"],
           waiting' = [waiting EXCEPT ![c] = "no"],
           timeout' \in [Calls -> Nat],
           \/ UNCHANGED reached
           \/ /\ e \notin Retry!BeforeRpc
              /\ \/ Idempotent(c) /\ UNCHANGED reached
                 \/ ~Idempotent(c) /\ reached' = [reached EXCEPT ![c] = @ + 1]
    PROVE  IInv'
  <1> USE DEF IInv, Types
  <1>1. PICK p \in {"err", "sleep"} :
           /\ pc' = [pc EXCEPT ![c] = p]
           /\ Retry!on_error(c, e) # "continue" => p = "err"
    BY FailsLimits DEF RpcTypes
  <1>2. LoopTypes' /\ Limits' /\ cur_tokens' \in Nat
    BY FailsLimits DEF RpcTypes
  <1>3. Types'
    <2>1. CacheTypes'
      BY DEF CacheTypes
    <2>2. stage' \in [Calls -> {"no", "headers", "token", "rpc"}] /\ dropped' \in BOOLEAN
      BY DEF RpcTypes
    <2>3. reached' \in [Calls -> Nat]
      BY DEF RpcTypes
    <2> QED
      BY <1>2, <2>1, <2>2, <2>3 DEF RpcTypes
  <1>4. Staged'
    <2>1. ASSUME NEW d \in Calls
          PROVE  /\ stage'[d] = IF d = c THEN "no" ELSE stage[d]
                 /\ waiting'[d] = IF d = c THEN "no" ELSE waiting[d]
                 /\ pc'[d] = IF d = c THEN p ELSE pc[d]
      BY <1>1 DEF LoopTypes, CacheTypes, RpcTypes
    <2>2. pc[c] = "attempt" /\ dropped' = dropped
      BY DEF Retry!Fails
    <2> QED
      BY <2>1, <2>2 DEF Staged
  <1>5. NoWaiterIsOrphaned' /\ EndedWithAnswer' /\ TokenExpires'
    BY CacheKept DEF CacheTypes
  <1>6. pc[c] = "attempt"
    BY DEF Retry!Fails
  <1>7. UnsafeNotYetSent'
    <2>1. CASE UNCHANGED reached
      BY <1>1, <1>6, <2>1 DEF UnsafeNotYetSent, LoopTypes
    <2>2. CASE /\ e \notin Retry!BeforeRpc /\ ~Idempotent(c)
               /\ reached' = [reached EXCEPT ![c] = @ + 1]
      <3>1. p = "err"
        BY <1>1, <2>2 DEF Retry!on_error
      <3> QED
        BY <1>1, <1>6, <2>2, <3>1 DEF UnsafeNotYetSent, LoopTypes, RpcTypes
    <2> QED
      BY <2>1, <2>2
  <1> QED
    BY <1>2, <1>3, <1>4, <1>5, <1>7

\* The credentials answered, from the cache or after a wait that is over.
LEMMA CredentialsStep ==
    ASSUME IInv, NEW c \in Calls, Credentials(c), stage[c] # "no",
           UNCHANGED <<cached, task, dropped, reached>>,
           waiting' = [waiting EXCEPT ![c] = "no"]
    PROVE  IInv'
  <1> USE DEF IInv, Types
  <1>1. CASE /\ stage' = [stage EXCEPT ![c] = "rpc"]
             /\ timeout' = [timeout EXCEPT ![c] = Retry!Least(AttemptTimeout, remaining[c])]
             /\ UNCHANGED loop
    <2>1. Types'
      <3>1. Retry!Least(AttemptTimeout, remaining[c]) \in Nat
        BY PolicyAssumption DEF Retry!Least, LoopTypes
      <3>2. CacheTypes' /\ LoopTypes'
        BY <1>1 DEF CacheTypes, LoopTypes, loop
      <3>3. RpcTypes'
        BY <1>1, <3>1 DEF RpcTypes, loop
      <3> QED
        BY <3>2, <3>3
    <2>2. Staged'
      <3>1. ASSUME NEW d \in Calls
            PROVE  /\ stage'[d] = IF d = c THEN "rpc" ELSE stage[d]
                   /\ waiting'[d] = IF d = c THEN "no" ELSE waiting[d]
                   /\ pc'[d] = pc[d]
        BY <1>1 DEF CacheTypes, RpcTypes, loop
      <3> QED
        BY <3>1 DEF Staged
    <2>3. NoWaiterIsOrphaned' /\ EndedWithAnswer' /\ TokenExpires'
      BY CacheKept DEF CacheTypes
    <2>4. UnsafeNotYetSent'
      BY <1>1 DEF UnsafeNotYetSent, loop
    <2>5. Limits'
      BY <1>1 DEF Limits, LimitsOf, loop
    <2> QED
      BY <2>1, <2>2, <2>3, <2>4, <2>5
  <1>2. CASE /\ Retry!Fails(c, IF cached.is = "transient" THEN "auth" ELSE "unauthenticated")
             /\ stage' = [stage EXCEPT ![c] = "no"]
             /\ UNCHANGED timeout
    BY <1>2, FailStep DEF RpcTypes
  <1> QED
    BY <1>1, <1>2 DEF Credentials

LEMMA HeadersStep == ASSUME IInv, NEW c \in Calls, Headers(c) PROVE IInv'
  <1> USE DEF IInv, Types
  <1>1. stage[c] = "headers" /\ UNCHANGED <<reached, dropped>>
    BY DEF Headers
  <1>2. CASE Credentials(c) /\ UNCHANGED cache
    <2>1. waiting[c] = "no"
      BY <1>1 DEF Staged
    <2>2. waiting' = [waiting EXCEPT ![c] = "no"] /\ UNCHANGED <<cached, task>>
      BY <1>2, <2>1 DEF CacheTypes, cache
    <2> QED
      BY <1>1, <1>2, <2>2, CredentialsStep
  <1>3. CASE /\ ~Cache!Usable /\ Cache!Wait(c)
             /\ stage' = [stage EXCEPT ![c] = "token"]
             /\ UNCHANGED <<timeout, loop>>
    <2>1. /\ waiting' = [waiting EXCEPT ![c] = "asleep"] /\ UNCHANGED <<cached, task>>
          /\ UNCHANGED <<pc, elapsed, attempts, remaining, wake, started, cur_tokens>>
      BY <1>3 DEF Cache!Wait, loop
    <2>2. Types'
      BY <1>1, <1>3, <2>1 DEF CacheTypes, LoopTypes, RpcTypes
    <2>3. Staged'
      <3>1. ASSUME NEW d \in Calls
            PROVE  /\ stage'[d] = IF d = c THEN "token" ELSE stage[d]
                   /\ waiting'[d] = IF d = c THEN "asleep" ELSE waiting[d]
                   /\ pc'[d] = pc[d]
        BY <1>3, <2>1 DEF CacheTypes, RpcTypes
      <3> QED
        BY <1>1, <3>1 DEF Staged
    <2>4. pc[c] = "attempt" /\ ~dropped
      BY <1>1 DEF Staged
    <2>5. task.st # "ended"
      BY <1>3, <2>4, TokenAssumption DEF EndedWithAnswer, Cache!Usable, Cache!Errors
    <2>6. NoWaiterIsOrphaned'
      BY <2>1, <2>5 DEF NoWaiterIsOrphaned, Cache!NoWaiterIsOrphaned
    <2>7. EndedWithAnswer' /\ TokenExpires'
      BY <1>1, <2>1 DEF EndedWithAnswer, TokenExpires
    <2>8. UnsafeNotYetSent'
      BY <1>1, <2>1 DEF UnsafeNotYetSent
    <2>9. Limits'
      BY <2>1 DEF Limits, LimitsOf
    <2> QED
      BY <2>2, <2>3, <2>6, <2>7, <2>8, <2>9
  <1> QED
    BY <1>2, <1>3 DEF Headers

LEMMA TokenArrivesStep == ASSUME IInv, NEW c \in Calls, TokenArrives(c) PROVE IInv'
  BY CredentialsStep DEF TokenArrives, Cache!Take

LEMMA RpcEndsStep ==
    ASSUME IInv, NEW c \in Calls, NEW how \in Outcomes \cup {"timeout"}, RpcEnds(c, how)
    PROVE  IInv'
  <1> USE DEF IInv, Types
  <1>1. /\ stage[c] = "rpc"
        /\ stage' = [stage EXCEPT ![c] = "no"]
        /\ timeout' = [timeout EXCEPT ![c] = 0]
        /\ reached' = [reached EXCEPT ![c] =
                          IF how = "connect" \/ Idempotent(c) THEN @ ELSE @ + 1]
        /\ UNCHANGED <<cached, task, waiting, dropped>>
    BY DEF RpcEnds, cache
  <1>2. waiting[c] = "no" /\ pc[c] = "attempt"
    BY <1>1 DEF Staged
  <1>3. waiting' = [waiting EXCEPT ![c] = "no"]
    BY <1>1, <1>2 DEF CacheTypes
  <1>4. timeout' \in [Calls -> Nat]
    BY <1>1 DEF RpcTypes
  <1>5. CASE how = "ok"
    <2>1. Retry!Ends(c, "ok") /\ Retry!on_success
      BY <1>5 DEF RpcEnds, Retry!Succeeds
    <2>2. pc' = [pc EXCEPT ![c] = "ok"] /\ LoopTypes' /\ Limits'
      BY <2>1, EndsLimits
    <2>3. cur_tokens' \in Nat
      BY <2>1, TokensType DEF RpcTypes
    <2>4. Types'
      <3>1. CacheTypes'
        BY <1>1 DEF CacheTypes
      <3>2. RpcTypes'
        BY <1>1, <1>4, <2>3 DEF RpcTypes
      <3> QED
        BY <2>2, <3>1, <3>2
    <2>5. Staged'
      <3>1. ASSUME NEW d \in Calls
            PROVE  /\ stage'[d] = IF d = c THEN "no" ELSE stage[d]
                   /\ waiting'[d] = waiting[d]
                   /\ pc'[d] = IF d = c THEN "ok" ELSE pc[d]
        BY <1>1, <2>2 DEF LoopTypes, RpcTypes
      <3> QED
        BY <1>1, <1>2, <3>1 DEF Staged
    <2>6. NoWaiterIsOrphaned' /\ EndedWithAnswer' /\ TokenExpires'
      BY <1>1, CacheKept
    <2>7. UnsafeNotYetSent'
      BY <1>1, <1>2, <2>2 DEF UnsafeNotYetSent, LoopTypes, RpcTypes
    <2> QED
      BY <2>2, <2>4, <2>5, <2>6, <2>7
  <1>6. CASE how # "ok"
    <2>1. Retry!Fails(c, how)
      BY <1>6 DEF RpcEnds
    <2>2. CASE how = "connect" \/ Idempotent(c)
      <3>1. UNCHANGED reached
        BY <1>1, <2>2 DEF RpcTypes
      <3> QED
        BY <1>1, <1>3, <1>4, <2>1, <3>1, FailStep
    <2>3. CASE how # "connect" /\ ~Idempotent(c)
      <3>1. how \notin Retry!BeforeRpc
        BY <2>3 DEF Retry!BeforeRpc, Outcomes
      <3>2. reached' = [reached EXCEPT ![c] = @ + 1]
        BY <1>1, <2>3
      <3> QED
        BY <1>1, <1>3, <1>4, <2>1, <2>3, <3>1, <3>2, FailStep
    <2> QED
      BY <2>2, <2>3
  <1> QED
    BY <1>5, <1>6

-----------------------------------------------------------------------------
(* The refresh task and the clock.                                         *)

\* What a step of refresh_task has to show: it concerns the cache alone.
CacheInv == CacheTypes /\ NoWaiterIsOrphaned /\ EndedWithAnswer /\ TokenExpires
WaitersKept == \A c \in Calls : (waiting'[c] = "no") <=> (waiting[c] = "no")

LEMMA SendWakes ==
    ASSUME CacheTypes, NEW v, Cache!Send(v)
    PROVE  /\ cached' = v
           /\ waiting' \in [Calls -> {"no", "asleep", "woken"}]
           /\ \A c \in Calls : waiting'[c] # "asleep"
           /\ WaitersKept
  BY DEF CacheTypes, Cache!Send, WaitersKept

LEMMA SilentKeeps ==
    ASSUME CacheTypes, Cache!Silent
    PROVE  UNCHANGED <<cached, waiting>> /\ WaitersKept
  BY DEF Cache!Silent, WaitersKept

LEMMA ProviderOkKeeps ==
    ASSUME CacheInv, UNCHANGED dropped, NEW t \in Lifetimes, Cache!ProviderOk(t)
    PROVE  CacheInv' /\ WaitersKept
  <1> USE DEF CacheInv
  <1>1. t \in Int /\ t <= Forever
    BY TokenAssumption
  <1>2. cached' = Cache!Token(t) /\ Cache!Send(Cache!Token(t))
    BY DEF Cache!ProviderOk, Cache!Send
  <1>3. \/ t = Forever /\ task' = Cache!Ended
        \/ t # Forever /\ \E n \in Nat : task' = Cache!Sleep(n)
    <2>1. CASE t = Forever /\ task' = Cache!Ended
      BY <2>1
    <2>2. CASE t # Forever /\ t > NORMAL_REFRESH_SLACK /\ task' = Cache!Sleep(t - NORMAL_REFRESH_SLACK)
      BY <1>1, <2>2, TokenAssumption
    <2>3. CASE t <= NORMAL_REFRESH_SLACK /\ task' = Cache!Sleep(SHORT_REFRESH_SLACK)
      BY <1>1, <2>3, TokenAssumption
    <2> QED
      BY <2>1, <2>2, <2>3 DEF Cache!ProviderOk
  <1>4. CacheTypes'
    BY <1>1, <1>2, <1>3, SendWakes
       DEF CacheTypes, Cache!Token, Cache!Ended, Cache!Sleep
  <1>5. NoWaiterIsOrphaned'
    BY <1>2, SendWakes DEF NoWaiterIsOrphaned, Cache!NoWaiterIsOrphaned
  <1>6. EndedWithAnswer' /\ TokenExpires'
    BY <1>1, <1>2, <1>3 DEF EndedWithAnswer, TokenExpires, Cache!Token, Cache!Ended, Cache!Sleep
  <1> QED
    BY <1>2, <1>4, <1>5, <1>6, SendWakes

\* A failure is published: everyone who waits is woken.
LEMMA FailureKeeps ==
    ASSUME CacheInv, UNCHANGED dropped, NEW e \in Cache!Errors,
           Cache!Send(Cache!Failure(e)),
           \/ e = "permanent" /\ task' = Cache!Ended
           \/ \E n \in Nat : task' = Cache!Sleep(n)
    PROVE  CacheInv' /\ WaitersKept
  <1> USE DEF CacheInv
  <1>1. CacheTypes'
    BY SendWakes DEF CacheTypes, Cache!Failure, Cache!Ended, Cache!Sleep
  <1>2. NoWaiterIsOrphaned'
    BY SendWakes DEF NoWaiterIsOrphaned, Cache!NoWaiterIsOrphaned
  <1>3. EndedWithAnswer' /\ TokenExpires'
    BY SendWakes
       DEF EndedWithAnswer, TokenExpires, Cache!Failure, Cache!Ended, Cache!Sleep, Cache!Errors
  <1> QED
    BY <1>1, <1>2, <1>3, SendWakes

\* Nothing is published, and the task lives on.
LEMMA SilentStep ==
    ASSUME CacheInv, UNCHANGED dropped, Cache!Silent, task.st # "ended",
           task' \in [st : {"call", "sleep", "expire"}, wake : Nat, then : {-1} \cup Nat],
           task'.st = "expire" /\ cached.is = "token" => cached.left <= task'.wake
    PROVE  CacheInv' /\ WaitersKept
  <1> USE DEF CacheInv
  <1>1. CacheTypes'
    BY SilentKeeps DEF CacheTypes
  <1>2. NoWaiterIsOrphaned'
    BY SilentKeeps DEF NoWaiterIsOrphaned, Cache!NoWaiterIsOrphaned
  <1>3. EndedWithAnswer' /\ TokenExpires'
    BY SilentKeeps DEF EndedWithAnswer, TokenExpires
  <1> QED
    BY <1>1, <1>2, <1>3, SilentKeeps

LEMMA ProviderFailsKeeps ==
    ASSUME CacheInv, UNCHANGED dropped, Cache!ProviderTransient \/ Cache!ProviderPermanent
    PROVE  CacheInv' /\ WaitersKept
  <1> USE DEF CacheInv
  <1>1. task.st = "call" /\ cached.left \in Int
    BY DEF CacheTypes, Cache!ProviderTransient, Cache!ProviderPermanent
  <1>2. CASE Cache!ProviderPermanent
    <2>1. CASE Cache!Expires
      <3>1. Cache!Later(cached.left) \in Nat /\ cached.left <= Cache!Later(cached.left)
        BY <1>1 DEF Cache!Later
      <3>2. task' = Cache!ExpireThen(Cache!Later(cached.left), Cache!Return) /\ Cache!Silent
        BY <1>2, <2>1 DEF Cache!ProviderPermanent
      <3> QED
        BY <1>1, <3>1, <3>2, SilentStep DEF Cache!ExpireThen, Cache!Return
    <2>2. CASE ~Cache!Expires
      BY <1>2, <2>2, FailureKeeps DEF Cache!ProviderPermanent, Cache!Errors
    <2> QED
      BY <2>1, <2>2
  <1>3. CASE Cache!ProviderTransient
    <2>1. CASE Cache!Send(Cache!Failure("transient")) /\ task' = Cache!Sleep(SHORT_REFRESH_SLACK)
      BY <2>1, FailureKeeps, TokenAssumption DEF Cache!Errors
    <2>2. CASE /\ cached.left \in 0..(SHORT_REFRESH_SLACK - 1) /\ Cache!Silent
               /\ task' = Cache!ExpireThen(cached.left, SHORT_REFRESH_SLACK - cached.left)
      <3>1. task' \in [st : {"call", "sleep", "expire"}, wake : Nat, then : {-1} \cup Nat]
        BY <2>2, TokenAssumption DEF Cache!ExpireThen
      <3>2. cached.left <= task'.wake
        BY <1>1, <2>2 DEF Cache!ExpireThen
      <3> QED
        BY <1>1, <2>2, <3>1, <3>2, SilentStep
    <2>3. CASE Cache!Silent /\ task' = Cache!Sleep(SHORT_REFRESH_SLACK)
      BY <1>1, <2>3, SilentStep, TokenAssumption DEF Cache!Sleep
    <2> QED
      BY <1>3, <2>1, <2>2, <2>3 DEF Cache!ProviderTransient
  <1> QED
    BY <1>2, <1>3

LEMMA RefreshKeeps ==
    ASSUME CacheInv, UNCHANGED dropped, Cache!Refresh
    PROVE  CacheInv' /\ WaitersKept
  <1>1. CASE \E t \in Lifetimes : Cache!ProviderOk(t)
    BY <1>1, ProviderOkKeeps
  <1>2. CASE Cache!ProviderTransient \/ Cache!ProviderPermanent
    BY <1>2, ProviderFailsKeeps
  <1>3. CASE Cache!Expired
    <2>1. CASE task.then = Cache!Return
      BY <1>3, <2>1, FailureKeeps DEF Cache!Expired, Cache!Errors
    <2>2. CASE task.then # Cache!Return
      <3>1. task.then \in Nat
        BY <2>2 DEF CacheInv, CacheTypes, Cache!Return
      <3> QED
        BY <1>3, <2>2, <3>1, FailureKeeps DEF Cache!Expired, Cache!Errors
    <2> QED
      BY <2>1, <2>2
  <1>4. CASE Cache!Wakes
    BY <1>4, SilentStep DEF Cache!Wakes, Cache!Calling
  <1> QED
    BY <1>1, <1>2, <1>3, <1>4 DEF Cache!Refresh, Cache!Provider

LEMMA RefreshStep == ASSUME IInv, Refresh PROVE IInv'
  <1> USE DEF IInv, Types
  <1>1. Cache!Refresh /\ UNCHANGED <<loop, rpc>>
    BY DEF Refresh
  <1>2. CacheInv' /\ WaitersKept
    BY <1>1, RefreshKeeps DEF CacheInv, rpc
  <1>3. LoopTypes' /\ RpcTypes'
    BY <1>1 DEF LoopTypes, RpcTypes, loop, rpc
  <1>4. Staged'
    BY <1>1, <1>2 DEF Staged, WaitersKept, loop, rpc
  <1>5. UnsafeNotYetSent' /\ Limits'
    BY <1>1 DEF UnsafeNotYetSent, Limits, LimitsOf, loop, rpc
  <1> QED
    BY <1>2, <1>3, <1>4, <1>5 DEF CacheInv

LEMMA DropStep == ASSUME IInv, DropClient PROVE IInv'
  <1> USE DEF IInv, Types
  <1>1. /\ dropped' /\ task' = Cache!Ended /\ UNCHANGED <<cached, waiting>>
        /\ UNCHANGED <<loop, stage, timeout, reached>>
        /\ \A c \in Calls : pc[c] \notin {"attempt", "sleep"}
    BY DEF DropClient, Cache!Abort, Cache!Silent, Retry!Active
  <1>2. dropped' \in BOOLEAN
    BY DEF DropClient
  <1>3. CacheTypes' /\ LoopTypes' /\ RpcTypes'
    BY <1>1, <1>2 DEF CacheTypes, LoopTypes, RpcTypes, Cache!Ended, loop
  <1>4. Staged'
    BY <1>1 DEF Staged, loop
  <1>5. NoWaiterIsOrphaned'
    BY <1>1 DEF Staged, NoWaiterIsOrphaned, Cache!NoWaiterIsOrphaned
  <1>6. EndedWithAnswer' /\ TokenExpires'
    BY <1>1 DEF EndedWithAnswer, TokenExpires, Cache!Ended
  <1>7. UnsafeNotYetSent' /\ Limits'
    BY <1>1 DEF UnsafeNotYetSent, Limits, LimitsOf, loop
  <1> QED
    BY <1>3, <1>4, <1>5, <1>6, <1>7

LEMMA TickStep == ASSUME IInv, Tick PROVE IInv'
  <1> USE DEF IInv, Types
  <1>1. /\ Retry!Quiet /\ Cache!Tick /\ Retry!Tick
        /\ timeout' = [c \in Calls |-> Retry!Minus(timeout[c], 1)]
        /\ UNCHANGED <<stage, reached, dropped>>
    BY DEF Tick
  <1>2. /\ cached' = IF Cache!Expires /\ cached.left >= 0
                       THEN [cached EXCEPT !.left = @ - 1] ELSE cached
        /\ task' = [task EXCEPT !.wake = Cache!Later(@ - 1)]
        /\ UNCHANGED waiting
    BY <1>1 DEF Cache!Tick
  <1>3. /\ elapsed' = [c \in Calls |-> IF Retry!Active(c)
                                         THEN Retry!Least(elapsed[c] + 1, TimeLimit + 1)
                                         ELSE elapsed[c]]
        /\ wake' = [c \in Calls |-> Retry!Minus(wake[c], 1)]
        /\ UNCHANGED <<pc, attempts, remaining, started, cur_tokens>>
    BY <1>1 DEF Retry!Tick
  <1>4. task.wake \in Nat /\ cached.left \in Int /\ Cache!Later(task.wake - 1) \in Nat
    BY DEF CacheTypes, Cache!Later
  <1>5. CacheTypes'
    BY <1>2, <1>4 DEF CacheTypes
  <1>6. LoopTypes'
    BY <1>3, PolicyAssumption DEF LoopTypes, Retry!Least, Retry!Minus
  <1>7. RpcTypes'
    BY <1>1, <1>3 DEF RpcTypes, Retry!Minus
  <1>8. Staged' /\ UnsafeNotYetSent'
    BY <1>1, <1>2, <1>3 DEF Staged, UnsafeNotYetSent
  <1>9. /\ task'.st = task.st /\ task'.wake = Cache!Later(task.wake - 1)
        /\ cached'.is = cached.is
        /\ cached'.left = IF Cache!Expires /\ cached.left >= 0 THEN cached.left - 1
                                                               ELSE cached.left
    BY <1>2 DEF CacheTypes
  <1>10. NoWaiterIsOrphaned'
    BY <1>2, <1>9 DEF NoWaiterIsOrphaned, Cache!NoWaiterIsOrphaned
  <1>11. EndedWithAnswer' /\ TokenExpires'
    BY <1>1, <1>4, <1>9, TokenAssumption
       DEF EndedWithAnswer, TokenExpires, Cache!Expires, Cache!Later
  <1>12. ASSUME NEW c \in Calls PROVE LimitsOf(c)'
    <2>1. LimitsOf(c)
      BY DEF Limits
    <2>2. /\ elapsed[c] \in Nat /\ wake[c] \in Nat /\ remaining[c] \in Nat
          /\ attempts[c] \in Nat /\ started[c] \in Nat
          /\ Retry!delay(attempts[c]) \in Nat
      BY DelayType DEF LoopTypes
    <2>3. CASE pc[c] = "sleep"
      <3>1. wake[c] # 0
        BY <1>1, <2>3 DEF Retry!Quiet
      <3>2. wake'[c] = wake[c] - 1
        BY <1>3, <2>2, <3>1 DEF Retry!Minus
      <3>3. elapsed'[c] <= elapsed[c] + 1 /\ elapsed'[c] \in Nat
        BY <1>3, <2>2, PolicyAssumption DEF Retry!Least
      <3>4. elapsed'[c] + wake'[c] <= elapsed[c] + wake[c]
        BY <2>2, <3>1, <3>2, <3>3
      <3>5. wake'[c] \in Nat
        BY <2>2, <3>1, <3>2
      <3> QED
        BY <1>3, <2>1, <2>2, <2>3, <3>3, <3>4, <3>5, PolicyAssumption DEF LimitsOf
    <2>4. CASE pc[c] = "attempt"
      BY <1>3, <2>1, <2>4 DEF LimitsOf
    <2>5. CASE pc[c] \notin {"attempt", "sleep"}
      BY <1>3, <2>1, <2>2, <2>5 DEF LimitsOf, Retry!Active, Retry!Minus
    <2> QED
      BY <2>3, <2>4, <2>5
  <1> QED
    BY <1>5, <1>6, <1>7, <1>8, <1>10, <1>11, <1>12 DEF Limits

LEMMA NextIInv == IInv /\ [Next]_vars => IInv'
  <1> SUFFICES ASSUME IInv, [Next]_vars PROVE IInv'
    OBVIOUS
  <1>1. ASSUME NEW c \in Calls, Call(c) PROVE IInv'
    BY <1>1, CallStep
  <1>2. ASSUME NEW c \in Calls, Step(c) PROVE IInv'
    BY <1>2, HeadersStep, TokenArrivesStep, ThrottledStep, RetriesStep, RpcEndsStep
       DEF Step, RpcTimesOut
  <1>3. ASSUME NEW c \in Calls, NEW how \in Outcomes, RpcEnds(c, how) PROVE IInv'
    BY <1>3, RpcEndsStep
  <1>4. CASE UNCHANGED vars
    <2>1. UNCHANGED <<cached, task, waiting, pc, elapsed, attempts, remaining, wake,
                      started, cur_tokens, stage, timeout, reached, dropped>>
      BY <1>4 DEF vars, cache, loop, rpc
    <2> QED
      BY <2>1 DEF IInv, Types, CacheTypes, LoopTypes, RpcTypes, Staged, NoWaiterIsOrphaned,
                  Cache!NoWaiterIsOrphaned, EndedWithAnswer, TokenExpires,
                  UnsafeNotYetSent, Limits, LimitsOf
  <1> QED
    BY <1>1, <1>2, <1>3, <1>4, RefreshStep, DropStep, TickStep DEF Next

-----------------------------------------------------------------------------
(* The theorems.                                                           *)

\* The inductive invariant holds in every reachable state.
THEOREM Invariance == Spec => []IInv
  BY InitIInv, NextIInv, PTL DEF Spec

\* For every retry policy, backoff and throttler: never more attempts than the
\* attempt limit, no retry starts after the time limit, and an attempt is given
\* no more time than was left, but for the backoff before it.
THEOREM RetryLimits == Spec => []RetriesWithinLimits
  <1>1. IInv => RetriesWithinLimits
    BY DEF IInv, Limits, LimitsOf, RetriesWithinLimits, Retry!RetriesWithinLimits
  <1> QED
    BY <1>1, Invariance, PTL

\* A request that is not idempotent reaches the service at most once, however the
\* token cache, the connection and the retry loop interact.
THEOREM UnsafeSentOnce == Spec => []UnsafeRequestsAreSentOnce
  <1>1. IInv => UnsafeRequestsAreSentOnce
    BY DEF IInv, UnsafeNotYetSent, UnsafeRequestsAreSentOnce
  <1> QED
    BY <1>1, Invariance, PTL

\* The unwrap of changed() in wait_for_next_token is never reached by an error: no
\* caller waits once the refresh task is gone.
THEOREM NoOrphanedWaiter == Spec => []NoWaiterIsOrphaned
  <1>1. IInv => NoWaiterIsOrphaned
    BY DEF IInv
  <1> QED
    BY <1>1, Invariance, PTL

\* Only refresh_task and the clock touch the cached token.
LEMMA OthersKeepToken ==
    ASSUME [Next]_vars PROVE Refresh \/ Tick \/ UNCHANGED cached
  <1>1. ASSUME NEW c \in Calls, Call(c) \/ Step(c) PROVE UNCHANGED cached
    BY <1>1 DEF Call, Step, Headers, TokenArrives, Throttled, Retries, RpcTimesOut,
                RpcEnds, cache, Cache!Wait, Cache!Take
  <1>2. ASSUME NEW c \in Calls, NEW how \in Outcomes, RpcEnds(c, how)
        PROVE  UNCHANGED cached
    BY <1>2 DEF RpcEnds, cache
  <1>3. DropClient => UNCHANGED cached
    BY DEF DropClient, Cache!Abort, Cache!Silent
  <1> QED
    BY <1>1, <1>2, <1>3 DEF Next, vars, cache

\* A failed refresh never takes a valid token away: the error is published only
\* when the token has expired.
THEOREM TokenIsKept == Spec => ValidTokenIsKept
  <1> DEFINE Keeps == cached.is = "token" /\ cached.left > 0 => cached'.is = "token"
  <1>1. ASSUME IInv, [Next]_vars PROVE Keeps
    <2> USE DEF IInv, Types
    <2>1. CASE UNCHANGED cached
      BY <2>1
    <2>2. CASE Tick
      BY <2>2 DEF Tick, Cache!Tick, CacheTypes
    <2>3. CASE Refresh
      <3> SUFFICES ASSUME cached.is = "token", cached.left > 0, Cache!Refresh
                   PROVE  cached'.is = "token"
        BY <2>3 DEF Refresh
      <3>1. cached.left \in Int /\ task.wake \in Nat
        BY <1>1 DEF CacheTypes
      <3>2. CASE \E t \in Lifetimes : Cache!ProviderOk(t)
        BY <3>2 DEF Cache!ProviderOk, Cache!Send, Cache!Token
      <3>3. CASE Cache!ProviderPermanent
        BY <1>1, <3>3 DEF Cache!ProviderPermanent, Cache!Expires, Cache!Silent, TokenExpires
      <3>4. CASE Cache!ProviderTransient
        BY <1>1, <3>1, <3>4 DEF Cache!ProviderTransient, Cache!Expires, Cache!Silent, TokenExpires
      <3>5. CASE Cache!Expired
        BY <1>1, <3>1, <3>5 DEF Cache!Expired, TokenExpires
      <3>6. CASE Cache!Wakes
        BY <3>6 DEF Cache!Wakes, Cache!Silent
      <3> QED
        BY <3>2, <3>3, <3>4, <3>5, <3>6 DEF Cache!Refresh, Cache!Provider
    <2> QED
      BY <1>1, <2>1, <2>2, <2>3, OthersKeepToken
  <1>2. IInv /\ [Next]_vars => [Keeps]_(Cache!vars)
    BY <1>1
  <1> QED
    BY <1>2, Invariance, PTL DEF Spec, ValidTokenIsKept, Cache!ValidTokenIsKept
=============================================================================
