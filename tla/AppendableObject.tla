-------------------------- MODULE AppendableObject --------------------------
(***************************************************************************)
(* What an appendable upload promises, with no stream, buffer or retry in  *)
(* sight: the object is a prefix of what the application appended, it only *)
(* grows, a call that confirms finds every appended byte in the object, and *)
(* a finalized object is complete and never changes again.  A call the     *)
(* application drops before it returns is no clean failure: bytes not yet   *)
(* persisted may be missing from then on, and later calls succeed without  *)
(* them.  Nothing else loses a byte.                                       *)
(***************************************************************************)
EXTENDS Naturals, Sequences

VARIABLES
    log,        \* the bytes the application appended, and has not lost
    object,     \* the bytes the service persisted
    final,      \* the object is finalized
    confirmed,  \* the size the last successful call returned
    busy        \* a call is in progress

vars == <<log, object, final, confirmed, busy>>

Prefix(s, t) == Len(s) <= Len(t) /\ s = SubSeq(t, 1, Len(s))

\* What is left of s without s[m + 1], ..., s[n].
Without(s, m, n) == SubSeq(s, 1, m) \o SubSeq(s, n + 1, Len(s))

Init == Prefix(object, log) /\ ~final /\ confirmed <= Len(object) /\ ~busy

\* A call begins; an append takes its bytes, and may return at once.
Begin ==
    /\ ~final /\ ~busy
    /\ Prefix(log, log')
    /\ busy' \in BOOLEAN
    /\ UNCHANGED <<object, final, confirmed>>

Persist ==
    /\ ~final
    /\ Prefix(object, object') /\ Prefix(object', log)
    /\ UNCHANGED <<log, final, confirmed, busy>>

Finalize ==
    /\ ~final
    /\ object' = log /\ final'
    /\ UNCHANGED <<log, confirmed, busy>>

\* A call returns the size of the object, which has every byte of the log.
Confirm ==
    /\ busy /\ ~busy'
    /\ object = log
    /\ confirmed' = Len(log)
    /\ UNCHANGED <<log, object, final>>

\* An append returns, a call fails, or the writer is dropped with its call.
Return ==
    /\ busy /\ ~busy'
    /\ UNCHANGED <<log, object, final, confirmed>>

\* The application drops a call: one run of bytes may be lost, none of them
\* persisted.
Cancel ==
    /\ busy /\ ~busy'
    /\ \E n \in Len(object)..Len(log) : \E m \in Len(object)..n : log' = Without(log, m, n)
    /\ UNCHANGED <<object, final, confirmed>>

Next == Begin \/ Persist \/ Finalize \/ Confirm \/ Return \/ Cancel

Spec == Init /\ [][Next]_vars
=============================================================================
