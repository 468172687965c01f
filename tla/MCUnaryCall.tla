---------------------------- MODULE MCUnaryCall ----------------------------
(* Small instances of UnaryCall for TLC. *)
EXTENDS UnaryCall

\* The first call may be repeated, the second may not.
MCIdempotent(c) == c = 1

\* Already expired, expiring before and after the next refresh, and without an
\* expiration.
MCLifetimes == {-1, 1, 4, 9}
=============================================================================
