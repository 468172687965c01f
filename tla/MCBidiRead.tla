----------------------------- MODULE MCBidiRead -----------------------------
(* Small instances of BidiRead for TLC. *)
EXTENDS BidiRead

\* Two ranges of an object of three bytes: a segment, its first two, and a tail,
\* its last.
MCOffset(r) == IF r = 1 THEN 0 ELSE -1
MCLimit(r)  == IF r = 1 THEN 2 ELSE 0
=============================================================================
