----------------------------- MODULE MCHedging -----------------------------
(* Small instances of Hedging for TLC. *)
EXTENDS Hedging
=============================================================================
