---------------------------- MODULE MCPublisher ----------------------------
(* Small instances of Publisher for TLC. *)
EXTENDS Publisher
=============================================================================
