----------------------- MODULE MCConcurrentBatchActor -----------------------
(* Small instances of ConcurrentBatchActor for TLC. *)
EXTENDS ConcurrentBatchActor
=============================================================================
