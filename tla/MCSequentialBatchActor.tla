----------------------- MODULE MCSequentialBatchActor -----------------------
(* Small instances of SequentialBatchActor for TLC. *)
EXTENDS SequentialBatchActor
=============================================================================
