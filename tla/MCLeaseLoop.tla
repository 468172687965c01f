---------------------------- MODULE MCLeaseLoop ----------------------------
(* Small instances of LeaseLoop for TLC. *)
EXTENDS LeaseLoop, TLC

\* Exactly-once ack IDs are interchangeable (used in runs without liveness, in
\* which the pieces of a request are unique: at most MaxIds of them).
Symmetry == Permutations(EO)

ConfigsWith(behaviors, threads, forgets) ==
    [behavior : behaviors, multi_thread : threads, fire_and_forget : forgets]

AllConfigs  == ConfigsWith(Behaviors, BOOLEAN, BOOLEAN)
NackConfigs == ConfigsWith({"NackImmediately"}, BOOLEAN, {TRUE})
WaitForgets == ConfigsWith({"WaitForProcessing"}, {FALSE}, {TRUE})
=============================================================================
