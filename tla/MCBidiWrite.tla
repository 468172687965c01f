---------------------------- MODULE MCBidiWrite ----------------------------
(* Small instances of BidiWrite for TLC. *)
EXTENDS BidiWrite

\* open_and_append of two bytes, of which the response reports one persisted.
MCOpenings == {<<1, 2>>}
=============================================================================
