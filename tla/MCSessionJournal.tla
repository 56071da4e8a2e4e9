-------------------------- MODULE MCSessionJournal --------------------------
(* Small instances of SessionJournal for TLC. *)
EXTENDS SessionJournal

CONSTANT c1

OneClient == {c1}
=============================================================================
