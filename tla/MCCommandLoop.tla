---------------------------- MODULE MCCommandLoop ----------------------------
(* Instances of CommandLoop for TLC: one ordinary command and one           *)
(* self_update, delivered in batches of up to two.                          *)
EXTENDS CommandLoop

CONSTANTS work, update

MCCmd == {work, update}
MCSelfUpdate == {update}
=============================================================================
