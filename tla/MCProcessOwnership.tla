------------------------- MODULE MCProcessOwnership -------------------------
(* Two boots of the agent of one server instance, for TLC. *)
EXTENDS ProcessOwnership

CONSTANTS b1, b2

BothBoots == {b1, b2}
FirstBoot == {b1}
=============================================================================
