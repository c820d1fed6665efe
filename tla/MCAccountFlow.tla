--------------------------- MODULE MCAccountFlow ---------------------------
(* AccountFlow on a small instance. *)
EXTENDS AccountFlow

CONSTANTS f1, f2, right, wrong

MCFlow     == {f1, f2}
MCPassword == {right, wrong}

=============================================================================
