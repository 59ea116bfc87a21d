------------------------------ MODULE MCFanout ------------------------------
(* PointerFanout with one listener. *)
EXTENDS PointerFanout

CONSTANTS c1, w1   \* model values
=============================================================================
