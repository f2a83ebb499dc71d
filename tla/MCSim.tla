------------------------------- MODULE MCSim --------------------------------
(* Constants for model checking Sim. *)
EXTENDS Sim

CONSTANTS a1, a2
=============================================================================
