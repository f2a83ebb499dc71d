---------------------------- MODULE MCSupervisor ----------------------------
(* Constants for model checking Supervisor. *)
EXTENDS Supervisor, TLC

CONSTANTS a, b

MCSymmetry == Permutations(Names)
=============================================================================
