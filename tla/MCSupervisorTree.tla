-------------------------- MODULE MCSupervisorTree --------------------------
(* Constants for model checking SupervisorTree. *)
EXTENDS SupervisorTree, TLC

CONSTANTS s1, s2, s3, s4, x

MCSymmetry == Permutations(Ids \ {Root})
=============================================================================
