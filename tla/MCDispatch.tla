----------------------------- MODULE MCDispatch -----------------------------
(* Constants for model checking Dispatch. *)
EXTENDS Dispatch, TLC

CONSTANTS c1, c2, w1, w2, k1

MCSymmetry == Permutations({c1, c2}) \cup Permutations({w1, w2})
=============================================================================
