----------------------------- MODULE MCRegistry -----------------------------
(* Constants for model checking Registry. *)
EXTENDS Registry, TLC

CONSTANTS t1, t2, t3, i1, i2, n1, n2

MCSymmetry == Permutations({t1, t2, t3}) \cup Permutations({i1, i2}) \cup Permutations({n1, n2})
=============================================================================
