---------------------------- MODULE MCMemoryPool ----------------------------
(* Constants for model checking MemoryPool. *)
EXTENDS MemoryPool

MCSizes == {1, 17, 24, 40, 120, 121}
=============================================================================
