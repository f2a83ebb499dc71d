---------------------------- MODULE MCLifecycle -----------------------------
(* Constants for model checking Lifecycle. *)
EXTENDS Lifecycle

CONSTANTS c1, c2
=============================================================================
