----------------------------- MODULE MCMailbox -----------------------------
(* Constants for model checking Mailbox. *)
EXTENDS Mailbox

CONSTANTS s1, s2, r1
=============================================================================
