------------------------------- MODULE MCRpc -------------------------------
(* Small instances of Rpc. *)
EXTENDS Rpc

CONSTANTS c1, c2, h1
=============================================================================
