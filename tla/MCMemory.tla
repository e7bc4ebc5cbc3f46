------------------------------ MODULE MCMemory ------------------------------
(* The constants of both sides.                                               *)
EXTENDS Memory, MCLifetime, MCWalker
=============================================================================
