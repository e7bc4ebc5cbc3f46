---- MODULE GuestCores ----
(***************************************************************************)
(* The cores of the emulated machine, which every module about it shares.  *)
(* The scheduler numbers them from 0.                                      *)
(***************************************************************************)
EXTENDS Integers

CONSTANT NCores  \* the number of cores (the code's literal 4)

ASSUME NCoresAssumption == NCores \in Nat \ {0}

Cores == 0 .. NCores - 1
====
