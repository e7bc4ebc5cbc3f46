------------------------------- MODULE MCTimer -------------------------------
(* Seconds of three and a counter of five , so that the two wrap at every     *)
(* distance; the clock is set forward by two or back by one.                  *)
EXTENDS Timer

MCShifts == {2, Cycle - 1}
=============================================================================
