---------------------------- MODULE MCScheduler ----------------------------
(* Two entry points are enough to tell one smcCpuOn from another.           *)
EXTENDS Scheduler

CONSTANTS e1, e2

MCEntries == {e1, e2}
=============================================================================
