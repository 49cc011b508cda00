------------------------------ MODULE MCScheduler ------------------------------
(* A small instance of Scheduler.                                          *)
EXTENDS Scheduler

CONSTANTS r1, i1, i2
=============================================================================
