---------------------------- MODULE MCScheduler ----------------------------
(* Model-checking instances of Scheduler. *)
EXTENDS Scheduler, TLC

CONSTANTS t1, t2, t3, f1, f2

TwoThreads == {t1, t2}
TwoFibers  == {f1, f2}
=============================================================================
