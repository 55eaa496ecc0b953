--------------------------- MODULE MCTimerManager ---------------------------
(* Model-checking instances of TimerManager. *)
EXTENDS TimerManager, TLC

CONSTANTS p1, p2

PollerSymmetry == Permutations(Pollers)
=============================================================================
