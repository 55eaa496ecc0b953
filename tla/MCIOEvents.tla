----------------------------- MODULE MCIOEvents -----------------------------
(* Model-checking instances of IOEvents. *)
EXTENDS IOEvents, TLC

CONSTANTS f1, f2, w1, w2, p1, p2

(* One fd on which fibers read and write, one on which they only read. *)
MixedUses == [f \in Fds |-> IF f = f1 THEN {READ, WRITE} ELSE {READ}]
=============================================================================
