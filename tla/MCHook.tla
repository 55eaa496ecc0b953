------------------------------- MODULE MCHook -------------------------------
(* Model-checking instances of Hook. *)
EXTENDS Hook, TLC

CONSTANTS f1, w1, w2, p1, c1, c2

(* One fiber connects and writes, the other sleeps and closes. *)
CallerAndCloser == [w \in Waiters |-> IF w = w1 THEN {"connect", "write"} ELSE {"sleep", "close"}]

(* A fiber that reads. *)
Reader == [w \in Waiters |-> {"read"}]
=============================================================================
