---------------------------- MODULE TimerContract ----------------------------
(***************************************************************************)
(* What TimerManager promises of a timer's life, whatever the order of     *)
(* m_timers and the clock: a timer is armed once, a one-shot timer fires   *)
(* at most once, and a timer that has fired for the last time or has been  *)
(* cancelled is never armed or fired again.                                *)
(***************************************************************************)
CONSTANT Timers

VARIABLES
    status,      (* "unborn", "armed" or "gone" *)
    recurring    (* does the timer rearm itself when it fires? *)

absVars == <<status, recurring>>

AbsInit ==
    /\ status = [t \in Timers |-> "unborn"]
    /\ recurring = [t \in Timers |-> FALSE]

Arm(t, r) ==
    /\ status[t] = "unborn"
    /\ status' = [status EXCEPT ![t] = "armed"]
    /\ recurring' = [recurring EXCEPT ![t] = r]

Cancel(t) ==
    /\ status[t] = "armed"
    /\ status' = [status EXCEPT ![t] = "gone"]
    /\ UNCHANGED recurring

(* A set of armed timers fires; the one-shot ones among them are gone. *)
Fire(S) ==
    /\ \A t \in S : status[t] = "armed"
    /\ status' = [t \in Timers |-> IF t \in S /\ ~recurring[t] THEN "gone" ELSE status[t]]
    /\ UNCHANGED recurring

AbsNext ==
    \/ \E t \in Timers, r \in BOOLEAN : Arm(t, r)
    \/ \E t \in Timers : Cancel(t)
    \/ \E S \in SUBSET Timers : Fire(S)

AbsSpec == AbsInit /\ [][AbsNext]_absVars
=============================================================================
