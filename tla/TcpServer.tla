----------------------------- MODULE TcpServer -----------------------------
(***************************************************************************)
(* sylar/tcp_server.cc with the bind, listen, accept and close of a        *)
(* listening Socket of sylar/socket.cc: bind(), start() and stop(), the    *)
(* function stop() leaves for the accept worker, and the loops of          *)
(* startAccept().  What an accepted connection is, is left to Http.        *)
(***************************************************************************)
EXTENDS Naturals, FiniteSets

CONSTANT Socks       (* the sockets bind() may create                        *)

VARIABLES m_isStop, m_socks,
          sockets,       (* what each socket is: "none", "open", "closed"    *)
          checking,      (* startAccept() loops at the while, per socket     *)
          accepting,     (* those inside accept()                            *)
          closing,       (* functions of stop() that have not run            *)
          dropped        (* history: sockets bind() dropped while in use     *)

tcpVars == <<m_isStop, m_socks, sockets, checking, accepting, closing, dropped>>

(* A new server, or one that serves on the sockets bound.                    *)
TcpInit(bound) ==
    /\ m_isStop = (bound = {}) /\ m_socks = bound
    /\ sockets = [s \in Socks |-> IF s \in bound THEN "open" ELSE "none"]
    /\ checking = [s \in Socks |-> 0]
    /\ accepting = [s \in Socks |-> IF s \in bound THEN 1 ELSE 0]
    /\ closing = 0 /\ dropped = {}

Held(s) == checking[s] + accepting[s] > 0
Open(s) == sockets[s] = "open"

(* bind(addrs, fails) creates the sockets new; when one of them fails all    *)
(* of m_socks is cleared, the ones of earlier calls too.  A socket without   *)
(* an owner is closed.                                                       *)
bind(new, failed) ==
    LET kept == IF failed = {} THEN m_socks \cup new ELSE {}
    IN  /\ new # {} /\ \A s \in new : sockets[s] = "none"
        /\ m_socks' = kept
        /\ sockets' = [s \in Socks |->
               IF s \in (new \cup m_socks) \ kept /\ ~Held(s) THEN "closed"
               ELSE IF s \in new THEN "open" ELSE sockets[s]]
        /\ dropped' = dropped \cup {s \in m_socks \ kept : Held(s)}
        /\ UNCHANGED <<m_isStop, checking, accepting, closing>>

(* start() once more is no error.                                            *)
start ==
    /\ IF ~m_isStop THEN UNCHANGED checking
       ELSE checking' = [s \in Socks |-> checking[s] + IF s \in m_socks THEN 1 ELSE 0]
    /\ m_isStop' = FALSE
    /\ UNCHANGED <<m_socks, sockets, accepting, closing, dropped>>

stop ==
    /\ m_isStop' = TRUE /\ closing' = closing + 1
    /\ UNCHANGED <<m_socks, sockets, checking, accepting, dropped>>

(* Mutant: the sockets are forgotten before they are closed.                 *)
StopClears ==
    /\ closing > 0 /\ closing' = closing - 1
    /\ m_socks' = {}
    /\ UNCHANGED <<m_isStop, sockets, checking, accepting, dropped>>

(* The function stop() scheduled: cancelAll() and close() of every socket.   *)
StopRuns ==
    /\ closing > 0 /\ closing' = closing - 1
    /\ sockets' = [s \in Socks |-> IF s \in m_socks THEN "closed" ELSE sockets[s]]
    /\ m_socks' = {}
    /\ UNCHANGED <<m_isStop, checking, accepting, dropped>>

(* while(!m_isStop); the last loop of a dropped socket closes it.            *)
Check(s) ==
    /\ checking[s] > 0 /\ checking' = [checking EXCEPT ![s] = @ - 1]
    /\ accepting' = [accepting EXCEPT ![s] = @ + IF m_isStop THEN 0 ELSE 1]
    /\ sockets' = [sockets EXCEPT ![s] =
           IF m_isStop /\ s \notin m_socks /\ checking[s] + accepting[s] = 1
           THEN "closed" ELSE @]
    /\ UNCHANGED <<m_isStop, m_socks, closing, dropped>>

(* accept() returns: with a connection of the backlog, or null when the      *)
(* socket has been closed.                                                   *)
accept(s) ==
    /\ accepting[s] > 0
    /\ accepting' = [accepting EXCEPT ![s] = @ - 1]
    /\ checking' = [checking EXCEPT ![s] = @ + 1]
    /\ UNCHANGED <<m_isStop, m_socks, sockets, closing, dropped>>
AcceptFails(s) == ~Open(s) /\ accept(s)

(* Once the server is stopped for good every startAccept() loop ends, except *)
(* on a socket that a failed bind() took from m_socks: stop() cannot close   *)
(* it and the loop waits in accept() for a connection that may never come.   *)
AcceptorsEnd ==
    []<>(~m_isStop \/ \A s \in Socks : Held(s) => s \in dropped)
=============================================================================
