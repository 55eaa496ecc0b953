---------------------------- MODULE TimerManager ----------------------------
(***************************************************************************)
(* sylar/timer.{h,cc}: timers, the TimerManager, and the way a poller (an  *)
(* idle fiber of IOManager, iomanager.cc:377-412) sleeps until the next    *)
(* timer and collects the expired ones.                                    *)
(*                                                                         *)
(* A timer is named by the address of its object, a number: the Comparator *)
(* of m_timers compares lhs->m_next with itself, so the set is ordered by  *)
(* address only.  Sections under the write lock of m_mutex are one action; *)
(* the clock reads outside it and the tickle after it are separate.  A     *)
(* local variable of a poller is 0 outside its scope.                      *)
(***************************************************************************)
EXTENDS Integers, FiniteSets, FiniteSetsExt

CONSTANTS
    Timers,       (* addresses of the Timer objects                          *)
    Pollers,      (* scheduling threads, each with its idle fiber            *)
    Delays,       (* the values of ms the application uses                   *)
    AppOps,       (* which of "cancel", "refresh", "reset" it calls          *)
    MaxNow,       (* bound: the largest value of GetCurrentMS()              *)
    RolloverMs,   (* 60 * 60 * 1000, scaled                                  *)
    SetBack,      (* may the wall clock be set back?                         *)
    MaxTimeout,   (* MAX_TIMEOUT of idle(), 5000, scaled                     *)
    IntBits       (* width of the int that epoll_wait() takes, scaled        *)

ASSUME TimerAssumption ==
    /\ Timers \subseteq Nat
    /\ IsFiniteSet(Timers)
    /\ Pollers # {}
    /\ Delays \subseteq Nat
    /\ \E d \in Delays \cup {0} : \A e \in Delays : e <= d
    /\ MaxNow \in Nat /\ RolloverMs \in Nat /\ MaxTimeout \in Nat
    /\ IntBits \in Nat /\ 2^IntBits \in Nat \ {0}
    /\ SetBack \in BOOLEAN

VARIABLES
    now,             (* GetCurrentMS(): gettimeofday(), the wall clock       *)
    born,            (* the Timer objects constructed so far                 *)
    m_timers,        (* std::set<Timer::ptr, Comparator>                     *)
    m_next, m_ms, m_recurring,
    m_cb,            (* is the timer's callback non-null?                    *)
    m_tickled, m_previousTime,
    atFront,         (* addTimer() has unlocked and is about to call         *)
                     (* onTimerInsertedAtFront()                             *)
    ppc,             (* where each poller is                                 *)
    nowMs,           (* listExpiredCb(): now_ms, read before the lock        *)
    deadline,        (* when epoll_wait() of the poller times out            *)
    tickled          (* is there a byte in the tickle pipe?                  *)

timerVars == <<born, m_timers, m_next, m_ms, m_recurring, m_cb>>
pollVars  == <<ppc, nowMs, deadline>>
vars == <<now, born, m_timers, m_next, m_ms, m_recurring, m_cb, m_tickled,
          m_previousTime, atFront, ppc, nowMs, deadline, tickled>>

Forever == -1
MaxDelay == Max(Delays \cup {0})
Times   == 0..(MaxNow + MaxDelay)

TypeOK ==
    /\ now \in 0..MaxNow
    /\ born \in SUBSET Timers /\ m_timers \in SUBSET born
    /\ m_next \in [Timers -> Times]
    /\ m_ms \in [Timers -> Delays \cup {0}]
    /\ m_recurring \in [Timers -> BOOLEAN]
    /\ m_cb \in [Timers -> BOOLEAN]
    /\ m_tickled \in BOOLEAN
    /\ m_previousTime \in 0..MaxNow
    /\ atFront \in BOOLEAN
    /\ ppc \in [Pollers -> {"away", "next", "wait", "list", "locked"}]
    /\ nowMs \in [Pollers -> 0..MaxNow]
    /\ deadline \in [Pollers -> 0..(MaxNow + MaxTimeout) \cup {Forever}]
    /\ tickled \in BOOLEAN

Init ==
    /\ now = 0
    /\ born = {} /\ m_timers = {}
    /\ m_next = [t \in Timers |-> 0]
    /\ m_ms = [t \in Timers |-> 0]
    /\ m_recurring = [t \in Timers |-> FALSE]
    /\ m_cb = [t \in Timers |-> FALSE]
    /\ m_tickled = FALSE
    /\ m_previousTime = now
    /\ atFront = FALSE
    /\ ppc = [p \in Pollers |-> "away"]
    /\ nowMs = [p \in Pollers |-> 0]
    /\ deadline = [p \in Pollers |-> 0]
    /\ tickled = FALSE

-----------------------------------------------------------------------------
(* Comparator: of two timers, the one at the lower address comes first. *)
Less(lhs, rhs) == lhs < rhs

(* *m_timers.begin() *)
FrontTimer == CHOOSE t \in m_timers : \A u \in m_timers \ {t} : Less(t, u)

(* GetCurrentMS() reads gettimeofday(): it passes, and it can be set.      *)
Clock ==
    /\ \/ now < MaxNow /\ now' = now + 1
       \/ SetBack /\ now' \in 0..(now - 1)
    /\ UNCHANGED <<timerVars, m_tickled, m_previousTime, atFront, pollVars, tickled>>

(* IOManager::tickle(): written only while some thread is in its idle fiber. *)
tickle == tickled' = (tickled \/ \E p \in Pollers : ppc[p] # "away")

(* TimerManager::addTimer(timer, lock): the part under the write lock.     *)
InsertQuietly(t) ==
    /\ atFront' = FALSE
    /\ m_tickled' = (m_tickled \/ \A u \in m_timers \ {t} : Less(t, u))
insert(t) ==
    /\ atFront' = (~m_tickled /\ \A u \in m_timers \ {t} : Less(t, u))
    /\ m_tickled' = (m_tickled \/ atFront')

-----------------------------------------------------------------------------
(* The application (one thread: it has returned from onTimerInsertedAtFront *)
(* before it calls again)                                                   *)

addTimer(t, ms, rec) ==
    /\ ~atFront
    /\ t \notin born
    /\ born' = born \cup {t}
    /\ m_timers' = m_timers \cup {t}
    /\ m_next' = [m_next EXCEPT ![t] = now + ms]
    /\ m_ms' = [m_ms EXCEPT ![t] = ms]
    /\ m_recurring' = [m_recurring EXCEPT ![t] = rec]
    /\ m_cb' = [m_cb EXCEPT ![t] = TRUE]
    /\ insert(t)
    /\ UNCHANGED <<now, m_previousTime, pollVars, tickled>>

(* After the lock is released. *)
onTimerInsertedAtFront ==
    /\ atFront
    /\ atFront' = FALSE
    /\ tickle
    /\ UNCHANGED <<now, timerVars, m_tickled, m_previousTime, pollVars>>

(* Timer::cancel().  The callback of a timer that has fired is null and    *)
(* cancel() returns false.  m_cb is not cleared here, so a second cancel() *)
(* would erase end(): the application cancels a timer at most once.        *)
cancel(t) ==
    /\ "cancel" \in AppOps
    /\ ~atFront
    /\ t \in m_timers /\ m_cb[t]
    /\ m_timers' = m_timers \ {t}
    /\ UNCHANGED <<now, born, m_next, m_ms, m_recurring, m_cb, m_tickled,
                   m_previousTime, atFront, pollVars, tickled>>

(* refresh() and reset() give up unless the timer has a callback and is    *)
(* found in m_timers.                                                      *)
FoundIfCallback(t) == t \in born /\ m_cb[t]
Found(t) == m_cb[t] /\ t \in m_timers

(* Timer::refresh(): take the timer out, postpone it, put it back. *)
refresh(t) ==
    /\ "refresh" \in AppOps
    /\ ~atFront
    /\ Found(t)
    /\ m_next' = [m_next EXCEPT ![t] = now + m_ms[t]]
    /\ m_timers' = (m_timers \ {t}) \cup {t}
    /\ UNCHANGED <<now, born, m_ms, m_recurring, m_cb, m_tickled,
                   m_previousTime, atFront, pollVars, tickled>>

(* Timer::reset(): take the timer out, give it a new period, insert it.    *)
reset(t, ms, from_now) ==
    /\ "reset" \in AppOps
    /\ ~atFront
    /\ ms # m_ms[t] \/ from_now
    /\ Found(t)
    /\ m_ms' = [m_ms EXCEPT ![t] = ms]
    /\ m_next' = [m_next EXCEPT ![t] = (IF from_now THEN now ELSE m_next[t] - m_ms[t]) + ms]
    /\ m_timers' = (m_timers \ {t}) \cup {t}
    /\ insert(t)
    /\ UNCHANGED <<now, born, m_recurring, m_cb, m_previousTime, pollVars, tickled>>

-----------------------------------------------------------------------------
(* A poller: one iteration of IOManager::idle() *)

(* Scheduler::run() resumes the idle fiber. *)
EnterIdle(p) ==
    /\ ppc[p] = "away"
    /\ ppc' = [ppc EXCEPT ![p] = "next"]
    /\ UNCHANGED <<now, timerVars, m_tickled, m_previousTime, atFront, nowMs,
                   deadline, tickled>>

(* getNextTimer(): how long until the front timer is due. *)
getNextTimer == IF now > m_next[FrontTimer] THEN 0 ELSE m_next[FrontTimer] - now

(* (int)x: conversion to a two's complement int of IntBits bits. *)
ToInt(x) == LET m == x % 2^IntBits
            IN  IF m >= 2^(IntBits - 1) THEN m - 2^IntBits ELSE m

(* The timeout argument of epoll_wait(). *)
EpollTimeoutUncapped == IF m_timers = {} THEN MaxTimeout ELSE ToInt(getNextTimer)
EpollTimeout == IF m_timers = {} THEN MaxTimeout
                ELSE Min({ToInt(getNextTimer), MaxTimeout})

(* stopping(next_timeout) and the entry into epoll_wait(), which blocks    *)
(* without limit when its timeout is negative.  No time passes between the *)
(* two; a tickle between them is a byte in the pipe, which Wake sees.      *)
Sleep(p) ==
    /\ ppc[p] = "next"
    /\ m_tickled' = FALSE
    /\ deadline' = [deadline EXCEPT ![p] = IF EpollTimeout < 0 THEN Forever ELSE now + EpollTimeout]
    /\ ppc' = [ppc EXCEPT ![p] = "wait"]
    /\ UNCHANGED <<now, timerVars, m_previousTime, atFront, nowMs, tickled>>

(* epoll_wait() returns: tickled (the pipe is drained), timed out, or for  *)
(* an I/O event.                                                           *)
Wake(p) ==
    /\ ppc[p] = "wait"
    /\ ppc' = [ppc EXCEPT ![p] = "list"]
    /\ deadline' = [deadline EXCEPT ![p] = 0]
    /\ tickled' \in {tickled, FALSE}
    /\ UNCHANGED <<now, timerVars, m_tickled, m_previousTime, atFront, nowMs>>

(* listExpiredCb(): now_ms is read before the lock is taken.  (To find     *)
(* m_timers empty under the read lock is to find it so under the write     *)
(* lock: the function returns.)                                            *)
ReadNow(p) ==
    /\ ppc[p] = "list"
    /\ nowMs' = [nowMs EXCEPT ![p] = now]
    /\ ppc' = [ppc EXCEPT ![p] = "locked"]
    /\ UNCHANGED <<now, timerVars, m_tickled, m_previousTime, atFront, deadline, tickled>>

(* detectClockRollover() *)
detectClockRollover(n) == n < m_previousTime - RolloverMs

(* The timers listed as expired: the ones before lower_bound(now_timer)    *)
(* and those that follow with m_next = now_ms.  now_timer is a new object, *)
(* so its place in the address order is arbitrary.                         *)
Expired(n, now_timer) ==
    IF detectClockRollover(n) THEN m_timers
    ELSE IF m_next[FrontTimer] > n THEN {}
    ELSE LET below == {t \in m_timers : Less(t, now_timer)}
             rest  == m_timers \ below
         IN  below \cup {t \in rest : \A u \in rest : ~Less(t, u) => m_next[u] = n}

(* The listed timers that are over: their callback is cleared. *)
FinishedAll(expired) == expired
Finished(expired) == {t \in expired : ~m_recurring[t]}

(* listExpiredCb() under the write lock; then idle() schedules the         *)
(* callbacks and yields.  A recurring timer is inserted again, a one-shot  *)
(* timer loses its callback.                                               *)
listExpiredCb(p) ==
    /\ ppc[p] = "locked"
    /\ \E c \in 0..(Max(Timers) + 1) :
        LET expired == IF m_timers = {} THEN {} ELSE Expired(nowMs[p], c)
        IN  /\ m_timers' = (m_timers \ expired) \cup {t \in expired : m_recurring[t]}
            /\ m_next' = [t \in Timers |-> IF t \in expired /\ m_recurring[t]
                                            THEN nowMs[p] + m_ms[t] ELSE m_next[t]]
            /\ m_cb' = [t \in Timers |-> m_cb[t] /\ t \notin Finished(expired)]
    /\ m_previousTime' = IF m_timers = {} THEN m_previousTime ELSE nowMs[p]
    /\ ppc' = [ppc EXCEPT ![p] = "away"]
    /\ nowMs' = [nowMs EXCEPT ![p] = 0]
    /\ UNCHANGED <<now, born, m_ms, m_recurring, m_tickled, atFront,
                    deadline, tickled>>

-----------------------------------------------------------------------------
AppNext ==
    \/ \E t \in Timers, ms \in Delays, rec \in BOOLEAN : addTimer(t, ms, rec)
    \/ onTimerInsertedAtFront
    \/ \E t \in Timers : cancel(t)
    \/ \E t \in Timers : refresh(t)
    \/ \E t \in Timers, ms \in Delays, from_now \in BOOLEAN : reset(t, ms, from_now)

PollNext(p) ==
    \/ EnterIdle(p)
    \/ Sleep(p)
    \/ Wake(p)
    \/ ReadNow(p)
    \/ listExpiredCb(p)

Next == Clock \/ AppNext \/ \E p \in Pollers : PollNext(p)

Spec == Init /\ [][Next]_vars

-----------------------------------------------------------------------------
(* Properties *)

(* The life of a timer as TimerContract states it. *)
Contract == INSTANCE TimerContract WITH
    status <- [t \in Timers |-> IF t \notin born THEN "unborn"
                                ELSE IF t \in m_timers THEN "armed" ELSE "gone"],
    recurring <- m_recurring

(* Timer lives follow the contract: a cancelled or fired one-shot timer    *)
(* never comes back, whoever refreshes or resets it concurrently, and a    *)
(* recurring one is never dropped by a listing.                            *)
ContractHolds == Contract!AbsSpec

(* A timer that is still armed has a callback to run when it is listed, so *)
(* idle() never schedules a null callback.                                 *)
ArmedHasCallback == \A t \in m_timers : m_cb[t]

(* m_tickled makes addTimer() skip the tickle.  It is set only while a      *)
(* wake-up is on its way or some poller is awake and will ask for the next *)
(* timer, so pollers that all sleep are always woken for a new front timer. *)
SkipOnlyWhenAwake ==
    m_tickled => atFront \/ tickled \/ \E p \in Pollers : ppc[p] # "wait"

(* iomanager.cc:404: idle() collects the timers that have expired; a step  *)
(* that lists a one-shot timer finds it due.                               *)
OnlyExpiredListed ==
    [][\A p \in Pollers, t \in Timers :
         /\ ppc[p] = "locked" /\ ppc'[p] = "away"
         /\ m_cb[t] /\ ~m_cb'[t]
         => m_next[t] <= nowMs[p]]_vars
=============================================================================
