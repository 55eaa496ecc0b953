----------------------------- MODULE TimerProofs -----------------------------
(***************************************************************************)
(* TimerManager implements TimerContract, keeps its types, never lists a   *)
(* timer without a callback and never skips a wake-up that is needed, for  *)
(* every set of timers and pollers, whatever the clock does.               *)
(***************************************************************************)
EXTENDS TimerManager, NatLemmas, TLAPS

(* Only constructed timers are in m_timers. *)
BornInv == m_timers \subseteq born /\ born \subseteq Timers

(* m_recurring is a Boolean of each timer. *)
RecurringInv == m_recurring \in [Timers -> BOOLEAN]

LEMMA ExpiredAreArmed ==
    ASSUME NEW n, NEW c
    PROVE  Expired(n, c) \subseteq m_timers
BY DEF Expired

LEMMA BornInit == Init => BornInv
BY DEF Init, BornInv

LEMMA BornStep == BornInv /\ [Next]_vars => BornInv'
<1> SUFFICES ASSUME BornInv, [Next]_vars
             PROVE  BornInv'
  OBVIOUS
<1> USE DEF BornInv
<1>1. CASE UNCHANGED vars
  BY <1>1 DEF vars
<1>2. CASE Clock \/ onTimerInsertedAtFront
  BY <1>2 DEF Clock, onTimerInsertedAtFront, timerVars
<1>3. ASSUME NEW t \in Timers, NEW ms \in Delays, NEW rec \in BOOLEAN, addTimer(t, ms, rec)
      PROVE  BornInv'
  BY <1>3 DEF addTimer
<1>4. ASSUME NEW t \in Timers, cancel(t) \/ refresh(t)
      PROVE  BornInv'
  BY <1>4 DEF cancel, refresh, Found
<1>5. ASSUME NEW t \in Timers, NEW ms \in Delays, NEW fn \in BOOLEAN, reset(t, ms, fn)
      PROVE  BornInv'
  BY <1>5 DEF reset, Found
<1>6. ASSUME NEW p \in Pollers, PollNext(p)
      PROVE  BornInv'
  <2>1. CASE EnterIdle(p) \/ Sleep(p) \/ Wake(p) \/ ReadNow(p)
    BY <2>1 DEF EnterIdle, Sleep, Wake, ReadNow, timerVars
  <2>2. CASE listExpiredCb(p)
    <3>1. PICK c : m_timers' =
             LET expired == IF m_timers = {} THEN {} ELSE Expired(nowMs[p], c)
             IN  (m_timers \ expired) \cup {t \in expired : m_recurring[t]}
      BY <2>2 DEF listExpiredCb
    <3>2. QED
      BY <2>2, <3>1, ExpiredAreArmed DEF listExpiredCb
  <2>3. QED
    BY <1>6, <2>1, <2>2 DEF PollNext
<1>7. QED
  BY <1>1, <1>2, <1>3, <1>4, <1>5, <1>6 DEF Next, AppNext

-----------------------------------------------------------------------------
(* The refinement mapping *)

Status == [t \in Timers |-> IF t \notin born THEN "unborn"
                            ELSE IF t \in m_timers THEN "armed" ELSE "gone"]

LEMMA RefineInit == Init => Contract!AbsInit
BY DEF Init, Contract!AbsInit

LEMMA RefineStep ==
    BornInv /\ RecurringInv /\ [Next]_vars
        => [Contract!AbsNext]_(Contract!absVars)
<1> SUFFICES ASSUME BornInv, RecurringInv, [Next]_vars
             PROVE  Contract!AbsNext \/ UNCHANGED Contract!absVars
  OBVIOUS
<1> USE DEF BornInv, RecurringInv
<1>1. ASSUME UNCHANGED <<born, m_timers, m_recurring>>
      PROVE  UNCHANGED Contract!absVars
  BY <1>1 DEF Contract!absVars
<1>2. CASE UNCHANGED vars
  BY <1>1, <1>2 DEF vars
<1>3. CASE Clock \/ onTimerInsertedAtFront
  BY <1>1, <1>3 DEF Clock, onTimerInsertedAtFront, timerVars
<1>4. ASSUME NEW t \in Timers, NEW ms \in Delays, NEW rec \in BOOLEAN, addTimer(t, ms, rec)
      PROVE  Contract!AbsNext
  <2>1. /\ t \notin born /\ born' = born \cup {t} /\ m_timers' = m_timers \cup {t}
        /\ m_recurring' = [m_recurring EXCEPT ![t] = rec]
    BY <1>4 DEF addTimer
  <2>2. Status' = [Status EXCEPT ![t] = "armed"] /\ Status[t] = "unborn"
    BY <2>1 DEF Status
  <2>3. Contract!Arm(t, rec)
    BY <2>1, <2>2 DEF Contract!Arm, Status
  <2>4. QED
    BY <2>3 DEF Contract!AbsNext
<1>5. ASSUME NEW t \in Timers, cancel(t)
      PROVE  Contract!AbsNext
  <2>1. t \in m_timers /\ m_timers' = m_timers \ {t} /\ UNCHANGED <<born, m_recurring>>
    BY <1>5 DEF cancel
  <2>2. Status' = [Status EXCEPT ![t] = "gone"] /\ Status[t] = "armed"
    BY <2>1 DEF Status
  <2>3. Contract!Cancel(t)
    BY <2>1, <2>2 DEF Contract!Cancel, Status
  <2>4. QED
    BY <2>3 DEF Contract!AbsNext
<1>6. ASSUME NEW t \in Timers, refresh(t)
      PROVE  UNCHANGED Contract!absVars
  <2>1. m_timers' = m_timers
    BY <1>6 DEF refresh, Found
  <2>2. QED
    BY <1>1, <1>6, <2>1 DEF refresh
<1>7. ASSUME NEW t \in Timers, NEW ms \in Delays, NEW fn \in BOOLEAN, reset(t, ms, fn)
      PROVE  UNCHANGED Contract!absVars
  <2>1. m_timers' = m_timers
    BY <1>7 DEF reset, Found
  <2>2. QED
    BY <1>1, <1>7, <2>1 DEF reset
<1>8. ASSUME NEW p \in Pollers, PollNext(p)
      PROVE  Contract!AbsNext \/ UNCHANGED Contract!absVars
  <2>1. CASE EnterIdle(p) \/ Sleep(p) \/ Wake(p) \/ ReadNow(p)
    BY <1>1, <2>1 DEF EnterIdle, Sleep, Wake, ReadNow, timerVars
  <2>2. CASE listExpiredCb(p)
    <3>1. PICK c : m_timers' =
             LET expired == IF m_timers = {} THEN {} ELSE Expired(nowMs[p], c)
             IN  (m_timers \ expired) \cup {t \in expired : m_recurring[t]}
      BY <2>2 DEF listExpiredCb
    <3>S. PICK S : S = IF m_timers = {} THEN {} ELSE Expired(nowMs[p], c)
      OBVIOUS
    <3>2. S \subseteq m_timers
      BY <3>S, ExpiredAreArmed
    <3>3. m_timers' = (m_timers \ S) \cup {t \in S : m_recurring[t]}
      BY <3>S, <3>1
    <3>4. UNCHANGED <<born, m_recurring>>
      BY <2>2 DEF listExpiredCb
    <3>5. Status' = [t \in Timers |-> IF t \in S /\ ~m_recurring[t] THEN "gone" ELSE Status[t]]
      BY <3>2, <3>3, <3>4 DEF Status
    <3>6. \A t \in S : Status[t] = "armed"
      BY <3>2 DEF Status
    <3>7. Contract!Fire(S)
      BY <3>4, <3>5, <3>6 DEF Contract!Fire, Status
    <3>8. S \in SUBSET Timers
      BY <3>2
    <3>9. QED
      BY <3>7, <3>8 DEF Contract!AbsNext
  <2>3. QED
    BY <1>8, <2>1, <2>2 DEF PollNext
<1>9. QED
  BY <1>2, <1>3, <1>4, <1>5, <1>6, <1>7, <1>8 DEF Next, AppNext

LEMMA RecurringInit == Init => RecurringInv
BY DEF Init, RecurringInv

LEMMA RecurringStep == RecurringInv /\ [Next]_vars => RecurringInv'
<1> SUFFICES ASSUME RecurringInv, [Next]_vars
             PROVE  RecurringInv'
  OBVIOUS
<1> USE DEF RecurringInv
<1>1. ASSUME UNCHANGED m_recurring
      PROVE  RecurringInv'
  BY <1>1
<1>2. CASE UNCHANGED vars \/ Clock \/ onTimerInsertedAtFront
  BY <1>1, <1>2 DEF vars, Clock, onTimerInsertedAtFront, timerVars
<1>3. ASSUME NEW t \in Timers, NEW ms \in Delays, NEW rec \in BOOLEAN, addTimer(t, ms, rec)
      PROVE  RecurringInv'
  BY <1>3 DEF addTimer
<1>4. ASSUME NEW t \in Timers, cancel(t) \/ refresh(t)
      PROVE  RecurringInv'
  BY <1>1, <1>4 DEF cancel, refresh
<1>5. ASSUME NEW t \in Timers, NEW ms \in Delays, NEW fn \in BOOLEAN, reset(t, ms, fn)
      PROVE  RecurringInv'
  BY <1>1, <1>5 DEF reset
<1>6. ASSUME NEW p \in Pollers, PollNext(p)
      PROVE  RecurringInv'
  BY <1>1, <1>6 DEF PollNext, EnterIdle, Sleep, Wake, ReadNow, listExpiredCb, timerVars
<1>7. QED
  BY <1>2, <1>3, <1>4, <1>5, <1>6 DEF Next, AppNext

(* ContractHolds: the timers of TimerManager live as TimerContract says.   *)
(* One-shot timers fire at most once, and cancelled or finished timers     *)
(* never come back, whichever threads cancel, refresh, reset and list them *)
(* concurrently and whatever the order of m_timers or the wall clock do.   *)
THEOREM TimersKeepContract == Spec => ContractHolds
<1>1. Spec => []BornInv
  BY BornInit, BornStep, PTL DEF Spec
<1>2. Spec => []RecurringInv
  BY RecurringInit, RecurringStep, PTL DEF Spec
<1>3. QED
  BY <1>1, <1>2, RefineInit, RefineStep, PTL DEF Spec, ContractHolds, Contract!AbsSpec

-----------------------------------------------------------------------------
(* Armed timers have a callback *)

CallbackInv == m_cb \in [Timers -> BOOLEAN] /\ ArmedHasCallback

LEMMA CallbackInit == Init => CallbackInv
BY DEF Init, CallbackInv, ArmedHasCallback

LEMMA CallbackStep ==
    BornInv /\ RecurringInv /\ CallbackInv /\ [Next]_vars => CallbackInv'
<1> SUFFICES ASSUME BornInv, RecurringInv, CallbackInv, [Next]_vars
             PROVE  CallbackInv'
  OBVIOUS
<1> USE DEF BornInv, CallbackInv, ArmedHasCallback
<1>1. ASSUME UNCHANGED m_cb, m_timers' \subseteq m_timers
      PROVE  CallbackInv'
  BY <1>1
<1>2. CASE UNCHANGED vars \/ Clock \/ onTimerInsertedAtFront
  BY <1>1, <1>2 DEF vars, Clock, onTimerInsertedAtFront, timerVars
<1>3. ASSUME NEW t \in Timers, NEW ms \in Delays, NEW rec \in BOOLEAN, addTimer(t, ms, rec)
      PROVE  CallbackInv'
  BY <1>3 DEF addTimer
<1>4. ASSUME NEW t \in Timers, cancel(t) \/ refresh(t)
      PROVE  CallbackInv'
  BY <1>1, <1>4 DEF cancel, refresh, Found
<1>5. ASSUME NEW t \in Timers, NEW ms \in Delays, NEW fn \in BOOLEAN, reset(t, ms, fn)
      PROVE  CallbackInv'
  BY <1>1, <1>5 DEF reset, Found
<1>6. ASSUME NEW p \in Pollers, PollNext(p)
      PROVE  CallbackInv'
  <2>1. CASE EnterIdle(p) \/ Sleep(p) \/ Wake(p) \/ ReadNow(p)
    BY <1>1, <2>1 DEF EnterIdle, Sleep, Wake, ReadNow, timerVars
  <2>2. CASE listExpiredCb(p)
    <3>1. PICK c : LET expired == IF m_timers = {} THEN {} ELSE Expired(nowMs[p], c) IN
             /\ m_timers' = (m_timers \ expired) \cup {t \in expired : m_recurring[t]}
             /\ m_cb' = [t \in Timers |-> m_cb[t] /\ t \notin Finished(expired)]
      BY <2>2 DEF listExpiredCb
    <3>S. PICK S : S = IF m_timers = {} THEN {} ELSE Expired(nowMs[p], c)
      OBVIOUS
    <3>2. S \subseteq m_timers
      BY <3>S, ExpiredAreArmed
    <3>3. /\ m_timers' = (m_timers \ S) \cup {t \in S : m_recurring[t]}
          /\ m_cb' = [t \in Timers |-> m_cb[t] /\ t \notin Finished(S)]
      BY <3>S, <3>1
    <3>4. \A t \in m_timers' : t \in m_timers /\ t \notin Finished(S)
      BY <3>2, <3>3 DEF Finished, RecurringInv
    <3>5. QED
      BY <3>3, <3>4
  <2>3. QED
    BY <1>6, <2>1, <2>2 DEF PollNext
<1>7. QED
  BY <1>2, <1>3, <1>4, <1>5, <1>6 DEF Next, AppNext

(* ArmedHasCallback: a timer in m_timers has a callback, so listExpiredCb() *)
(* never hands idle() a null function to schedule, although it clears the  *)
(* callback of a one-shot timer while other threads refresh and reset it.  *)
THEOREM ArmedTimersHaveCallbacks == Spec => []ArmedHasCallback
<1>1. Spec => []BornInv
  BY BornInit, BornStep, PTL DEF Spec
<1>2. Spec => []RecurringInv
  BY RecurringInit, RecurringStep, PTL DEF Spec
<1>3. CallbackInv => ArmedHasCallback
  BY DEF CallbackInv
<1>4. QED
  BY <1>1, <1>2, <1>3, CallbackInit, CallbackStep, PTL DEF Spec

-----------------------------------------------------------------------------
(* Types *)

(* A timer was set to go off m_ms[t] after some reading of the clock:      *)
(* reset() with from_now = false computes with that reading.               *)
StartInv == \A t \in Timers : m_next[t] - m_ms[t] \in 0..MaxNow

TypeInv == TypeOK /\ StartInv

(* begin() of a non-empty m_timers is one of its timers. *)
LEMMA FrontIsArmed ==
    ASSUME m_timers \subseteq Timers, m_timers # {}
    PROVE  FrontTimer \in m_timers
BY LeastNat, TimerAssumption DEF FrontTimer, Less

(* No delay exceeds the largest. *)
LEMMA LargestDelay == MaxDelay \in Nat /\ \A d \in Delays \cup {0} : d <= MaxDelay
<1>1. PICK d \in Delays \cup {0} : \A e \in Delays : e <= d
  BY TimerAssumption
<1>2. \A e \in Delays \cup {0} : d >= e
  BY <1>1, TimerAssumption
<1>3. MaxDelay \in Delays \cup {0} /\ \A e \in Delays \cup {0} : MaxDelay >= e
  BY <1>2 DEF Max, MaxDelay
<1>4. QED
  BY <1>3, TimerAssumption

(* A timer set at a reading of the clock goes off at one of Times. *)
LEMMA TimesOf ==
    ASSUME NEW n \in 0..MaxNow, NEW d \in Delays \cup {0}
    PROVE  n + d \in Times /\ (n + d) - d = n
BY LargestDelay, TimerAssumption DEF Times

(* idle() sleeps at most MAX_TIMEOUT, or for ever. *)
LEMMA EpollTimeoutBound ==
    ASSUME TypeOK
    PROVE  EpollTimeout \in Int /\ EpollTimeout <= MaxTimeout
<1>1. CASE m_timers = {}
  BY <1>1, TimerAssumption DEF EpollTimeout
<1>2. CASE m_timers # {}
  <2>1. m_next[FrontTimer] \in Int /\ now \in Int
    <3>1. FrontTimer \in Timers
      BY <1>2, FrontIsArmed DEF TypeOK
    <3>2. QED
      BY <3>1, LargestDelay, TimerAssumption DEF TypeOK, Times
  <2>2. getNextTimer \in Int
    BY <2>1 DEF getNextTimer
  <2>3. ToInt(getNextTimer) \in Int
    BY <2>2, TimerAssumption DEF ToInt
  <2>4. \A i, j \in Int : Min({i, j}) \in Int /\ Min({i, j}) <= j
    BY DEF Min
  <2>5. QED
    BY <1>2, <2>3, <2>4, TimerAssumption DEF EpollTimeout
<1>3. QED
  BY <1>1, <1>2

LEMMA TypeInit == Init => TypeInv
<1>1. 0 \in 0..MaxNow /\ 0 \in Times /\ 0 \in 0..(MaxNow + MaxTimeout)
  BY LargestDelay, TimerAssumption DEF Times
<1>2. Init => TypeOK
  BY <1>1 DEF Init, TypeOK
<1>3. Init => StartInv
  BY <1>1 DEF Init, StartInv
<1>4. QED
  BY <1>2, <1>3 DEF TypeInv

LEMMA TypeStep == TypeInv /\ [Next]_vars => TypeInv'
<1> SUFFICES ASSUME TypeInv, [Next]_vars
             PROVE  TypeInv'
  OBVIOUS
<1> USE DEF TypeInv, TypeOK, StartInv
<1>1. CASE UNCHANGED vars
  BY <1>1 DEF vars
<1>2. CASE Clock
  BY <1>2, TimerAssumption DEF Clock, timerVars, pollVars
<1>3. CASE onTimerInsertedAtFront
  BY <1>3 DEF onTimerInsertedAtFront, tickle, timerVars, pollVars
<1>4. ASSUME NEW t \in Timers, NEW ms \in Delays, NEW rec \in BOOLEAN, addTimer(t, ms, rec)
      PROVE  TypeInv'
  <2>1. now + ms \in Times /\ (now + ms) - ms = now
    BY TimesOf
  <2>2. StartInv'
    BY <1>4, <2>1 DEF addTimer
  <2>3. QED
    BY <1>4, <2>1, <2>2 DEF addTimer, insert, pollVars
<1>5. ASSUME NEW t \in Timers, cancel(t)
      PROVE  TypeInv'
  BY <1>5 DEF cancel, pollVars
<1>6. ASSUME NEW t \in Timers, refresh(t)
      PROVE  TypeInv'
  <2>1. now + m_ms[t] \in Times /\ (now + m_ms[t]) - m_ms[t] = now
    BY TimesOf
  <2>2. StartInv'
    BY <1>6, <2>1 DEF refresh
  <2>3. QED
    BY <1>6, <2>1, <2>2 DEF refresh, Found, pollVars
<1>7. ASSUME NEW t \in Timers, NEW ms \in Delays, NEW fn \in BOOLEAN, reset(t, ms, fn)
      PROVE  TypeInv'
  <2>1. PICK start \in 0..MaxNow : start = IF fn THEN now ELSE m_next[t] - m_ms[t]
    OBVIOUS
  <2>2. start + ms \in Times /\ (start + ms) - ms = start
    BY TimesOf
  <2>3. m_next' = [m_next EXCEPT ![t] = start + ms] /\ m_ms' = [m_ms EXCEPT ![t] = ms]
    BY <1>7, <2>1 DEF reset
  <2>4. StartInv'
    BY <2>2, <2>3
  <2>5. QED
    BY <1>7, <2>2, <2>3, <2>4 DEF reset, Found, insert, pollVars
<1>8. ASSUME NEW p \in Pollers, PollNext(p)
      PROVE  TypeInv'
  <2>1. CASE EnterIdle(p) \/ ReadNow(p)
    BY <2>1 DEF EnterIdle, ReadNow, timerVars
  <2>2. CASE Wake(p)
    <3>1. tickled' \in BOOLEAN
      BY <2>2 DEF Wake
    <3>2. deadline' \in [Pollers -> 0..(MaxNow + MaxTimeout) \cup {Forever}]
      BY <2>2, TimerAssumption DEF Wake
    <3>3. QED
      BY <2>2, <3>1, <3>2 DEF Wake, timerVars
  <2>3. CASE Sleep(p)
    <3>1. (IF EpollTimeout < 0 THEN Forever ELSE now + EpollTimeout)
             \in 0..(MaxNow + MaxTimeout) \cup {Forever}
      BY EpollTimeoutBound, TimerAssumption
    <3>2. QED
      BY <2>3, <3>1 DEF Sleep, timerVars
  <2>4. CASE listExpiredCb(p)
    <3>1. PICK c : LET expired == IF m_timers = {} THEN {} ELSE Expired(nowMs[p], c) IN
             /\ m_timers' = (m_timers \ expired) \cup {t \in expired : m_recurring[t]}
             /\ m_next' = [t \in Timers |-> IF t \in expired /\ m_recurring[t]
                                             THEN nowMs[p] + m_ms[t] ELSE m_next[t]]
             /\ m_cb' = [t \in Timers |-> m_cb[t] /\ t \notin Finished(expired)]
      BY <2>4 DEF listExpiredCb
    <3>S. PICK S : S = IF m_timers = {} THEN {} ELSE Expired(nowMs[p], c)
      OBVIOUS
    <3>2. S \subseteq m_timers
      BY <3>S, ExpiredAreArmed
    <3>3. /\ m_timers' = (m_timers \ S) \cup {t \in S : m_recurring[t]}
          /\ m_next' = [t \in Timers |-> IF t \in S /\ m_recurring[t]
                                          THEN nowMs[p] + m_ms[t] ELSE m_next[t]]
          /\ m_cb' = [t \in Timers |-> m_cb[t] /\ t \notin Finished(S)]
      BY <3>S, <3>1
    <3>4. \A t \in Timers : /\ nowMs[p] + m_ms[t] \in Times
                            /\ (nowMs[p] + m_ms[t]) - m_ms[t] = nowMs[p]
      BY TimesOf
    <3>5. m_next' \in [Timers -> Times] /\ StartInv'
      BY <2>4, <3>3, <3>4 DEF listExpiredCb
    <3>6. m_cb' \in [Timers -> BOOLEAN]
      BY <3>3
    <3>7. nowMs' \in [Pollers -> 0..MaxNow] /\ m_previousTime' \in 0..MaxNow
      BY <2>4, TimerAssumption DEF listExpiredCb
    <3>8. m_timers' \in SUBSET born'
      BY <2>4, <3>2, <3>3 DEF listExpiredCb
    <3>9. QED
      BY <2>4, <3>5, <3>6, <3>7, <3>8 DEF listExpiredCb
  <2>5. QED
    BY <1>8, <2>1, <2>2, <2>3, <2>4 DEF PollNext
<1>9. QED
  BY <1>1, <1>2, <1>3, <1>4, <1>5, <1>6, <1>7, <1>8 DEF Next, AppNext

(* TypeOK: the times that addTimer(), refresh(), reset() and listExpiredCb() *)
(* compute stay within the clock and the largest delay, and idle() sleeps  *)
(* at most MAX_TIMEOUT or, after a timeout that is negative as an int, for *)
(* ever.                                                                   *)
THEOREM TimerTypeCorrect == Spec => []TypeOK
BY TypeInit, TypeStep, PTL DEF Spec, TypeInv

-----------------------------------------------------------------------------
(* A tickle is skipped only when it is not needed *)

LEMMA SkipInit == Init => SkipOnlyWhenAwake
BY DEF Init, SkipOnlyWhenAwake

LEMMA SkipStep ==
    TypeOK /\ SkipOnlyWhenAwake /\ [Next]_vars => SkipOnlyWhenAwake'
<1> SUFFICES ASSUME TypeOK, SkipOnlyWhenAwake, [Next]_vars, m_tickled'
             PROVE  atFront' \/ tickled' \/ \E p \in Pollers : ppc'[p] # "wait"
  BY DEF SkipOnlyWhenAwake
<1> USE DEF TypeOK, SkipOnlyWhenAwake
<1>1. CASE UNCHANGED <<m_tickled, atFront, ppc, tickled>>
  BY <1>1
<1>2. CASE UNCHANGED vars \/ Clock
  BY <1>1, <1>2 DEF vars, Clock, pollVars
<1>3. CASE onTimerInsertedAtFront
  <2>1. tickled' = (tickled \/ \E p \in Pollers : ppc[p] # "away") /\ ppc' = ppc
    BY <1>3 DEF onTimerInsertedAtFront, tickle, pollVars
  <2>2. QED
    BY <2>1, TimerAssumption
<1>4. ASSUME ~atFront, \E B \in BOOLEAN : atFront' = (~m_tickled /\ B),
             m_tickled' = (m_tickled \/ atFront'), UNCHANGED <<ppc, tickled>>
      PROVE  atFront' \/ tickled' \/ \E p \in Pollers : ppc'[p] # "wait"
  BY <1>4
<1>5. ASSUME NEW t \in Timers, NEW ms \in Delays, NEW rec \in BOOLEAN, addTimer(t, ms, rec)
      PROVE  atFront' \/ tickled' \/ \E p \in Pollers : ppc'[p] # "wait"
  BY <1>4, <1>5 DEF addTimer, insert, pollVars
<1>6. ASSUME NEW t \in Timers, cancel(t) \/ refresh(t)
      PROVE  atFront' \/ tickled' \/ \E p \in Pollers : ppc'[p] # "wait"
  BY <1>1, <1>6 DEF cancel, refresh, pollVars
<1>7. ASSUME NEW t \in Timers, NEW ms \in Delays, NEW fn \in BOOLEAN, reset(t, ms, fn)
      PROVE  atFront' \/ tickled' \/ \E p \in Pollers : ppc'[p] # "wait"
  BY <1>4, <1>7 DEF reset, insert, pollVars
<1>8. ASSUME NEW p \in Pollers, PollNext(p)
      PROVE  atFront' \/ tickled' \/ \E q \in Pollers : ppc'[q] # "wait"
  <2>1. CASE Sleep(p)
    BY <2>1 DEF Sleep
  <2>2. CASE EnterIdle(p) \/ Wake(p) \/ ReadNow(p) \/ listExpiredCb(p)
    <3>1. \E pc \in {"next", "list", "locked", "away"} : ppc' = [ppc EXCEPT ![p] = pc]
      BY <2>2 DEF EnterIdle, Wake, ReadNow, listExpiredCb
    <3>2. ppc'[p] # "wait"
      BY <3>1
    <3>3. QED
      BY <3>2
  <2>3. QED
    BY <1>8, <2>1, <2>2 DEF PollNext
<1>9. QED
  BY <1>2, <1>3, <1>5, <1>6, <1>7, <1>8 DEF Next, AppNext

(* SkipOnlyWhenAwake: while m_tickled makes addTimer() skip the tickle, a  *)
(* wake-up is on its way or some thread is awake and will ask for the next *)
(* timer, however the steps of the threads that add timers and of the idle *)
(* fibers interleave.                                                      *)
THEOREM TickleSkippedOnlyWhenAwake == Spec => []SkipOnlyWhenAwake
<1>1. TypeInv => TypeOK
  BY DEF TypeInv
<1>2. QED
  BY <1>1, TypeInit, TypeStep, SkipInit, SkipStep, PTL DEF Spec

=============================================================================
