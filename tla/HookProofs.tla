----------------------------- MODULE HookProofs -----------------------------
(***************************************************************************)
(* Proofs about Hook, for every set of fds, fibers, timers and pollers: a  *)
(* call times out only by its own timer, a call that waits with a timeout  *)
(* has a timer on its way, and the FdCtx of an open socket is its own.     *)
(***************************************************************************)
EXTENDS Hook, FiniteSetTheorems, TLAPS

CallTypes ==
    /\ pc \in [Waiters -> PC]
    /\ call \in [Waiters -> Call]
    /\ cancelled \in [Waiters -> BOOLEAN]
    /\ fired \in [Waiters -> BOOLEAN]
    /\ timer \in [Timers -> Timer]

FdTypes ==
    /\ m_datas \in [Fds -> FdCtx \cup {None}]
    /\ isOpen \in [Fds -> BOOLEAN]
    /\ want \in [Fds -> FdCtx]

LEMMA FdTypesInit == Init => FdTypes
BY DEF Init, FdTypes, FdCtx, NewFdCtx

LEMMA FdTypesStep == FdTypes /\ [Next]_vars => FdTypes'
<1> SUFFICES ASSUME FdTypes, [Next]_vars
             PROVE  FdTypes'
  OBVIOUS
<1>1. CASE UNCHANGED fdVars
  BY <1>1 DEF FdTypes, fdVars
<1>2. CASE UNCHANGED vars \/ KernelNext \/ \E p \in Pollers : PollStep(p)
  BY <1>1, <1>2 DEF vars, hookVars, KernelNext, PollStep, fdVars
<1>3. ASSUME NEW f \in Fds, socket(f)
      PROVE  FdTypes'
  <2>1. NewFdCtx \in FdCtx /\ get(f) \in FdCtx
    BY DEF FdTypes, FdCtx, NewFdCtx, get
  <2>2. QED
    BY <1>3, <2>1 DEF socket, FdTypes
<1>4. ASSUME NEW f \in Fds, NEW v \in BOOLEAN, setUserNonblock(f, v)
      PROVE  FdTypes'
  <2>1. \A c \in FdCtx : [c EXCEPT !.userNonblock = v] \in FdCtx
    BY DEF FdCtx
  <2>2. QED
    BY <1>4, <2>1 DEF setUserNonblock, FdTypes
<1>5. ASSUME NEW f \in Fds, NEW e \in Used, setsockopt(f, e)
      PROVE  FdTypes'
  <2>1. \A c \in FdCtx : [c EXCEPT !.timed[e] = TRUE] \in FdCtx
    BY DEF FdCtx
  <2>2. QED
    BY <1>5, <2>1 DEF setsockopt, FdTypes
<1>6. ASSUME NEW w \in Waiters, NEW f \in Fds, \/ \E o \in IoOps : do_io(w, f, o)
                                               \/ connect(w, f)
                                               \/ close(w, f)
      PROVE  FdTypes'
  BY <1>1, <1>6 DEF do_io, connect, Enter, close
<1>7. ASSUME NEW w \in Waiters, FiberStep(w)
      PROVE  FdTypes'
  <2>1. CASE closeDel(w)
    BY <2>1 DEF closeDel, Del, FdTypes
  <2>2. CASE closeFd(w)
    BY <2>2 DEF closeFd, FdTypes
  <2>3. QED
    BY <1>1, <1>7, <2>1, <2>2 DEF FiberStep, tryIo, tryConnect, armTimer, addEvent,
       addEventFails, resume, checkIo, checkConnect
<1>8. ASSUME NEW t \in Timers, TimerStep(t)
      PROVE  FdTypes'
  BY <1>1, <1>8 DEF TimerStep, expire, callback, callbackMark, callbackCancel
<1>9. ASSUME NEW w \in Waiters, sleep(w)
      PROVE  FdTypes'
  BY <1>1, <1>9 DEF sleep
<1>10. QED
  BY <1>2, <1>3, <1>4, <1>5, <1>6, <1>7, <1>8, <1>9 DEF Next, AppNext

LEMMA CallTypesInit == Init => CallTypes
BY DEF Init, CallTypes, PC, Call, NoCall, AllOps, Timer, NoTimer, Events, READ

(* What a return leaves behind: no timer of the call. *)
LEMMA OrphanType ==
    ASSUME NEW w, NEW tm \in [Timers -> Timer]
    PROVE  /\ Orphan(w, tm) \in [Timers -> Timer]
           /\ \A t \in Timers : /\ Orphan(w, tm)[t].st = tm[t].st
                                /\ Orphan(w, tm)[t].owner = IF tm[t].owner = w THEN None ELSE tm[t].owner
BY DEF Orphan, Timer

LEMMA CancelTimerType ==
    ASSUME CallTypes, NEW w
    PROVE  /\ CancelTimer(w) \in [Timers -> Timer]
           /\ \A t \in Timers : CancelTimer(w)[t] \in {timer[t], NoTimer}
           /\ \A t \in Timers : timer[t].owner # w => CancelTimer(w)[t] = timer[t]
BY DEF CallTypes, CancelTimer, Timer, NoTimer, Events, READ

LEMMA NewTimerIsFree == CanArm => NewTimer \in Timers /\ timer[NewTimer].st = "none"
BY DEF CanArm, NewTimer

-----------------------------------------------------------------------------
(* Timers and their calls *)

(* A timer that has been listed has marked its call as one that may time    *)
(* out, if the call is still there: its callback can only mark that call.   *)
OwnInv ==
    /\ TimeoutIsOwn
    /\ \A t \in Timers, w \in Waiters :
         timer[t].owner = w /\ timer[t].st \in {"queued", "locked", "set"} => fired[w]

(* A timer of a call that has not marked it yet. *)
Coming(w) == \E t \in Timers : timer[t].owner = w /\ timer[t].st \in {"armed", "queued", "locked"}

(* From addConditionTimer() on, not only once it has yielded, a call with a *)
(* timeout is marked or has a timer that will mark it.                      *)
CoverInv ==
    \A w \in Waiters : pc[w] \in {"add", "wait"} /\ call[w].to => cancelled[w] \/ Coming(w)

TimerInv == CallTypes /\ OwnInv /\ CoverInv

LEMMA TimerInvInit == Init => TimerInv
<1>1. Init => OwnInv
  BY DEF Init, OwnInv, TimeoutIsOwn, NoTimer
<1>2. Init => CoverInv
  BY DEF Init, CoverInv
<1>3. QED
  BY <1>1, <1>2, CallTypesInit DEF TimerInv

LEMMA TimerSame ==
    TimerInv /\ UNCHANGED <<pc, call, cancelled, fired, timer>> => TimerInv'
BY DEF TimerInv, CallTypes, OwnInv, CoverInv, Coming, TimeoutIsOwn

(* A step of a fiber that leaves the timers alone and does not bring it to  *)
(* addEvent() keeps the invariant.                                          *)
LEMMA TimerMove ==
    ASSUME TimerInv, NEW w \in Waiters, NEW l \in PC, Goto(w, l),
           UNCHANGED <<cancelled, fired, timer>>,
           call' \in [Waiters -> Call],
           \A v \in Waiters \ {w} : call'[v] = call[v],
           \/ l \notin {"add", "wait"}
           \/ pc[w] \in {"add", "wait"} /\ call'[w] = call[w]
    PROVE  TimerInv'
<1>1. CallTypes'
  BY DEF TimerInv, CallTypes, Goto
<1>2. OwnInv'
  BY DEF TimerInv, OwnInv, TimeoutIsOwn
<1>3. CoverInv'
  <2> SUFFICES ASSUME NEW v \in Waiters, pc'[v] \in {"add", "wait"}, call'[v].to
               PROVE  cancelled[v] \/ Coming(v)
    BY DEF CoverInv, Coming
  <2>1. pc[v] \in {"add", "wait"} /\ call[v].to
    BY DEF Goto, TimerInv, CallTypes
  <2>2. QED
    BY <2>1 DEF TimerInv, CoverInv
<1>4. QED
  BY <1>1, <1>2, <1>3 DEF TimerInv

(* A call that returns leaves the timers of the other calls alone. *)
LEMMA TimerReturn ==
    ASSUME TimerInv, NEW w \in Waiters, NEW tm \in [Timers -> Timer], Return(w, tm),
           \A t \in Timers : tm[t] = timer[t] \/ (tm[t] = NoTimer /\ timer[t].owner = w)
    PROVE  TimerInv'
<1>1. CallTypes'
  BY OrphanType DEF TimerInv, CallTypes, Return, Goto, PC, Call, NoCall, AllOps
<1>2. \A t \in Timers : /\ timer'[t].st = tm[t].st
                        /\ timer'[t].owner = IF tm[t].owner = w THEN None ELSE tm[t].owner
  BY OrphanType DEF Return
<1>3. \A t \in Timers, v \in Waiters :
         timer'[t].owner = v => v # w /\ timer[t].owner = v /\ timer'[t].st = timer[t].st
  BY <1>2, HookAssumption DEF NoTimer
<1>4. \A v \in Waiters \ {w} : /\ fired'[v] = fired[v] /\ cancelled'[v] = cancelled[v]
                               /\ pc'[v] = pc[v] /\ call'[v] = call[v]
  BY DEF Return, Goto, TimerInv, CallTypes
<1>5. ~cancelled'[w] /\ pc'[w] = "app"
  BY DEF Return, Goto, TimerInv, CallTypes
<1>6. OwnInv'
  BY <1>3, <1>4, <1>5 DEF TimerInv, OwnInv, TimeoutIsOwn
<1>7. CoverInv'
  <2> SUFFICES ASSUME NEW v \in Waiters, pc'[v] \in {"add", "wait"}, call'[v].to, ~cancelled'[v]
               PROVE  Coming(v)'
    BY DEF CoverInv
  <2>1. v # w
    BY <1>5
  <2>2. PICK t \in Timers : timer[t].owner = v /\ timer[t].st \in {"armed", "queued", "locked"}
    BY <1>4, <2>1 DEF TimerInv, CoverInv, Coming
  <2>3. timer'[t].owner = v /\ timer'[t].st = timer[t].st
    BY <1>2, <2>1, <2>2
  <2>4. QED
    BY <2>2, <2>3 DEF Coming
<1>8. QED
  BY <1>1, <1>6, <1>7 DEF TimerInv

(* A new timer belongs to the call that makes it. *)
LEMMA TimerArm ==
    ASSUME TimerInv, NEW w \in Waiters, NEW l \in PC, Goto(w, l), CanArm,
           NEW tm \in Timer, tm.st = "armed", tm.owner = w,
           timer' = [timer EXCEPT ![NewTimer] = tm], UNCHANGED <<call, cancelled, fired>>
    PROVE  TimerInv'
<1>1. NewTimer \in Timers /\ timer[NewTimer].st = "none"
  BY NewTimerIsFree
<1>2. CallTypes'
  BY <1>1 DEF TimerInv, CallTypes, Goto
<1>3. \A t \in Timers : timer'[t] = IF t = NewTimer THEN tm ELSE timer[t]
  BY <1>1 DEF TimerInv, CallTypes
<1>4. OwnInv'
  BY <1>3 DEF TimerInv, OwnInv, TimeoutIsOwn
<1>5. CoverInv'
  <2> SUFFICES ASSUME NEW v \in Waiters, pc'[v] \in {"add", "wait"}, call'[v].to, ~cancelled'[v]
               PROVE  Coming(v)'
    BY DEF CoverInv
  <2>1. CASE v = w
    BY <1>1, <1>3, <2>1 DEF Coming
  <2>2. CASE v # w
    <3>1. pc[v] = pc'[v]
      BY <2>2 DEF Goto, TimerInv, CallTypes
    <3>2. PICK t \in Timers : timer[t].owner = v /\ timer[t].st \in {"armed", "queued", "locked"}
      BY <3>1 DEF TimerInv, CoverInv, Coming
    <3>3. timer'[t] = timer[t]
      BY <1>1, <1>3, <3>2
    <3>4. QED
      BY <3>2, <3>3 DEF Coming
  <2>3. QED
    BY <2>1, <2>2
<1>6. QED
  BY <1>2, <1>4, <1>5 DEF TimerInv

(* The steps of a timer and its callback. *)
LEMMA TimerCallbacks ==
    ASSUME TimerInv, NEW t \in Timers, TimerStep(t)
    PROVE  TimerInv'
<1>1. CASE expire(t)
  <2>1. /\ timer[t].st = "armed" /\ timer' = [timer EXCEPT ![t].st = "queued"]
        /\ fired' = [fired EXCEPT ![timer[t].owner] = TRUE]
        /\ UNCHANGED <<pc, call, cancelled>>
    BY <1>1 DEF expire
  <2>2. CallTypes'
    BY <2>1 DEF TimerInv, CallTypes, Timer
  <2>3. \A u \in Timers : /\ timer'[u].owner = timer[u].owner
                          /\ timer'[u].st = IF u = t THEN "queued" ELSE timer[u].st
    BY <2>1 DEF TimerInv, CallTypes, Timer
  <2>4. \A w \in Waiters : (fired[w] => fired'[w]) /\ (timer[t].owner = w => fired'[w])
    BY <2>1 DEF TimerInv, CallTypes
  <2>5. OwnInv'
    <3>1. TimeoutIsOwn'
      BY <2>1, <2>4 DEF TimerInv, OwnInv, TimeoutIsOwn
    <3>2. QED
      BY <2>3, <2>4, <3>1 DEF TimerInv, OwnInv
  <2>6. CoverInv'
    BY <2>1, <2>3 DEF TimerInv, CoverInv, Coming
  <2>7. QED
    BY <2>2, <2>5, <2>6 DEF TimerInv
<1>2. CASE callback(t)
  <2>t. /\ timer[t].st = "queued" /\ timer[t].owner \in Waiters \cup {None}
        /\ NoTimer \in Timer
    BY <1>2 DEF callback, TimerInv, CallTypes, Timer, NoTimer, Events, READ
  <2>1. CASE timer[t].owner # None /\ pc[timer[t].owner] = "asleep"
    <3>1. PICK w \in Waiters : w = timer[t].owner
      BY <2>t, <2>1
    <3>2. [timer EXCEPT ![t] = NoTimer] \in [Timers -> Timer]
      BY <2>t DEF TimerInv, CallTypes
    <3>3. Return(w, [timer EXCEPT ![t] = NoTimer])
      BY <1>2, <2>1, <3>1 DEF callback
    <3>4. QED
      BY <3>1, <3>2, <3>3, TimerReturn DEF TimerInv, CallTypes
  <2>2. CASE ~(timer[t].owner # None /\ pc[timer[t].owner] = "asleep")
    <3>1. /\ timer' = [timer EXCEPT ![t] = IF timer[t].owner = None \/ cancelled[timer[t].owner]
                                            THEN NoTimer ELSE [@ EXCEPT !.st = "locked"]]
          /\ UNCHANGED <<pc, call, cancelled, fired>>
      BY <1>2, <2>2 DEF callback, callVars
    <3>2. CallTypes'
      BY <2>t, <3>1 DEF TimerInv, CallTypes, Timer
    <3>3. \A u \in Timers : u # t => timer'[u] = timer[u]
      BY <3>1 DEF TimerInv, CallTypes
    <3>4. \/ timer'[t] = NoTimer /\ (timer[t].owner = None \/ cancelled[timer[t].owner])
          \/ timer'[t].owner = timer[t].owner /\ timer'[t].st = "locked"
      BY <3>1 DEF TimerInv, CallTypes, Timer
    <3>5. OwnInv'
      BY <2>t, <3>1, <3>3, <3>4 DEF TimerInv, OwnInv, TimeoutIsOwn, NoTimer
    <3>6. CoverInv'
      <4> SUFFICES ASSUME NEW v \in Waiters, pc[v] \in {"add", "wait"}, call[v].to, ~cancelled[v]
                   PROVE  Coming(v)'
        BY <3>1 DEF CoverInv
      <4>1. PICK u \in Timers : timer[u].owner = v /\ timer[u].st \in {"armed", "queued", "locked"}
        BY DEF TimerInv, CoverInv, Coming
      <4>2. timer'[u].owner = v /\ timer'[u].st \in {"armed", "queued", "locked"}
        BY <3>3, <3>4, <4>1, HookAssumption
      <4>3. QED
        BY <4>2 DEF Coming
    <3>7. QED
      BY <3>2, <3>5, <3>6 DEF TimerInv
  <2>3. QED
    BY <2>1, <2>2
<1>3. CASE callbackMark(t)
  <2>1. /\ timer[t].st = "locked" /\ timer' = [timer EXCEPT ![t].st = "set"]
        /\ cancelled' = [w \in Waiters |-> cancelled[w] \/ w = timer[t].owner]
        /\ UNCHANGED <<pc, call, fired>>
    BY <1>3 DEF callbackMark
  <2>2. CallTypes'
    BY <2>1 DEF TimerInv, CallTypes, Timer
  <2>3. \A u \in Timers : /\ timer'[u].owner = timer[u].owner
                          /\ timer'[u].st = IF u = t THEN "set" ELSE timer[u].st
    BY <2>1 DEF TimerInv, CallTypes, Timer
  <2>4. OwnInv'
    <3>1. ASSUME NEW w \in Waiters, cancelled'[w]
          PROVE  cancelled[w] \/ w = timer[t].owner
      BY <2>1, <3>1
    <3>2. TimeoutIsOwn'
      BY <2>1, <3>1 DEF TimerInv, OwnInv, TimeoutIsOwn
    <3>3. QED
      BY <2>1, <2>3, <3>2 DEF TimerInv, OwnInv
  <2>5. CoverInv'
    <3> SUFFICES ASSUME NEW v \in Waiters, pc[v] \in {"add", "wait"}, call[v].to, ~cancelled'[v]
                 PROVE  Coming(v)'
      BY <2>1 DEF CoverInv
    <3>1. ~cancelled[v] /\ v # timer[t].owner
      BY <2>1
    <3>2. PICK u \in Timers : timer[u].owner = v /\ timer[u].st \in {"armed", "queued", "locked"}
      BY <3>1 DEF TimerInv, CoverInv, Coming
    <3>3. timer'[u].owner = v /\ timer'[u].st = timer[u].st
      BY <2>3, <3>1, <3>2
    <3>4. QED
      BY <3>2, <3>3 DEF Coming
  <2>6. QED
    BY <2>2, <2>4, <2>5 DEF TimerInv
<1>4. CASE callbackCancel(t)
  <2>1. /\ timer[t].st = "set" /\ timer' = [timer EXCEPT ![t] = NoTimer]
        /\ UNCHANGED <<pc, call, cancelled, fired>>
    BY <1>4 DEF callbackCancel, callVars
  <2>2. CallTypes'
    BY <2>1 DEF TimerInv, CallTypes, Timer, NoTimer, Events, READ
  <2>3. \A u \in Timers : timer'[u] = IF u = t THEN NoTimer ELSE timer[u]
    BY <2>1 DEF TimerInv, CallTypes
  <2>4. OwnInv'
    BY <2>1, <2>3 DEF TimerInv, OwnInv, TimeoutIsOwn, NoTimer
  <2>5. CoverInv'
    BY <2>1, <2>3 DEF TimerInv, CoverInv, Coming
  <2>6. QED
    BY <2>2, <2>4, <2>5 DEF TimerInv
<1>5. QED
  BY <1>1, <1>2, <1>3, <1>4 DEF TimerStep

(* The steps of a fiber in a call. *)
LEMMA TimerFiber ==
    ASSUME TimerInv, NEW w \in Waiters, FiberStep(w)
    PROVE  TimerInv'
<1>t. CallTypes /\ timer \in [Timers -> Timer] /\ call \in [Waiters -> Call]
  BY DEF TimerInv, CallTypes
<1>0. Return(w, timer) => TimerInv'
  BY <1>t, TimerReturn
<1>m. ASSUME NEW l \in PC \ {"add", "wait"}, Goto(w, l), UNCHANGED <<call, cancelled, fired, timer>>
      PROVE  TimerInv'
  BY <1>t, <1>m, TimerMove
<1>1. CASE tryIo(w) \/ tryConnect(w)
  <2>1. CASE Goto(w, "arm") /\ UNCHANGED <<call, cancelled, fired, timer>>
    BY <1>m, <2>1 DEF PC
  <2>2. QED
    BY <1>0, <1>1, <2>1 DEF tryIo, tryConnect, callVars
<1>2. CASE armTimer(w)
  <2>1. CASE call[w].to
    <3>1. PICK tm : tm = [st |-> "armed", owner |-> w, fd |-> Fd(w), event |-> Kind(w)]
      OBVIOUS
    <3>2. tm \in Timer /\ tm.st = "armed" /\ tm.owner = w
      BY <1>t, <3>1 DEF Timer, Fd, Kind, Call, Event, Events
    <3>3. /\ CanArm /\ timer' = [timer EXCEPT ![NewTimer] = tm] /\ Goto(w, "add")
          /\ UNCHANGED <<call, cancelled, fired>>
      BY <1>2, <2>1, <3>1 DEF armTimer, callVars
    <3>4. "add" \in PC
      BY DEF PC
    <3>5. QED
      BY <3>2, <3>3, <3>4, TimerArm
  <2>2. CASE ~call[w].to
    <3>1. Goto(w, "add") /\ UNCHANGED <<call, cancelled, fired, timer>>
      BY <1>2, <2>2 DEF armTimer, callVars
    <3>2. CallTypes'
      BY <3>1 DEF TimerInv, CallTypes, Goto, PC
    <3>3. OwnInv'
      BY <3>1 DEF TimerInv, OwnInv, TimeoutIsOwn
    <3>4. CoverInv'
      BY <2>2, <3>1 DEF TimerInv, CallTypes, CoverInv, Coming, Goto
    <3>5. QED
      BY <3>2, <3>3, <3>4 DEF TimerInv
  <2>3. QED
    BY <2>1, <2>2
<1>3. CASE addEvent(w)
  <2>1. /\ pc[w] = "add" /\ Goto(w, "wait") /\ "wait" \in PC
        /\ UNCHANGED <<call, cancelled, fired, timer>>
    BY <1>3 DEF addEvent, callVars, PC
  <2>2. QED
    BY <1>t, <2>1, TimerMove
<1>4. CASE addEventFails(w)
  <2>1. Return(w, CancelTimer(w))
    BY <1>4 DEF addEventFails
  <2>2. \A t \in Timers : \/ CancelTimer(w)[t] = timer[t]
                          \/ CancelTimer(w)[t] = NoTimer /\ timer[t].owner = w
    BY DEF CancelTimer
  <2>3. QED
    BY <1>t, <2>1, <2>2, CancelTimerType, TimerReturn
<1>5. CASE resume(w)
  <2>1. /\ timer' = CancelTimer(w) /\ Goto(w, "check")
        /\ UNCHANGED <<call, cancelled, fired>>
    BY <1>5 DEF resume, callVars
  <2>2. CallTypes'
    BY <1>t, <2>1, CancelTimerType DEF CallTypes, Goto, PC
  <2>3. \A t \in Timers : /\ timer'[t] = timer[t] \/ timer'[t] = NoTimer
                          /\ timer[t].owner # w => timer'[t] = timer[t]
    BY <1>t, <2>1, CancelTimerType
  <2>4. OwnInv'
    BY <2>1, <2>3 DEF TimerInv, OwnInv, TimeoutIsOwn, NoTimer
  <2>5. CoverInv'
    <3> SUFFICES ASSUME NEW v \in Waiters, pc'[v] \in {"add", "wait"}, call'[v].to, ~cancelled'[v]
                 PROVE  Coming(v)'
      BY DEF CoverInv
    <3>1. v # w /\ pc[v] = pc'[v]
      BY <1>t, <2>1 DEF Goto, CallTypes
    <3>2. PICK t \in Timers : timer[t].owner = v /\ timer[t].st \in {"armed", "queued", "locked"}
      BY <2>1, <3>1 DEF TimerInv, CoverInv, Coming
    <3>3. timer'[t] = timer[t]
      BY <2>3, <3>1, <3>2
    <3>4. QED
      BY <3>2, <3>3 DEF Coming
  <2>6. QED
    BY <2>2, <2>4, <2>5 DEF TimerInv
<1>6. CASE checkIo(w)
  <2>1. CASE Goto(w, "try") /\ UNCHANGED <<call, cancelled, fired, timer>>
    BY <1>m, <2>1 DEF PC
  <2>2. QED
    BY <1>0, <1>6, <2>1 DEF checkIo, callVars, Retry
<1>7. CASE checkConnect(w)
  BY <1>0, <1>7 DEF checkConnect
<1>8. CASE closeDel(w)
  <2>1. Goto(w, "close") /\ UNCHANGED <<call, cancelled, fired, timer>>
    BY <1>8 DEF closeDel, callVars
  <2>2. QED
    BY <1>m, <2>1 DEF PC
<1>9. CASE closeFd(w)
  <2>1. /\ Goto(w, "app") /\ "app" \in PC /\ NoCall \in Call
        /\ call' = [call EXCEPT ![w] = NoCall] /\ UNCHANGED <<cancelled, fired, timer>>
    BY <1>9 DEF closeFd, PC, NoCall, Call, AllOps
  <2>2. QED
    BY <1>t, <2>1, TimerMove
<1>10. QED
  BY <1>1, <1>2, <1>3, <1>4, <1>5, <1>6, <1>7, <1>8, <1>9 DEF FiberStep

LEMMA TimerInvStep == FdTypes /\ TimerInv /\ [Next]_vars => TimerInv'
<1> SUFFICES ASSUME FdTypes, TimerInv, [Next]_vars
             PROVE  TimerInv'
  OBVIOUS
<1>t. CallTypes /\ timer \in [Timers -> Timer] /\ call \in [Waiters -> Call]
  BY DEF TimerInv, CallTypes
<1>1. CASE UNCHANGED vars \/ KernelNext \/ \E p \in Pollers : PollStep(p)
  BY <1>1, TimerSame DEF vars, hookVars, KernelNext, PollStep
<1>2. ASSUME NEW f \in Fds, \/ socket(f)
                            \/ \E v \in BOOLEAN : setUserNonblock(f, v)
                            \/ \E e \in Used : setsockopt(f, e)
      PROVE  TimerInv'
  BY <1>2, TimerSame DEF socket, setUserNonblock, setsockopt, callVars
<1>3. ASSUME NEW w \in Waiters, NEW f \in Fds, NEW o \in IoOps, NEW to, to \in BOOLEAN,
             Enter(w, f, o, to)
      PROVE  TimerInv'
  <2>1. [op |-> o, fd |-> f, to |-> to] \in Call
    BY <1>3 DEF Call, AllOps
  <2>2. /\ Goto(w, "try") /\ "try" \in PC
        /\ call' = [call EXCEPT ![w] = [op |-> o, fd |-> f, to |-> to]]
        /\ UNCHANGED <<cancelled, fired, timer>>
    BY <1>3 DEF Enter, PC
  <2>3. call' \in [Waiters -> Call] /\ \A v \in Waiters \ {w} : call'[v] = call[v]
    BY <1>t, <2>1, <2>2
  <2>4. QED
    BY <2>2, <2>3, TimerMove
<1>4. ASSUME NEW w \in Waiters, sleep(w)
      PROVE  TimerInv'
  <2>1. PICK tm : tm = [NoTimer EXCEPT !.st = "armed", !.owner = w]
    OBVIOUS
  <2>2. tm \in Timer /\ tm.st = "armed" /\ tm.owner = w
    BY <2>1 DEF Timer, NoTimer, Events, READ
  <2>3. /\ CanArm /\ timer' = [timer EXCEPT ![NewTimer] = tm] /\ Goto(w, "asleep")
        /\ "asleep" \in PC /\ UNCHANGED <<call, cancelled, fired>>
    BY <1>4, <2>1 DEF sleep, callVars, PC
  <2>4. QED
    BY <2>2, <2>3, TimerArm
<1>5. ASSUME NEW w \in Waiters, NEW f \in Fds, close(w, f)
      PROVE  TimerInv'
  <2>1. [NoCall EXCEPT !.fd = f] \in Call
    BY DEF NoCall, Call, AllOps
  <2>2. /\ Goto(w, "del") /\ "del" \in PC
        /\ call' = [call EXCEPT ![w] = [NoCall EXCEPT !.fd = f]]
        /\ UNCHANGED <<cancelled, fired, timer>>
    BY <1>5 DEF close, PC
  <2>3. call' \in [Waiters -> Call] /\ \A v \in Waiters \ {w} : call'[v] = call[v]
    BY <1>t, <2>1, <2>2
  <2>4. QED
    BY <2>2, <2>3, TimerMove
<1>6. ASSUME NEW w \in Waiters, FiberStep(w)
      PROVE  TimerInv'
  BY <1>6, TimerFiber
<1>7. ASSUME NEW t \in Timers, TimerStep(t)
      PROVE  TimerInv'
  BY <1>7, TimerCallbacks
<1>8. ASSUME NEW w \in Waiters, NEW f \in Fds, NEW o \in IoOps, do_io(w, f, o) \/ connect(w, f)
      PROVE  TimerInv'
  <2>1. CASE connect(w, f)
    BY <1>3, <2>1 DEF connect, IoOps
  <2>2. CASE do_io(w, f, o)
    <3>1. m_datas[f].timed[Event(o)] \in BOOLEAN
      BY <2>2 DEF do_io, FdTypes, FdCtx, Event, Events
    <3>2. QED
      BY <1>3, <2>2, <3>1 DEF do_io
  <2>3. QED
    BY <1>8, <2>1, <2>2
<1>9. QED
  BY <1>1, <1>2, <1>4, <1>5, <1>6, <1>7, <1>8 DEF Next, AppNext, IoOps

LEMMA TimerInvAlways == Spec => []TimerInv
<1>1. Spec => []FdTypes
  BY FdTypesInit, FdTypesStep, PTL DEF Spec
<1>2. QED
  BY <1>1, TimerInvInit, TimerInvStep, PTL DEF Spec

(* TimeoutIsOwn: do_io() and connect() report ETIMEDOUT only after a timer  *)
(* of that very call was listed as expired: however late its callback runs, *)
(* and however often the fiber has called since, it marks no other call.    *)
THEOREM TimeoutsAreOwn == Spec => []TimeoutIsOwn
<1>1. TimerInv => TimeoutIsOwn
  BY DEF TimerInv, OwnInv
<1>2. QED
  BY <1>1, TimerInvAlways, PTL

(* TimedWaitCovered: a fiber that has yielded in a call with a timeout has  *)
(* a timer, or a callback on its way, that will mark the call, or has been  *)
(* marked: no retry and no race with a late callback leaves it waiting      *)
(* without one.                                                             *)
THEOREM TimedWaitsCovered == Spec => []TimedWaitCovered
<1>1. TimerInv => TimedWaitCovered
  BY DEF TimerInv, CoverInv, Coming, TimedWaitCovered
<1>2. QED
  BY <1>1, TimerInvAlways, PTL

-----------------------------------------------------------------------------
(* The FdCtx of a socket *)

Closer(w, f) == pc[w] \in {"del", "close"} /\ Fd(w) = f

(* A number that is not open has no FdCtx and nobody closes it; one fiber   *)
(* at a time closes a socket; until it has called del() the FdCtx is what   *)
(* the application has set, and afterwards there is none.                   *)
SettingsInv ==
    /\ \A f \in Fds : ~isOpen[f] => m_datas[f] = None /\ \A w \in Waiters : ~Closer(w, f)
    /\ \A f \in Fds, v, w \in Waiters : Closer(v, f) /\ Closer(w, f) => v = w
    /\ \A w \in Waiters : pc[w] = "close" => Fd(w) \in Fds /\ m_datas[Fd(w)] = None
    /\ \A w \in Waiters : pc[w] = "del" => Fd(w) \in Fds
    /\ \A f \in Fds :
         isOpen[f] /\ (\A w \in Waiters : pc[w] = "close" => Fd(w) # f) => m_datas[f] = want[f]

LEMMA SettingsInit == Init => SettingsInv
BY DEF Init, SettingsInv, Closer

(* Steps that leave the FdCtxs and the closers alone. *)
LEMMA SettingsSame ==
    ASSUME SettingsInv, UNCHANGED fdVars,
           \A w \in Waiters : pc'[w] \in {"del", "close"} => pc'[w] = pc[w] /\ Fd(w)' = Fd(w),
           \A w \in Waiters : pc[w] \in {"del", "close"} => pc'[w] = pc[w] /\ Fd(w)' = Fd(w)
    PROVE  SettingsInv'
BY DEF SettingsInv, Closer, fdVars

LEMMA SettingsStep ==
    FdTypes /\ CallTypes /\ SettingsInv /\ [Next]_vars => SettingsInv'
<1> SUFFICES ASSUME FdTypes, CallTypes, SettingsInv, [Next]_vars
             PROVE  SettingsInv'
  OBVIOUS
<1>s. ASSUME NEW w \in Waiters, NEW l \in PC, pc[w] \notin {"del", "close"}, l \notin {"del", "close"},
             Goto(w, l), \A v \in Waiters \ {w} : call'[v] = call[v], UNCHANGED fdVars
      PROVE  SettingsInv'
  BY <1>s, SettingsSame DEF Goto, CallTypes, Fd
<1>r. ASSUME NEW w \in Waiters, NEW tm, pc[w] \notin {"del", "close"}, Return(w, tm),
             UNCHANGED fdVars
      PROVE  SettingsInv'
  BY <1>r, <1>s DEF Return, CallTypes, PC
<1>1. CASE UNCHANGED <<fdVars, pc, call>>
  BY <1>1, SettingsSame DEF Fd
<1>2. CASE UNCHANGED vars \/ KernelNext \/ \E p \in Pollers : PollStep(p)
  BY <1>1, <1>2 DEF vars, hookVars, KernelNext, PollStep, fdVars
<1>3. ASSUME NEW f \in Fds, socket(f)
      PROVE  SettingsInv'
  <2>1. /\ ~isOpen[f] /\ isOpen' = [isOpen EXCEPT ![f] = TRUE]
        /\ m_datas' = [m_datas EXCEPT ![f] = NewFdCtx]
        /\ want' = [want EXCEPT ![f] = NewFdCtx] /\ UNCHANGED <<pc, call>>
    BY <1>3 DEF socket, get, SettingsInv, callVars
  <2>2. \A w \in Waiters : ~Closer(w, f)
    BY <2>1 DEF SettingsInv
  <2>3. QED
    BY <2>1, <2>2 DEF SettingsInv, Closer, FdTypes, Fd
<1>4. ASSUME NEW f \in Fds, NEW c \in FdCtx, Usable(f), UNCHANGED <<isOpen, pc, call>>,
             m_datas[f] = want[f] => m_datas' = [m_datas EXCEPT ![f] = c],
             want' = [want EXCEPT ![f] = c]
      PROVE  SettingsInv'
  <2>1. isOpen[f] /\ \A w \in Waiters : ~Closer(w, f)
    BY <1>4 DEF Usable, Closing, Closer
  <2>2. m_datas[f] = want[f]
    BY <2>1 DEF SettingsInv, Closer
  <2>3. QED
    BY <1>4, <2>1, <2>2 DEF SettingsInv, Closer, FdTypes, Fd
<1>5. ASSUME NEW f \in Fds, NEW v \in BOOLEAN, setUserNonblock(f, v)
      PROVE  SettingsInv'
  <2>1. PICK c : c = [want[f] EXCEPT !.userNonblock = v]
    OBVIOUS
  <2>2. c \in FdCtx /\ want' = [want EXCEPT ![f] = c]
    BY <1>5, <2>1 DEF setUserNonblock, FdTypes, FdCtx
  <2>3. m_datas[f] = want[f] => m_datas' = [m_datas EXCEPT ![f] = c]
    <3> SUFFICES ASSUME m_datas[f] = want[f]
                 PROVE  m_datas' = [m_datas EXCEPT ![f] = c]
      OBVIOUS
    <3>1. m_datas[f] # None
      BY HookAssumption DEF FdTypes
    <3>2. m_datas' = [m_datas EXCEPT ![f] = [m_datas[f] EXCEPT !.userNonblock = v]]
      BY <1>5, <3>1 DEF setUserNonblock
    <3>3. QED
      BY <2>1, <3>2
  <2>4. QED
    BY <1>4, <1>5, <2>2, <2>3 DEF setUserNonblock, callVars
<1>6. ASSUME NEW f \in Fds, NEW e \in Used, setsockopt(f, e)
      PROVE  SettingsInv'
  <2>1. PICK c : c = [want[f] EXCEPT !.timed[e] = TRUE]
    OBVIOUS
  <2>2. c \in FdCtx /\ want' = [want EXCEPT ![f] = c]
    BY <1>6, <2>1 DEF setsockopt, FdTypes, FdCtx
  <2>3. m_datas[f] = want[f] => m_datas' = [m_datas EXCEPT ![f] = c]
    <3> SUFFICES ASSUME m_datas[f] = want[f]
                 PROVE  m_datas' = [m_datas EXCEPT ![f] = c]
      OBVIOUS
    <3>1. m_datas[f] # None
      BY HookAssumption DEF FdTypes
    <3>2. m_datas' = [m_datas EXCEPT ![f] = [m_datas[f] EXCEPT !.timed[e] = TRUE]]
      BY <1>6, <3>1 DEF setsockopt
    <3>3. QED
      BY <2>1, <3>2
  <2>4. QED
    BY <1>4, <1>6, <2>2, <2>3 DEF setsockopt, callVars
<1>7. ASSUME NEW w \in Waiters, NEW f \in Fds, NEW o, NEW to, Enter(w, f, o, to)
      PROVE  SettingsInv'
  BY <1>7, <1>s DEF Enter, CallTypes, PC
<1>8. ASSUME NEW w \in Waiters, sleep(w)
      PROVE  SettingsInv'
  BY <1>8, <1>s DEF sleep, callVars, PC
<1>9. ASSUME NEW w \in Waiters, NEW f \in Fds, close(w, f)
      PROVE  SettingsInv'
  <2>1. /\ pc[w] = "app" /\ pc' = [pc EXCEPT ![w] = "del"] /\ Usable(f)
        /\ call' = [call EXCEPT ![w] = [NoCall EXCEPT !.fd = f]] /\ UNCHANGED fdVars
    BY <1>9 DEF close, Goto
  <2>2. isOpen[f] /\ \A v \in Waiters : ~Closer(v, f)
    BY <2>1 DEF Usable, Closing, Closer
  <2>3. \A v \in Waiters : /\ v # w => pc'[v] = pc[v] /\ Fd(v)' = Fd(v)
                           /\ pc'[w] = "del" /\ Fd(w)' = f
    BY <2>1 DEF CallTypes, Fd, NoCall
  <2>4. QED
    BY <2>1, <2>2, <2>3 DEF SettingsInv, Closer, fdVars
<1>10. ASSUME NEW w \in Waiters, closeDel(w)
      PROVE  SettingsInv'
  <2>1. /\ pc[w] = "del" /\ pc' = [pc EXCEPT ![w] = "close"] /\ Fd(w) \in Fds
        /\ m_datas' = [m_datas EXCEPT ![Fd(w)] = None] /\ UNCHANGED <<isOpen, want, call>>
    BY <1>10 DEF closeDel, Del, Goto, callVars, SettingsInv
  <2>2. \A v \in Waiters : Fd(v)' = Fd(v) /\ pc'[v] = IF v = w THEN "close" ELSE pc[v]
    BY <2>1 DEF CallTypes, Fd
  <2>3. \A f \in Fds : m_datas'[f] = IF f = Fd(w) THEN None ELSE m_datas[f]
    BY <2>1 DEF FdTypes
  <2>4. \A v \in Waiters, f \in Fds : Closer(v, f)' <=> Closer(v, f)
    BY <2>1, <2>2 DEF Closer
  <2>5. \A v \in Waiters : pc'[v] = "close" => Fd(v)' \in Fds /\ m_datas'[Fd(v)'] = None
    BY <2>1, <2>2, <2>3 DEF SettingsInv
  <2>6. \A f \in Fds : isOpen'[f] /\ (\A v \in Waiters : pc'[v] = "close" => Fd(v)' # f)
                          => m_datas'[f] = want'[f]
    BY <2>1, <2>2, <2>3 DEF SettingsInv
  <2>7. QED
    BY <2>1, <2>2, <2>3, <2>4, <2>5, <2>6 DEF SettingsInv
<1>11. ASSUME NEW w \in Waiters, closeFd(w)
      PROVE  SettingsInv'
  <2>1. /\ pc[w] = "close" /\ pc' = [pc EXCEPT ![w] = "app"] /\ Fd(w) \in Fds
        /\ m_datas[Fd(w)] = None /\ Closer(w, Fd(w))
        /\ isOpen' = [isOpen EXCEPT ![Fd(w)] = FALSE]
        /\ call' = [call EXCEPT ![w] = NoCall] /\ UNCHANGED <<m_datas, want>>
    BY <1>11 DEF closeFd, Goto, SettingsInv, Closer
  <2>2. \A v \in Waiters : /\ v # w => pc'[v] = pc[v] /\ Fd(v)' = Fd(v)
                           /\ pc'[w] = "app"
    BY <2>1 DEF CallTypes, Fd
  <2>3. \A v \in Waiters : v # w => ~Closer(v, Fd(w))
    BY <2>1 DEF SettingsInv
  <2>4. \A f \in Fds : isOpen'[f] = IF f = Fd(w) THEN FALSE ELSE isOpen[f]
    BY <2>1 DEF FdTypes
  <2>5. \A f \in Fds, v \in Waiters : Closer(v, f)' => v # w /\ f # Fd(w) /\ Closer(v, f)
    BY <2>2, <2>3 DEF Closer
  <2>6. \A f \in Fds : ~isOpen'[f] => m_datas'[f] = None /\ \A v \in Waiters : ~Closer(v, f)'
    BY <2>1, <2>4, <2>5 DEF SettingsInv
  <2>7. \A f \in Fds : isOpen'[f] /\ (\A v \in Waiters : pc'[v] = "close" => Fd(v)' # f)
                          => m_datas'[f] = want'[f]
    <3> SUFFICES ASSUME NEW f \in Fds, isOpen'[f],
                        \A v \in Waiters : pc'[v] = "close" => Fd(v)' # f
                 PROVE  m_datas[f] = want[f]
      BY <2>1
    <3>1. f # Fd(w) /\ isOpen[f]
      BY <2>4
    <3>2. \A v \in Waiters : pc[v] = "close" => Fd(v) # f
      BY <2>2, <3>1
    <3>3. QED
      BY <3>1, <3>2 DEF SettingsInv
  <2>8. QED
    BY <2>1, <2>2, <2>5, <2>6, <2>7 DEF SettingsInv
<1>12. ASSUME NEW w \in Waiters, FiberStep(w)
       PROVE  SettingsInv'
  <2>1. CASE tryIo(w) \/ tryConnect(w)
    <3>1. pc[w] = "try" /\ UNCHANGED fdVars
      BY <2>1 DEF tryIo, tryConnect
    <3>2. CASE Goto(w, "arm") /\ UNCHANGED call
      BY <1>s, <3>1, <3>2 DEF PC
    <3>3. QED
      BY <1>r, <2>1, <3>1, <3>2 DEF tryIo, tryConnect, callVars
  <2>2. CASE armTimer(w)
    BY <1>s, <2>2 DEF armTimer, callVars, PC
  <2>3. CASE addEvent(w)
    BY <1>s, <2>3 DEF addEvent, callVars, PC
  <2>4. CASE addEventFails(w)
    BY <1>r, <2>4 DEF addEventFails
  <2>5. CASE resume(w)
    BY <1>s, <2>5 DEF resume, callVars, PC
  <2>6. CASE checkIo(w) \/ checkConnect(w)
    <3>1. pc[w] = "check" /\ UNCHANGED fdVars
      BY <2>6 DEF checkIo, checkConnect
    <3>2. CASE Goto(w, "try") /\ UNCHANGED call
      BY <1>s, <3>1, <3>2 DEF PC
    <3>3. QED
      BY <1>r, <2>6, <3>1, <3>2 DEF checkIo, checkConnect, callVars, Retry
  <2>7. QED
    BY <1>10, <1>11, <1>12, <2>1, <2>2, <2>3, <2>4, <2>5, <2>6 DEF FiberStep
<1>13. ASSUME NEW t \in Timers, TimerStep(t)
       PROVE  SettingsInv'
  <2>1. CASE callback(t)
    <3>1. timer[t].owner \in Waiters \cup {None}
      BY DEF CallTypes, Timer
    <3>2. CASE timer[t].owner # None /\ pc[timer[t].owner] = "asleep"
      BY <1>r, <2>1, <3>1, <3>2 DEF callback
    <3>3. CASE ~(timer[t].owner # None /\ pc[timer[t].owner] = "asleep")
      BY <1>1, <2>1, <3>3 DEF callback, callVars
    <3>4. QED
      BY <3>2, <3>3
  <2>2. QED
    BY <1>1, <1>13, <2>1 DEF TimerStep, expire, callbackMark, callbackCancel, callVars
<1>14. QED
  BY <1>2, <1>3, <1>5, <1>6, <1>7, <1>8, <1>9, <1>12, <1>13 DEF Next, AppNext, do_io, connect

(* SettingsHold: the FdCtx of an open socket that nobody closes is what the *)
(* application has set on it: del() and close_f() of one fiber, and socket()*)
(* handing the number out again to another, never leave it with the flags   *)
(* or the timeouts of an earlier socket.                                    *)
THEOREM SettingsAreOwn == Spec => []SettingsHold
<1>1. Spec => []FdTypes
  BY FdTypesInit, FdTypesStep, PTL DEF Spec
<1>2. TimerInv => CallTypes
  BY DEF TimerInv
<1>3. SettingsInv => SettingsHold
  BY DEF SettingsInv, SettingsHold, Usable, Closing, Closer
<1>4. QED
  BY <1>1, <1>2, <1>3, TimerInvAlways, SettingsInit, SettingsStep, PTL DEF Spec

-----------------------------------------------------------------------------
(* Types *)

(* A fiber in do_io() or connect() works on an fd, and so does a callback   *)
(* that gets to cancelEvent(): the timer of a sleep has no fd, but finds    *)
(* its fiber asleep or gone.                                                *)
InIo == {"try", "arm", "add", "wait", "check"}

FdInv ==
    /\ \A w \in Waiters : pc[w] \in InIo => Fd(w) \in Fds
    /\ \A t \in Timers : timer[t].st \in {"locked", "set"} => timer[t].fd \in Fds
    /\ \A t \in Timers, w \in Waiters :
         timer[t].owner = w /\ timer[t].st \in {"queued", "armed"}
            => timer[t].fd \in Fds \/ pc[w] = "asleep"

LEMMA FdInvInit == Init => FdInv
BY DEF Init, FdInv, InIo, NoTimer

LEMMA FdInvSame == FdInv /\ UNCHANGED <<pc, call, timer>> => FdInv'
BY DEF FdInv, Fd

(* A fiber that is not asleep moves. *)
LEMMA FdInvMove ==
    ASSUME CallTypes, FdInv, NEW w \in Waiters, NEW l \in PC, Goto(w, l), pc[w] # "asleep",
           \A v \in Waiters \ {w} : call'[v] = call[v],
           l \in InIo => Fd(w)' \in Fds,
           timer' \in [Timers -> Timer],
           \A t \in Timers : timer'[t] \in {timer[t], NoTimer}
    PROVE  FdInv'
<1>1. \A v \in Waiters : pc'[v] = IF v = w THEN l ELSE pc[v]
  BY DEF Goto, CallTypes
<1>2. \A v \in Waiters : v # w => Fd(v)' = Fd(v)
  BY DEF Fd
<1>3. \A v \in Waiters : pc'[v] \in InIo => Fd(v)' \in Fds
  BY <1>1, <1>2 DEF FdInv
<1>4. \A t \in Timers : timer'[t].st \in {"locked", "set"} => timer'[t].fd \in Fds
  BY DEF FdInv, NoTimer
<1>5. \A t \in Timers, v \in Waiters :
         timer'[t].owner = v /\ timer'[t].st \in {"queued", "armed"}
            => timer'[t].fd \in Fds \/ pc'[v] = "asleep"
  BY <1>1 DEF FdInv, NoTimer
<1>6. QED
  BY <1>3, <1>4, <1>5 DEF FdInv

LEMMA FdInvReturn ==
    ASSUME CallTypes, FdInv, NEW w \in Waiters, NEW tm \in [Timers -> Timer], Return(w, tm),
           \A t \in Timers : tm[t] \in {timer[t], NoTimer}
    PROVE  FdInv'
<1>1. \A t \in Timers : /\ timer'[t].st = tm[t].st /\ timer'[t].fd = tm[t].fd
                        /\ timer'[t].owner = IF tm[t].owner = w THEN None ELSE tm[t].owner
  BY DEF Return, Orphan, Timer
<1>2. \A v \in Waiters : v # w => pc'[v] = pc[v] /\ Fd(v)' = Fd(v)
  BY DEF Return, Goto, CallTypes, Fd
<1>3. pc'[w] = "app"
  BY DEF Return, Goto, CallTypes
<1>4. \A v \in Waiters : pc'[v] \in InIo => Fd(v)' \in Fds
  BY <1>2, <1>3 DEF FdInv, InIo
<1>5. \A t \in Timers : timer'[t].st \in {"locked", "set"} => timer'[t].fd \in Fds
  BY <1>1 DEF FdInv, NoTimer
<1>6. \A t \in Timers, v \in Waiters :
         timer'[t].owner = v /\ timer'[t].st \in {"queued", "armed"}
            => timer'[t].fd \in Fds \/ pc'[v] = "asleep"
  <2> SUFFICES ASSUME NEW t \in Timers, NEW v \in Waiters,
                      timer'[t].owner = v, timer'[t].st \in {"queued", "armed"}
               PROVE  timer'[t].fd \in Fds \/ pc'[v] = "asleep"
    OBVIOUS
  <2>1. v # w /\ tm[t].owner = v /\ tm[t] = timer[t]
    BY <1>1, HookAssumption DEF NoTimer
  <2>2. QED
    BY <1>1, <1>2, <2>1 DEF FdInv
<1>7. QED
  BY <1>4, <1>5, <1>6 DEF FdInv

LEMMA FdInvStep == TimerInv /\ FdInv /\ [Next]_vars => FdInv'
<1> SUFFICES ASSUME TimerInv, FdInv, [Next]_vars
             PROVE  FdInv'
  OBVIOUS
<1>t. CallTypes /\ timer \in [Timers -> Timer] /\ NoTimer \in Timer
  BY DEF TimerInv, CallTypes, NoTimer, Timer, Events, READ
<1>m. ASSUME NEW w \in Waiters, NEW l \in PC, Goto(w, l), pc[w] # "asleep", l \in InIo => Fd(w) \in Fds,
             UNCHANGED <<call, timer>>
      PROVE  FdInv'
  BY <1>m, <1>t, FdInvMove DEF Fd
<1>r. ASSUME NEW w \in Waiters, Return(w, timer)
      PROVE  FdInv'
  BY <1>r, <1>t, FdInvReturn
<1>1. CASE UNCHANGED vars \/ KernelNext \/ \E p \in Pollers : PollStep(p)
  BY <1>1, FdInvSame DEF vars, hookVars, KernelNext, PollStep
<1>2. ASSUME NEW f \in Fds, \/ socket(f)
                            \/ \E v \in BOOLEAN : setUserNonblock(f, v)
                            \/ \E e \in Used : setsockopt(f, e)
      PROVE  FdInv'
  BY <1>2, FdInvSame DEF socket, setUserNonblock, setsockopt, callVars
<1>3. ASSUME NEW w \in Waiters, NEW f \in Fds, NEW o, NEW to, Enter(w, f, o, to)
      PROVE  FdInv'
  <2>1. /\ pc[w] = "app" /\ Goto(w, "try") /\ "try" \in PC /\ UNCHANGED timer
        /\ call' = [call EXCEPT ![w] = [op |-> o, fd |-> f, to |-> to]]
    BY <1>3 DEF Enter, PC
  <2>2. Fd(w)' = f /\ \A v \in Waiters \ {w} : call'[v] = call[v]
    BY <1>t, <2>1 DEF Fd, CallTypes
  <2>3. QED
    BY <1>t, <2>1, <2>2, FdInvMove
<1>4. ASSUME NEW w \in Waiters, sleep(w)
      PROVE  FdInv'
  <2>1. PICK tm : tm = [NoTimer EXCEPT !.st = "armed", !.owner = w]
    OBVIOUS
  <2>2. /\ CanArm /\ timer' = [timer EXCEPT ![NewTimer] = tm] /\ Goto(w, "asleep")
        /\ UNCHANGED call /\ pc[w] = "app"
    BY <1>4, <2>1 DEF sleep, callVars
  <2>3. \A t \in Timers : timer'[t] = IF t = NewTimer THEN tm ELSE timer[t]
    BY <1>t, <2>2, NewTimerIsFree
  <2>4. \A v \in Waiters : pc'[v] = IF v = w THEN "asleep" ELSE pc[v]
    BY <1>t, <2>2 DEF Goto, CallTypes
  <2>5. tm.st = "armed" /\ tm.owner = w
    BY <2>1 DEF NoTimer
  <2>6. \A v \in Waiters : pc'[v] \in InIo => Fd(v)' \in Fds
    BY <2>2, <2>4 DEF FdInv, Fd, InIo
  <2>7. \A t \in Timers : timer'[t].st \in {"locked", "set"} => timer'[t].fd \in Fds
    BY <2>3, <2>5 DEF FdInv
  <2>8. \A t \in Timers, v \in Waiters :
           timer'[t].owner = v /\ timer'[t].st \in {"queued", "armed"}
              => timer'[t].fd \in Fds \/ pc'[v] = "asleep"
    BY <2>2, <2>3, <2>4, <2>5 DEF FdInv
  <2>9. QED
    BY <2>6, <2>7, <2>8 DEF FdInv
<1>5. ASSUME NEW w \in Waiters, NEW f \in Fds, close(w, f)
      PROVE  FdInv'
  <2>1. /\ pc[w] = "app" /\ Goto(w, "del") /\ "del" \in PC /\ "del" \notin InIo /\ UNCHANGED timer
        /\ call' = [call EXCEPT ![w] = [NoCall EXCEPT !.fd = f]]
    BY <1>5 DEF close, PC, InIo
  <2>2. \A v \in Waiters \ {w} : call'[v] = call[v]
    BY <1>t, <2>1 DEF CallTypes
  <2>3. QED
    BY <1>t, <2>1, <2>2, FdInvMove
<1>6. ASSUME NEW w \in Waiters, FiberStep(w)
      PROVE  FdInv'
  <2>1. CASE tryIo(w) \/ tryConnect(w)
    <3>1. CASE Goto(w, "arm") /\ UNCHANGED <<call, timer>>
      <4>1. pc[w] = "try" /\ Fd(w) \in Fds /\ "arm" \in PC
        BY <2>1 DEF tryIo, tryConnect, FdInv, InIo, PC
      <4>2. QED
        BY <1>m, <3>1, <4>1
    <3>2. QED
      BY <1>r, <2>1, <3>1 DEF tryIo, tryConnect, callVars
  <2>2. CASE armTimer(w)
    <3>1. /\ pc[w] = "arm" /\ Fd(w) \in Fds /\ "add" \in PC /\ Goto(w, "add") /\ UNCHANGED call
      BY <2>2 DEF armTimer, callVars, FdInv, InIo, PC
    <3>2. CASE call[w].to
      <4>1. PICK tm : tm = [st |-> "armed", owner |-> w, fd |-> Fd(w), event |-> Kind(w)]
        OBVIOUS
      <4>2. CanArm /\ timer' = [timer EXCEPT ![NewTimer] = tm]
        BY <2>2, <3>2, <4>1 DEF armTimer
      <4>3. \A t \in Timers : timer'[t] = IF t = NewTimer THEN tm ELSE timer[t]
        BY <1>t, <4>2, NewTimerIsFree
      <4>4. \A v \in Waiters : pc'[v] = IF v = w THEN "add" ELSE pc[v]
        BY <1>t, <3>1 DEF Goto, CallTypes
      <4>5. tm.st = "armed" /\ tm.fd \in Fds
        BY <3>1, <4>1
      <4>6. \A v \in Waiters : pc'[v] \in InIo => Fd(v)' \in Fds
        BY <3>1, <4>4 DEF FdInv, Fd, InIo
      <4>7. \A t \in Timers : timer'[t].st \in {"locked", "set"} => timer'[t].fd \in Fds
        BY <4>3, <4>5 DEF FdInv
      <4>8. \A t \in Timers, v \in Waiters :
               timer'[t].owner = v /\ timer'[t].st \in {"queued", "armed"}
                  => timer'[t].fd \in Fds \/ pc'[v] = "asleep"
        BY <3>1, <4>3, <4>4, <4>5 DEF FdInv
      <4>9. QED
        BY <4>6, <4>7, <4>8 DEF FdInv
    <3>3. CASE ~call[w].to
      BY <1>m, <2>2, <3>1, <3>3 DEF armTimer
    <3>4. QED
      BY <3>2, <3>3
  <2>3. CASE addEvent(w)
    <3>1. pc[w] = "add" /\ Fd(w) \in Fds /\ "wait" \in PC
      BY <2>3 DEF addEvent, FdInv, InIo, PC
    <3>2. QED
      BY <1>m, <2>3, <3>1 DEF addEvent, callVars
  <2>4. CASE addEventFails(w)
    BY <1>t, <2>4, CancelTimerType, FdInvReturn DEF addEventFails
  <2>5. CASE resume(w)
    <3>1. /\ pc[w] = "wait" /\ Fd(w) \in Fds /\ "check" \in PC /\ UNCHANGED call
          /\ Goto(w, "check") /\ timer' = CancelTimer(w)
      BY <2>5 DEF resume, callVars, FdInv, InIo, PC
    <3>2. QED
      BY <1>t, <3>1, CancelTimerType, FdInvMove DEF Fd
  <2>6. CASE checkIo(w)
    <3>1. pc[w] = "check" /\ Fd(w) \in Fds /\ "try" \in PC
      BY <2>6 DEF checkIo, FdInv, InIo, PC
    <3>2. QED
      BY <1>m, <1>r, <2>6, <3>1 DEF checkIo, callVars, Retry
  <2>7. CASE checkConnect(w)
    BY <1>r, <2>7 DEF checkConnect
  <2>8. CASE closeDel(w)
    <3>1. pc[w] = "del" /\ "close" \in PC /\ "close" \notin InIo
      BY <2>8 DEF closeDel, InIo, PC
    <3>2. QED
      BY <1>m, <2>8, <3>1 DEF closeDel, callVars
  <2>9. CASE closeFd(w)
    <3>1. /\ pc[w] = "close" /\ "app" \in PC /\ "app" \notin InIo /\ Goto(w, "app")
          /\ call' = [call EXCEPT ![w] = NoCall] /\ UNCHANGED timer
      BY <2>9 DEF closeFd, InIo, PC
    <3>2. \A v \in Waiters \ {w} : call'[v] = call[v]
      BY <1>t, <3>1 DEF CallTypes
    <3>3. QED
      BY <1>t, <3>1, <3>2, FdInvMove
  <2>10. QED
    BY <1>6, <2>1, <2>2, <2>3, <2>4, <2>5, <2>6, <2>7, <2>8, <2>9 DEF FiberStep
<1>7. ASSUME NEW t \in Timers, TimerStep(t)
      PROVE  FdInv'
  <2>c. ASSUME UNCHANGED <<pc, call>>, NEW tm, timer' = [timer EXCEPT ![t] = tm],
               tm.st \in {"locked", "set"} => tm.fd \in Fds,
               \A w \in Waiters : tm.owner = w /\ tm.st \in {"queued", "armed"}
                                     => tm.fd \in Fds \/ pc[w] = "asleep"
        PROVE  FdInv'
    <3>1. \A u \in Timers : timer'[u] = IF u = t THEN tm ELSE timer[u]
      BY <1>t, <2>c
    <3>2. QED
      BY <2>c, <3>1 DEF FdInv, Fd
  <2>1. CASE expire(t)
    <3>1. PICK tm : tm = [timer[t] EXCEPT !.st = "queued"]
      OBVIOUS
    <3>2. /\ timer' = [timer EXCEPT ![t] = tm] /\ timer[t].st = "armed"
          /\ UNCHANGED <<pc, call>>
      BY <2>1, <3>1 DEF expire
    <3>3. tm.st = "queued" /\ tm.owner = timer[t].owner /\ tm.fd = timer[t].fd
      BY <1>t, <3>1 DEF Timer
    <3>4. QED
      BY <2>c, <3>2, <3>3, ZenonT(30) DEF FdInv
  <2>2. CASE callback(t)
    <3>1. timer[t].owner \in Waiters \cup {None} /\ timer[t].st = "queued"
      BY <1>t, <2>2 DEF callback, Timer
    <3>2. CASE timer[t].owner # None /\ pc[timer[t].owner] = "asleep"
      <4>1. [timer EXCEPT ![t] = NoTimer] \in [Timers -> Timer]
        BY <1>t
      <4>2. Return(timer[t].owner, [timer EXCEPT ![t] = NoTimer])
        BY <2>2, <3>2 DEF callback
      <4>3. \A u \in Timers : [timer EXCEPT ![t] = NoTimer][u] \in {timer[u], NoTimer}
        BY <1>t
      <4>4. QED
        BY <1>t, <3>1, <3>2, <4>1, <4>2, <4>3, FdInvReturn
    <3>3. CASE ~(timer[t].owner # None /\ pc[timer[t].owner] = "asleep")
      <4>1. PICK tm : tm = IF timer[t].owner = None \/ cancelled[timer[t].owner]
                           THEN NoTimer ELSE [timer[t] EXCEPT !.st = "locked"]
        OBVIOUS
      <4>2. timer' = [timer EXCEPT ![t] = tm] /\ UNCHANGED <<pc, call>>
        BY <2>2, <3>3, <4>1 DEF callback, callVars
      <4>3. \/ tm.st = "none"
            \/ tm.st = "locked" /\ tm.fd = timer[t].fd /\ timer[t].owner # None
        BY <1>t, <4>1 DEF NoTimer, Timer
      <4>4. tm.st = "locked" => tm.fd \in Fds
        BY <3>1, <3>3, <4>3 DEF FdInv
      <4>5. QED
        BY <2>c, <4>2, <4>3, <4>4
    <3>4. QED
      BY <3>2, <3>3
  <2>3. CASE callbackMark(t)
    <3>1. PICK tm : tm = [timer[t] EXCEPT !.st = "set"]
      OBVIOUS
    <3>2. /\ timer' = [timer EXCEPT ![t] = tm] /\ timer[t].st = "locked"
          /\ UNCHANGED <<pc, call>>
      BY <2>3, <3>1 DEF callbackMark
    <3>3. tm.st = "set" /\ tm.fd = timer[t].fd
      BY <1>t, <3>1 DEF Timer
    <3>4. QED
      BY <2>c, <3>2, <3>3 DEF FdInv
  <2>4. CASE callbackCancel(t)
    <3>1. timer' = [timer EXCEPT ![t] = NoTimer] /\ UNCHANGED <<pc, call>> /\ NoTimer.st = "none"
      BY <2>4 DEF callbackCancel, callVars, NoTimer
    <3>2. QED
      BY <2>c, <3>1
  <2>5. QED
    BY <1>7, <2>1, <2>2, <2>3, <2>4 DEF TimerStep
<1>8. QED
  BY <1>1, <1>2, <1>3, <1>4, <1>5, <1>6, <1>7 DEF Next, AppNext, do_io, connect

(* The state of the IOManager.  Nobody calls delEvent(), so the count of    *)
(* pending events is exact, and never negative.                             *)
Report == Events \cup {IO!HUP}

IoTypes ==
    /\ events \in [Fds -> SUBSET Events]
    /\ context \in [Fds -> [Events -> Waiters \cup {None}]]
    /\ task \in [Waiters -> {"free", "waiting"}]
    /\ batch \in [Pollers -> [Fds -> SUBSET Report]]
    /\ interest \in [Fds -> SUBSET Events]
    /\ ready \in [Fds -> SUBSET Report]
    /\ rdllist \subseteq Fds
    /\ aborted \in BOOLEAN

InUse == {fe \in Fds \X Events : context[fe[1]][fe[2]] # None}

IoInv == IoTypes /\ m_pendingEventCount = Cardinality(InUse)

LEMMA IoEvents == IO!Events = Events /\ \A es \in SUBSET Events : IsFiniteSet(es)
<1>1. IO!Events = Events
  BY DEF IO!Events, IO!READ, IO!WRITE, Events, READ, WRITE
<1>2. IsFiniteSet({READ}) /\ {READ} \cup {WRITE} = Events
  BY FS_Singleton DEF Events
<1>3. IsFiniteSet(Events)
  BY <1>2, FS_AddElement
<1>4. QED
  BY <1>1, <1>3, FS_Subset

LEMMA InUseFinite == IsFiniteSet(InUse) /\ Cardinality(InUse) \in Nat
<1>1. IsFiniteSet(Events)
  BY IoEvents
<1>2. IsFiniteSet(Fds \X Events)
  BY <1>1, FS_Product, HookAssumption
<1>3. IsFiniteSet(InUse)
  BY <1>2, FS_Subset DEF InUse
<1>4. QED
  BY <1>3, FS_CardinalityType

LEMMA IoInit == Init => IoInv
<1> SUFFICES ASSUME Init
             PROVE  IoInv
  OBVIOUS
<1>1. InUse = {} /\ m_pendingEventCount = 0
  BY IoEvents DEF Init, IO!Init, InUse
<1>2. IoTypes
  BY IoEvents DEF Init, IO!Init, IoTypes
<1>3. QED
  BY <1>1, <1>2, FS_EmptySet DEF IoInv

LEMMA IoSame == IoInv /\ UNCHANGED ioVars => IoInv'
BY DEF IoInv, IoTypes, InUse, ioVars

LEMMA IoAbort == IoInv /\ IO!Abort => IoInv'
BY DEF IoInv, IoTypes, InUse, IO!Abort, IO!appVars

(* Triggering events that have a waiter. *)
LEMMA IoTrigger ==
    ASSUME IoInv, NEW f \in Fds, NEW es \in SUBSET Events, IO!Triggerable(f, es),
           IO!triggerEvent(f, es),
           IO!epoll_ctl_del(f) \/ IO!epoll_ctl_left(f, events[f] \ es),
           batch' \in [Pollers -> [Fds -> SUBSET Report]], UNCHANGED <<ready, aborted>>
    PROVE  IoInv'
<1>1. \A e \in es : context[f][e] # None
  BY DEF IO!Triggerable
<1>2. /\ events' = [events EXCEPT ![f] = events[f] \ es]
      /\ context' = [context EXCEPT ![f] = [e \in Events |-> IF e \in es THEN None ELSE context[f][e]]]
      /\ task' = [w \in Waiters |-> IF \E e \in es : context[f][e] = w THEN "free" ELSE task[w]]
      /\ m_pendingEventCount' = m_pendingEventCount - Cardinality(es)
  <2>1. context' = [context EXCEPT ![f] = [e \in IO!Events |-> IF e \in es THEN None ELSE context[f][e]]]
    BY DEF IO!triggerEvent, IoInv, IoTypes
  <2>2. IO!Events = Events
    BY IoEvents
  <2>3. context' = [context EXCEPT ![f] = [e \in Events |-> IF e \in es THEN None ELSE context[f][e]]]
    BY <2>1, <2>2
  <2>4. events' = [events EXCEPT ![f] = events[f] \ es]
    BY DEF IO!triggerEvent, IO!BitsCleared
  <2>5. task' = [w \in Waiters |-> IF \E e \in es : context[f][e] = w THEN "free" ELSE task[w]]
    BY DEF IO!triggerEvent
  <2>6. m_pendingEventCount' = m_pendingEventCount - Cardinality(es)
    BY DEF IO!triggerEvent, IO!CountDown, IO!Cardinality, Cardinality
  <2>7. QED
    BY <2>3, <2>4, <2>5, <2>6
<1>3. interest' \in [Fds -> SUBSET Events] /\ rdllist' \subseteq Fds
  BY DEF IO!epoll_ctl_del, IO!epoll_ctl_left, IO!epoll_ctl_set, IoInv, IoTypes
<1>4. IoTypes'
  BY <1>2, <1>3 DEF IoInv, IoTypes
<1>5. \A g \in Fds, d \in Events :
         context'[g][d] = IF g = f /\ d \in es THEN None ELSE context[g][d]
  BY <1>2 DEF IoInv, IoTypes
<1> DEFINE D == {f} \X es
<1>6. InUse' = InUse \ D /\ InUse \cap D = D
  BY <1>1, <1>5 DEF InUse
<1>7. Cardinality(D) = Cardinality(es)
  <2>1. IsFiniteSet(es) /\ Cardinality(es) \in Nat
    BY IoEvents, FS_CardinalityType
  <2>2. IsFiniteSet({f}) /\ Cardinality({f}) = 1
    BY FS_Singleton
  <2>3. Cardinality(D) = Cardinality({f}) * Cardinality(es)
    BY <2>1, <2>2, FS_Product
  <2>4. QED
    BY <2>1, <2>2, <2>3
<1> HIDE DEF D
<1>8. Cardinality(InUse \ D) = Cardinality(InUse) - Cardinality(InUse \cap D)
  BY InUseFinite, FS_Difference
<1>9. QED
  BY <1>2, <1>4, <1>6, <1>7, <1>8 DEF IoInv

LEMMA IoCancelEvent ==
    ASSUME IoInv, NEW f \in Fds, NEW e \in Events, IO!cancelEvent(f, e)
    PROVE  IoInv'
<1>1. CASE IO!Abort
  BY <1>1, IoAbort
<1>2. CASE ~IO!Abort
  <2>1. /\ IO!Triggerable(f, {e}) /\ IO!triggerEvent(f, {e})
        /\ IO!epoll_ctl_left(f, events[f] \ {e})
        /\ UNCHANGED <<batch, ready, aborted>>
    BY <1>2 DEF IO!cancelEvent
  <2>2. {e} \in SUBSET Events /\ batch' \in [Pollers -> [Fds -> SUBSET Report]]
    BY <2>1 DEF IoInv, IoTypes
  <2>3. QED
    BY <2>1, <2>2, IoTrigger
<1>3. QED
  BY <1>1, <1>2

LEMMA IoCancelAll ==
    ASSUME IoInv, NEW f \in Fds, IO!cancelAll(f)
    PROVE  IoInv'
<1>1. CASE IO!Abort
  BY <1>1, IoAbort
<1>2. CASE ~IO!Abort
  <2>1. /\ IO!Triggerable(f, events[f]) /\ IO!triggerEvent(f, events[f])
        /\ IO!epoll_ctl_del(f) /\ UNCHANGED <<batch, ready, aborted>>
    BY <1>2 DEF IO!cancelAll
  <2>2. PICK es \in SUBSET Events : es = events[f]
    BY DEF IoInv, IoTypes
  <2>3. IO!Triggerable(f, es) /\ IO!triggerEvent(f, es)
    BY <2>1, <2>2
  <2>4. batch' \in [Pollers -> [Fds -> SUBSET Report]]
    BY <2>1 DEF IoInv, IoTypes
  <2>5. QED
    BY <2>1, <2>3, <2>4, IoTrigger
<1>3. QED
  BY <1>1, <1>2

LEMMA IoAddEvent ==
    ASSUME IoInv, NEW w \in Waiters, NEW f \in Fds, NEW e \in Events, IO!addEvent(w, f, e)
    PROVE  IoInv'
<1>1. CASE IO!Abort
  BY <1>1, IoAbort
<1>2. CASE ~IO!Abort
  <2>1. /\ context[f][e] = None
        /\ interest' = [interest EXCEPT ![f] = events[f] \cup {e}]
        /\ rdllist' \subseteq rdllist \cup {f}
        /\ events' = [events EXCEPT ![f] = events[f] \cup {e}]
        /\ context' = [context EXCEPT ![f][e] = w]
        /\ task' = [task EXCEPT ![w] = "waiting"]
        /\ m_pendingEventCount' = m_pendingEventCount + 1
        /\ UNCHANGED <<batch, ready, aborted>>
    BY <1>2 DEF IO!addEvent, IO!epoll_ctl_set
  <2>2. IoTypes'
    BY <2>1 DEF IoInv, IoTypes
  <2>3. \A g \in Fds, d \in Events :
           context'[g][d] = IF g = f /\ d = e THEN w ELSE context[g][d]
    BY <2>1 DEF IoInv, IoTypes
  <2>4. InUse' = InUse \cup {<<f, e>>} /\ <<f, e>> \notin InUse
    BY <2>1, <2>3, HookAssumption DEF InUse
  <2>5. Cardinality(InUse') = Cardinality(InUse) + 1
    BY <2>4, InUseFinite, FS_AddElement
  <2>6. QED
    BY <2>1, <2>2, <2>5 DEF IoInv
<1>3. QED
  BY <1>1, <1>2

LEMMA IoPoll ==
    ASSUME IoInv, NEW p \in Pollers, IO!PollNext(p)
    PROVE  IoInv'
<1>1. CASE IO!epoll_wait(p)
  <2>1. IoTypes'
    BY <1>1 DEF IO!epoll_wait, IO!appVars, IoInv, IoTypes, Report
  <2>2. InUse' = InUse /\ m_pendingEventCount' = m_pendingEventCount
    BY <1>1 DEF IO!epoll_wait, IO!appVars, InUse
  <2>3. QED
    BY <2>1, <2>2 DEF IoInv
<1>2. ASSUME NEW f \in Fds, IO!HandleEvent(p, f)
      PROVE  IoInv'
  <2>1. PICK real \in SUBSET Events : real = IO!RealEvents(f, batch[p][f])
    BY IoEvents DEF IoInv, IoTypes, IO!RealEvents
  <2>2. CASE IO!Abort
    BY <2>2, IoAbort
  <2>3. CASE ~IO!Abort
    <3>1. batch' = [batch EXCEPT ![p][f] = {}]
      BY <1>2, <2>3 DEF IO!HandleEvent
    <3>2. batch' \in [Pollers -> [Fds -> SUBSET Report]]
      BY <3>1 DEF IoInv, IoTypes
    <3>3. CASE events[f] \cap real = {} \/ interest[f] = {}
      <4>1. UNCHANGED <<events, context, m_pendingEventCount, task, interest, rdllist, ready, aborted>>
        BY <1>2, <2>1, <3>3 DEF IO!HandleEvent, IO!appVars, IO!kernelVars
      <4>2. QED
        BY <3>2, <4>1 DEF IoInv, IoTypes, InUse
    <3>4. CASE ~(events[f] \cap real = {} \/ interest[f] = {})
      <4>1. /\ IO!Triggerable(f, real) /\ IO!triggerEvent(f, real)
            /\ IO!epoll_ctl_left(f, events[f] \ real) /\ UNCHANGED <<ready, aborted>>
        BY <1>2, <2>1, <2>3, <3>4 DEF IO!HandleEvent
      <4>2. QED
        BY <3>2, <4>1, IoTrigger
    <3>5. QED
      BY <3>3, <3>4
  <2>4. QED
    BY <2>2, <2>3
<1>3. QED
  BY <1>1, <1>2 DEF IO!PollNext

LEMMA IoStep == CallTypes /\ FdInv /\ IoInv /\ [Next]_vars => IoInv'
<1> SUFFICES ASSUME CallTypes, FdInv, IoInv, [Next]_vars
             PROVE  IoInv'
  OBVIOUS
<1>1. CASE UNCHANGED ioVars
  BY <1>1, IoSame
<1>r. ASSUME ready' \in [Fds -> SUBSET Report], interest' \in [Fds -> SUBSET Events],
             rdllist' \subseteq Fds,
             UNCHANGED <<events, context, m_pendingEventCount, task, batch, aborted>>
      PROVE  IoInv'
  BY <1>r DEF IoInv, IoTypes, InUse
<1>2. CASE UNCHANGED vars
  BY <1>1, <1>2 DEF vars
<1>3. CASE KernelNext
  <2>1. PICK f \in Fds, x \in Used \cup {IO!HUP} : IO!Edge(f, x)
    BY <1>3 DEF KernelNext
  <2>2. x \in Report
    BY <2>1 DEF Used, Event, Report, Events
  <2>3. /\ ready' = [ready EXCEPT ![f] = @ \cup {x}] /\ rdllist' \subseteq rdllist \cup {f}
        /\ UNCHANGED <<events, context, m_pendingEventCount, task, batch, interest, aborted>>
    BY <2>1 DEF IO!Edge, IO!appVars
  <2>4. ready' \in [Fds -> SUBSET Report] /\ interest' \in [Fds -> SUBSET Events] /\ rdllist' \subseteq Fds
    BY <2>2, <2>3 DEF IoInv, IoTypes
  <2>5. QED
    BY <1>r, <2>3, <2>4
<1>4. ASSUME NEW p \in Pollers, PollStep(p)
      PROVE  IoInv'
  BY <1>4, IoPoll DEF PollStep
<1>5. ASSUME NEW w \in Waiters, NEW f \in Fds, close(w, f)
      PROVE  IoInv'
  BY <1>1, <1>5, IoCancelAll DEF close
<1>6. CASE AppNext
  BY <1>1, <1>5, <1>6 DEF AppNext, socket, setUserNonblock, setsockopt, do_io, connect, Enter, sleep
<1>7. ASSUME NEW w \in Waiters, FiberStep(w)
      PROVE  IoInv'
  <2>1. CASE tryIo(w)
    <3>1. CASE /\ ready' \in {ready, [ready EXCEPT ![Fd(w)] = @ \ {Kind(w)}]}
               /\ UNCHANGED <<events, context, m_pendingEventCount, task, batch,
                              interest, rdllist, aborted>>
      <4>1. ready' \in [Fds -> SUBSET Report] /\ interest' \in [Fds -> SUBSET Events] /\ rdllist' \subseteq Fds
        BY <3>1 DEF IoInv, IoTypes
      <4>2. QED
        BY <1>r, <3>1, <4>1
    <3>2. QED
      BY <1>1, <2>1, <3>1 DEF tryIo
  <2>2. CASE addEvent(w)
    <3>1. IO!addEvent(w, Fd(w), Kind(w)) /\ Fd(w) \in Fds /\ Kind(w) \in Events
      BY <2>2 DEF addEvent, FdInv, InIo, Kind, Event, Events
    <3>2. QED
      BY <3>1, IoAddEvent
  <2>3. CASE closeFd(w)
    <3>1. /\ ready' = [ready EXCEPT ![Fd(w)] = {}]
          /\ interest' = [interest EXCEPT ![Fd(w)] = {}] /\ rdllist' = rdllist \ {Fd(w)}
          /\ UNCHANGED <<events, context, m_pendingEventCount, task, batch, aborted>>
      BY <2>3 DEF closeFd, IO!epoll_ctl_del
    <3>2. ready' \in [Fds -> SUBSET Report] /\ interest' \in [Fds -> SUBSET Events] /\ rdllist' \subseteq Fds
      BY <3>1 DEF IoInv, IoTypes
    <3>3. QED
      BY <1>r, <3>1, <3>2
  <2>4. QED
    BY <1>1, <1>7, <2>1, <2>2, <2>3 DEF FiberStep, tryConnect, armTimer, addEventFails, resume,
       checkIo, checkConnect, closeDel
<1>8. ASSUME NEW t \in Timers, TimerStep(t)
      PROVE  IoInv'
  <2>1. CASE callbackCancel(t)
    <3>1. timer[t].fd \in Fds /\ timer[t].event \in Events
      BY <2>1 DEF callbackCancel, FdInv, CallTypes, Timer
    <3>2. QED
      BY <1>1, <2>1, <3>1, IoCancelEvent DEF callbackCancel
  <2>2. QED
    BY <1>1, <1>8, <2>1 DEF TimerStep, expire, callback, callbackMark
<1>9. QED
  BY <1>2, <1>3, <1>4, <1>6, <1>7, <1>8 DEF Next

(* TypeOK: among the rest, m_pendingEventCount never goes below zero (it is *)
(* a size_t), although close() and the callbacks of timers cancel events    *)
(* that idle() may be handling, and epoll forgets an fd that is closed      *)
(* while fibers wait for it.                                                *)
THEOREM HookTypeCorrect == Spec => []TypeOK
<1>1. Spec => []FdTypes
  BY FdTypesInit, FdTypesStep, PTL DEF Spec
<1>2. Spec => []FdInv
  BY TimerInvAlways, FdInvInit, FdInvStep, PTL DEF Spec
<1>3. TimerInv => CallTypes
  BY DEF TimerInv
<1>4. Spec => []IoInv
  BY <1>2, <1>3, TimerInvAlways, IoInit, IoStep, PTL DEF Spec
<1>5. FdTypes /\ CallTypes /\ IoInv => TypeOK
  <2> SUFFICES ASSUME FdTypes, CallTypes, IoInv
               PROVE  TypeOK
    OBVIOUS
  <2>1. m_pendingEventCount \in Nat
    BY InUseFinite DEF IoInv
  <2>2. IO!TypeOK
    BY <2>1, IoEvents DEF IoInv, IoTypes, Report, IO!TypeOK
  <2>3. QED
    BY <2>2 DEF TypeOK, FdTypes, CallTypes
<1>6. QED
  BY <1>1, <1>3, <1>4, <1>5, TimerInvAlways, PTL

=============================================================================
