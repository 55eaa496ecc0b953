-------------------------------- MODULE Hook --------------------------------
(***************************************************************************)
(* sylar/hook.cc and sylar/fdmanager.{h,cc}: system calls that look        *)
(* blocking to a fiber.  A call that would block arms a timer, registers   *)
(* an event with the IOManager and yields; the event, the timer's callback *)
(* or a close() wakes it.                                                  *)
(*                                                                         *)
(* The events and epoll are those of IOEvents, whose actions are used as   *)
(* they are: a fiber is a waiter, and task[w] = "free" says that it has    *)
(* been scheduled.  Of a timer only its life is kept (TimerManager): it    *)
(* may be listed at any time, and its callback is executed later by some   *)
(* thread, step by step.  Fibers execute with the hook enabled.            *)
(***************************************************************************)
EXTENDS Integers, FiniteSets

CONSTANTS
    Fds, Waiters, None, Pollers,   (* as in IOEvents; waiters are fibers     *)
    Timers,                        (* Timer objects, reused when they are    *)
                                   (* gone                                   *)
    Ops                            (* the calls each fiber makes, of AllOps  *)

VARIABLES
    events, context, m_pendingEventCount, task, batch, interest, ready,
    rdllist, aborted,              (* as in IOEvents                         *)
    m_datas,      (* FdManager: the FdCtx of each fd, or None                *)
    isOpen,       (* the kernel: is the number an open socket?               *)
    want,         (* history: what the application has set on the socket     *)
    pc,           (* where each fiber is                                     *)
    call,         (* the call it executes: operation, fd, has it a timeout?  *)
    cancelled,    (* tinfo->cancelled of the call                            *)
    fired,        (* history: was a timer of this call listed as expired?    *)
                  (* (of a fiber without a call, the two are FALSE)          *)
    timer         (* the Timer objects                                       *)

ioVars   == <<events, context, m_pendingEventCount, task, batch, interest,
              ready, rdllist, aborted>>
fdVars   == <<m_datas, isOpen, want>>
callVars == <<call, cancelled, fired>>
hookVars == <<m_datas, isOpen, want, pc, call, cancelled, fired, timer>>
vars     == <<ioVars, hookVars>>

READ   == "READ"
WRITE  == "WRITE"
Events == {READ, WRITE}

IO == INSTANCE IOEvents WITH Uses      <- [f \in Fds |-> Events],
                             HangUps   <- Fds,
                             Deletable <- {}

(* The hooked reads, accept() included, wait for READ, the writes for       *)
(* WRITE, and connect() for WRITE; "sleep" is sleep(), usleep() and         *)
(* nanosleep().                                                             *)
IoOps    == {"read", "write", "connect"}
AllOps   == IoOps \cup {"sleep", "close"}
Event(o) == IF o = "read" THEN READ ELSE WRITE
Used     == UNION {{Event(o) : o \in Ops[w] \cap IoOps} : w \in Waiters}

(* FdCtx: the flag and the timeouts (a timeout is there or is -1). *)
FdCtx == [userNonblock : BOOLEAN, timed : [Events -> BOOLEAN]]
NewFdCtx == [userNonblock |-> FALSE, timed |-> [e \in Events |-> FALSE]]

ASSUME HookAssumption ==
    /\ Ops \in [Waiters -> SUBSET AllOps]
    /\ None \notin Waiters /\ None \notin Fds /\ None \notin FdCtx
    /\ IsFiniteSet(Fds)

Call == [op : AllOps, fd : Fds \cup {None}, to : BOOLEAN]
NoCall == [op |-> "sleep", fd |-> None, to |-> FALSE]

(* A timer: "armed" in m_timers, "queued" as a callback to be executed;     *)
(* then the callback is between its lock() of winfo and its write           *)
(* ("locked"), or between its write and cancelEvent() ("set").  owner is    *)
(* the fiber whose call holds tinfo, None once that call has returned.      *)
NoTimer == [st |-> "none", owner |-> None, fd |-> None, event |-> READ]
Timer == [st : {"none", "armed", "queued", "locked", "set"},
          owner : Waiters \cup {None}, fd : Fds \cup {None}, event : Events]

PC == {"app",      (* not in a hooked call                                   *)
       "try",      (* before the call of the original function               *)
       "arm",      (* it would block: before addConditionTimer()             *)
       "add",      (* before addEvent()                                      *)
       "wait",     (* yielded                                                *)
       "check",    (* woken, timer cancelled, before the test of cancelled   *)
       "asleep",   (* in sleep()                                             *)
       "del",      (* close(): before FdManager::del()                       *)
       "close"}    (* close(): before close_f()                              *)

TypeOK ==
    /\ IO!TypeOK
    /\ m_datas \in [Fds -> FdCtx \cup {None}]
    /\ isOpen \in [Fds -> BOOLEAN]
    /\ want \in [Fds -> FdCtx]
    /\ pc \in [Waiters -> PC]
    /\ call \in [Waiters -> Call]
    /\ cancelled \in [Waiters -> BOOLEAN]
    /\ fired \in [Waiters -> BOOLEAN]
    /\ timer \in [Timers -> Timer]

Init ==
    /\ IO!Init
    /\ m_datas = [f \in Fds |-> None]
    /\ isOpen = [f \in Fds |-> FALSE]
    /\ want = [f \in Fds |-> NewFdCtx]
    /\ pc = [w \in Waiters |-> "app"]
    /\ call = [w \in Waiters |-> NoCall]
    /\ cancelled = [w \in Waiters |-> FALSE]
    /\ fired = [w \in Waiters |-> FALSE]
    /\ timer = [t \in Timers |-> NoTimer]

Goto(w, l) == pc' = [pc EXCEPT ![w] = l]
Fd(w)      == call[w].fd
Kind(w)    == Event(call[w].op)

-----------------------------------------------------------------------------
(* FdManager and the calls that use it *)

(* get(fd, auto_create): an FdCtx that exists is returned as it is, else a  *)
(* new one is stored.                                                       *)
get(f) == IF m_datas[f] = None THEN NewFdCtx ELSE m_datas[f]

(* A number is not handed out again before close_f().  socket(), and        *)
(* accept() once do_io() has given it a connection, create the FdCtx.       *)
socket(f) ==
    /\ ~aborted
    /\ ~isOpen[f]
    /\ isOpen' = [isOpen EXCEPT ![f] = TRUE]
    /\ m_datas' = [m_datas EXCEPT ![f] = get(f)]
    /\ want' = [want EXCEPT ![f] = NewFdCtx]
    /\ UNCHANGED <<ioVars, pc, callVars, timer>>

(* The application uses sockets it has not begun to close. *)
Closing(f) == \E w \in Waiters : pc[w] \in {"del", "close"} /\ Fd(w) = f
Usable(f)  == isOpen[f] /\ ~Closing(f)

(* fcntl(F_SETFL) records what the user asked for, and the socket stays     *)
(* non-blocking; setsockopt(SO_RCVTIMEO, SO_SNDTIMEO) records the timeout.  *)
setUserNonblock(f, v) ==
    /\ ~aborted
    /\ Usable(f)
    /\ m_datas' = [m_datas EXCEPT ![f] = IF @ = None THEN @ ELSE [@ EXCEPT !.userNonblock = v]]
    /\ want' = [want EXCEPT ![f].userNonblock = v]
    /\ UNCHANGED <<ioVars, isOpen, pc, callVars, timer>>

setsockopt(f, e) ==
    /\ ~aborted
    /\ Usable(f)
    /\ m_datas' = [m_datas EXCEPT ![f] = IF @ = None THEN @ ELSE [@ EXCEPT !.timed[e] = TRUE]]
    /\ want' = [want EXCEPT ![f].timed[e] = TRUE]
    /\ UNCHANGED <<ioVars, isOpen, pc, callVars, timer>>

-----------------------------------------------------------------------------
(* do_io() and connect_with_timeout() *)

(* Both begin alike and make a new timer_info.  Without an FdCtx, or when   *)
(* the user has made the socket non-blocking, the original function is      *)
(* called and nothing else happens.  One fiber at a time waits for an event *)
(* of an fd (iomanager.cc:172).                                             *)
Enter(w, f, o, to) ==
    /\ ~aborted
    /\ o \in Ops[w]
    /\ pc[w] = "app"
    /\ Usable(f)
    /\ m_datas[f] # None /\ ~m_datas[f].userNonblock
    /\ \A v \in Waiters : pc[v] # "app" /\ Fd(v) = f => Kind(v) # Event(o)
    /\ Goto(w, "try")
    /\ call' = [call EXCEPT ![w] = [op |-> o, fd |-> f, to |-> to]]
    /\ UNCHANGED <<ioVars, fdVars, cancelled, fired, timer>>

do_io(w, f, o) ==
    /\ o # "connect"
    /\ m_datas[f] # None
    /\ Enter(w, f, o, m_datas[f].timed[Event(o)])

(* connect() takes its timeout from the configuration, which may change. *)
connect(w, f) == \E to \in BOOLEAN : Enter(w, f, "connect", to)

(* The shared tinfo goes: the weak_ptr of its timers' callbacks expires.    *)
OrphanNone(w, tm) == tm
Orphan(w, tm) == [t \in Timers |-> IF tm[t].owner = w THEN [tm[t] EXCEPT !.owner = None] ELSE tm[t]]

(* timer->cancel(): a timer that has been listed already is not stopped.    *)
CancelTimer(w) ==
    [t \in Timers |-> IF timer[t].owner = w /\ timer[t].st = "armed" THEN NoTimer ELSE timer[t]]

(* The call returns, with its result or an error; tm are the timers as it   *)
(* leaves them.                                                             *)
Return(w, tm) ==
    /\ Goto(w, "app")
    /\ call' = [call EXCEPT ![w] = NoCall]
    /\ cancelled' = [cancelled EXCEPT ![w] = FALSE]
    /\ fired' = [fired EXCEPT ![w] = FALSE]
    /\ timer' = Orphan(w, tm)

(* The original function fails, transfers data (and may use them up), or    *)
(* would block; EINTR calls it again.                                       *)
tryIo(w) ==
    /\ ~aborted
    /\ pc[w] = "try"
    /\ call[w].op # "connect"
    /\ \/ /\ ~isOpen[Fd(w)]
          /\ Return(w, timer)
          /\ UNCHANGED ioVars
       \/ /\ isOpen[Fd(w)]
          /\ ready[Fd(w)] \cap {Kind(w), IO!HUP} # {}
          /\ Return(w, timer)
          /\ ready' \in {ready, [ready EXCEPT ![Fd(w)] = @ \ {Kind(w)}]}
          /\ UNCHANGED <<events, context, m_pendingEventCount, task, batch,
                         interest, rdllist, aborted>>
       \/ /\ isOpen[Fd(w)]
          /\ ready[Fd(w)] \cap {Kind(w), IO!HUP} = {}
          /\ Goto(w, "arm")
          /\ UNCHANGED <<ioVars, callVars, timer>>
    /\ UNCHANGED fdVars

(* connect_f() succeeds or fails, or is in progress. *)
tryConnect(w) ==
    /\ ~aborted
    /\ pc[w] = "try"
    /\ call[w].op = "connect"
    /\ \/ Return(w, timer)
       \/ isOpen[Fd(w)] /\ Goto(w, "arm") /\ UNCHANGED <<callVars, timer>>
    /\ UNCHANGED <<ioVars, fdVars>>

(* A new Timer object; which of the addresses it gets makes no difference.  *)
CanArm   == \E t \in Timers : timer[t].st = "none"
NewTimer == CHOOSE t \in Timers : timer[t].st = "none"

(* addConditionTimer(), if the call has a timeout. *)
armTimer(w) ==
    /\ ~aborted
    /\ pc[w] = "arm"
    /\ IF call[w].to
       THEN /\ CanArm
            /\ timer' = [timer EXCEPT ![NewTimer] = [st |-> "armed", owner |-> w,
                                                     fd |-> Fd(w), event |-> Kind(w)]]
       ELSE UNCHANGED timer
    /\ Goto(w, "add")
    /\ UNCHANGED <<ioVars, fdVars, callVars>>

(* epoll_ctl() works on an open fd whose registration is as expected. *)
EpollAgrees(w) == isOpen[Fd(w)] /\ (events[Fd(w)] # {} <=> interest[Fd(w)] # {})

(* addEvent() and yield() ... *)
addEvent(w) ==
    /\ pc[w] = "add"
    /\ Kind(w) \in events[Fd(w)] \/ EpollAgrees(w)
    /\ IO!addEvent(w, Fd(w), Kind(w))
    /\ Goto(w, "wait")
    /\ UNCHANGED <<fdVars, callVars, timer>>

(* ... or, when it fails, an error (of connect(), what SO_ERROR says).      *)
addEventFails(w) ==
    /\ ~aborted
    /\ pc[w] = "add"
    /\ Kind(w) \notin events[Fd(w)] /\ ~EpollAgrees(w)
    /\ Return(w, CancelTimer(w))
    /\ UNCHANGED <<ioVars, fdVars>>

(* The fiber is resumed: cancel the timer ... *)
resume(w) ==
    /\ ~aborted
    /\ pc[w] = "wait"
    /\ task[w] = "free"
    /\ timer' = CancelTimer(w)
    /\ Goto(w, "check")
    /\ UNCHANGED <<ioVars, fdVars, callVars>>

(* goto retry *)
RetryNoTimer == "add"
Retry == "try"

(* ... then do_io() returns ETIMEDOUT if the timeout has marked the call,   *)
(* and tries again if not;                                                  *)
checkIo(w) ==
    /\ ~aborted
    /\ pc[w] = "check"
    /\ call[w].op # "connect"
    /\ IF cancelled[w] THEN Return(w, timer)
       ELSE Goto(w, Retry) /\ UNCHANGED <<callVars, timer>>
    /\ UNCHANGED <<ioVars, fdVars>>

(* connect() returns ETIMEDOUT, or what SO_ERROR says. *)
checkConnect(w) ==
    /\ ~aborted
    /\ pc[w] = "check"
    /\ call[w].op = "connect"
    /\ Return(w, timer)
    /\ UNCHANGED <<ioVars, fdVars>>

-----------------------------------------------------------------------------
(* The timers and their callbacks *)

(* listExpiredCb() lists the timer and idle() schedules its callback. *)
expire(t) ==
    /\ ~aborted
    /\ timer[t].st = "armed"
    /\ timer' = [timer EXCEPT ![t].st = "queued"]
    /\ fired' = [fired EXCEPT ![timer[t].owner] = TRUE]
    /\ UNCHANGED <<ioVars, fdVars, pc, call, cancelled>>

(* onTimer() and the callback up to its test: it returns when tinfo is gone *)
(* or already marked.  The callback of sleep() schedules the fiber.         *)
callback(t) ==
    /\ ~aborted
    /\ timer[t].st = "queued"
    /\ LET w == timer[t].owner IN
       IF w # None /\ pc[w] = "asleep"
       THEN Return(w, [timer EXCEPT ![t] = NoTimer])
       ELSE /\ timer' = [timer EXCEPT ![t] = IF w = None \/ cancelled[w] THEN NoTimer
                                              ELSE [@ EXCEPT !.st = "locked"]]
            /\ UNCHANGED <<pc, callVars>>
    /\ UNCHANGED <<ioVars, fdVars>>

(* t->cancelled = ETIMEDOUT, on a tinfo the callback keeps alive. *)
callbackMark(t) ==
    /\ ~aborted
    /\ timer[t].st = "locked"
    /\ cancelled' = [w \in Waiters |-> cancelled[w] \/ w = timer[t].owner]
    /\ timer' = [timer EXCEPT ![t].st = "set"]
    /\ UNCHANGED <<ioVars, fdVars, pc, call, fired>>

(* cancelEvent(), which does nothing when the event is not registered. *)
callbackCancel(t) ==
    /\ ~aborted
    /\ timer[t].st = "set"
    /\ IF IO!CanRemove(timer[t].fd, timer[t].event)
       THEN IO!cancelEvent(timer[t].fd, timer[t].event)
       ELSE UNCHANGED ioVars
    /\ timer' = [timer EXCEPT ![t] = NoTimer]
    /\ UNCHANGED <<fdVars, pc, callVars>>

(* sleep(), usleep() and nanosleep(): a timer that schedules the fiber. *)
sleep(w) ==
    /\ ~aborted
    /\ "sleep" \in Ops[w]
    /\ pc[w] = "app"
    /\ CanArm
    /\ timer' = [timer EXCEPT ![NewTimer] = [NoTimer EXCEPT !.st = "armed", !.owner = w]]
    /\ Goto(w, "asleep")
    /\ UNCHANGED <<ioVars, fdVars, callVars>>

-----------------------------------------------------------------------------
(* close() *)

(* cancelAll() wakes whoever waits for the fd ... *)
close(w, f) ==
    /\ ~aborted
    /\ "close" \in Ops[w]
    /\ pc[w] = "app"
    /\ Usable(f)
    /\ IF events[f] # {} /\ interest[f] # {} THEN IO!cancelAll(f) ELSE UNCHANGED ioVars
    /\ Goto(w, "del")
    /\ call' = [call EXCEPT ![w] = [NoCall EXCEPT !.fd = f]]
    /\ UNCHANGED <<fdVars, cancelled, fired, timer>>

(* ... then del() drops the FdCtx ... *)
DelForgotten(f) == m_datas
Del(f) == [m_datas EXCEPT ![f] = None]

closeDel(w) ==
    /\ ~aborted
    /\ pc[w] = "del"
    /\ m_datas' = Del(Fd(w))
    /\ Goto(w, "close")
    /\ UNCHANGED <<ioVars, isOpen, want, callVars, timer>>

(* ... and close_f() closes it: epoll forgets the fd. *)
closeFd(w) ==
    /\ ~aborted
    /\ pc[w] = "close"
    /\ isOpen' = [isOpen EXCEPT ![Fd(w)] = FALSE]
    /\ ready' = [ready EXCEPT ![Fd(w)] = {}]
    /\ IO!epoll_ctl_del(Fd(w))
    /\ Goto(w, "app")
    /\ call' = [call EXCEPT ![w] = NoCall]
    /\ UNCHANGED <<events, context, m_pendingEventCount, task, batch, aborted,
                   m_datas, want, cancelled, fired, timer>>

-----------------------------------------------------------------------------
AppNext ==
    \/ \E f \in Fds : socket(f)
    \/ \E f \in Fds, v \in BOOLEAN : setUserNonblock(f, v)
    \/ \E f \in Fds, e \in Used : setsockopt(f, e)
    \/ \E w \in Waiters, f \in Fds, o \in IoOps : do_io(w, f, o)
    \/ \E w \in Waiters, f \in Fds : connect(w, f)
    \/ \E w \in Waiters : sleep(w)
    \/ \E w \in Waiters, f \in Fds : close(w, f)

(* The steps of a fiber inside a hooked call. *)
FiberStep(w) ==
    \/ tryIo(w)
    \/ tryConnect(w)
    \/ armTimer(w)
    \/ addEvent(w)
    \/ addEventFails(w)
    \/ resume(w)
    \/ checkIo(w)
    \/ checkConnect(w)
    \/ closeDel(w)
    \/ closeFd(w)

TimerStep(t) == expire(t) \/ callback(t) \/ callbackMark(t) \/ callbackCancel(t)

KernelNext ==
    /\ \E f \in Fds, x \in Used \cup {IO!HUP} : isOpen[f] /\ IO!Edge(f, x)
    /\ UNCHANGED hookVars

PollStep(p) == IO!PollNext(p) /\ UNCHANGED hookVars

Next ==
    \/ AppNext
    \/ \E w \in Waiters : FiberStep(w)
    \/ \E t \in Timers : TimerStep(t)
    \/ KernelNext
    \/ \E p \in Pollers : PollStep(p)

Spec == Init /\ [][Next]_vars

(* Scheduled fibers and callbacks are executed, timers expire, and pollers  *)
(* poll; the application and the peer do as they please.                    *)
FairSpec ==
    /\ Spec
    /\ \A w \in Waiters : WF_vars(FiberStep(w))
    /\ \A t \in Timers : WF_vars(TimerStep(t))
    /\ \A p \in Pollers : WF_vars(PollStep(p))

-----------------------------------------------------------------------------
(* Properties *)

(* A call fails with ETIMEDOUT only if a timer it armed itself has expired: *)
(* a callback that outlives its call never marks the fiber's next call, and *)
(* a call without a timeout never times out (hook.cc:134-141).              *)
TimeoutIsOwn == \A w \in Waiters : cancelled[w] => fired[w]

(* A fiber that waits with a timeout has a timer or a callback on its way,  *)
(* unless the timeout has marked the call already (hook.cc:132-142).        *)
TimedWaitCovered ==
    \A w \in Waiters :
        pc[w] = "wait" /\ call[w].to /\ task[w] = "waiting" =>
            \/ cancelled[w]
            \/ \E t \in Timers : timer[t].owner = w /\ timer[t].st \in {"armed", "queued", "locked"}

(* The FdCtx of an open socket says what the application has set on this    *)
(* socket, and nothing of an earlier one with the same number               *)
(* (fdmanager.cc:86-117, hook.cc:349-363).                                  *)
SettingsHold == \A f \in Fds : Usable(f) => m_datas[f] = want[f]

(* close() ran between the fiber's try and its addEvent(), or woke the      *)
(* fiber before it closed the fd: the fiber has registered again and epoll  *)
(* has then forgotten the fd.                                               *)
Stranded(w) == task[w] = "waiting" /\ Kind(w) \notin interest[Fd(w)]

(* Once the peer has hung up, a call on the fd returns, unless close()      *)
(* takes the fd away from under it (hook.cc:349-363).                       *)
HangUpReturns ==
    \A w \in Waiters, f \in Fds :
        pc[w] \in {"try", "arm", "add", "wait", "check"} /\ Fd(w) = f /\ Usable(f) /\ IO!HUP \in ready[f]
        ~> pc[w] = "app" \/ ~Usable(f) \/ Stranded(w) \/ aborted

(* hook.cc:134: a call with a timeout waits that long, and if nothing comes *)
(* the callback is triggered: the call does not wait for ever.              *)
TimedCallReturns ==
    \A w \in Waiters : pc[w] = "wait" /\ call[w].to ~> pc[w] # "wait" \/ aborted
=============================================================================
