------------------------------ MODULE Scheduler ------------------------------
(***************************************************************************)
(* The N-M fiber scheduler of sylar/scheduler.{h,cc}, with the part of     *)
(* sylar/fiber.cc that a scheduling thread executes (resume, yield, the    *)
(* end of MainFunc).                                                       *)
(*                                                                         *)
(* Every thread of the pool executes Scheduler::run(): it scans m_tasks    *)
(* under m_mutex, resumes what it took, and runs its idle fiber when there *)
(* was nothing to take.  The creating thread ("root", use_caller) executes *)
(* the same loop, but only once stop() has resumed m_rootFiber.  A section *)
(* executed under m_mutex is one action; everything outside the mutex is   *)
(* an action of its own, so that every interleaving of the threads is a    *)
(* behaviour of the specification.                                         *)
(*                                                                         *)
(* A queue entry that holds a callback is modelled like one that holds a   *)
(* fiber: the code wraps the callback in a fresh fiber when it is taken,   *)
(* and then both branches of run() execute the same steps.                 *)
(***************************************************************************)
EXTENDS Integers, Sequences, FiniteSets, SequencesExt

CONSTANTS
    Threads,      (* threads that execute Scheduler::run()                   *)
    root,         (* m_rootThread: the caller thread, or no member of Threads *)
    Fibers,       (* the fibers (or callbacks) the application may schedule  *)
    AnyThread,    (* thread = -1 in a ScheduleTask                           *)
    NoFiber,      (* a null fiber in a ScheduleTask                          *)
    MaxYields,    (* bound: how often one fiber reschedules itself           *)
    PinnedYield,  (* does a fiber reschedule itself on its own thread only?  *)
    LateSchedule  (* may the application schedule() after it called stop()?  *)

ASSUME SchedulerAssumption ==
    /\ IsFiniteSet(Threads)
    /\ AnyThread \notin Threads
    /\ NoFiber \notin Fibers
    /\ MaxYields \in Nat
    /\ PinnedYield \in BOOLEAN
    /\ LateSchedule \in BOOLEAN

VARIABLES
    m_tasks,              (* std::list<ScheduleTask>                         *)
    m_activeThreadCount,
    m_idleThreadCount,
    m_stopping,
    m_threads,            (* the pool threads start() has created            *)
    m_state,              (* Fiber::m_state                                  *)
    pc,                   (* where each thread is in Scheduler::run()        *)
    task,                 (* the local "task" of run(): the fiber it holds   *)
    idleTerm,             (* is the thread's idle fiber in state TERM?       *)
    mainPc,               (* where the application thread is: start, stop    *)
    scheduled,            (* fibers handed to schedule() so far              *)
    yields,               (* how often each fiber has yielded                *)
    owed,                 (* history: fibers stop() must see executed        *)
    failed                (* an assertion failed or a fiber was resumed      *)
                          (* while its context was still on a stack          *)

vars == <<m_tasks, m_activeThreadCount, m_idleThreadCount, m_stopping,
          m_threads, m_state, pc, task, idleTerm, mainPc, scheduled, yields,
          owed, failed>>

UseCaller == root \in Threads
Pool      == Threads \ {root}
Entry     == [fiber : Fibers, thread : Threads \cup {AnyThread}]

PC == {"new",        (* thread not created, or m_rootFiber not yet resumed  *)
       "scan",       (* top of the loop of run()                            *)
       "tickle",     (* mutex released, before tickle()                     *)
       "resume",     (* holds a task, before Fiber::resume()                *)
       "run",        (* executing the fiber's callback                      *)
       "resched",    (* the callback has put its own fiber back in m_tasks  *)
       "yielding",   (* yield(): m_state is READY, context not yet saved    *)
       "ret",        (* resume() has returned, before --m_activeThreadCount *)
       "noTask",     (* nothing taken, before the test of the idle fiber    *)
       "idle",       (* in idle(), before stopping()                        *)
       "idleRet",    (* the idle fiber yielded, before --m_idleThreadCount  *)
       "exit"}       (* run() has returned                                  *)

(* Program points at which a thread counts in m_activeThreadCount. *)
Busy == {"resume", "run", "resched", "yielding", "ret"}

TypeOK ==
    /\ m_tasks \in Seq(Entry)
    /\ m_activeThreadCount \in Int
    /\ m_idleThreadCount \in Int
    /\ m_stopping \in BOOLEAN
    /\ m_threads \in SUBSET Pool
    /\ m_state \in [Fibers -> {"READY", "RUNNING", "TERM"}]
    /\ pc \in [Threads -> PC]
    /\ task \in [Threads -> Fibers \cup {NoFiber}]
    /\ idleTerm \in [Threads -> BOOLEAN]
    /\ mainPc \in {"built", "started", "stopping", "join", "stopped"}
    /\ scheduled \in SUBSET Fibers
    /\ yields \in [Fibers -> 0..MaxYields]
    /\ owed \in SUBSET Fibers
    /\ failed \in BOOLEAN

Init ==
    /\ m_tasks = <<>>
    /\ m_activeThreadCount = 0
    /\ m_idleThreadCount = 0
    /\ m_stopping = FALSE
    /\ m_threads = {}
    /\ m_state = [f \in Fibers |-> "READY"]
    /\ pc = [t \in Threads |-> "new"]
    /\ task = [t \in Threads |-> NoFiber]
    /\ idleTerm = [t \in Threads |-> FALSE]
    /\ mainPc = "built"
    /\ scheduled = {}
    /\ yields = [f \in Fibers |-> 0]
    /\ owed = {}
    /\ failed = FALSE

-----------------------------------------------------------------------------
(* Helpers *)

Goto(t, l) == pc' = [pc EXCEPT ![t] = l]

(* scheduleNoLock(): append an entry.  The caller holds m_mutex. *)
scheduleNoLock(f, thr) ==
    m_tasks' = Append(m_tasks, [fiber |-> f, thread |-> thr])

(* m_threadIds: the ids a task can be pinned to.  The ids of the pool exist *)
(* once start() has created the threads.                                    *)
m_threadIds == (Threads \cap {root}) \cup (IF mainPc = "built" THEN {} ELSE Pool)

(* stopping(), evaluated under m_mutex. *)
StoppingIgnoresActive == m_stopping /\ m_tasks = <<>>
StoppingIgnoresQueue  == m_stopping /\ m_activeThreadCount = 0
stopping ==
    m_stopping /\ m_tasks = <<>> /\ m_activeThreadCount = 0

(* The scan of run() skips entries pinned to another thread and entries     *)
(* whose fiber is RUNNING; the thread takes the first entry that is left.   *)
EligibleAnyPin(t, i) == m_state[m_tasks[i].fiber] # "RUNNING"
EligibleUnpinnedOnly(t, i) ==
    /\ m_tasks[i].thread = AnyThread
    /\ m_state[m_tasks[i].fiber] # "RUNNING"
Eligible(t, i) ==
    /\ m_tasks[i].thread \in {AnyThread, t}
    /\ m_state[m_tasks[i].fiber] # "RUNNING"

EligibleSet(t) == {i \in 1..Len(m_tasks) : Eligible(t, i)}

-----------------------------------------------------------------------------
(* The application thread *)

(* The threads start() creates: the constructor has subtracted the caller   *)
(* from the number of threads asked for.                                    *)
CreatedWithCaller == Threads
CreatedThreads == Pool

(* start(): create the pool; its threads enter run() at once. *)
start ==
    /\ mainPc = "built"
    /\ mainPc' = "started"
    /\ m_threads' = CreatedThreads
    /\ pc' = [t \in Threads |-> IF t \in CreatedThreads THEN "scan" ELSE pc[t]]
    /\ UNCHANGED <<m_tasks, m_activeThreadCount, m_idleThreadCount, m_stopping,
                   m_state, task, idleTerm, scheduled, yields, owed, failed>>

(* schedule() called from a thread that is not in a task of this scheduler. *)
(* Scheduler::tickle() has no effect.                                       *)
schedule(f, thr) ==
    /\ m_stopping => LateSchedule
    /\ f \notin scheduled
    /\ thr \in m_threadIds \cup {AnyThread}
    /\ scheduleNoLock(f, thr)
    /\ scheduled' = scheduled \cup {f}
    /\ owed' = IF m_stopping THEN owed ELSE owed \cup {f}
    /\ UNCHANGED <<m_activeThreadCount, m_idleThreadCount, m_stopping,
                   m_threads, m_state, pc, task, idleTerm, mainPc, yields,
                   failed>>

(* stop(), up to the resumption of m_rootFiber: m_stopping is set without   *)
(* the mutex.                                                               *)
stop ==
    /\ mainPc = "started"
    /\ m_stopping' = TRUE
    /\ mainPc' = "stopping"
    /\ UNCHANGED <<m_tasks, m_activeThreadCount, m_idleThreadCount, m_threads,
                   m_state, pc, task, idleTerm, scheduled, yields, owed,
                   failed>>

(* stop(): with use_caller the calling thread becomes a scheduling thread   *)
(* until its run() returns.                                                 *)
stopResumeRoot ==
    /\ mainPc = "stopping"
    /\ mainPc' = "join"
    /\ pc' = [t \in Threads |-> IF t = root THEN "scan" ELSE pc[t]]
    /\ UNCHANGED <<m_tasks, m_activeThreadCount, m_idleThreadCount, m_stopping,
                   m_threads, m_state, task, idleTerm, scheduled, yields, owed,
                   failed>>

(* stop(): m_rootFiber has come back; swap m_threads out and join them.     *)
stopJoin ==
    /\ mainPc = "join"
    /\ \A t \in m_threads \cup (Threads \cap {root}) : pc[t] = "exit"
    /\ mainPc' = "stopped"
    /\ m_threads' = {}
    /\ UNCHANGED <<m_tasks, m_activeThreadCount, m_idleThreadCount, m_stopping,
                   m_state, pc, task, idleTerm, scheduled, yields, owed,
                   failed>>

(* stop() called again (the destructor of IOManager does): it returns when  *)
(* stopping() holds.  Otherwise, with use_caller, it resumes an m_rootFiber *)
(* that is TERM, which the assertion of Fiber::resume() forbids; without,   *)
(* there is no thread left to join.                                         *)
stopAgain ==
    /\ mainPc = "stopped"
    /\ failed' = (UseCaller /\ ~stopping)
    /\ UNCHANGED <<m_tasks, m_activeThreadCount, m_idleThreadCount, m_stopping,
                   m_threads, m_state, pc, task, idleTerm, mainPc, scheduled,
                   yields, owed>>

-----------------------------------------------------------------------------
(* A scheduling thread: Scheduler::run() *)

(* The scan under m_mutex takes the first eligible entry ... *)
ScanPick(t) ==
    /\ pc[t] = "scan"
    /\ \E i \in EligibleSet(t) :
        /\ \A j \in EligibleSet(t) : i <= j
        /\ task' = [task EXCEPT ![t] = m_tasks[i].fiber]
        /\ m_tasks' = RemoveAt(m_tasks, i)
    /\ m_activeThreadCount' = m_activeThreadCount + 1
    /\ Goto(t, "tickle")
    /\ UNCHANGED <<m_idleThreadCount, m_stopping, m_threads, m_state, idleTerm,
                   mainPc, scheduled, yields, owed, failed>>

(* ... or finds none. *)
ScanNone(t) ==
    /\ pc[t] = "scan"
    /\ EligibleSet(t) = {}
    /\ Goto(t, "tickle")
    /\ UNCHANGED <<m_tasks, m_activeThreadCount, m_idleThreadCount, m_stopping,
                   m_threads, m_state, task, idleTerm, mainPc, scheduled,
                   yields, owed, failed>>

(* tickle() after the scan (tickle_me is always true). *)
Tickle(t) ==
    /\ pc[t] = "tickle"
    /\ Goto(t, IF task[t] = NoFiber THEN "noTask" ELSE "resume")
    /\ UNCHANGED <<m_tasks, m_activeThreadCount, m_idleThreadCount, m_stopping,
                   m_threads, m_state, task, idleTerm, mainPc, scheduled,
                   yields, owed, failed>>

(* Fiber::resume(): the assertion on m_state, then the switch to the        *)
(* fiber's saved context.  While another thread is between "m_state =       *)
(* READY" and swapcontext() in yield() there is no saved context: resuming  *)
(* such a fiber is undefined, and the specification stops there.            *)
Resume(t) ==
    /\ pc[t] = "resume"
    /\ IF \/ m_state[task[t]] # "READY"
          \/ \E u \in Threads : pc[u] = "yielding" /\ task[u] = task[t]
         THEN /\ failed' = TRUE
              /\ UNCHANGED <<m_state, pc>>
         ELSE /\ m_state' = [m_state EXCEPT ![task[t]] = "RUNNING"]
              /\ Goto(t, "run")
              /\ UNCHANGED failed
    /\ UNCHANGED <<m_tasks, m_activeThreadCount, m_idleThreadCount, m_stopping,
                   m_threads, task, idleTerm, mainPc, scheduled, yields, owed>>

(* The callback schedules another fiber or callback. *)
BodySchedule(t, f, thr) ==
    /\ pc[t] = "run"
    /\ f \notin scheduled
    /\ thr \in m_threadIds \cup {AnyThread}
    /\ scheduleNoLock(f, thr)
    /\ scheduled' = scheduled \cup {f}
    /\ owed' = IF task[t] \in owed THEN owed \cup {f} ELSE owed
    /\ UNCHANGED <<m_activeThreadCount, m_idleThreadCount, m_stopping,
                   m_threads, m_state, pc, task, idleTerm, mainPc, yields,
                   failed>>

(* schedule(Fiber::GetThis()): before it yields, a fiber puts itself back   *)
(* in the queue (tests/test_scheduler.cc says it must).                     *)
BodyReschedule(t) ==
    /\ pc[t] = "run"
    /\ yields[task[t]] < MaxYields
    /\ yields' = [yields EXCEPT ![task[t]] = @ + 1]
    /\ scheduleNoLock(task[t], IF PinnedYield THEN t ELSE AnyThread)
    /\ Goto(t, "resched")
    /\ UNCHANGED <<m_activeThreadCount, m_idleThreadCount, m_stopping,
                   m_threads, m_state, task, idleTerm, mainPc, scheduled, owed,
                   failed>>

(* Fiber::yield(): m_state becomes READY ... *)
YieldReady(t) ==
    /\ pc[t] = "resched"
    /\ m_state' = [m_state EXCEPT ![task[t]] = "READY"]
    /\ Goto(t, "yielding")
    /\ UNCHANGED <<m_tasks, m_activeThreadCount, m_idleThreadCount, m_stopping,
                   m_threads, task, idleTerm, mainPc, scheduled, yields, owed,
                   failed>>

(* ... before swapcontext() saves the context and returns to run(). *)
YieldSwap(t) ==
    /\ pc[t] = "yielding"
    /\ task' = [task EXCEPT ![t] = NoFiber]
    /\ Goto(t, "ret")
    /\ UNCHANGED <<m_tasks, m_activeThreadCount, m_idleThreadCount, m_stopping,
                   m_threads, m_state, idleTerm, mainPc, scheduled, yields,
                   owed, failed>>

(* The callback returns: MainFunc() makes the fiber TERM and yields. *)
BodyReturn(t) ==
    /\ pc[t] = "run"
    /\ m_state' = [m_state EXCEPT ![task[t]] = "TERM"]
    /\ task' = [task EXCEPT ![t] = NoFiber]
    /\ Goto(t, "ret")
    /\ UNCHANGED <<m_tasks, m_activeThreadCount, m_idleThreadCount, m_stopping,
                   m_threads, idleTerm, mainPc, scheduled, yields, owed,
                   failed>>

(* Back in run(): the task is over, or has yielded. *)
RetUncounted(t) ==
    /\ pc[t] = "ret"
    /\ Goto(t, "scan")
    /\ UNCHANGED <<m_tasks, m_activeThreadCount, m_idleThreadCount, m_stopping,
                   m_threads, m_state, task, idleTerm, mainPc, scheduled,
                   yields, owed, failed>>
Ret(t) ==
    /\ pc[t] = "ret"
    /\ m_activeThreadCount' = m_activeThreadCount - 1
    /\ Goto(t, "scan")
    /\ UNCHANGED <<m_tasks, m_idleThreadCount, m_stopping, m_threads, m_state,
                   task, idleTerm, mainPc, scheduled, yields, owed, failed>>

(* No task: leave run() when the idle fiber has ended, else resume it. *)
Exit(t) ==
    /\ pc[t] = "noTask"
    /\ idleTerm[t]
    /\ Goto(t, "exit")
    /\ UNCHANGED <<m_tasks, m_activeThreadCount, m_idleThreadCount, m_stopping,
                   m_threads, m_state, task, idleTerm, mainPc, scheduled,
                   yields, owed, failed>>

IdleResume(t) ==
    /\ pc[t] = "noTask"
    /\ ~idleTerm[t]
    /\ m_idleThreadCount' = m_idleThreadCount + 1
    /\ Goto(t, "idle")
    /\ UNCHANGED <<m_tasks, m_activeThreadCount, m_stopping, m_threads,
                   m_state, task, idleTerm, mainPc, scheduled, yields, owed,
                   failed>>

(* idle(): while (!stopping()) yield; *)
IdleCheck(t) ==
    /\ pc[t] = "idle"
    /\ idleTerm' = [idleTerm EXCEPT ![t] = stopping]
    /\ Goto(t, "idleRet")
    /\ UNCHANGED <<m_tasks, m_activeThreadCount, m_idleThreadCount, m_stopping,
                   m_threads, m_state, task, mainPc, scheduled, yields, owed,
                   failed>>

IdleLeave(t) ==
    /\ pc[t] = "idleRet"
    /\ m_idleThreadCount' = m_idleThreadCount - 1
    /\ Goto(t, "scan")
    /\ UNCHANGED <<m_tasks, m_activeThreadCount, m_stopping, m_threads,
                   m_state, task, idleTerm, mainPc, scheduled, yields, owed,
                   failed>>

-----------------------------------------------------------------------------
RunStep(t) ==
    \/ ScanPick(t)
    \/ ScanNone(t)
    \/ Tickle(t)
    \/ Resume(t)
    \/ \E f \in Fibers, thr \in Threads \cup {AnyThread} : BodySchedule(t, f, thr)
    \/ BodyReschedule(t)
    \/ YieldReady(t)
    \/ YieldSwap(t)
    \/ BodyReturn(t)
    \/ Ret(t)
    \/ Exit(t)
    \/ IdleResume(t)
    \/ IdleCheck(t)
    \/ IdleLeave(t)

StopStep == stopResumeRoot \/ stopJoin

(* Nothing happens any more once the process has failed. *)
Halt == failed /\ UNCHANGED vars

Next ==
    \/ /\ ~failed
       /\ \/ start
          \/ \E f \in Fibers, thr \in Threads \cup {AnyThread} : schedule(f, thr)
          \/ stop
          \/ StopStep
          \/ stopAgain
          \/ \E t \in Threads : RunStep(t)
    \/ Halt

Spec == Init /\ [][Next]_vars

(* Every thread keeps running, and stop() keeps running once called.  The   *)
(* application's own calls are not fair: it need not ever stop.             *)
Fairness ==
    /\ \A t \in Threads : WF_vars(~failed /\ RunStep(t))
    /\ WF_vars(~failed /\ StopStep)

FairSpec == Spec /\ Fairness

-----------------------------------------------------------------------------
(* Properties *)

Holding(t) == pc[t] \in Busy \/ (pc[t] = "tickle" /\ task[t] # NoFiber)

(* A fiber is held by one thread at a time: the test "the chosen fiber is   *)
(* executing, skip it" (scheduler.cc:184) never lets a second thread take a *)
(* fiber that another one has not switched out of.                          *)
FiberOnOneThread ==
    \A t, u \in Threads : t # u /\ task[t] # NoFiber => task[t] # task[u]

(* The counters agree with what the threads are doing: a decrement that is  *)
(* missed or doubled would let stopping() hold too early or never.          *)
CountsExact ==
    /\ m_activeThreadCount = Cardinality({t \in Threads : Holding(t)})
    /\ m_idleThreadCount = Cardinality({t \in Threads : pc[t] \in {"idle", "idleRet"}})

(* No thread leaves run() while work handed in before stop(), or scheduled  *)
(* by such work, is unfinished: neither in the queue, nor taken and not yet *)
(* counted, nor running on another thread.                                  *)
DrainedBeforeExit ==
    (\E t \in Threads : pc[t] = "exit") => \A f \in owed : m_state[f] = "TERM"

(* No assertion of fiber.cc fails and no fiber is resumed without a saved   *)
(* context, but for one case: stop() is called again after the application  *)
(* has scheduled work that no thread is left to execute.                    *)
NeverFails == failed => mainPc = "stopped" /\ m_tasks # <<>>

-----------------------------------------------------------------------------
(* The inductive invariant of the proofs *)

Queued(f) == \E i \in 1..Len(m_tasks) : m_tasks[i].fiber = f

(* What a thread holds at each program point. *)
TaskInv ==
    \A t \in Threads :
        /\ pc[t] \in {"resume", "run", "resched", "yielding"} => task[t] # NoFiber
        /\ pc[t] \notin {"tickle", "resume", "run", "resched", "yielding"} =>
              task[t] = NoFiber
        /\ mainPc = "built" => pc[t] = "new"
        /\ t = root /\ mainPc \in {"started", "stopping"} => pc[t] = "new"

(* On one thread only is a fiber between resume() and the end of yield().  *)
OnStackInv ==
    /\ \A t \in Threads :
          pc[t] \in {"run", "resched"} => m_state[task[t]] = "RUNNING"
    /\ \A t, u \in Threads :
          /\ t # u
          /\ pc[t] \in {"run", "resched", "yielding"}
          /\ pc[u] \in {"run", "resched", "yielding"}
          => task[t] # task[u]

(* A fiber that is about to be switched out has a way back. *)
RescheduledInv ==
    \A t \in Threads :
        pc[t] \in {"resched", "yielding"} =>
            Queued(task[t]) \/ \E u \in Threads : u # t /\ task[u] = task[t]

(* A fiber that was scheduled is queued, held, or has ended. *)
NotLostInv ==
    /\ owed \subseteq scheduled
    /\ \A f \in scheduled :
          m_state[f] = "TERM" \/ Queued(f) \/ \E t \in Threads : task[t] = f

(* Once some idle fiber has ended, the work stop() waits for is done. *)
DrainInv ==
    /\ \A t \in Threads : pc[t] = "exit" => idleTerm[t]
    /\ (\E t \in Threads : idleTerm[t]) =>
          m_stopping /\ \A f \in owed : m_state[f] = "TERM"

IInv == /\ TypeOK
        /\ TaskInv
        /\ CountsExact
        /\ OnStackInv
        /\ RescheduledInv
        /\ NotLostInv
        /\ DrainInv

(* With PinnedYield: a queued fiber that a thread holds is pinned to it.   *)
PinInv ==
    /\ FiberOnOneThread
    /\ \A i, j \in 1..Len(m_tasks) : i # j => m_tasks[i].fiber # m_tasks[j].fiber
    /\ \A i \in 1..Len(m_tasks) : m_tasks[i].fiber \in scheduled
    /\ \A t \in Threads : task[t] # NoFiber => task[t] \in scheduled
    /\ \A t \in Threads, i \in 1..Len(m_tasks) :
          m_tasks[i].fiber = task[t] =>
              m_tasks[i].thread = t /\ pc[t] \in {"resched", "yielding"}

(* With PinnedYield: a fiber that is queued, taken or being switched out    *)
(* is READY, except that one in the queue may still have to become so on    *)
(* the thread that put it there.                                            *)
ReadyInv ==
    /\ \A f \in Fibers \ scheduled : m_state[f] = "READY"
    /\ \A f \in Fibers : Queued(f) =>
          m_state[f] = "READY" \/ \E t \in Threads : pc[t] = "resched" /\ task[t] = f
    /\ \A t \in Threads :
          pc[t] \in {"tickle", "resume", "yielding"} /\ task[t] # NoFiber =>
              m_state[task[t]] = "READY"

(* stop() has joined every thread before it can be called again.           *)
JoinInv ==
    /\ mainPc \in {"stopping", "join", "stopped"} => m_stopping
    /\ mainPc \in {"started", "stopping", "join"} => m_threads = Pool
    /\ mainPc = "stopped" => \A t \in Threads : pc[t] = "exit"

(* An entry that was scheduled after stop() and pinned to a thread that     *)
(* has already left run(): nobody takes it.                                 *)
Stranded == \E i \in 1..Len(m_tasks) : \E t \in Threads :
                m_tasks[i].thread = t /\ pc[t] = "exit"

(* stop() returns, unless late work strands it. *)
StopReturns == (mainPc = "stopping") ~> (mainPc = "stopped" \/ Stranded)

(* A running pool eventually completes everything that the application      *)
(* scheduled before stop(), except what is pinned to the caller thread:     *)
(* that waits for stop().                                                   *)
AllTasksComplete ==
    \A f \in Fibers :
        /\ mainPc # "built" /\ f \in owed
        /\ \E i \in 1..Len(m_tasks) : m_tasks[i].fiber = f /\ m_tasks[i].thread # root
        ~> m_state[f] = "TERM"
=============================================================================
