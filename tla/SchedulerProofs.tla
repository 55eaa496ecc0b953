--------------------------- MODULE SchedulerProofs ---------------------------
(***************************************************************************)
(* Machine-checked proofs about Scheduler, for every set of threads and    *)
(* fibers, with or without a caller thread.                                *)
(***************************************************************************)
EXTENDS Scheduler, TLAPS, FiniteSetTheorems, SequenceTheorems

(* m_tasks.erase(it) keeps every other entry, in order. *)
LEMMA RemoveAtEntries ==
    ASSUME NEW S, NEW s \in Seq(S), NEW i \in 1..Len(s)
    PROVE  /\ RemoveAt(s, i) \in Seq(S)
           /\ Len(RemoveAt(s, i)) = Len(s) - 1
           /\ \A j \in 1..(Len(s) - 1) :
                RemoveAt(s, i)[j] = IF j < i THEN s[j] ELSE s[j + 1]
<1>1. /\ SubSeq(s, 1, i-1) \in Seq(S)
      /\ Len(SubSeq(s, 1, i-1)) = i - 1
      /\ \A j \in 1..(i-1) : SubSeq(s, 1, i-1)[j] = s[j]
  BY SubSeqProperties
<1>2. /\ SubSeq(s, i+1, Len(s)) \in Seq(S)
      /\ Len(SubSeq(s, i+1, Len(s))) = Len(s) - i
      /\ \A j \in 1..(Len(s) - i) : SubSeq(s, i+1, Len(s))[j] = s[i+j]
  BY SubSeqProperties
<1>3. /\ RemoveAt(s, i) \in Seq(S)
      /\ Len(RemoveAt(s, i)) = (i - 1) + (Len(s) - i)
      /\ \A j \in 1..((i - 1) + (Len(s) - i)) :
           RemoveAt(s, i)[j] = IF j <= i - 1
                               THEN SubSeq(s, 1, i-1)[j]
                               ELSE SubSeq(s, i+1, Len(s))[j - (i - 1)]
  <2> DEFINE a == SubSeq(s, 1, i-1)
             b == SubSeq(s, i+1, Len(s))
  <2>1. a \in Seq(S) /\ b \in Seq(S) /\ Len(a) = i - 1 /\ Len(b) = Len(s) - i
    BY <1>1, <1>2
  <2>2. RemoveAt(s, i) = a \o b
    BY DEF RemoveAt
  <2> HIDE DEF a, b
  <2>3. /\ a \o b \in Seq(S)
        /\ Len(a \o b) = Len(a) + Len(b)
        /\ \A j \in 1..(Len(a) + Len(b)) :
             (a \o b)[j] = IF j <= Len(a) THEN a[j] ELSE b[j - Len(a)]
    BY <2>1, ConcatProperties
  <2>4. QED
    BY <2>1, <2>2, <2>3 DEF a, b
<1>4. (i - 1) + (Len(s) - i) = Len(s) - 1
  OBVIOUS
<1>5. ASSUME NEW j \in 1..(Len(s) - 1)
      PROVE  RemoveAt(s, i)[j] = IF j < i THEN s[j] ELSE s[j + 1]
  <2>1. CASE j < i
    BY <1>1, <1>3, <1>4, <2>1
  <2>2. CASE ~(j < i)
    <3>1. j - (i - 1) \in 1..(Len(s) - i) /\ i + (j - (i - 1)) = j + 1
      BY <2>2
    <3>2. SubSeq(s, i+1, Len(s))[j - (i - 1)] = s[i + (j - (i - 1))]
      BY <1>2, <3>1
    <3>3. RemoveAt(s, i)[j] = SubSeq(s, i+1, Len(s))[j - (i - 1)]
      BY <1>3, <1>4, <2>2
    <3>4. QED
      BY <2>2, <3>1, <3>2, <3>3
  <2>3. QED
    BY <2>1, <2>2
<1>6. QED
  BY <1>3, <1>4, <1>5

(* Append(m_tasks, e) keeps the entries that are there and adds e. *)
LEMMA AppendEntries ==
    ASSUME NEW S, NEW s \in Seq(S), NEW e \in S
    PROVE  /\ Append(s, e) \in Seq(S)
           /\ Len(Append(s, e)) = Len(s) + 1
           /\ \A j \in 1..Len(s) : Append(s, e)[j] = s[j]
           /\ Append(s, e)[Len(s) + 1] = e
BY AppendProperties

-----------------------------------------------------------------------------
(* Type correctness and what a thread holds *)

LEMMA InitTypeOK == Init => TypeOK /\ TaskInv
<1> SUFFICES ASSUME Init
             PROVE  TypeOK /\ TaskInv
  OBVIOUS
<1> USE SchedulerAssumption DEF Init
<1>1. m_tasks \in Seq(Entry)
  BY EmptySeq
<1>2. pc \in [Threads -> PC] /\ m_state \in [Fibers -> {"READY", "RUNNING", "TERM"}]
  BY DEF PC
<1>3. yields \in [Fibers -> 0..MaxYields]
  OBVIOUS
<1>4. task \in [Threads -> Fibers \cup {NoFiber}] /\ idleTerm \in [Threads -> BOOLEAN]
  OBVIOUS
<1>5. /\ m_stopping \in BOOLEAN /\ failed \in BOOLEAN
      /\ m_threads \in SUBSET Pool /\ scheduled \in SUBSET Fibers
      /\ owed \in SUBSET Fibers
  OBVIOUS
<1>6. m_activeThreadCount \in Int /\ m_idleThreadCount \in Int
  OBVIOUS
<1>7. mainPc \in {"built", "started", "stopping", "join", "stopped"}
  OBVIOUS
<1>8. TypeOK
  BY ONLY <1>1, <1>2, <1>3, <1>4, <1>5, <1>6, <1>7 DEF TypeOK
<1>9. TaskInv
  BY DEF TaskInv
<1>10. QED
  BY <1>8, <1>9

(* The fields of a queue entry. *)
LEMMA EntryFields ==
    ASSUME TypeOK, NEW i \in 1..Len(m_tasks)
    PROVE  /\ m_tasks[i] \in Entry
           /\ m_tasks[i].fiber \in Fibers
           /\ m_tasks[i].thread \in Threads \cup {AnyThread}
<1>1. m_tasks[i] \in Entry
  BY ElementOfSeq DEF TypeOK
<1>2. QED
  BY <1>1 DEF Entry

LEMMA TypeOKStep == TypeOK /\ TaskInv /\ [Next]_vars => TypeOK'
<1> SUFFICES ASSUME TypeOK, TaskInv, [Next]_vars
             PROVE  TypeOK'
  OBVIOUS
<1> USE SchedulerAssumption
<1>1. CASE UNCHANGED vars
  BY <1>1 DEF TypeOK, vars
<1>2. CASE start
  BY <1>2 DEF TypeOK, start, CreatedThreads, Pool, PC
<1>3. ASSUME NEW f \in Fibers, NEW thr \in Threads \cup {AnyThread}, schedule(f, thr)
      PROVE  TypeOK'
  <2>1. m_tasks' \in Seq(Entry)
    <3>1. [fiber |-> f, thread |-> thr] \in Entry
      BY DEF Entry
    <3>2. QED
      BY <1>3, <3>1, AppendEntries DEF TypeOK, schedule, scheduleNoLock
  <2>2. QED
    BY <1>3, <2>1 DEF TypeOK, schedule
<1>4. CASE stop
  BY <1>4 DEF TypeOK, stop
<1>5. CASE stopResumeRoot
  BY <1>5 DEF TypeOK, stopResumeRoot, PC
<1>6. CASE stopJoin
  BY <1>6 DEF TypeOK, stopJoin
<1>7. CASE stopAgain
  BY <1>7 DEF TypeOK, stopAgain, UseCaller, stopping
<1>8. ASSUME NEW t \in Threads, RunStep(t)
      PROVE  TypeOK'
  <2>1. CASE ScanPick(t)
    <3>1. PICK i \in EligibleSet(t) :
             /\ task' = [task EXCEPT ![t] = m_tasks[i].fiber]
             /\ m_tasks' = RemoveAt(m_tasks, i)
      BY <2>1 DEF ScanPick
    <3>2. i \in 1..Len(m_tasks)
      BY DEF EligibleSet
    <3>3. m_tasks' \in Seq(Entry)
      BY <3>1, <3>2, RemoveAtEntries DEF TypeOK
    <3>4. m_tasks[i].fiber \in Fibers
      BY <3>2, EntryFields
    <3>5. QED
      BY <2>1, <3>1, <3>3, <3>4 DEF TypeOK, ScanPick, Goto, PC
  <2>2. CASE ScanNone(t)
    BY <2>2 DEF TypeOK, ScanNone, Goto, PC
  <2>3. CASE Tickle(t)
    BY <2>3 DEF TypeOK, Tickle, Goto, PC
  <2>4. CASE Resume(t)
    BY <2>4 DEF TypeOK, Resume, Goto, PC
  <2>5. ASSUME NEW f \in Fibers, NEW thr \in Threads \cup {AnyThread},
               BodySchedule(t, f, thr)
        PROVE  TypeOK'
    <3>1. [fiber |-> f, thread |-> thr] \in Entry
      BY DEF Entry
    <3>2. m_tasks' \in Seq(Entry)
      BY <2>5, <3>1, AppendEntries DEF TypeOK, BodySchedule, scheduleNoLock
    <3>3. QED
      BY <2>5, <3>2 DEF TypeOK, BodySchedule
  <2>6. CASE BodyReschedule(t)
    <3>1. task[t] \in Fibers
      BY <2>6 DEF TypeOK, TaskInv, BodyReschedule
    <3>2. [fiber |-> task[t], thread |-> IF PinnedYield THEN t ELSE AnyThread] \in Entry
      BY <3>1 DEF Entry
    <3>3. m_tasks' \in Seq(Entry)
      BY <2>6, <3>2, AppendEntries DEF TypeOK, BodyReschedule, scheduleNoLock
    <3>4. yields' \in [Fibers -> 0..MaxYields]
      BY <2>6, <3>1 DEF TypeOK, BodyReschedule
    <3>5. QED
      BY <2>6, <3>3, <3>4 DEF TypeOK, BodyReschedule, Goto, PC
  <2>7. CASE YieldReady(t)
    BY <2>7 DEF TypeOK, YieldReady, Goto, PC
  <2>8. CASE YieldSwap(t)
    BY <2>8 DEF TypeOK, YieldSwap, Goto, PC
  <2>9. CASE BodyReturn(t)
    BY <2>9 DEF TypeOK, BodyReturn, Goto, PC
  <2>10. CASE Ret(t)
    BY <2>10 DEF TypeOK, Ret, Goto, PC
  <2>11. CASE Exit(t)
    BY <2>11 DEF TypeOK, Exit, Goto, PC
  <2>12. CASE IdleResume(t)
    BY <2>12 DEF TypeOK, IdleResume, Goto, PC
  <2>13. CASE IdleCheck(t)
    BY <2>13 DEF TypeOK, IdleCheck, Goto, PC, stopping
  <2>14. CASE IdleLeave(t)
    BY <2>14 DEF TypeOK, IdleLeave, Goto, PC
  <2>15. QED
    BY <1>8, <2>1, <2>2, <2>3, <2>4, <2>5, <2>6, <2>7, <2>8, <2>9, <2>10,
       <2>11, <2>12, <2>13, <2>14 DEF RunStep
<1>9. QED
  BY <1>1, <1>2, <1>3, <1>4, <1>5, <1>6, <1>7, <1>8 DEF Next, StopStep, Halt

LEMMA TaskInvStep == TypeOK /\ TaskInv /\ [Next]_vars => TaskInv'
<1> SUFFICES ASSUME TypeOK, TaskInv, [Next]_vars
             PROVE  TaskInv'
  OBVIOUS
<1> USE SchedulerAssumption DEF TypeOK, TaskInv
<1>1. CASE UNCHANGED vars
  BY <1>1 DEF vars
<1>2. CASE start \/ stopResumeRoot
  BY <1>2, SMTT(30) DEF start, CreatedThreads, stopResumeRoot, Pool, PC
<1>3. CASE stop \/ stopJoin \/ stopAgain
  BY <1>3 DEF stop, stopJoin, stopAgain
<1>4. ASSUME NEW f \in Fibers, NEW thr \in Threads \cup {AnyThread}, schedule(f, thr)
      PROVE  TaskInv'
  BY <1>4 DEF schedule
<1>5. ASSUME NEW t \in Threads, RunStep(t)
      PROVE  TaskInv'
  <2>1. CASE ScanPick(t)
    <3>1. PICK i \in 1..Len(m_tasks) : task' = [task EXCEPT ![t] = m_tasks[i].fiber]
      BY <2>1 DEF ScanPick, EligibleSet
    <3>2. m_tasks[i].fiber \in Fibers
      BY <3>1, EntryFields
    <3>3. QED
      BY <2>1, <3>1, <3>2 DEF ScanPick, Goto
  <2>2. CASE ScanNone(t) \/ Tickle(t) \/ Ret(t) \/ Exit(t)
    BY <2>2, ZenonT(30) DEF ScanNone, Tickle, Ret, Exit, Goto
  <2>3. CASE Resume(t) \/ BodyReschedule(t) \/ YieldReady(t)
    BY <2>3 DEF Resume, BodyReschedule, YieldReady, Goto
  <2>4. CASE YieldSwap(t) \/ BodyReturn(t)
    BY <2>4 DEF YieldSwap, BodyReturn, Goto
  <2>5. CASE IdleResume(t) \/ IdleCheck(t) \/ IdleLeave(t)
    BY <2>5 DEF IdleResume, IdleCheck, IdleLeave, Goto
  <2>6. ASSUME NEW f \in Fibers, NEW thr \in Threads \cup {AnyThread},
               BodySchedule(t, f, thr)
        PROVE  TaskInv'
    BY <2>6 DEF BodySchedule
  <2>7. QED
    BY <1>5, <2>1, <2>2, <2>3, <2>4, <2>5, <2>6 DEF RunStep
<1>6. QED
  BY <1>1, <1>2, <1>3, <1>4, <1>5 DEF Next, StopStep, Halt

(* TypeOK: every variable keeps the type its C++ declaration gives it. *)
THEOREM TypeCorrect == Spec => [](TypeOK /\ TaskInv)
BY InitTypeOK, TypeOKStep, TaskInvStep, PTL DEF Spec

-----------------------------------------------------------------------------
(* The counters *)

Holders == {t \in Threads : Holding(t)}
Idlers  == {t \in Threads : pc[t] \in {"idle", "idleRet"}}

LEMMA CountsInit == Init => CountsExact
<1> SUFFICES ASSUME Init
             PROVE  CountsExact
  OBVIOUS
<1>1. {t \in Threads : Holding(t)} = {} /\ {t \in Threads : pc[t] \in {"idle", "idleRet"}} = {}
  BY DEF Init, Holding, Busy
<1>2. QED
  BY <1>1, FS_EmptySet DEF Init, CountsExact

LEMMA CountsStep == TypeOK /\ TaskInv /\ CountsExact /\ [Next]_vars => CountsExact'
<1> SUFFICES ASSUME TypeOK, TaskInv, CountsExact, [Next]_vars
             PROVE  CountsExact'
  OBVIOUS
<1> USE SchedulerAssumption
<1>1. IsFiniteSet(Holders) /\ IsFiniteSet(Idlers)
  BY FS_Subset DEF Holders, Idlers
<1>2. ASSUME Holders' = Holders, Idlers' = Idlers,
             UNCHANGED <<m_activeThreadCount, m_idleThreadCount>>
      PROVE  CountsExact'
  BY <1>2 DEF CountsExact, Holders, Idlers
<1>3. CASE UNCHANGED vars
  BY <1>2, <1>3 DEF vars, Holders, Idlers, Holding
<1>4. CASE start \/ stopResumeRoot
  <2>1. Holders' = Holders
    BY <1>4 DEF start, CreatedThreads, stopResumeRoot, Holders, Holding, Busy, TypeOK, TaskInv, Pool
  <2>2. Idlers' = Idlers
    BY <1>4 DEF start, CreatedThreads, stopResumeRoot, Idlers, TypeOK, TaskInv, Pool
  <2>3. QED
    BY <1>2, <1>4, <2>1, <2>2 DEF start, CreatedThreads, stopResumeRoot
<1>5. CASE stop \/ stopJoin \/ stopAgain
  BY <1>2, <1>5 DEF stop, stopJoin, stopAgain, Holders, Idlers, Holding
<1>6. ASSUME NEW f \in Fibers, NEW thr \in Threads \cup {AnyThread}, schedule(f, thr)
      PROVE  CountsExact'
  BY <1>2, <1>6 DEF schedule, Holders, Idlers, Holding
<1>7. ASSUME NEW t \in Threads, RunStep(t)
      PROVE  CountsExact'
  <2> USE DEF Goto
  <2>1. CASE ScanPick(t)
    <3>1. PICK i \in 1..Len(m_tasks) : task' = [task EXCEPT ![t] = m_tasks[i].fiber]
      BY <2>1 DEF ScanPick, EligibleSet
    <3>2. m_tasks[i].fiber # NoFiber
      BY <3>1, EntryFields
    <3>3. Holders' = Holders \cup {t} /\ t \notin Holders
      BY <2>1, <3>1, <3>2 DEF ScanPick, Holders, Holding, Busy, TypeOK
    <3>4. Idlers' = Idlers
      BY <2>1 DEF ScanPick, Idlers, TypeOK
    <3>5. Cardinality(Holders') = Cardinality(Holders) + 1
      BY <1>1, <3>3, FS_AddElement
    <3>6. m_activeThreadCount' = m_activeThreadCount + 1 /\ UNCHANGED m_idleThreadCount
      BY <2>1 DEF ScanPick
    <3>7. QED
      BY <3>4, <3>5, <3>6 DEF CountsExact, Holders, Idlers
  <2>2. CASE ScanNone(t) \/ Tickle(t) \/ Exit(t)
    <3>1. Holders' = Holders
      BY <2>2 DEF ScanNone, Tickle, Exit, Holders, Holding, Busy, TypeOK, TaskInv
    <3>2. Idlers' = Idlers
      BY <2>2 DEF ScanNone, Tickle, Exit, Idlers, TypeOK
    <3>3. QED
      BY <1>2, <2>2, <3>1, <3>2 DEF ScanNone, Tickle, Exit
  <2>3. CASE Resume(t) \/ BodyReschedule(t) \/ YieldReady(t)
    <3>1. Holders' = Holders
      BY <2>3 DEF Resume, BodyReschedule, YieldReady, Holders, Holding, Busy, TypeOK
    <3>2. Idlers' = Idlers
      BY <2>3 DEF Resume, BodyReschedule, YieldReady, Idlers, TypeOK
    <3>3. QED
      BY <1>2, <2>3, <3>1, <3>2 DEF Resume, BodyReschedule, YieldReady
  <2>4. CASE YieldSwap(t) \/ BodyReturn(t)
    <3>1. Holders' = Holders
      BY <2>4 DEF YieldSwap, BodyReturn, Holders, Holding, Busy, TypeOK
    <3>2. Idlers' = Idlers
      BY <2>4 DEF YieldSwap, BodyReturn, Idlers, TypeOK
    <3>3. QED
      BY <1>2, <2>4, <3>1, <3>2 DEF YieldSwap, BodyReturn
  <2>5. CASE Ret(t)
    <3>1. Holders' = Holders \ {t} /\ t \in Holders
      BY <2>5 DEF Ret, Holders, Holding, Busy, TypeOK
    <3>2. Idlers' = Idlers
      BY <2>5 DEF Ret, Idlers, TypeOK
    <3>3. Cardinality(Holders') = Cardinality(Holders) - 1
      BY <1>1, <3>1, FS_RemoveElement
    <3>4. m_activeThreadCount' = m_activeThreadCount - 1 /\ UNCHANGED m_idleThreadCount
      BY <2>5 DEF Ret
    <3>5. QED
      BY <3>2, <3>3, <3>4 DEF CountsExact, Holders, Idlers
  <2>6. CASE IdleResume(t)
    <3>1. Holders' = Holders
      BY <2>6 DEF IdleResume, Holders, Holding, Busy, TypeOK
    <3>2. Idlers' = Idlers \cup {t} /\ t \notin Idlers
      BY <2>6 DEF IdleResume, Idlers, TypeOK
    <3>3. Cardinality(Idlers') = Cardinality(Idlers) + 1
      BY <1>1, <3>2, FS_AddElement
    <3>4. m_idleThreadCount' = m_idleThreadCount + 1 /\ UNCHANGED m_activeThreadCount
      BY <2>6 DEF IdleResume
    <3>5. QED
      BY <3>1, <3>3, <3>4 DEF CountsExact, Holders, Idlers
  <2>7. CASE IdleLeave(t)
    <3>1. Holders' = Holders
      BY <2>7 DEF IdleLeave, Holders, Holding, Busy, TypeOK
    <3>2. Idlers' = Idlers \ {t} /\ t \in Idlers
      BY <2>7 DEF IdleLeave, Idlers, TypeOK
    <3>3. Cardinality(Idlers') = Cardinality(Idlers) - 1
      BY <1>1, <3>2, FS_RemoveElement
    <3>4. m_idleThreadCount' = m_idleThreadCount - 1 /\ UNCHANGED m_activeThreadCount
      BY <2>7 DEF IdleLeave
    <3>5. QED
      BY <3>1, <3>3, <3>4 DEF CountsExact, Holders, Idlers
  <2>8. CASE IdleCheck(t)
    <3>1. Holders' = Holders
      BY <2>8 DEF IdleCheck, Holders, Holding, Busy, TypeOK
    <3>2. Idlers' = Idlers
      BY <2>8 DEF IdleCheck, Idlers, TypeOK
    <3>3. QED
      BY <1>2, <2>8, <3>1, <3>2 DEF IdleCheck
  <2>9. ASSUME NEW f \in Fibers, NEW thr \in Threads \cup {AnyThread},
               BodySchedule(t, f, thr)
        PROVE  CountsExact'
    BY <1>2, <2>9 DEF BodySchedule, Holders, Idlers, Holding
  <2>10. QED
    BY <1>7, <2>1, <2>2, <2>3, <2>4, <2>5, <2>6, <2>7, <2>8, <2>9 DEF RunStep
<1>8. QED
  BY <1>3, <1>4, <1>5, <1>6, <1>7 DEF Next, StopStep, Halt

-----------------------------------------------------------------------------
(* A fiber is on one stack only *)

LEMMA OnStackStep ==
    TypeOK /\ TaskInv /\ OnStackInv /\ [Next]_vars => OnStackInv'
<1> SUFFICES ASSUME TypeOK, TaskInv, OnStackInv, [Next]_vars
             PROVE  OnStackInv'
  OBVIOUS
<1> USE SchedulerAssumption DEF TypeOK, OnStackInv
<1>1. CASE UNCHANGED vars
  BY <1>1 DEF vars
<1>2. CASE start \/ stopResumeRoot
  BY <1>2 DEF start, CreatedThreads, stopResumeRoot, Pool, TaskInv
<1>3. CASE stop \/ stopJoin \/ stopAgain
  BY <1>3 DEF stop, stopJoin, stopAgain
<1>4. ASSUME NEW f \in Fibers, NEW thr \in Threads \cup {AnyThread}, schedule(f, thr)
      PROVE  OnStackInv'
  BY <1>4 DEF schedule
<1>5. ASSUME NEW t \in Threads, RunStep(t)
      PROVE  OnStackInv'
  <2> USE DEF Goto
  <2>1. CASE ScanPick(t)
    <3>0. PICK i : task' = [task EXCEPT ![t] = m_tasks[i].fiber]
      BY <2>1 DEF ScanPick
    <3>1. /\ \A u \in Threads : u # t => task'[u] = task[u] /\ pc'[u] = pc[u]
          /\ pc'[t] = "tickle" /\ m_state' = m_state
      BY <2>1, <3>0 DEF ScanPick
    <3>2. QED
      BY <3>1, SMTT(30)
  <2>2. CASE ScanNone(t) \/ Tickle(t) \/ Ret(t) \/ Exit(t)
    BY <2>2 DEF ScanNone, Tickle, Ret, Exit
  <2>3. CASE Resume(t)
    <3>1. task[t] \in Fibers
      BY <2>3 DEF Resume, TaskInv
    <3>2. CASE pc' = pc /\ m_state' = m_state
      BY <2>3, <3>2 DEF Resume
    <3>3. CASE /\ m_state[task[t]] = "READY"
               /\ \A u \in Threads : pc[u] = "yielding" => task[u] # task[t]
               /\ m_state' = [m_state EXCEPT ![task[t]] = "RUNNING"]
               /\ pc' = [pc EXCEPT ![t] = "run"]
      <4>1. \A u \in Threads :
               pc[u] \in {"run", "resched", "yielding"} => task[u] # task[t]
        BY <3>3
      <4>2. task' = task
        BY <2>3 DEF Resume
      <4>3. \A u \in Threads : pc'[u] \in {"run", "resched"} => m_state'[task'[u]] = "RUNNING"
        BY <3>1, <3>3, <4>1, <4>2
      <4>4. QED
        BY <3>3, <4>1, <4>2, <4>3
    <3>4. QED
      BY <2>3, <3>2, <3>3 DEF Resume
  <2>4. CASE BodyReschedule(t)
    BY <2>4 DEF BodyReschedule
  <2>5. CASE YieldReady(t)
    BY <2>5 DEF YieldReady
  <2>6. CASE YieldSwap(t)
    BY <2>6 DEF YieldSwap
  <2>7. CASE BodyReturn(t)
    BY <2>7 DEF BodyReturn
  <2>8. CASE IdleResume(t) \/ IdleCheck(t) \/ IdleLeave(t)
    BY <2>8, SMTT(30) DEF IdleResume, IdleCheck, IdleLeave
  <2>9. ASSUME NEW f \in Fibers, NEW thr \in Threads \cup {AnyThread},
               BodySchedule(t, f, thr)
        PROVE  OnStackInv'
    BY <2>9 DEF BodySchedule
  <2>10. QED
    BY <1>5, <2>1, <2>2, <2>3, <2>4, <2>5, <2>6, <2>7, <2>8, <2>9 DEF RunStep
<1>6. QED
  BY <1>1, <1>2, <1>3, <1>4, <1>5 DEF Next, StopStep, Halt

-----------------------------------------------------------------------------
(* No scheduled fiber is lost *)

LEMMA QueuedAppend ==
    ASSUME TypeOK, NEW e \in Entry, m_tasks' = Append(m_tasks, e)
    PROVE  \A f : Queued(f)' <=> Queued(f) \/ f = e.fiber
<1>1. /\ Len(m_tasks') = Len(m_tasks) + 1
      /\ \A j \in 1..Len(m_tasks) : m_tasks'[j] = m_tasks[j]
      /\ m_tasks'[Len(m_tasks) + 1] = e
  BY AppendEntries DEF TypeOK
<1>2. Len(m_tasks) \in Nat
  BY LenProperties DEF TypeOK
<1>3. QED
  BY <1>1, <1>2 DEF Queued

LEMMA QueuedErase ==
    ASSUME TypeOK, NEW i \in 1..Len(m_tasks), m_tasks' = RemoveAt(m_tasks, i)
    PROVE  \A f : Queued(f) => Queued(f)' \/ f = m_tasks[i].fiber
<1> SUFFICES ASSUME NEW f, NEW k \in 1..Len(m_tasks), m_tasks[k].fiber = f, k # i
             PROVE  Queued(f)'
  BY DEF Queued
<1>1. /\ Len(m_tasks') = Len(m_tasks) - 1
      /\ \A j \in 1..(Len(m_tasks) - 1) :
           m_tasks'[j] = IF j < i THEN m_tasks[j] ELSE m_tasks[j + 1]
  BY RemoveAtEntries DEF TypeOK
<1>2. Len(m_tasks) \in Nat
  BY LenProperties DEF TypeOK
<1>3. CASE k < i
  <2>1. k \in 1..Len(m_tasks') /\ m_tasks'[k] = m_tasks[k]
    BY <1>1, <1>2, <1>3
  <2>2. QED
    BY <2>1 DEF Queued
<1>4. CASE k > i
  <2>1. k - 1 \in 1..Len(m_tasks') /\ m_tasks'[k - 1] = m_tasks[k]
    BY <1>1, <1>2, <1>4
  <2>2. QED
    BY <2>1 DEF Queued
<1>5. QED
  BY <1>2, <1>3, <1>4

LEMMA RescheduledStep ==
    TypeOK /\ TaskInv /\ OnStackInv /\ RescheduledInv /\ [Next]_vars => RescheduledInv'
<1> SUFFICES ASSUME TypeOK, TaskInv, OnStackInv, RescheduledInv, [Next]_vars
             PROVE  RescheduledInv'
  OBVIOUS
<1> USE SchedulerAssumption DEF RescheduledInv
<1>1. ASSUME UNCHANGED <<m_tasks, task>>,
             \A u \in Threads : pc'[u] \in {"resched", "yielding"} =>
                               pc[u] \in {"resched", "yielding"}
      PROVE  RescheduledInv'
  BY <1>1 DEF Queued
<1>2. CASE UNCHANGED vars
  BY <1>1, <1>2 DEF vars
<1>3. CASE start \/ stopResumeRoot
  BY <1>1, <1>3 DEF start, CreatedThreads, stopResumeRoot, TypeOK
<1>4. CASE stop \/ stopJoin \/ stopAgain
  BY <1>1, <1>4 DEF stop, stopJoin, stopAgain
<1>5. ASSUME NEW f \in Fibers, NEW thr \in Threads \cup {AnyThread}, schedule(f, thr)
      PROVE  RescheduledInv'
  <2>1. [fiber |-> f, thread |-> thr] \in Entry
    BY DEF Entry
  <2>2. \A g : Queued(g) => Queued(g)'
    BY <1>5, <2>1, QueuedAppend DEF schedule, scheduleNoLock
  <2>3. QED
    BY <1>5, <2>2 DEF schedule
<1>6. ASSUME NEW t \in Threads, RunStep(t)
      PROVE  RescheduledInv'
  <2> USE DEF Goto
  <2>1. CASE ScanPick(t)
    <3>1. PICK i \in 1..Len(m_tasks) :
             /\ task' = [task EXCEPT ![t] = m_tasks[i].fiber]
             /\ m_tasks' = RemoveAt(m_tasks, i)
      BY <2>1 DEF ScanPick, EligibleSet
    <3>2. \A g : Queued(g) => Queued(g)' \/ g = m_tasks[i].fiber
      BY <3>1, QueuedErase
    <3>3. pc[t] = "scan" /\ pc' = [pc EXCEPT ![t] = "tickle"] /\ task[t] = NoFiber
      BY <2>1 DEF ScanPick, TaskInv
    <3>4. SUFFICES ASSUME NEW u \in Threads, pc'[u] \in {"resched", "yielding"}
                   PROVE  Queued(task[u])' \/ \E v \in Threads : v # u /\ task'[v] = task'[u]
      BY <3>1, <3>3 DEF TypeOK, Queued
    <3>5. u # t /\ pc[u] \in {"resched", "yielding"} /\ task'[u] = task[u]
      BY <3>1, <3>3, <3>4 DEF TypeOK
    <3>6. task[u] # NoFiber
      BY <3>5 DEF TaskInv
    <3>7. Queued(task[u]) \/ \E v \in Threads : v # u /\ v # t /\ task[v] = task[u]
      BY <3>3, <3>5, <3>6
    <3>8. QED
      BY <3>1, <3>2, <3>5, <3>7 DEF TypeOK
  <2>2. CASE ScanNone(t) \/ Tickle(t) \/ Resume(t) \/ YieldReady(t)
    BY <1>1, <2>2 DEF ScanNone, Tickle, Resume, YieldReady, TypeOK
  <2>3. CASE Ret(t) \/ Exit(t) \/ IdleResume(t) \/ IdleCheck(t) \/ IdleLeave(t)
    BY <1>1, <2>3 DEF Ret, Exit, IdleResume, IdleCheck, IdleLeave, TypeOK
  <2>4. ASSUME NEW f \in Fibers, NEW thr \in Threads \cup {AnyThread},
               BodySchedule(t, f, thr)
        PROVE  RescheduledInv'
    <3>1. [fiber |-> f, thread |-> thr] \in Entry
      BY DEF Entry
    <3>2. \A g : Queued(g) => Queued(g)'
      BY <2>4, <3>1, QueuedAppend DEF BodySchedule, scheduleNoLock
    <3>3. QED
      BY <2>4, <3>2 DEF BodySchedule
  <2>5. CASE BodyReschedule(t)
    <3>1. task[t] \in Fibers
      BY <2>5 DEF TypeOK, TaskInv, BodyReschedule
    <3>2. [fiber |-> task[t], thread |-> IF PinnedYield THEN t ELSE AnyThread] \in Entry
      BY <3>1 DEF Entry
    <3>3. \A g : Queued(g)' <=> Queued(g) \/ g = task[t]
      BY <2>5, <3>2, QueuedAppend DEF BodyReschedule, scheduleNoLock
    <3>4. QED
      BY <2>5, <3>3 DEF BodyReschedule, TypeOK
  <2>6. CASE YieldSwap(t) \/ BodyReturn(t)
    <3>1. /\ pc[t] \in {"yielding", "run"} /\ pc' = [pc EXCEPT ![t] = "ret"]
          /\ task' = [task EXCEPT ![t] = NoFiber] /\ UNCHANGED m_tasks
      BY <2>6 DEF YieldSwap, BodyReturn
    <3>2. SUFFICES ASSUME NEW u \in Threads, pc'[u] \in {"resched", "yielding"}
                   PROVE  Queued(task[u]) \/ \E v \in Threads : v # u /\ task'[v] = task'[u]
      BY <3>1 DEF TypeOK, Queued
    <3>3. u # t /\ pc[u] \in {"resched", "yielding"} /\ task'[u] = task[u]
      BY <3>1, <3>2 DEF TypeOK
    <3>4. task[t] # task[u]
      BY <3>1, <3>3 DEF OnStackInv
    <3>5. QED
      BY <3>1, <3>3, <3>4 DEF TypeOK
  <2>7. QED
    BY <1>6, <2>1, <2>2, <2>3, <2>4, <2>5, <2>6 DEF RunStep
<1>7. QED
  BY <1>2, <1>3, <1>4, <1>5, <1>6 DEF Next, StopStep, Halt

LEMMA NotLostStep ==
    TypeOK /\ TaskInv /\ OnStackInv /\ RescheduledInv /\ NotLostInv /\ [Next]_vars
        => NotLostInv'
<1> SUFFICES ASSUME TypeOK, TaskInv, OnStackInv, RescheduledInv, NotLostInv, [Next]_vars
             PROVE  NotLostInv'
  OBVIOUS
<1> USE SchedulerAssumption DEF NotLostInv
<1>1. ASSUME UNCHANGED <<m_tasks, task, scheduled, owed>>,
             \A f \in Fibers : m_state[f] = "TERM" => m_state'[f] = "TERM"
      PROVE  NotLostInv'
  BY <1>1 DEF Queued, TypeOK
<1>2. CASE UNCHANGED vars
  BY <1>1, <1>2 DEF vars
<1>3. CASE start \/ stopResumeRoot \/ stop \/ stopJoin \/ stopAgain
  BY <1>1, <1>3 DEF start, CreatedThreads, stopResumeRoot, stop, stopJoin, stopAgain
<1>4. ASSUME NEW f \in Fibers, NEW thr \in Threads \cup {AnyThread}, schedule(f, thr)
      PROVE  NotLostInv'
  <2>1. [fiber |-> f, thread |-> thr] \in Entry
    BY DEF Entry
  <2>2. \A g : Queued(g)' <=> Queued(g) \/ g = f
    BY <1>4, <2>1, QueuedAppend DEF schedule, scheduleNoLock
  <2>3. QED
    BY <1>4, <2>2 DEF schedule
<1>5. ASSUME NEW t \in Threads, RunStep(t)
      PROVE  NotLostInv'
  <2> USE DEF Goto
  <2>1. CASE ScanPick(t)
    <3>1. PICK i \in 1..Len(m_tasks) :
             /\ task' = [task EXCEPT ![t] = m_tasks[i].fiber]
             /\ m_tasks' = RemoveAt(m_tasks, i)
      BY <2>1 DEF ScanPick, EligibleSet
    <3>2. \A g : Queued(g) => Queued(g)' \/ g = m_tasks[i].fiber
      BY <3>1, QueuedErase
    <3>3. task[t] = NoFiber /\ UNCHANGED <<m_state, scheduled, owed>>
      BY <2>1 DEF ScanPick, TaskInv
    <3>4. ASSUME NEW f \in scheduled
          PROVE  m_state[f] = "TERM" \/ Queued(f)' \/ \E u \in Threads : task'[u] = f
      <4>1. f # NoFiber
        BY DEF TypeOK
      <4>2. CASE Queued(f)
        BY <3>1, <3>2, <4>2 DEF TypeOK
      <4>3. ASSUME NEW u \in Threads, task[u] = f
            PROVE  task'[u] = f
        BY <3>1, <3>3, <4>1, <4>3 DEF TypeOK
      <4>4. QED
        BY <4>2, <4>3
    <3>5. QED
      BY <3>3, <3>4
  <2>2. CASE ScanNone(t) \/ Tickle(t) \/ Ret(t) \/ Exit(t)
    BY <1>1, <2>2 DEF ScanNone, Tickle, Ret, Exit
  <2>3. CASE IdleResume(t) \/ IdleCheck(t) \/ IdleLeave(t)
    BY <1>1, <2>3 DEF IdleResume, IdleCheck, IdleLeave
  <2>4. CASE Resume(t)
    BY <1>1, <2>4 DEF Resume, TypeOK
  <2>5. CASE YieldReady(t)
    <3>1. m_state[task[t]] = "RUNNING"
      BY <2>5 DEF YieldReady, OnStackInv
    <3>2. QED
      BY <1>1, <2>5, <3>1 DEF YieldReady, TypeOK
  <2>6. CASE YieldSwap(t)
    <3>1. /\ pc[t] = "yielding" /\ task' = [task EXCEPT ![t] = NoFiber]
          /\ UNCHANGED <<m_tasks, m_state, scheduled, owed>>
      BY <2>6 DEF YieldSwap
    <3>2. \A g : Queued(g)' <=> Queued(g)
      BY <3>1 DEF Queued
    <3>3. Queued(task[t]) \/ \E u \in Threads : u # t /\ task[u] = task[t]
      BY <3>1 DEF RescheduledInv
    <3>4. QED
      BY <3>1, <3>2, <3>3 DEF TypeOK
  <2>7. CASE BodyReturn(t)
    <3>1. /\ pc[t] = "run" /\ task' = [task EXCEPT ![t] = NoFiber]
          /\ m_state' = [m_state EXCEPT ![task[t]] = "TERM"]
          /\ UNCHANGED <<m_tasks, scheduled, owed>>
      BY <2>7 DEF BodyReturn
    <3>2. \A g : Queued(g)' <=> Queued(g)
      BY <3>1 DEF Queued
    <3>3. ASSUME NEW f \in scheduled
          PROVE  m_state'[f] = "TERM" \/ Queued(f)' \/ \E u \in Threads : task'[u] = f
      BY <3>1, <3>2 DEF TypeOK
    <3>4. QED
      BY <3>1, <3>3
  <2>8. ASSUME NEW f \in Fibers, NEW thr \in Threads \cup {AnyThread},
               BodySchedule(t, f, thr)
        PROVE  NotLostInv'
    <3>1. [fiber |-> f, thread |-> thr] \in Entry
      BY DEF Entry
    <3>2. \A g : Queued(g)' <=> Queued(g) \/ g = f
      BY <2>8, <3>1, QueuedAppend DEF BodySchedule, scheduleNoLock
    <3>3. QED
      BY <2>8, <3>2 DEF BodySchedule
  <2>9. CASE BodyReschedule(t)
    <3>1. task[t] \in Fibers
      BY <2>9 DEF TypeOK, TaskInv, BodyReschedule
    <3>2. [fiber |-> task[t], thread |-> IF PinnedYield THEN t ELSE AnyThread] \in Entry
      BY <3>1 DEF Entry
    <3>3. \A g : Queued(g)' <=> Queued(g) \/ g = task[t]
      BY <2>9, <3>2, QueuedAppend DEF BodyReschedule, scheduleNoLock
    <3>4. QED
      BY <2>9, <3>3 DEF BodyReschedule
  <2>10. QED
    BY <1>5, <2>1, <2>2, <2>3, <2>4, <2>5, <2>6, <2>7, <2>8, <2>9 DEF RunStep
<1>6. QED
  BY <1>2, <1>3, <1>4, <1>5 DEF Next, StopStep, Halt

-----------------------------------------------------------------------------
(* Nothing is left behind when a thread leaves run() *)

(* stopping() is evaluated with nothing queued and nothing held. *)
LEMMA StoppingMeansDone ==
    ASSUME TypeOK, TaskInv, CountsExact, NotLostInv, stopping
    PROVE  \A f \in owed : m_state[f] = "TERM"
<1>1. IsFiniteSet(Holders)
  BY SchedulerAssumption, FS_Subset DEF Holders
<1>2. Holders = {}
  BY <1>1, FS_EmptySet DEF CountsExact, stopping, Holders
<1>3. \A t \in Threads : task[t] = NoFiber
  BY <1>2 DEF Holders, Holding, Busy, TaskInv
<1>4. \A f : ~Queued(f)
  BY EmptySeq DEF stopping, Queued
<1>5. QED
  BY <1>3, <1>4, SchedulerAssumption DEF NotLostInv, TypeOK

LEMMA DrainStep ==
    /\ TypeOK /\ TaskInv /\ CountsExact /\ OnStackInv /\ NotLostInv /\ DrainInv
    /\ [Next]_vars
    => DrainInv'
<1> SUFFICES ASSUME TypeOK, TaskInv, CountsExact, OnStackInv, NotLostInv, DrainInv,
                    [Next]_vars
             PROVE  DrainInv'
  OBVIOUS
<1> USE SchedulerAssumption DEF DrainInv
<1>1. ASSUME UNCHANGED <<idleTerm, owed>>, m_stopping => m_stopping',
             \A f \in Fibers : m_state[f] = "TERM" => m_state'[f] = "TERM",
             \A u \in Threads : pc'[u] = "exit" => pc[u] = "exit" \/ idleTerm[u]
      PROVE  DrainInv'
  BY <1>1 DEF TypeOK
<1>2. CASE UNCHANGED vars
  BY <1>1, <1>2 DEF vars
<1>3. CASE start \/ stopResumeRoot \/ stop \/ stopJoin \/ stopAgain
  BY <1>1, <1>3 DEF start, CreatedThreads, stopResumeRoot, stop, stopJoin, stopAgain, TypeOK
<1>4. ASSUME NEW f \in Fibers, NEW thr \in Threads \cup {AnyThread}, schedule(f, thr)
      PROVE  DrainInv'
  BY <1>4 DEF schedule
<1>5. ASSUME NEW t \in Threads, RunStep(t)
      PROVE  DrainInv'
  <2> USE DEF Goto
  <2>1. CASE ScanPick(t) \/ ScanNone(t) \/ Tickle(t) \/ Ret(t) \/ Exit(t)
    BY <1>1, <2>1 DEF ScanPick, ScanNone, Tickle, Ret, Exit, TypeOK
  <2>2. CASE IdleResume(t) \/ IdleLeave(t)
    BY <1>1, <2>2 DEF IdleResume, IdleLeave, TypeOK
  <2>3. CASE IdleCheck(t)
    <3>1. /\ idleTerm' = [idleTerm EXCEPT ![t] = stopping]
          /\ pc[t] = "idle" /\ pc' = [pc EXCEPT ![t] = "idleRet"]
          /\ UNCHANGED <<m_stopping, m_state, owed>>
      BY <2>3 DEF IdleCheck
    <3>2. stopping => m_stopping /\ \A f \in owed : m_state[f] = "TERM"
      BY StoppingMeansDone DEF stopping
    <3>3. \A u \in Threads : pc'[u] = "exit" => idleTerm'[u]
      BY <3>1 DEF TypeOK
    <3>4. ASSUME NEW u \in Threads, idleTerm'[u]
          PROVE  m_stopping /\ \A f \in owed : m_state[f] = "TERM"
      BY <3>1, <3>2, <3>4 DEF TypeOK
    <3>5. QED
      BY <3>1, <3>3, <3>4
  <2>4. CASE Resume(t)
    BY <1>1, <2>4 DEF Resume, TypeOK
  <2>5. CASE YieldReady(t)
    <3>1. m_state[task[t]] = "RUNNING"
      BY <2>5 DEF YieldReady, OnStackInv
    <3>2. QED
      BY <1>1, <2>5, <3>1 DEF YieldReady, TypeOK
  <2>6. CASE YieldSwap(t) \/ BodyReturn(t) \/ BodyReschedule(t)
    BY <1>1, <2>6 DEF YieldSwap, BodyReturn, BodyReschedule, TypeOK
  <2>7. ASSUME NEW f \in Fibers, NEW thr \in Threads \cup {AnyThread},
               BodySchedule(t, f, thr)
        PROVE  DrainInv'
    <3>1. m_state[task[t]] = "RUNNING"
      BY <2>7 DEF BodySchedule, OnStackInv
    <3>2. (\E u \in Threads : idleTerm[u]) => task[t] \notin owed
      BY <3>1
    <3>3. QED
      BY <2>7, <3>2 DEF BodySchedule
  <2>8. QED
    BY <1>5, <2>1, <2>2, <2>3, <2>4, <2>5, <2>6, <2>7 DEF RunStep
<1>6. QED
  BY <1>2, <1>3, <1>4, <1>5 DEF Next, StopStep, Halt

-----------------------------------------------------------------------------
(* The theorems *)

LEMMA InitIInv == Init => IInv
<1> SUFFICES ASSUME Init
             PROVE  IInv
  OBVIOUS
<1>1. TypeOK /\ TaskInv /\ CountsExact
  BY InitTypeOK, CountsInit
<1>2. OnStackInv /\ RescheduledInv
  BY DEF Init, OnStackInv, RescheduledInv
<1>3. NotLostInv /\ DrainInv
  BY DEF Init, NotLostInv, DrainInv
<1>4. QED
  BY <1>1, <1>2, <1>3 DEF IInv

LEMMA IInvStep == IInv /\ [Next]_vars => IInv'
BY TypeOKStep, TaskInvStep, CountsStep, OnStackStep, RescheduledStep,
   NotLostStep, DrainStep DEF IInv

(* IInv is an invariant of the scheduler. *)
THEOREM Inductive == Spec => []IInv
BY InitIInv, IInvStep, PTL DEF Spec

(* CountsExact: m_activeThreadCount and m_idleThreadCount, which run()      *)
(* maintains outside the mutex, always equal the number of threads that     *)
(* hold a task, and that are in their idle fiber.                           *)
THEOREM CountsAreExact == Spec => []CountsExact
<1>1. IInv => CountsExact
  BY DEF IInv
<1>2. QED
  BY <1>1, Inductive, PTL

(* DrainedBeforeExit: however many threads there are, and whatever the      *)
(* application schedules late, no thread leaves run() before all the work   *)
(* handed in before stop(), and all the work that work scheduled, has ended.*)
THEOREM WorkIsDrained == Spec => []DrainedBeforeExit
<1>1. IInv => DrainedBeforeExit
  BY DEF IInv, DrainInv, DrainedBeforeExit
<1>2. QED
  BY <1>1, Inductive, PTL

-----------------------------------------------------------------------------
(* Pinned rescheduling *)

LEMMA PinStep ==
    PinnedYield /\ TypeOK /\ TaskInv /\ PinInv /\ [Next]_vars => PinInv'
<1> SUFFICES ASSUME PinnedYield, TypeOK, TaskInv, PinInv, [Next]_vars
             PROVE  PinInv'
  OBVIOUS
<1> USE SchedulerAssumption
<1>0. Len(m_tasks) \in Nat
  BY LenProperties DEF TypeOK
<1>1. ASSUME UNCHANGED <<m_tasks, task, scheduled>>,
             \A u \in Threads : pc[u] \in {"resched", "yielding"} =>
                               pc'[u] \in {"resched", "yielding"}
      PROVE  PinInv'
  BY <1>1 DEF PinInv, FiberOnOneThread
<1>2. ASSUME NEW f \in Fibers \ scheduled, NEW thr \in Threads \cup {AnyThread},
             scheduleNoLock(f, thr), scheduled' = scheduled \cup {f},
             UNCHANGED <<task, pc>>
      PROVE  PinInv'
  <2> DEFINE e == [fiber |-> f, thread |-> thr]
  <2>1. e \in Entry /\ e.fiber = f
    BY DEF Entry
  <2>2. /\ Len(m_tasks') = Len(m_tasks) + 1
        /\ \A j \in 1..Len(m_tasks) : m_tasks'[j] = m_tasks[j]
        /\ m_tasks'[Len(m_tasks) + 1] = e
    BY <1>2, <2>1, AppendEntries DEF TypeOK, scheduleNoLock
  <2>3. \A j \in 1..Len(m_tasks') : j \in 1..Len(m_tasks) \/ j = Len(m_tasks) + 1
    BY <1>0, <2>2
  <2>4. \A t \in Threads : task[t] # f
    BY <1>2 DEF PinInv
  <2> HIDE DEF e
  <2>5. \A i, j \in 1..Len(m_tasks') : i # j => m_tasks'[i].fiber # m_tasks'[j].fiber
    BY <1>2, <2>1, <2>2, <2>3 DEF PinInv
  <2>6. \A i \in 1..Len(m_tasks') : m_tasks'[i].fiber \in scheduled'
    BY <1>2, <2>1, <2>2, <2>3 DEF PinInv
  <2>7. \A t \in Threads, i \in 1..Len(m_tasks') :
           m_tasks'[i].fiber = task[t] =>
              m_tasks'[i].thread = t /\ pc[t] \in {"resched", "yielding"}
    BY <2>1, <2>2, <2>3, <2>4 DEF PinInv
  <2>8. QED
    BY <1>2, <2>5, <2>6, <2>7 DEF PinInv, FiberOnOneThread
<1>3. CASE UNCHANGED vars
  BY <1>1, <1>3 DEF vars
<1>4. CASE start \/ stopResumeRoot
  BY <1>1, <1>4 DEF start, CreatedThreads, stopResumeRoot, TypeOK, TaskInv, Pool
<1>5. CASE stop \/ stopJoin \/ stopAgain
  BY <1>1, <1>5 DEF stop, stopJoin, stopAgain
<1>6. ASSUME NEW f \in Fibers, NEW thr \in Threads \cup {AnyThread}, schedule(f, thr)
      PROVE  PinInv'
  BY <1>2, <1>6 DEF schedule
<1>7. ASSUME NEW t \in Threads, RunStep(t)
      PROVE  PinInv'
  <2> USE DEF Goto
  <2>1. CASE ScanPick(t)
    <3>1. PICK i \in EligibleSet(t) :
             /\ task' = [task EXCEPT ![t] = m_tasks[i].fiber]
             /\ m_tasks' = RemoveAt(m_tasks, i)
      BY <2>1 DEF ScanPick
    <3>2. i \in 1..Len(m_tasks) /\ m_tasks[i].thread \in {AnyThread, t}
      BY <3>1 DEF EligibleSet, Eligible
    <3>3. /\ pc[t] = "scan" /\ task[t] = NoFiber /\ scheduled' = scheduled
          /\ pc' = [pc EXCEPT ![t] = "tickle"]
      BY <2>1 DEF ScanPick, TaskInv
    <3>4. /\ Len(m_tasks') = Len(m_tasks) - 1
          /\ \A j \in 1..(Len(m_tasks) - 1) :
               m_tasks'[j] = IF j < i THEN m_tasks[j] ELSE m_tasks[j + 1]
      BY <3>1, <3>2, RemoveAtEntries, ZenonT(30) DEF TypeOK
    <3>5. \A j \in 1..Len(m_tasks') : \E k \in 1..Len(m_tasks) :
             k # i /\ (k = IF j < i THEN j ELSE j + 1) /\ m_tasks'[j] = m_tasks[k]
      BY <1>0, <3>2, <3>4
    <3>6. m_tasks[i].fiber \in Fibers
      BY <3>2, EntryFields
    <3>7. \A u \in Threads : task[u] # m_tasks[i].fiber
      <4> SUFFICES ASSUME NEW u \in Threads, task[u] = m_tasks[i].fiber
                   PROVE  FALSE
        OBVIOUS
      <4>1. m_tasks[i].thread = u /\ pc[u] \in {"resched", "yielding"}
        BY <3>2 DEF PinInv
      <4>2. u = t
        BY <3>2, <4>1
      <4>3. QED
        BY <3>3, <4>1, <4>2
    <3>8. FiberOnOneThread'
      BY <3>1, <3>7 DEF PinInv, FiberOnOneThread, TypeOK
    <3>9. \A j, k \in 1..Len(m_tasks') : j # k => m_tasks'[j].fiber # m_tasks'[k].fiber
      <4> SUFFICES ASSUME NEW j \in 1..Len(m_tasks'), NEW k \in 1..Len(m_tasks'), j # k
                   PROVE  m_tasks'[j].fiber # m_tasks'[k].fiber
        OBVIOUS
      <4>1. PICK a \in 1..Len(m_tasks) :
               (a = IF j < i THEN j ELSE j + 1) /\ m_tasks'[j] = m_tasks[a]
        BY <3>5
      <4>2. PICK b \in 1..Len(m_tasks) :
               (b = IF k < i THEN k ELSE k + 1) /\ m_tasks'[k] = m_tasks[b]
        BY <3>5
      <4>3. a # b
        BY <1>0, <3>2, <3>4, <4>1, <4>2
      <4>4. QED
        BY <4>1, <4>2, <4>3 DEF PinInv
    <3>10. \A j \in 1..Len(m_tasks') : m_tasks'[j].fiber \in scheduled'
      BY <3>3, <3>5 DEF PinInv
    <3>11. \A u \in Threads : task'[u] # NoFiber => task'[u] \in scheduled'
      BY <3>1, <3>2, <3>3 DEF PinInv, TypeOK
    <3>12. ASSUME NEW u \in Threads, NEW j \in 1..Len(m_tasks'),
                  m_tasks'[j].fiber = task'[u]
           PROVE  m_tasks'[j].thread = u /\ pc'[u] \in {"resched", "yielding"}
      <4>1. PICK k \in 1..Len(m_tasks) : k # i /\ m_tasks'[j] = m_tasks[k]
        BY <3>5
      <4>2. u # t
        <5>1. m_tasks[k].fiber # m_tasks[i].fiber
          BY <3>2, <4>1 DEF PinInv
        <5>2. task'[t] = m_tasks[i].fiber
          BY <3>1 DEF TypeOK
        <5>3. QED
          BY <3>12, <4>1, <5>1, <5>2
      <4>3. QED
        BY <3>1, <3>3, <3>12, <4>1, <4>2 DEF PinInv, TypeOK
    <3>13. QED
      BY <3>8, <3>9, <3>10, <3>11, <3>12 DEF PinInv
  <2>2. CASE ScanNone(t) \/ Tickle(t) \/ Resume(t) \/ YieldReady(t)
    BY <1>1, <2>2 DEF ScanNone, Tickle, Resume, YieldReady, TypeOK
  <2>3. CASE Ret(t) \/ Exit(t) \/ IdleResume(t) \/ IdleCheck(t) \/ IdleLeave(t)
    BY <1>1, <2>3 DEF Ret, Exit, IdleResume, IdleCheck, IdleLeave, TypeOK
  <2>4. ASSUME NEW f \in Fibers, NEW thr \in Threads \cup {AnyThread},
               BodySchedule(t, f, thr)
        PROVE  PinInv'
    BY <1>2, <2>4 DEF BodySchedule
  <2>5. CASE BodyReschedule(t)
    <3> DEFINE e == [fiber |-> task[t], thread |-> t]
    <3>1. pc[t] = "run" /\ task[t] \in Fibers /\ task[t] \in scheduled
      BY <2>5 DEF TypeOK, TaskInv, BodyReschedule, PinInv
    <3>2. e \in Entry /\ e.fiber = task[t] /\ e.thread = t
      BY <3>1 DEF Entry
    <3>3. /\ m_tasks' = Append(m_tasks, e) /\ pc' = [pc EXCEPT ![t] = "resched"]
          /\ UNCHANGED <<task, scheduled>>
      BY <2>5 DEF BodyReschedule, scheduleNoLock
    <3> HIDE DEF e
    <3>4. /\ Len(m_tasks') = Len(m_tasks) + 1
          /\ \A j \in 1..Len(m_tasks) : m_tasks'[j] = m_tasks[j]
          /\ m_tasks'[Len(m_tasks) + 1] = e
      BY <3>2, <3>3, AppendEntries DEF TypeOK
    <3>5. \A j \in 1..Len(m_tasks') : j \in 1..Len(m_tasks) \/ j = Len(m_tasks) + 1
      BY <1>0, <3>4
    <3>6. \A j \in 1..Len(m_tasks) : m_tasks[j].fiber # task[t]
      BY <3>1 DEF PinInv
    <3>7. \A i, j \in 1..Len(m_tasks') : i # j => m_tasks'[i].fiber # m_tasks'[j].fiber
      BY <3>2, <3>4, <3>5, <3>6 DEF PinInv
    <3>8. \A i \in 1..Len(m_tasks') : m_tasks'[i].fiber \in scheduled
      BY <3>1, <3>2, <3>4, <3>5 DEF PinInv
    <3>9. ASSUME NEW u \in Threads, NEW i \in 1..Len(m_tasks'),
                 m_tasks'[i].fiber = task[u]
          PROVE  m_tasks'[i].thread = u /\ pc'[u] \in {"resched", "yielding"}
      <4>1. CASE i \in 1..Len(m_tasks)
        <5>1. m_tasks'[i] = m_tasks[i] /\ m_tasks[i].fiber = task[u]
          BY <3>4, <3>9, <4>1
        <5>2. m_tasks[i].thread = u /\ pc[u] \in {"resched", "yielding"}
          BY <4>1, <5>1 DEF PinInv
        <5>3. pc'[u] \in {"resched", "yielding"}
          BY <3>3, <5>2 DEF TypeOK
        <5>4. QED
          BY <5>1, <5>2, <5>3
      <4>2. CASE i = Len(m_tasks) + 1
        <5>1. task[u] = task[t] /\ task[t] # NoFiber
          BY <3>1, <3>2, <3>4, <3>9, <4>2
        <5>2. u = t
          BY <5>1 DEF PinInv, FiberOnOneThread
        <5>3. QED
          BY <3>2, <3>3, <3>4, <4>2, <5>2 DEF TypeOK
      <4>3. QED
        BY <3>5, <4>1, <4>2
    <3>10. QED
      BY <3>3, <3>7, <3>8, <3>9 DEF PinInv, FiberOnOneThread
  <2>6. CASE YieldSwap(t) \/ BodyReturn(t)
    <3>1. /\ pc[t] \in {"yielding", "run"} /\ pc' = [pc EXCEPT ![t] = "ret"]
          /\ task' = [task EXCEPT ![t] = NoFiber] /\ UNCHANGED <<m_tasks, scheduled>>
      BY <2>6 DEF YieldSwap, BodyReturn
    <3>2. FiberOnOneThread'
      BY <3>1 DEF PinInv, FiberOnOneThread, TypeOK
    <3>3. \A i \in 1..Len(m_tasks) : m_tasks[i].fiber # NoFiber
      BY EntryFields
    <3>4. ASSUME NEW u \in Threads, NEW i \in 1..Len(m_tasks), m_tasks[i].fiber = task'[u]
          PROVE  m_tasks[i].thread = u /\ pc'[u] \in {"resched", "yielding"}
      BY <3>1, <3>3, <3>4 DEF PinInv, TypeOK
    <3>5. \A u \in Threads : task'[u] # NoFiber => task'[u] \in scheduled
      BY <3>1 DEF PinInv, TypeOK
    <3>6. QED
      BY <3>1, <3>2, <3>4, <3>5 DEF PinInv
  <2>7. QED
    BY <1>7, <2>1, <2>2, <2>3, <2>4, <2>5, <2>6 DEF RunStep
<1>8. QED
  BY <1>3, <1>4, <1>5, <1>6, <1>7 DEF Next, StopStep, Halt

(* FiberOnOneThread: when fibers reschedule themselves on their own thread, *)
(* no fiber is ever held by two threads, whatever else is pinned or not.    *)
THEOREM PinnedFibersOnOneThread == Spec => [](PinnedYield => FiberOnOneThread)
<1> DEFINE P == PinnedYield => PinInv
<1>1. Init => P
  <2> SUFFICES ASSUME Init
               PROVE  PinInv
    OBVIOUS
  <2>1. Len(m_tasks) = 0 /\ \A t \in Threads : task[t] = NoFiber
    BY EmptySeq DEF Init
  <2>2. QED
    BY <2>1 DEF PinInv, FiberOnOneThread
<1>2. IInv /\ P /\ [Next]_vars => P'
  BY PinStep DEF IInv
<1>3. P => (PinnedYield => FiberOnOneThread)
  BY DEF PinInv
<1> HIDE DEF P
<1>4. QED
  BY <1>1, <1>2, <1>3, Inductive, PTL DEF Spec

-----------------------------------------------------------------------------
(* No assertion fails *)

(* m_tasks.erase(it) adds no entry. *)
LEMMA QueuedBefore ==
    ASSUME TypeOK, NEW i \in 1..Len(m_tasks), m_tasks' = RemoveAt(m_tasks, i)
    PROVE  \A f : Queued(f)' => Queued(f)
<1>1. /\ Len(m_tasks') = Len(m_tasks) - 1
      /\ \A j \in 1..(Len(m_tasks) - 1) :
           m_tasks'[j] = IF j < i THEN m_tasks[j] ELSE m_tasks[j + 1]
  BY RemoveAtEntries DEF TypeOK
<1>2. Len(m_tasks) \in Nat
  BY LenProperties DEF TypeOK
<1>3. \A j \in 1..Len(m_tasks') : \E k \in 1..Len(m_tasks) : m_tasks'[j] = m_tasks[k]
  BY <1>1, <1>2
<1>4. QED
  BY <1>3 DEF Queued

(* What PinInv says of a fiber that some thread holds, without indices. *)
LEMMA HeldNotQueued ==
    ASSUME PinInv, NEW t \in Threads, pc[t] \notin {"resched", "yielding"}
    PROVE  ~Queued(task[t])
BY DEF PinInv, Queued

LEMMA ReadyStep ==
    PinnedYield /\ IInv /\ PinInv /\ ReadyInv /\ [Next]_vars => ReadyInv'
<1> SUFFICES ASSUME PinnedYield, IInv, PinInv, ReadyInv, [Next]_vars
             PROVE  ReadyInv'
  OBVIOUS
<1> USE SchedulerAssumption
<1>0. TypeOK /\ TaskInv /\ OnStackInv
  BY DEF IInv
<1>1. ASSUME UNCHANGED <<m_tasks, task, scheduled, m_state>>,
             \A u \in Threads : pc[u] = "resched" => pc'[u] = "resched",
             \A u \in Threads : pc'[u] \in {"tickle", "resume", "yielding"} /\ task[u] # NoFiber =>
                               pc[u] \in {"tickle", "resume", "yielding"}
      PROVE  ReadyInv'
  BY <1>1 DEF ReadyInv, Queued
<1>2. ASSUME NEW f \in Fibers \ scheduled, NEW thr \in Threads \cup {AnyThread},
             scheduleNoLock(f, thr), scheduled' = scheduled \cup {f},
             UNCHANGED <<task, pc, m_state>>
      PROVE  ReadyInv'
  <2>1. [fiber |-> f, thread |-> thr] \in Entry
    BY DEF Entry
  <2>2. \A g : Queued(g)' <=> Queued(g) \/ g = f
    BY <1>0, <1>2, <2>1, QueuedAppend DEF scheduleNoLock
  <2>3. QED
    BY <1>2, <2>2 DEF ReadyInv
<1>3. CASE UNCHANGED vars
  BY <1>1, <1>3 DEF vars
<1>4. CASE start \/ stopResumeRoot
  BY <1>0, <1>1, <1>4 DEF start, CreatedThreads, stopResumeRoot, TypeOK, TaskInv, Pool
<1>5. CASE stop \/ stopJoin \/ stopAgain
  BY <1>1, <1>5 DEF stop, stopJoin, stopAgain
<1>6. ASSUME NEW f \in Fibers, NEW thr \in Threads \cup {AnyThread}, schedule(f, thr)
      PROVE  ReadyInv'
  BY <1>2, <1>6 DEF schedule
<1>7. ASSUME NEW t \in Threads, RunStep(t)
      PROVE  ReadyInv'
  <2> USE DEF Goto
  <2>1. CASE ScanPick(t)
    <3>1. PICK i \in EligibleSet(t) :
             /\ task' = [task EXCEPT ![t] = m_tasks[i].fiber]
             /\ m_tasks' = RemoveAt(m_tasks, i)
      BY <2>1 DEF ScanPick
    <3>2. i \in 1..Len(m_tasks) /\ m_state[m_tasks[i].fiber] # "RUNNING"
      BY <3>1 DEF EligibleSet, Eligible
    <3>3. m_tasks[i].fiber \in Fibers /\ Queued(m_tasks[i].fiber)
      BY <1>0, <3>2, EntryFields DEF Queued
    <3>4. m_state[m_tasks[i].fiber] = "READY"
      BY <1>0, <3>2, <3>3 DEF ReadyInv, OnStackInv
    <3>5. \A f : Queued(f)' => Queued(f)
      BY <1>0, <3>1, <3>2, QueuedBefore
    <3>6. /\ pc[t] = "scan" /\ task[t] = NoFiber /\ UNCHANGED <<scheduled, m_state>>
          /\ pc' = [pc EXCEPT ![t] = "tickle"]
      BY <1>0, <2>1 DEF ScanPick, TaskInv
    <3>7. \A u \in Threads : u # t => pc'[u] = pc[u] /\ task'[u] = task[u]
      BY <1>0, <3>1, <3>6 DEF TypeOK
    <3>8. task'[t] = m_tasks[i].fiber
      BY <1>0, <3>1 DEF TypeOK
    <3>9. \A f \in Fibers : Queued(f)' =>
             m_state'[f] = "READY" \/ \E u \in Threads : pc'[u] = "resched" /\ task'[u] = f
      BY <3>5, <3>6, <3>7 DEF ReadyInv
    <3>10. \A u \in Threads : pc'[u] \in {"tickle", "resume", "yielding"} /\ task'[u] # NoFiber =>
              m_state'[task'[u]] = "READY"
      BY <3>4, <3>6, <3>7, <3>8 DEF ReadyInv
    <3>11. QED
      BY <3>6, <3>9, <3>10 DEF ReadyInv
  <2>2. CASE ScanNone(t) \/ Tickle(t) \/ Ret(t) \/ Exit(t)
    BY <1>0, <1>1, <2>2 DEF ScanNone, Tickle, Ret, Exit, TypeOK, TaskInv
  <2>3. CASE IdleResume(t) \/ IdleCheck(t) \/ IdleLeave(t)
    BY <1>0, <1>1, <2>3 DEF IdleResume, IdleCheck, IdleLeave, TypeOK
  <2>4. ASSUME NEW s \in {"RUNNING", "TERM"}, m_state' = [m_state EXCEPT ![task[t]] = s],
               pc[t] \in {"resume", "run"},
               NEW l \in {"run", "ret"}, pc' = [pc EXCEPT ![t] = l],
               UNCHANGED <<m_tasks, scheduled>>,
               \A u \in Threads : u # t => task'[u] = task[u]
        PROVE  ReadyInv'
    <3>1. task[t] \in Fibers /\ task[t] # NoFiber /\ task[t] \in scheduled
      BY <1>0, <2>4 DEF TypeOK, TaskInv, PinInv
    <3>2. ~Queued(task[t])
      BY <2>4, HeldNotQueued
    <3>3. \A u \in Threads : u # t => task[u] # task[t] /\ pc'[u] = pc[u]
      BY <1>0, <2>4, <3>1 DEF PinInv, FiberOnOneThread, TypeOK
    <3>4. \A f : Queued(f)' <=> Queued(f)
      BY <2>4 DEF Queued
    <3>5. \A f \in Fibers : f # task[t] => m_state'[f] = m_state[f]
      BY <1>0, <2>4 DEF TypeOK
    <3>6. pc'[t] = l
      BY <1>0, <2>4 DEF TypeOK
    <3>7. \A f \in Fibers \ scheduled' : m_state'[f] = "READY"
      BY <2>4, <3>1, <3>5 DEF ReadyInv
    <3>8. \A f \in Fibers : Queued(f)' =>
             m_state'[f] = "READY" \/ \E u \in Threads : pc'[u] = "resched" /\ task'[u] = f
      <4> SUFFICES ASSUME NEW f \in Fibers, Queued(f)
                   PROVE  m_state'[f] = "READY" \/ \E u \in Threads : pc'[u] = "resched" /\ task'[u] = f
        BY <3>4
      <4>1. f # task[t]
        BY <3>2
      <4>2. CASE m_state[f] = "READY"
        BY <3>5, <4>1, <4>2
      <4>3. ASSUME NEW u \in Threads, pc[u] = "resched", task[u] = f
            PROVE  pc'[u] = "resched" /\ task'[u] = f
        BY <2>4, <3>3, <4>3, <4>1
      <4>4. QED
        BY <4>2, <4>3 DEF ReadyInv
    <3>9. \A u \in Threads : pc'[u] \in {"tickle", "resume", "yielding"} /\ task'[u] # NoFiber =>
             m_state'[task'[u]] = "READY"
      <4> SUFFICES ASSUME NEW u \in Threads, pc'[u] \in {"tickle", "resume", "yielding"},
                          task'[u] # NoFiber
                   PROVE  m_state'[task'[u]] = "READY"
        OBVIOUS
      <4>1. u # t
        BY <2>4, <3>6
      <4>2. task'[u] = task[u] /\ task[u] # task[t] /\ pc'[u] = pc[u] /\ task[u] \in Fibers
        BY <1>0, <2>4, <3>3, <4>1 DEF TypeOK
      <4>3. QED
        BY <3>5, <4>2 DEF ReadyInv
    <3>10. QED
      BY <3>7, <3>8, <3>9 DEF ReadyInv
  <2>5. CASE Resume(t)
    <3>1. CASE UNCHANGED <<m_state, pc>>
      BY <1>1, <2>5, <3>1 DEF Resume
    <3>2. CASE /\ m_state' = [m_state EXCEPT ![task[t]] = "RUNNING"]
               /\ pc' = [pc EXCEPT ![t] = "run"]
      BY <2>4, <2>5, <3>2 DEF Resume
    <3>3. QED
      BY <2>5, <3>1, <3>2 DEF Resume
  <2>6. CASE BodyReturn(t)
    BY <1>0, <2>4, <2>6 DEF BodyReturn, TypeOK
  <2>7. CASE YieldReady(t)
    <3>1. /\ pc[t] = "resched" /\ m_state' = [m_state EXCEPT ![task[t]] = "READY"]
          /\ pc' = [pc EXCEPT ![t] = "yielding"] /\ UNCHANGED <<m_tasks, task, scheduled>>
      BY <2>7 DEF YieldReady
    <3>2. task[t] \in Fibers
      BY <1>0, <3>1 DEF TypeOK, TaskInv
    <3>3. \A f \in Fibers : m_state'[f] = IF f = task[t] THEN "READY" ELSE m_state[f]
      BY <1>0, <3>1 DEF TypeOK
    <3>4. \A u \in Threads : pc'[u] = IF u = t THEN "yielding" ELSE pc[u]
      BY <1>0, <3>1 DEF TypeOK
    <3>5. \A f : Queued(f)' <=> Queued(f)
      BY <3>1 DEF Queued
    <3>6. \A f \in Fibers : Queued(f) =>
             m_state'[f] = "READY" \/ \E u \in Threads : pc'[u] = "resched" /\ task[u] = f
      BY <3>3, <3>4 DEF ReadyInv
    <3>7. \A u \in Threads : pc'[u] \in {"tickle", "resume", "yielding"} /\ task[u] # NoFiber =>
             m_state'[task[u]] = "READY"
      BY <1>0, <3>3, <3>4 DEF ReadyInv, TypeOK
    <3>8. QED
      BY <3>1, <3>3, <3>5, <3>6, <3>7 DEF ReadyInv
  <2>8. CASE YieldSwap(t)
    <3>1. /\ pc[t] = "yielding" /\ task' = [task EXCEPT ![t] = NoFiber]
          /\ pc' = [pc EXCEPT ![t] = "ret"] /\ UNCHANGED <<m_tasks, m_state, scheduled>>
      BY <2>8 DEF YieldSwap
    <3>2. \A u \in Threads : u # t => pc'[u] = pc[u] /\ task'[u] = task[u]
      BY <1>0, <3>1 DEF TypeOK
    <3>3. pc'[t] = "ret" /\ task'[t] = NoFiber
      BY <1>0, <3>1 DEF TypeOK
    <3>4. \A f : Queued(f)' <=> Queued(f)
      BY <3>1 DEF Queued
    <3>5. QED
      BY <3>1, <3>2, <3>3, <3>4 DEF ReadyInv
  <2>9. ASSUME NEW f \in Fibers, NEW thr \in Threads \cup {AnyThread},
               BodySchedule(t, f, thr)
        PROVE  ReadyInv'
    BY <1>2, <2>9 DEF BodySchedule
  <2>10. CASE BodyReschedule(t)
    <3>1. /\ pc[t] = "run" /\ pc' = [pc EXCEPT ![t] = "resched"]
          /\ m_tasks' = Append(m_tasks, [fiber |-> task[t], thread |-> t])
          /\ UNCHANGED <<task, m_state, scheduled>>
      BY <2>10 DEF BodyReschedule, scheduleNoLock
    <3>2. task[t] \in Fibers
      BY <1>0, <3>1 DEF TypeOK, TaskInv
    <3>3. [fiber |-> task[t], thread |-> t] \in Entry
      BY <3>2 DEF Entry
    <3>4. \A f : Queued(f)' <=> Queued(f) \/ f = task[t]
      BY <1>0, <3>1, <3>3, QueuedAppend
    <3>5. \A u \in Threads : pc'[u] = IF u = t THEN "resched" ELSE pc[u]
      BY <1>0, <3>1 DEF TypeOK
    <3>6. QED
      BY <3>1, <3>4, <3>5 DEF ReadyInv
  <2>11. QED
    BY <1>7, <2>1, <2>2, <2>3, <2>5, <2>6, <2>7, <2>8, <2>9, <2>10 DEF RunStep
<1>8. QED
  BY <1>3, <1>4, <1>5, <1>6, <1>7 DEF Next, StopStep, Halt

LEMMA JoinStep == TypeOK /\ TaskInv /\ JoinInv /\ [Next]_vars => JoinInv'
<1> SUFFICES ASSUME TypeOK, TaskInv, JoinInv, [Next]_vars
             PROVE  JoinInv'
  OBVIOUS
<1> USE DEF JoinInv
<1>1. CASE UNCHANGED vars
  BY <1>1 DEF vars
<1>2. CASE start
  BY <1>2 DEF start, CreatedThreads
<1>3. CASE stop \/ stopAgain
  BY <1>3 DEF stop, stopAgain
<1>4. CASE stopResumeRoot
  BY <1>4 DEF stopResumeRoot
<1>5. CASE stopJoin
  <2>1. \A t \in Threads : pc[t] = "exit"
    BY <1>5 DEF stopJoin, Pool
  <2>2. QED
    BY <1>5, <2>1 DEF stopJoin
<1>6. ASSUME NEW f \in Fibers, NEW thr \in Threads \cup {AnyThread}, schedule(f, thr)
      PROVE  JoinInv'
  BY <1>6 DEF schedule
<1>7. ASSUME NEW t \in Threads, RunStep(t)
      PROVE  JoinInv'
  <2>1. UNCHANGED <<mainPc, m_threads, m_stopping>> /\ pc[t] # "exit"
    BY <1>7 DEF RunStep, ScanPick, ScanNone, Tickle, Resume, BodySchedule, BodyReschedule,
                YieldReady, YieldSwap, BodyReturn, Ret, Exit, IdleResume, IdleCheck, IdleLeave
  <2>2. QED
    BY <2>1
<1>8. QED
  BY <1>1, <1>2, <1>3, <1>4, <1>5, <1>6, <1>7 DEF Next, StopStep, Halt

LEMMA NeverFailsStep ==
    PinnedYield /\ IInv /\ PinInv /\ ReadyInv /\ JoinInv /\ NeverFails /\ [Next]_vars
        => NeverFails'
<1> SUFFICES ASSUME PinnedYield, IInv, PinInv, ReadyInv, JoinInv, NeverFails, [Next]_vars
             PROVE  NeverFails'
  OBVIOUS
<1> USE SchedulerAssumption
<1>0. TypeOK /\ TaskInv /\ CountsExact
  BY DEF IInv
<1>1. CASE UNCHANGED vars \/ Halt
  BY <1>1 DEF vars, Halt, NeverFails
<1>2. ASSUME ~failed, failed' = failed
      PROVE  NeverFails'
  BY <1>2 DEF NeverFails
<1>3. ASSUME ~failed,
             start \/ stop \/ StopStep
                 \/ \E f \in Fibers, thr \in Threads \cup {AnyThread} : schedule(f, thr)
      PROVE  NeverFails'
  BY <1>2, <1>3 DEF start, stop, StopStep, stopResumeRoot, stopJoin, schedule
<1>4. CASE stopAgain
  <2>1. /\ mainPc = "stopped" /\ UNCHANGED <<mainPc, m_tasks>>
        /\ failed' = (UseCaller /\ ~stopping)
    BY <1>4 DEF stopAgain
  <2>2. m_stopping /\ \A t \in Threads : pc[t] = "exit"
    BY <2>1 DEF JoinInv
  <2>3. Holders = {}
    BY <2>2 DEF Holders, Holding, Busy
  <2>4. m_activeThreadCount = 0
    BY <1>0, <2>3, FS_EmptySet DEF CountsExact, Holders
  <2>5. QED
    BY <2>1, <2>2, <2>4 DEF NeverFails, stopping
<1>5. ASSUME NEW t \in Threads, ~failed, RunStep(t)
      PROVE  NeverFails'
  <2>1. CASE Resume(t)
    <3>1. pc[t] = "resume" /\ task[t] # NoFiber
      BY <1>0, <2>1 DEF Resume, TaskInv
    <3>2. m_state[task[t]] = "READY"
      BY <3>1 DEF ReadyInv
    <3>3. \A u \in Threads : pc[u] = "yielding" => task[u] # task[t]
      BY <3>1 DEF PinInv, FiberOnOneThread
    <3>4. failed' = failed
      BY <2>1, <3>2, <3>3 DEF Resume
    <3>5. QED
      BY <1>2, <1>5, <3>4
  <2>2. CASE ~Resume(t)
    BY <1>2, <1>5, <2>2 DEF RunStep, ScanPick, ScanNone, Tickle, BodySchedule, BodyReschedule,
                YieldReady, YieldSwap, BodyReturn, Ret, Exit, IdleResume, IdleCheck, IdleLeave
  <2>3. QED
    BY <2>1, <2>2
<1>6. QED
  BY <1>1, <1>3, <1>4, <1>5 DEF Next

(* NeverFails: when fibers reschedule themselves on their own thread, the   *)
(* assertions of Fiber::resume() hold and no fiber is resumed before its    *)
(* context is saved, for any number of threads and fibers; only a stop()    *)
(* after the last one, with late work in the queue, fails.                  *)
THEOREM PinnedNeverFails == Spec => [](PinnedYield => NeverFails)
<1> DEFINE P == JoinInv /\ (PinnedYield => PinInv /\ ReadyInv /\ NeverFails)
<1>1. Init => P
  <2> SUFFICES ASSUME Init
               PROVE  JoinInv /\ PinInv /\ ReadyInv /\ NeverFails
    OBVIOUS
  <2>1. Len(m_tasks) = 0 /\ \A t \in Threads : task[t] = NoFiber
    BY EmptySeq DEF Init
  <2>2. PinInv
    BY <2>1 DEF PinInv, FiberOnOneThread
  <2>3. ReadyInv
    BY <2>1 DEF Init, ReadyInv, Queued
  <2>4. JoinInv /\ NeverFails
    BY DEF Init, JoinInv, NeverFails
  <2>5. QED
    BY <2>2, <2>3, <2>4
<1>2. IInv /\ P /\ [Next]_vars => P'
  BY PinStep, ReadyStep, JoinStep, NeverFailsStep DEF IInv
<1>3. P => (PinnedYield => NeverFails)
  OBVIOUS
<1> HIDE DEF P
<1>4. QED
  BY <1>1, <1>2, <1>3, Inductive, PTL DEF Spec

=============================================================================
