\* The caller thread t1 and one pool thread; fibers schedule each other, yield on
\* their own thread, and the application schedules before, during and after stop().
CONSTANTS
  t1 = t1  t2 = t2  t3 = t3  f1 = f1  f2 = f2
  Threads <- TwoThreads
  Fibers <- TwoFibers
  AnyThread = AnyThread
  NoFiber = NoFiber
  MaxYields = 1
  root = t1
  PinnedYield = TRUE
  LateSchedule = TRUE
SPECIFICATION FairSpec
INVARIANTS TypeOK FiberOnOneThread CountsExact DrainedBeforeExit NeverFails
PROPERTIES StopReturns AllTasksComplete
