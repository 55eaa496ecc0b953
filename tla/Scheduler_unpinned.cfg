\* Two pool threads; a fiber reschedules itself on any thread, as
\* tests/test_scheduler.cc does.
CONSTANTS
  t1 = t1  t2 = t2  t3 = t3  f1 = f1  f2 = f2
  Threads <- TwoThreads
  Fibers <- TwoFibers
  AnyThread = AnyThread
  NoFiber = NoFiber
  MaxYields = 1
  root = t3
  PinnedYield = FALSE
  LateSchedule = FALSE
SPECIFICATION Spec
INVARIANTS FiberOnOneThread
