\* One socket number that is opened, closed and opened again, two fibers that
\* call, sleep and close, and two timers.  A behaviour ends when an assertion
\* aborts the process.
CONSTANTS
  f1 = f1  w1 = w1  w2 = w2  p1 = p1  c1 = c1  c2 = c2
  None = None
  Fds = {f1}
  Waiters = {w1, w2}
  Pollers = {p1}
  Timers = {c1, c2}
  Ops <- CallerAndCloser
SPECIFICATION FairSpec
CHECK_DEADLOCK FALSE
INVARIANTS TypeOK TimeoutIsOwn TimedWaitCovered SettingsHold
PROPERTIES HangUpReturns
