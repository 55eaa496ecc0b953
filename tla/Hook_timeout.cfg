\* One fiber that reads with a timeout.
CONSTANTS
  f1 = f1  w1 = w1  w2 = w2  p1 = p1  c1 = c1  c2 = c2
  None = None
  Fds = {f1}
  Waiters = {w1}
  Pollers = {p1}
  Timers = {c1, c2}
  Ops <- Reader
SPECIFICATION FairSpec
CHECK_DEADLOCK FALSE
PROPERTIES TimedCallReturns
