\* Both events on one fd, two pollers: a report may be stale when it is handled.
CONSTANTS
  f1 = f1  f2 = f2  w1 = w1  w2 = w2  p1 = p1  p2 = p2
  None = None
  Uses <- MixedUses
  Waiters = {w1, w2}
  Fds = {f1}
  Pollers = {p1, p2}
  HangUps = {f1}
  Deletable = {}
SPECIFICATION Spec
INVARIANTS NeverAborts
