\* Two fds, one of them with both events and one with deletions, two pollers and
\* cancellations.  A behaviour ends when an assertion aborts the process.
CONSTANTS
  f1 = f1  f2 = f2  w1 = w1  w2 = w2  p1 = p1  p2 = p2
  None = None
  Uses <- MixedUses
  Waiters = {w1, w2}
  Fds = {f1, f2}
  Pollers = {p1, p2}
  HangUps = {f1}
  Deletable = {f2}
SPECIFICATION FairSpec
CHECK_DEADLOCK FALSE
INVARIANTS TypeOK WaitersArmed NoLostWakeup PendingExact
PROPERTIES HangUpWakes
