\* What listExpiredCb() lists.
CONSTANTS
  p1 = p1  p2 = p2
  Timers = {1, 2}
  Pollers = {p1}
  Delays = {1, 2}
  AppOps = {}
  MaxNow = 2
  RolloverMs = 9
  SetBack = FALSE
  MaxTimeout = 3
  IntBits = 5
SPECIFICATION Spec
PROPERTIES OnlyExpiredListed
