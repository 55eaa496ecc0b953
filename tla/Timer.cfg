\* Two timers, two pollers, every operation, and a clock that can be set back.
CONSTANTS
  p1 = p1  p2 = p2
  Timers = {1, 2}
  Pollers = {p1, p2}
  Delays = {0, 2}
  AppOps = {"cancel", "refresh", "reset"}
  MaxNow = 1
  RolloverMs = 0
  SetBack = TRUE
  MaxTimeout = 1
  IntBits = 5
SPECIFICATION Spec
SYMMETRY PollerSymmetry
INVARIANTS TypeOK ArmedHasCallback SkipOnlyWhenAwake
PROPERTIES ContractHolds
