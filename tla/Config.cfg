\* Two threads that load documents, set values, register listeners and look a
\* name up, and one that logs.
CONSTANTS
  t1 = t1  t2 = t2  r1 = r1
  Threads = {t1, t2}  Reporters = {r1}
  None = None
  Names <- Tiny  Wanted <- TypesOf  Default <- Defaults
  LateNames <- Late
  BadKeys = {"A"}
  Docs <- Both  Direct <- Sets
  Listeners = {1}  Listened <- TIMEOUT
  MaxCalls <- TwoAndOne
  Loggers <- TwoLoggers  Levels = {3}  Patterns <- SomePatterns
  MaxRecords = 1
SPECIFICATION Spec
CHECK_DEADLOCK FALSE
INVARIANTS TypeOK ListenersCurrent SavedLoads LoggersMirrorConfig AppendersFormat DroppedOnlyInReload
PROPERTIES CallsReturn
