\* Two fibers on one pool, a foreign client, a server with two sockets; what
\* may happen in a behaviour is one of the scenarios of MCHttp.
CONSTANTS
  f1 = f1  f2 = f2
  Fibers = {f1, f2}
  Socks = {1, 2}
  MaxConns = 3  MaxRequest = 2
  MaxAliveTime = 5  Now = 10
  Registered <- Servlets  Uri <- OkUri  Glob = "/o*"  Slt <- Void
  FnMatch <- Matches  SlashTail <- SlashUrls
  Scenarios <- All
SPECIFICATION HttpSpec
CHECK_DEADLOCK FALSE
INVARIANTS OwnResponse ParsedUnlessCut PoolExact CleanRequestsSucceed
PROPERTIES AcceptorsEnd
