CONSTANTS
  c1 = c1
  c2 = c2
  d1 = d1
  None = None
  NoHandler = NoHandler
  NoRequest = NoRequest
  NoReply = NoReply
  BadCast = BadCast
  Conns <- MCConns
  Data <- MCData
  ConnRequests <- MCConnRequests
  Requests <- MCApiRequests
  Routes <- MCRoutes
  Prefix <- MCPrefix
  Root <- MCRoot
  SleepTime = 5
  Version = 11
  MaxId = 2
  FsCanFail = TRUE
  Argcs = {1, 2}
  Timers = {1}
  Elapsed = {}
SPECIFICATION Spec
INVARIANT ListSound
PROPERTY AnsweredUnlessProcessEnds
CHECK_DEADLOCK FALSE
