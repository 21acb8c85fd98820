\* Two connections; two pool threads or one; peers may stall
CONSTANTS
  N = 2
  Tasks = {1, 2}
  None = None
  Worker = Worker
  Listener = Listener
  NumConns = 2
  MaxMessages = 2
  MayStall = TRUE
SPECIFICATION MCSpec
INVARIANT PoolsSafe
PROPERTIES SessionsExclusive Progress StopCompletes
CHECK_DEADLOCK FALSE
