\* One connection, peers that always send whole messages
CONSTANTS
  N = 1
  Tasks = {1}
  None = None
  Worker = Worker
  Listener = Listener
  NumConns = 1
  MaxMessages = 1
  MayStall = FALSE
SPECIFICATION FairSpec
PROPERTIES HandOver
CHECK_DEADLOCK FALSE
