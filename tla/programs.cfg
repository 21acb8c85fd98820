\* Two processes, three semaphores in a row under one name, one death; buffers of 2 cells, a
\* pipe of 4, texts of 1 to 3, one failing read; 3 options of the serial dump; two clients
\* and two servers of the local socket; two servers and three clients of the FIFO, one of which
\* sends "quit"; the queue's program started twice; 6 letters; 3 datagrams;
\* 6 descriptors; 3 guards of 3 actions; 3 sockets, 3 files
CONSTANTS
  Procs = {"p1", "p2"}
  MaxSems = 3
  MaxCrashes = 1
  BufSize = 2
  Capacity = 4
  TextLengths = {1, 2, 3}
  MaxErrors = 1
  Rates = {9600}
  DefaultRate = 115200
  MaxOptions = 3
  Servers = {"s1", "s2"}
  Buffer = 4
  RequestLengths <- MCRequestLengths
  Daemons = {"d1", "d2"}
  Writers = {"w1", "w2", "w3"}
  Quitters = {"w3"}
  Starts = 2
  Sends = 3
  Receives = 2
  MaxMsg = 3
  Letters = 6
  BufLen = 10
  Strangers = {"stranger"}
  Size = 2
  DatagramLengths = {1, 2, 3}
  MaxDatagrams = 3
  MaxNumber = 5
  Scopes = {g1, g2, g3}
  Actions = {a1, a2, a3}
  Sockets = {s1, s2, s3}
  MaxFiles = 3
SPECIFICATION Spec
INVARIANTS LocksExact SettingsRight AnswersRight TransfersRight
PROPERTIES LocksReturn DialogInStep DialogEnds SamplesEnd DescriptorsKept CalledOnce ClosedOnce
CHECK_DEADLOCK FALSE
