CONSTANTS
  NumHosts = 2
  Caller = 1
  Rep = 1
  NumThreads = 1
  IoSize = 1
  FatalHosts = {}
  ThrowHosts = {}
  CrashHosts = {}
  TestNames = {"io_async"}
  SleepCovers = TRUE
SPECIFICATION Spec
CHECK_DEADLOCK FALSE
INVARIANTS
  ReceiverReads
