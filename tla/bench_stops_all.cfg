CONSTANTS
  NumHosts = 2
  Caller = 1
  Rep = 1
  NumThreads = 1
  IoSize = 1
  FatalHosts = {}
  ThrowHosts = {}
  CrashHosts = {}
  TestNames = {"ping"}
  SleepCovers = TRUE
SPECIFICATION Spec
CHECK_DEADLOCK FALSE
INVARIANTS
  StopsAll
