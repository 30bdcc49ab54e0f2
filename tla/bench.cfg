CONSTANTS
  NumHosts = 2
  Caller = 1
  Rep = 2
  NumThreads = 1
  IoSize = 1
  FatalHosts = {2}
  ThrowHosts = {1, 2}
  CrashHosts = {1, 2}
  TestNames = {"ping", "ping_async", "io", "io_async", "metadata", "metadata_async", "other"}
  SleepCovers = FALSE
SPECIFICATION FairSpec
CHECK_DEADLOCK FALSE
INVARIANTS
  TypeOK
  NoUnknownRpc
  DaemonOutlivesTest
  ReportSound
  IoKeepsDaemons
  CountSound
  ExitClean
PROPERTIES
  StoppedDaemonExits
  TestEnds
  NoReissue
  ImplementsDaemonGroup
