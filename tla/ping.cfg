CONSTANTS
  NumHosts = 3
  Caller = 0
  Rep = 1
  NumThreads = 2
  IoSize = 0
  FatalHosts = {2, 3}
  ThrowHosts = {1}
  CrashHosts = {2}
  TouchHosts = {2}
SPECIFICATION FairSpec
CHECK_DEADLOCK FALSE
INVARIANTS
  TypeOK
  MarkerShowsServer
  ExitZeroSound
PROPERTIES
  DaemonsLeave
  ClientEnds
  ImplementsDaemonGroup
