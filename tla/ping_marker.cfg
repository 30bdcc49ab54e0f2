CONSTANTS
  NumHosts = 2
  Caller = 0
  Rep = 1
  NumThreads = 2
  IoSize = 0
  FatalHosts = {}
  ThrowHosts = {}
  CrashHosts = {}
  TouchHosts = {1}
SPECIFICATION Spec
CHECK_DEADLOCK FALSE
INVARIANTS
  NoMarkerNoServer
