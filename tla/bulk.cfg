CONSTANTS
  NumHosts = 2
  Rep = 2
  Memory = 3
  Xfers <- MCXfers
SPECIFICATION FairSpec
CHECK_DEADLOCK FALSE
INVARIANTS
  TypeOK
  DataArrives
  DaemonsSurvive
PROPERTIES
  TransfersEnd
