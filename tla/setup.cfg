CONSTANTS
  m1 = m1
  m2 = m2
  m3 = m3
  a1 = a1
  a2 = a2
  a3 = a3
  loop = loop
  NoAddr = none
  Size = 3
  Machine <- MCMachine
  Addr <- MCAddr
  Local <- MCLocal
  Localhost = localhost
  Loopback = loop
  NoFabric = {m3}
  Layouts <- MCLayouts
  Fabrics <- MCFabrics
  OldFiles <- MCOldFiles
SPECIFICATION FairSpec
CHECK_DEADLOCK FALSE
INVARIANTS
  TypeOK
  FileListsRanks
  EveryLineIsANode
  UnlistedStaysOut
PROPERTIES
  SetupEnds
