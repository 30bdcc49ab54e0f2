CONSTANTS
  m1 = m1
  m2 = m2
  a1 = a1
  a2 = a2
  loop = loop
  MaxLines = 3
  Machine <- MCMachine
  Name <- MCName
  Addr <- MCAddr
  Local <- MCLocal
  Answers <- MCAnswers
  HostFiles <- MCHostFiles
  NoFabric = {}
SPECIFICATION Spec
CHECK_DEADLOCK FALSE
INVARIANTS
  TypeOK
  RoutesToSelf
  UniqueIds
  FirstLineWins
