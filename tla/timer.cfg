CONSTANTS
  M = 8
  MaxClock = 5
  Ticks = {0, 1, 3}
SPECIFICATION Spec
INVARIANTS
  TimeConserved
  ForwardIsSound
