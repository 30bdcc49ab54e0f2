CONSTANTS
  Slot = {1, 2}
  Group = {0, 1}
  Word = {0, 1}
  IterSets = {{}, {15}, {18, 19}}
SPECIFICATION Spec
INVARIANTS
  TypeOK
  ReadsBack
  EqualIsSafe
