CONSTANTS
  Modes = {"client", "server", "other"}
  MaxLines = 2
SPECIFICATION Spec
CHECK_DEADLOCK FALSE
INVARIANTS
  TypeOK
  NothingLeaks
  ReleasesWhatIsOpen
PROPERTIES
  ChildrenFirst
