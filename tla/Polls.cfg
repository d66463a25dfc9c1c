SPECIFICATION Spec
CONSTANTS
  Poll = 2
  ReadTime = 1
  Deadline = 4
  MaxTime = 8
  Size = 5
  PageSize = 2
  MaxPages = 2
  MaxTurns = 2
CHECK_DEADLOCK FALSE
INVARIANTS
  VerdictIsTrue
  ListsAreWhole
PROPERTIES
  WaitEnds
  WalkEnds
