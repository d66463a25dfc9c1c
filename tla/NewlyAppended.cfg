SPECIFICATION Spec
CONSTANTS
  Window = 2
  TailSize = 1
  Overlap = 2
  PageSize = 1
  MaxPages = 2
  MaxTime = 4
  MaxLines = 3
  NoLine = NoLine
CHECK_DEADLOCK FALSE
INVARIANT OnlyNewlyAppended
