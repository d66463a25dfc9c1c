SPECIFICATION MCSpec
CONSTANTS
  NoLine = NoLine
  Window = 2
  LogTail = 1
  LogOverlap = 2
  LogPage = 1
  LogPages = 2
  MaxTime = 4
  LogLines = 3
  Lines = {a, b, c, d}
  TaskTailed = 2
  TaskLines = 4
  InboxPage = 1
  InboxPages = 3
  MaxSeen = 4
  MaxRetries = 1
  MaxMessages = 5
  MaxTurns = 1
  People = {alice, bob}
  Notes = {n1, n2}
  None = None
  MaxRuns = 2
  MaxCalls = 2
  NoRelease = NoRelease
  MaxRevision = 2
  Stories = {s1, s2}
  Groups = {g1, g2}
  NoSuch = NoSuch
  MaxDeps = 1
SYMMETRY Symmetry
CHECK_DEADLOCK FALSE
INVARIANTS
  LogsWhole
  TaskWhole
  InboxWhole
  DoneMeansAll
  NoWedge
  GateConfirmed
  PlanInOrder
