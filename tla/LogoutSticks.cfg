SPECIFICATION Spec
CONSTANTS
  Procs = {p1, p2}
  Sessions = {k1, k2}
  MaxGen = 1
  MaxLosses = 1
  Absent = Absent
  Partial = Partial
  NoCred = NoCred
  NoSession = NoSession
CHECK_DEADLOCK FALSE
INVARIANT LogoutSticks
