SPECIFICATION Spec
CONSTANTS
  Procs = {p1, p2}
  None = None
  Absent = Absent
  Partial = Partial
  NoCred = NoCred
  NoSession = NoSession
  MaxGen = 1
  MaxLosses = 1
  Slugs = {s1, s2}
  Urls = {u1, u2}
  Orgs = {o1}
  Binaries = 2
SYMMETRY Symmetry
VIEW Seen
CHECK_DEADLOCK FALSE
INVARIANTS
  CredentialsCurrent
  ReplacedStaysGone
  ServersConsistent
  BinaryKept
  NothingLeft
