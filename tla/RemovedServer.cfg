SPECIFICATION Spec
CONSTANTS
  Procs = {p1, p2}
  Slugs = {s1, s2}
  Urls = {u1, u2}
  Orgs = {o1}
  None = None
CHECK_DEADLOCK FALSE
INVARIANT RemovedWithCredentials
