SPECIFICATION Spec
CONSTANTS
  Kinds = {"install"}
  Procs = {p1, p2}
  Files = {f1}
  Scopes = {alice}
  Targets = {t1}
  Ids = {i1, i2}
  MaxVersion = 1
  MaxLosses = 0
  Absent = Absent
  Partial = Partial
  NoRequest = NoRequest
  NoJob = NoJob
CHECK_DEADLOCK FALSE
INVARIANT DurableBeforeDispatch
