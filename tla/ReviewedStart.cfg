SPECIFICATION MCSpec
CONSTANTS
  alice = alice
  bob = bob
  carol = carol
  Kinds = {"pipeline", "definition", "install"}
  Procs = {p1, p2}
  Files = {f1}
  Scopes = {alice, bob, carol}
  Targets = {t1}
  Ids = {i1, i2}
  MaxVersion = 2
  MaxLosses = 1
  Absent = Absent
  Partial = Partial
  NoRequest = NoRequest
  NoJob = NoJob
SYMMETRY Symmetry
CHECK_DEADLOCK FALSE
INVARIANTS
  TypeOK
  DefinitionStartedAtMostOnce
  DefinitionNeverResubmitted
  SubmittedByItsOwner
  RetriedStartedAtMostOnce
  SuccessMeansSubmitted
PROPERTIES
  KeyNeverReplaced
  ImplementsStartOnce
