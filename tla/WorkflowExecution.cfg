SPECIFICATION Spec
CONSTANTS
  Clients = {c1}
  MaxRuns = 2
  MaxStages = 2
INVARIANTS
  FollowedIsTheRun
  ControlExact
  StagesOfOneRun
PROPERTY WatchSurvives
CHECK_DEADLOCK FALSE
