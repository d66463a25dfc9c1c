SPECIFICATION MCSpec
CONSTANTS
  a1 = a1
  a2 = a2
  Attachments = {a1, a2}
  Agent = Agent
  Modes = {"follow", "snapshot", "steer", "interactive"}
  Capacity = 1
  PageSize = 1
  MaxActions = 1
  MaxInput = 2
  MaxSizes = 1
  MaxEvents = 2
CHECK_DEADLOCK FALSE
INVARIANTS
  ShownWhole
  VerdictIsTheHosts
  InputWithoutGaps
PROPERTY AttachmentEnds
