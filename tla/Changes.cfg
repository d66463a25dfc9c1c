SPECIFICATION Spec
CONSTANTS
  Table <- AllCommands
  Replacing <- Replacements
  Recomputing <- Recomputations
  Objects = {o1, o2}
  Twins = {}
  Edits = {e}
  Nothing = Nothing
  MaxRuns = 2
  MaxTurns = 2
SYMMETRY Either
VIEW Seen
CHECK_DEADLOCK FALSE
INVARIANTS
  HitsWhatWasShown
  ReportIsTrue
  AtMostOnce
PROPERTIES
  NothingUndone
