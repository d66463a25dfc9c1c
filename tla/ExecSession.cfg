SPECIFICATION Spec
CONSTANTS
  MaxInput = 2
  MaxOutput = 1
  MaxSignals = 1
  Codes = {Zero, One}
  Zero = Zero
  NoCode = NoCode
CHECK_DEADLOCK FALSE
INVARIANTS
  InputArrives
  EndIsTrue
  TerminalRestored
PROPERTY AdmissionBounded
