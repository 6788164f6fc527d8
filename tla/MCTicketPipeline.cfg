SPECIFICATION Spec
CONSTANTS
  e1 = e1
  e2 = e2
  Slot = {e1, e2}
  MaxAttempts = 2
  MaxReviewRounds = 1
  MaxQaRounds = 1
  MaxRuns = 4
  MaxFaults = 1
  MaxOrders = 1
  MaxEvents = 2
SYMMETRY Symmetry
CHECK_DEADLOCK FALSE
INVARIANTS NeverStranded TerminalIsQuiet
