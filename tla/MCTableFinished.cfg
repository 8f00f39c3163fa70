CONSTANTS
  p1 = p1
  p2 = p2
  None = None
  Players = {p1, p2}
  QueueSize = 4
  AutoMove = FALSE
  MaxMovesPerDeal = 2
  MaxTurns = 1
  MaxRefusals = 0
  MaxMatches = 1
  MaxPending = 1
  MaxFailures = 1
SPECIFICATION Spec
SYMMETRY Alike
CHECK_DEADLOCK FALSE
PROPERTIES
  FinishedIsNeverAborted
