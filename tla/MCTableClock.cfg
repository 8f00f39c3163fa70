CONSTANTS
  p1 = p1
  p2 = p2
  None = None
  Players = {p1, p2}
  QueueSize = 4
  AutoMove = TRUE
  MaxMovesPerDeal = 2
  MaxTurns = 2
  MaxRefusals = 1
  MaxMatches = 1
  MaxPending = 1
  MaxFailures = 1
SPECIFICATION FairSpec
CHECK_DEADLOCK FALSE
INVARIANTS
  LogHasNoGaps
  
  RatedIsPlayedOut
PROPERTIES
  SilentTurnMovesOn
