CONSTANTS
  p1 = p1
  p2 = p2
  None = None
  Players = {p1, p2}
  QueueSize = 2
  AutoMove = TRUE
  MaxMovesPerDeal = 2
  MaxTurns = 1
  MaxRefusals = 0
  MaxMatches = 2
  MaxPending = 1
  MaxFailures = 1
SPECIFICATION Spec
SYMMETRY Alike
CHECK_DEADLOCK FALSE
INVARIANTS
  TypeOK
  AtMostOneMatchIsPlayed
  OccupiedTableHasMatch
  SessionIsLive
  OneTurnClock
