CONSTANTS
  N = 2
  Ranks = {0, 1}
  None = None
  Pack <- MCPack
  ScaleRanks <- MCScale
  DealSize = 1
  MaxAttackFirstRound = 1
  MaxAttackPerRound = 2
  TransfersEnabled = TRUE
  NavesEnabled = TRUE
  Shuffles <- MCShuffles
  StartLevels <- MCLevels
  PlayerCommands <- CommandNames
SPECIFICATION Spec
CHECK_DEADLOCK FALSE
INVARIANT PlayerToMoveCanMove
