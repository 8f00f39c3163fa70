CONSTANTS
  N = 3
  Ranks = {0, 1}
  None = None
  Pack <- MCPack
  ScaleRanks <- MCScale
  DealSize = 1
  MaxAttackFirstRound = 1
  MaxAttackPerRound = 2
  TransfersEnabled = TRUE
  NavesEnabled = TRUE
  Shuffles <- MCShuffles
  StartLevels <- MCLevels
  PlayerCommands <- Calm
SPECIFICATION MCSpec
CHECK_DEADLOCK FALSE
CONSTANT MaxTakes = 3
INVARIANTS
  NobodyLeavesEarly
  HiddenTrumpFindsItsPlayers
  RolesAreApart
  AttackCanBeAnswered
  WindowIsSound
  NoMoveIntoTheWindow
  PlayerToMoveCanMove
  ExitsAreInOrder
  NothingHiddenIsShown
PROPERTIES
  MoveWasOffered
  KeepsPromise
