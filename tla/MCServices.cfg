CONSTANTS
  N = 3
  Ranks = {0, 1}
  None = None
  Pack <- MCPack
  ScaleRanks <- MCScaleRanks
  MaxDeals = 2
  Users = {u1, u2, u3}
  Nobody = Nobody
  Calls = {c1, c2}
  TableIds = {t1, t2}
  MaxPlayers = 3
  Attempts = 2
  MaxCalls = 3
  MatchIds = {1, 2}
  LineUps <- MCLineUps
  Endings <- MCEndings
  NewcomerMatches = 1
  MaxJobs = 3
  Devices = {d1, d2}
  QueueSize = 1
  QuietFor = 2
  LastMinute = 2
  Tabs = {x1}
  MaxRequests = 3
SPECIFICATION Spec
SYMMETRY MCSymmetry
CHECK_DEADLOCK FALSE
INVARIANTS
  NobodyStartsFinished
  LosersDeserveIt
  OneSeatEach
  NoDeadTables
  CountedOnce
  FriendshipTakesTwo
PROPERTIES
  HungLevelsAreKept
  FullOrOutrun
  ClosedStaysClosed
  RecountKeepsPlaces
  CallsAreSpaced
