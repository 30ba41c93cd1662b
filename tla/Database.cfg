CONSTANTS
  Day = 4
  Levels = 2
  Now = 5
  None = None
  Refused = Refused
  Row <- MCRow
  Wire <- MCWire
  Changing <- MCChanging
  Sets <- MCSets
  LimitCap = 2
  Rank <- MCRank
  BranchCap = 2
  MaxRows = 3
  Key = {1, 2}
  Child = {2}
  Files <- MCFiles
  Buffers <- MCBuffers
  Modes = {"error", "ignore", "update"}
  Known = {1, 2}
  Unknown = 3
  Steps = 2
  Rerunnable <- MCRerunnable
  BATCH = 2
  CHUNK = 1
  Scenarios <- MCScenarios
  MaxFault = 2
SPECIFICATION MCSpec
INVARIANTS MatcherAgrees NoneMissed
INVARIANTS OneByOne MigratedOnce DumpWhole
CHECK_DEADLOCK FALSE
