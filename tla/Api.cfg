CONSTANTS
  Slot = {s1, s2}
  Asks <- MCAsks
  Tree <- MCTree
  ExcludedNames = {9}
  ExcludedPaths <- MCExcludedPaths
  Limit = 2
  Filesystems <- MCFilesystems
  MaxRequest = 3
  MaxCrash = 1
  u = u
  v = v
  Users = {u, v}
  Apps <- MCApps
  Initially <- MCInitially
  Payloads <- MCPayloads
  Duration = 1
  MaxTime = 2
  MaxEvents = 3
SPECIFICATION MCSpec
INVARIANT NeverTorn
INVARIANT ExcludedKept
INVARIANT ActsAsAdmitted
INVARIANT TokensTraced
PROPERTY NoClobber
CHECK_DEADLOCK FALSE
SYMMETRY Symmetry
