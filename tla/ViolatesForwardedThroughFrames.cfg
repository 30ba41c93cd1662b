CONSTANTS
  Conns = {"c"}
  MaxYielded = 3
  MaxFrames = 1
  Confs <- MCConfs
  Clients = {"https"}
  MaxGen = 2
  Edits <- MCEdits
  MaxEdits = 2
  MaxDefinition = 2
  MaxBoots = 2
  MaxChanges = 3
SPECIFICATION MCSpec
INVARIANT ForwardedThroughFrames
CHECK_DEADLOCK FALSE
