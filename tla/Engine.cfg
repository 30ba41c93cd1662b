SPECIFICATION MCSpec
CONSTANTS
  top = top
  middle = middle
  bottom = bottom
  Component = {top, middle, bottom}
  Parent <- MCParent
  Toggled = {middle}
  Name = {m, n}
  Engine = Engine
  None = None
  once = once
  thrice = thrice
  Job = {i, j}
  Config = {once, thrice}
  Retries <- MCRetries
  NoJob = NoJob
  Load = {l1, l2, l3}
  Nothing = Nothing
INVARIANTS
  NoOrphans
  LinksAgree
  LeftIsKept
PROPERTIES
  StopEnds
  QuietAfterStop
  NextStartExports
