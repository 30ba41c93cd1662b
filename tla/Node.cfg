SPECIFICATION MCSpec
CONSTANTS
  Flush = {f1, f2, f3}
  Typed = {2}
  MaxEntity = 3
  NoFlush = NoFlush
  p = p
  c = c
  o = o
  Component = {p, c, o}
  Parent <- Tree
  Accepts <- Bound
  Chatty = {c}
  QueueMax = 1
  None = None
INVARIANTS
  NoDataLost
  FlushDurable
  OnlyOwnLeft
PROPERTIES
  ImplementsLog
  EventuallyStored
  StopEnds
