CONSTANTS
  m1 = m1
  m2 = m2
  w1 = w1
  Muxed = {m1, m2}
  Watched = {w1}
  Patient = {m1, w1}
  Dropping = {}
  Readers = {1, 2}
  FEED_BACKLOG = 1
  GOP_CACHE = 2
  IN_ORDER_PACKETS = 1
  Kinds <- MCKinds
  Pictures = {"bframes"}
  Starts <- MCStarts
  MaxLinks = 2
  MaxFails = 2
  MaxFrames = 5
  max_sessions = 1
  PACKET_BACKLOG = 1
  QUEUE = 1
  NoTime = NoTime
  Times <- MCTimes
  Durations = {0, 2}
  MaxPlaced = 3
  MaxPeers = 2
  MaxSessions = 1
  MaxRefused = 1
SPECIFICATION MCSpec
INVARIANT PictureWhole
INVARIANT NoneStranded
PROPERTY Released
PROPERTY OneTimeline
PROPERTY QuitsWhole
CHECK_DEADLOCK FALSE
