SPECIFICATION FairSpec
CONSTANTS
  p1 = p1
  p2 = p2
  Peer = {p1, p2}
  Trackers <- ThreeTrackers
  Known <- BothKnown
  MaxPeers = 1
  PieceCount = 1
  StallTimeout = 1
  DefaultAnnounceInterval = 3
  Suggested = {0, 2}
  MaxDuplicates = 1
INVARIANTS
  SlotsMatchWorkers
  WaitMissesNoWorker
  EventsInOrder
PROPERTIES
  KeepsAnnouncing
  SkippedPeerIsRetried
  DownloadReturns
CHECK_DEADLOCK FALSE
