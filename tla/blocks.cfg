SPECIFICATION FairSpec
CONSTANTS
  PieceCount = 2
  Length <- EqualLengths
  BlockSize = 2
  BacklogLimit = 2
  Junk <- AnyJunk
  MaxDownloads <- Downloads
  MaxChokes = 1
  WireLimit <- OnTheWire
INVARIANTS
  RemainingIsExact
  OutstandingIsBacked
  NoSilentStall
  NothingIsForgotten
  HonestPeerIsKept
PROPERTIES
  PieceCompletes
CHECK_DEADLOCK FALSE
