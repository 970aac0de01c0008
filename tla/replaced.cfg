SPECIFICATION FairSpec
CONSTANTS
  a1 = a1
  a2 = a2
  c1 = c1
  c2 = c2
  Addr = {a1}
  Conn = {c1, c2}
  ConnAddr <- SharedAddress
  PieceCount = 1
  EndgameThreshold = 1
  AssignmentTimeout = 1
  UnchokeSlots = 1
  ResultsBuffer = 1
  Bitfields <- SeedsAndLeeches
  Haves = {}
  InterestedConns = {}
  Interruptible = TRUE
INVARIANTS
  AvailabilityIsExact
PROPERTIES
  CancellationStopsEverything
