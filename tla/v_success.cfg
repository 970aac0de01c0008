SPECIFICATION DownloadSpec
CONSTANTS
  a1 = a1
  a2 = a2
  c1 = c1
  c2 = c2
  Addr = {a1}
  Conn = {c1, c2}
  ConnAddr <- SharedAddress
  PieceCount = 2
  EndgameThreshold = 0
  AssignmentTimeout = 1
  UnchokeSlots = 1
  ResultsBuffer = 1
  Bitfields <- Seeds
  Haves = {}
  InterestedConns = {}
  Interruptible = TRUE
  Seed = FALSE
INVARIANTS
  SuccessMeansWholeFile
CHECK_DEADLOCK FALSE
