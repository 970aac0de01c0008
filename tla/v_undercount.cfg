SPECIFICATION Spec
CONSTANTS
  a1 = a1
  a2 = a2
  c1 = c1
  c2 = c2
  Addr = {a1}
  Conn = {c1}
  ConnAddr <- OnePeer
  PieceCount = 2
  EndgameThreshold = 1
  AssignmentTimeout = 1
  UnchokeSlots = 1
  ResultsBuffer = 1
  Bitfields <- Leeches
  Haves = {1}
  InterestedConns = {}
  Interruptible = FALSE
INVARIANTS
  EveryHolderIsCounted
