SPECIFICATION FairSpec
CONSTANTS
  a1 = a1
  a2 = a2
  c1 = c1
  c2 = c2
  Addr = {a1, a2}
  Conn = {c1, c2}
  ConnAddr <- TwoPeers
  PieceCount = 1
  EndgameThreshold = 0
  AssignmentTimeout = 1
  UnchokeSlots = 1
  ResultsBuffer = 1
  Bitfields <- Seeds
  Haves = {}
  InterestedConns = {}
  Interruptible = FALSE
PROPERTIES
  BusyPeerIsFreed
  IdlePeerIsOffered
