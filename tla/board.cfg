SPECIFICATION Spec
CONSTANTS
  a1 = a1
  a2 = a2
  c1 = c1
  c2 = c2
  Addr = {a1, a2}
  Conn = {c1, c2}
  ConnAddr <- TwoPeers
  PieceCount = 2
  EndgameThreshold = 1
  AssignmentTimeout = 1
  UnchokeSlots = 1
  ResultsBuffer = 1
  Bitfields = {}
  Haves = {0}
  InterestedConns = {c1, c2}
  Interruptible = FALSE
SYMMETRY PeerSymmetry
INVARIANTS
  SwarmTypeOK
  BusyPeerIsListed
  InFlightIffAssigned
  OneAssigneeBeforeEndgame
  ChokeBeliefMatchesWire
  OptimisticHolderIsInterested
