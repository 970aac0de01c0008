SPECIFICATION FairSpec
CONSTANTS
  k1 = k1
  k2 = k2
  k3 = k3
  k4 = k4
  near = near
  far = far
  other = other
  Client = {k1, k2, k3, k4}
  IP = {near, far, other}
  RemoteIP <- ThreeHosts
  MaxIncomingConnections = 2
  MaxConnectionsPerIP = 1
INVARIANTS
  SlotsMatchConnections
  WaitMissesNobody
PROPERTIES
  ListenerStops
CHECK_DEADLOCK FALSE
