SPECIFICATION Spec
CONSTANTS
  c1 = c1
  c2 = c2
  Conn = {c1, c2}
  a1 = a1
  Addr = {a1}
  ConnAddr <- SharedAddress
  RateSampleWindow = 2
  Amounts = {1}
  MaxTime = 5
  MaxRecords = 3
SYMMETRY ConnSymmetry
INVARIANTS
  PeakIsHighest
  RateIsExact
CHECK_DEADLOCK FALSE
