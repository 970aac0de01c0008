SPECIFICATION FairSpec
CONSTANTS
  Content <- ThreeBytes
  TotalLength = 3
  PieceLength = 2
  NumCPU = 2
  MaxIncomingRequestSize = 1
  MaxDuplicates = 1
  MaxFileSize = 4
INVARIANTS
  HaveMatchesFile
  ServedBlocksAreGenuine
  ReportedSurvives
PROPERTIES
  ImplementsPieceStore
  HaveIsHonoured
