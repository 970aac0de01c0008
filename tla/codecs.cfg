SPECIFICATION Spec
CONSTANTS
  MaxInt = 127
  MaxStringLength = 10
  MaxNestingDepth = 3
  HashSize = 2
  Files <- AnyFiles
  Tokens <- AnyTokens
  MaxBytes = 8
  PieceCount = 5
  Bits = 4
  WordSize = 2
  MaxMessageLength = 8
  Hashes = {1, 2}
  InfoHash = 1
  MaxMessages = 3
INVARIANTS
  DecoderIsLossless
  SpansHoldTheValues
  PiecesCoverTheFile
  InfoHashNamesTheFile
  ReceivedAsSent
  BitfieldIsWhatWasTold
CHECK_DEADLOCK FALSE
