SPECIFICATION Spec
CONSTANTS
  ByteBits = 2
  QuickBits = 1
  TableLen = 2
  LenRoom = 2
  BlockSize = 5
  FirstSplit = 3
  HeaderBits = 3
  MaxBytes = 6
  MaxTokens = 4
  Tables <- MCTables
  CandidateLists <- MCCandidateLists
INVARIANTS
  StreamsDecoded
  PassesAgree
CHECK_DEADLOCK FALSE
