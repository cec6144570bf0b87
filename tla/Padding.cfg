CONSTANTS
  ByteMod    = 4
  SizeMod    = 16
  BlockSizes = {1, 2, 3, 4, 5}
  Messages   <- MCMessages
SPECIFICATION PaddingSpec
CHECK_DEADLOCK FALSE
INVARIANTS
  BoundIsExact
  WholeBlocks
  ReadsInBounds
  RoundTrip
