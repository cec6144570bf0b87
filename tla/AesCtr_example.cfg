CONSTANTS
  BlockSize = 2
  ByteMod   = 2
  XorByte   <- MCXor
  KeyStream <- MCKeyStream
  Messages  <- MCMessages
  Builds    = {"ni"}
  Sharing   = {TRUE}
SPECIFICATION Spec
INVARIANT
  DecryptsWithSameNonce
