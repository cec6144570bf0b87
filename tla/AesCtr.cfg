CONSTANTS
  BlockSize = 2
  ByteMod   = 2
  XorByte   <- MCXor
  KeyStream <- MCKeyStream
  Messages  <- MCMessages
  Builds    = {"generic", "ni"}
  Sharing   = {TRUE, FALSE}
SPECIFICATION Spec
INVARIANTS
  RoundTrip
  KeyStreamFresh
  BuildsAgree
