CONSTANTS
  Block        <- MCBlock
  XorBlock     <- MCXor
  EncryptBlock <- MCEncrypt
  DecryptBlock <- MCDecrypt
  Messages     <- MCMessages
SPECIFICATION Spec
INVARIANTS
  IInv
  CipherText
  RoundTrip
