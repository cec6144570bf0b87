CONSTANTS
  Block        <- MCBlock
  XorBlock     <- MCXor
  EncryptBlock <- MCEncrypt
  DecryptBlock <- MCDecrypt
  Messages     <- MCMessages
SPECIFICATION Spec
INVARIANT
  WholeBlocks
