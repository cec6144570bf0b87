CONSTANTS
  Bit   <- MCBit
  SBox  <- AES_SBox
  RSBox <- AES_RSBox
  RCon  <- AES_RCon
  gmul  <- MCgmul
  Keys  <- MCKeys192
  Junk  <- MCJunk
  JunkRounds = {14}
  Blocks <- MCBlocks
  MaxCalls = 1
SPECIFICATION Spec
CHECK_DEADLOCK FALSE
INVARIANTS
  KnownAnswer192
