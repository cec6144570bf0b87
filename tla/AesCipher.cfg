CONSTANTS
  Bit   <- MCBit
  SBox  <- AES_SBox
  RSBox <- AES_RSBox
  RCon  <- AES_RCon
  gmul  <- MCgmul
  Keys  <- MCKeys
  Junk  <- MCJunk
  JunkRounds = {14}
  Blocks <- MCBlocks
  MaxCalls = 2
SPECIFICATION Spec
CHECK_DEADLOCK FALSE
INVARIANTS
  FollowsStandard
  RoundTrip
  BuildsAgree
  KnownAnswers
