CONSTANTS
  pkcs7    = pkcs7
  shadow   = shadow
  other    = other
  nameless = nameless
  main     = main
  Threads  = {main, worker}
  NULL     = NULL
  Entries  <- MCEntries
  Name     <- MCName
  Builtins <- MCBuiltins
  MaxPadders = 3
SPECIFICATION FairSpec
INVARIANTS
  NoneLost
  NoneTwice
  HeldStays
  LookupsAgree
  RoomIsReal
  BuiltinsPresent
  DeferredInOrder
PROPERTY DrainServes
