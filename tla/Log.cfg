CONSTANTS
  Threads   = {t1, t2}
  Levels    = {2, 6}
  LOG_DEBUG = 2
  LOG_FATAL = 6
  Streams   = {stderr, file}
  stderr    = stderr
  NULL      = NULL
  Junk      <- MCJunk
  MaxFrames = 2
  MaxCalls  = 4
SPECIFICATION FairSpec
INVARIANTS
  IInv
  MessagesWhole
  StreamStays
PROPERTIES
  MutexReleased
  FatalEnds
  Linearizable
