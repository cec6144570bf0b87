CONSTANTS
  Threads = {t1, t2, t3}
  Node    = {n1, n2}
  Data    = {d1, d2, NULL}
  NULL    = NULL
SPECIFICATION FairSpec
INVARIANTS
  IInv
  ListIntact
  HeapAccounted
  NoUseAfterFree
PROPERTIES
  MutexReleased
  Linearizable
