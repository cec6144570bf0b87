CONSTANTS
  Tests    <- MCTests
  Priority <- MCPriority
SPECIFICATION FairSpec
CHECK_DEADLOCK FALSE
INVARIANTS
  OneBuild
  RunReport
PROPERTY
  EveryTestRuns
