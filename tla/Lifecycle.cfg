CONSTANTS
  t1 = t1
  t2 = t2
  t3 = t3
  NULL = NULL
  Threads <- ThreeThreads
  Main = t1
SPECIFICATION FairSpec
CHECK_DEADLOCK FALSE
INVARIANTS
  StackOutlivesItsUsers
  DetachedIsFreed
  JoinedAfterTheEnd
  ClaimsAreAlive
PROPERTIES
  TheLastEndsTheProcess
  WaitsEnd
