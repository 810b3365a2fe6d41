CONSTANTS
  t1 = t1
  t2 = t2
  t3 = t3
  Threads <- ThreeThreads
  Calls <- DistinctCalls
  SEM_VALUE_MAX = 1
  Initial = 0
  Cancellable = TRUE
SPECIFICATION FairSpec
CHECK_DEADLOCK FALSE
INVARIANTS
  WaitersCounted
  NoLostWakeup
PROPERTIES
  ImplementsAbstractSemaphore
  CallsReturn
