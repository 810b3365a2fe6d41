CONSTANTS
  t1 = t1
  t2 = t2
  t3 = t3
  Threads <- ThreeThreads
  Counts <- TwoOrThree
  MaxCalls = 2
SPECIFICATION FairBarrier
INVARIANTS
  ExactGroups
  DestroyedLast
PROPERTY
  BarrierReturns
