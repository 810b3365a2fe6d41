CONSTANTS
  t1 = t1
  t2 = t2
  t3 = t3
  Threads <- ThreeThreads
  Calls <- EveryCall
  tid <- SharedTid
  pid <- SharedPid
  IdMask = 2
  Shared = TRUE
SPECIFICATION FairSpec
INVARIANTS
  Exclusion
  CountsAreExact
  NobodyElseStranded
  EdeadlkOnlyToTheOwner
PROPERTY
  CallsReturn
