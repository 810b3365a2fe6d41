CONSTANTS
  t1 = t1
  t2 = t2
  t3 = t3
  Threads <- ThreeThreads
  Pids <- ThreePids
  ForksFrom <- BetweenCalls
  Reuse = FALSE
SPECIFICATION FairOnce
INVARIANTS
  RunsAlone
  CompletesOnce
  NobodyStranded
PROPERTY
  CallsReturn
