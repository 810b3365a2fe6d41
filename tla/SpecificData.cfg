CONSTANTS
  m = m
  t2 = t2
  Threads <- TwoThreads
  Main = m
  L1 = 3
  L2 = 2
  Iterations = 2
  Taken <- OthersKeys
  MaxSeq <- Twice
  MaxGen = 1
SPECIFICATION TsdSpec
CHECK_DEADLOCK FALSE
INVARIANT
  ValuesKeepToTheirKey
PROPERTY
  NothingDroppedEarly
