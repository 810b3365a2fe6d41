CONSTANTS
  t1 = t1
  t2 = t2
  Threads <- TwoThreads
  MaxHandlers = 3
SPECIFICATION Spec
INVARIANT
  PreparedInReverse
