CONSTANTS
  a1 = a1
  b1 = b1
  b2 = b2
  A = A
  B = B
  NoPid = NoPid
  Threads <- TwoMainsAndAThread
  Pids <- BothProcesses
  pid <- PidOf
  id <- IdOf
  NotRecoverable = 9
  Home = B
  Kinds <- SomeKinds
  Locking <- SomeCalls
  MaxCnt = 2
SPECIFICATION FairSpec
INVARIANTS
  OwnershipIsKnown
  DamageIsTold
CONSTRAINT NotTorn
PROPERTY SurvivorsReturn
