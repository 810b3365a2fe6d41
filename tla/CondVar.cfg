CONSTANTS
  t1 = t1
  t2 = t2
  t3 = t3
  Threads <- ThreeThreads
  HurdThreads <- OneThread
  Cancellable <- OtherThread
  Shareds <- Both
  MaxNotify <- Notifications
  MaxLeaks <- Leaks
SPECIFICATION FairSpec
CHECK_DEADLOCK FALSE
INVARIANTS
  WaitersCounted
  TellReachesRegistered
  RelockingIsSound
PROPERTY
  DueWaitersReturn
