CONSTANTS
  c1 = c1
  c2 = c2
  Cancellers <- TwoCancellers
SPECIFICATION FairCancel
CHECK_DEADLOCK FALSE
PROPERTIES
  
  DeliveredRequestsEndIt
