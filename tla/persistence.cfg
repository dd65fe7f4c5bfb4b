SPECIFICATION FairSpec
CONSTANTS
  Sessions = {s1, s2}
  MaxItems = 3
  Drainers = {d}
CHECK_DEADLOCK FALSE
INVARIANTS
  TypeOK
  NoLockLeftBehind
PROPERTIES
  ImplementsDelivery
  DrainFlushes
  EverythingSent
 
