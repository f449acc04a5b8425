SPECIFICATION FairSpec
CONSTANTS
  None = None
  Other = Other
  p1 = p1  p2 = p2  p3 = p3
  Procs = {p1, p2, p3}
INVARIANTS
  TypeOK
  HolderOwnsLock
  ServerIsKnown
  NewcomerSparesServer
PROPERTIES
  ImplementsMutex
  LoneDaemonServes
CHECK_DEADLOCK FALSE
