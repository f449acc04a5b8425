SPECIFICATION FairSpec
CONSTANTS
  None = None
  a1 = a1  x1 = x1
  Tasks = {a1, x1}
  Detached = {a1}
  MaxRestarts = 3
INVARIANTS
  TypeOK
  LockIsTheRunningTask
  PaidRunIsNotWrittenOff
PROPERTIES
  ImplementsRunLog
  KilledChildDies
  LockIsReleased
CHECK_DEADLOCK FALSE
