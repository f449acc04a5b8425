SPECIFICATION FairSpec
CONSTANTS
  None = None
  c1 = c1  c2 = c2  m1 = m1  m2 = m2  m3 = m3
  Sessions = {c1, c2}
  Messages = {m1, m2, m3}
  MIN_ORPHAN_UNSEEN_PASSES = 3
  ConfirmWindow = 2
INVARIANTS
  TypeOK
  EverythingIsFound
PROPERTIES
  PruneIsConfirmed
  DeletedLeavesIndex
CHECK_DEADLOCK FALSE
