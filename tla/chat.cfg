SPECIFICATION Spec
CONSTANTS
  None = None
  c1 = c1  c2 = c2  t1 = t1
  Sessions = {c1, c2}
  Turns = {t1}
INVARIANTS
  TypeOK
  AnswerHasRecord
  DeletionIsComplete
  ListedIsStored
PROPERTIES
  FilesDiscipline
CONSTRAINT NotAllCrossed
SYMMETRY Swap
CHECK_DEADLOCK FALSE
