SPECIFICATION Spec
CONSTANTS
  None = None
  p1 = p1  p2 = p2
  Procs = {p1, p2}
  Roles = {"review"}
  Cap <- Caps
  RetryCap = 1
  MaxCalls = 3
SYMMETRY Swap
CONSTRAINT BeforeALoss
INVARIANTS
  TypeOK
  CapsHold
  SlotsAreCalls
PROPERTIES
  PermanentStaysLatched
  WindowsEscalate
