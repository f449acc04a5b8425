SPECIFICATION Spec
CONSTANTS
  None = None
  p1 = p1  p2 = p2  p3 = p3
  k1 = k1  k2 = k2
  Procs = {p1, p2}
  Critiques = {k1, k2}
  TTL_HOOKS = 2
  MAX_DISTIL_ATTEMPTS = 2
  MaxLaunches = 4
INVARIANTS
  TypeOK
  DistilledOnce
  SweptBounded
SYMMETRY Swap
CHECK_DEADLOCK FALSE
