SPECIFICATION Spec
CONSTANTS
  None = None
  c0 = c0  c1 = c1  c1a = c1a  c2 = c2
  h1 = h1  h2 = h2  s1 = s1  s2 = s2
  Commits <- Pair
  Trees <- PairTrees
  Tree <- PairTree
  Ancestors <- PairAncestors
  MergeBase <- PairMergeBase
  Unit = "commit"
  Hooks = {h1, h2}
  Sessions = {s1, s2}
  SessionOf <- TwoSessions
  Contexts = {"a"}
  MaxWakes = 0
INVARIANTS
  TypeOK
  ConsumedWasRead
  UnreadHeadFires
  HashNamesReadUnit
SYMMETRY Swap
CHECK_DEADLOCK FALSE
