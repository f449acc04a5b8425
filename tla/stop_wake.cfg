SPECIFICATION Spec
CONSTANTS
  None = None
  c0 = c0  c1 = c1  c1a = c1a  c2 = c2
  h1 = h1  h2 = h2  s1 = s1  s2 = s2
  Commits <- Solo
  Trees <- SoloTrees
  Tree <- SoloTree
  Ancestors <- SoloAncestors
  MergeBase <- SoloMergeBase
  Unit = "commit"
  Hooks = {h1, h2}
  Sessions = {s1}
  SessionOf <- SameSession
  Contexts = {"a"}
  MaxWakes = 2
INVARIANTS
  OneReviewPerWake
SYMMETRY SwapHooks
CHECK_DEADLOCK FALSE
