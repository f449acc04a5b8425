SPECIFICATION Spec
CONSTANTS
  None = None
  c0 = c0  c1 = c1  c1a = c1a  c2 = c2
  h1 = h1  h2 = h2  s1 = s1  s2 = s2
  Commits <- MCCommits
  Trees <- MCTrees
  Tree <- MCTree
  Ancestors <- MCAncestors
  MergeBase <- MCMergeBase
  Unit = "pr"
  Hooks = {h1}
  Sessions = {s1}
  SessionOf <- OneSession
  Contexts = {"a", "b"}
  MaxWakes = 0
INVARIANTS
  UnreadHeadFires
PROPERTIES
  ImplementsReviewer
CHECK_DEADLOCK FALSE
