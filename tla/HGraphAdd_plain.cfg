SPECIFICATION Spec
CHECK_DEADLOCK FALSE
CONSTANTS
  t1 = t1  t2 = t2  t3 = t3  l1 = l1  l2 = l2  l3 = l3  l4 = l4  v1 = v1  v2 = v2
  Thread <- MCThreads3
  Label <- MCLabels
  Vec <- MCVec1
  None = None
  MaxIds = 3
  InitCapacity = 0
  Levels <- MCLevels
  ResizeStep = 2
  Dedup = FALSE
  SupportForceRemove = FALSE
  SameLabel = FALSE
  ConcurrentFirst = TRUE
SYMMETRY MCSymmetryPlain
INVARIANTS VisibleNodesReadable  StructureOwned
