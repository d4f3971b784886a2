SPECIFICATION Spec
CHECK_DEADLOCK FALSE
CONSTANTS
  t1 = t1  t2 = t2  t3 = t3  l1 = l1  l2 = l2  l3 = l3  l4 = l4  v1 = v1  v2 = v2
  Thread <- MCThreads3
  Label <- MCLabels
  Vec <- MCVec
  None = None
  MaxIds = 4
  InitCapacity = 0
  Levels <- MCFlat
  ResizeStep = 1
  Dedup = TRUE
  SupportForceRemove = FALSE
  SameLabel = FALSE
  ConcurrentFirst = FALSE
SYMMETRY MCSymmetry3
INVARIANTS VisibleNodesReadable WritesInside CodesFaithful ProbeReadsWritten StorageIsConsistent
