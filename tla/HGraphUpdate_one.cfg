SPECIFICATION UFairSpec
CHECK_DEADLOCK FALSE
CONSTANTS
  t1 = t1  t2 = t2  u1 = u1  l1 = l1  l2 = l2  l3 = l3  v1 = v1  v2 = v2
  Thread <- MCThreads
  Updater <- MCUpdaters
  MaxUpdates = 2
  Uses <- MCApart
  Label <- MCLabels
  Vec <- MCVec
  None = None
  MaxIds = 3
  InitCapacity = 0
  Levels <- MCLevels
  ResizeStep = 1
  Dedup = TRUE
  SupportForceRemove = FALSE
  SameLabel = FALSE
  ConcurrentFirst = FALSE
PROPERTY CallsFinish
