SPECIFICATION MCSpec
CHECK_DEADLOCK FALSE
SYMMETRY MCSymmetry
CONSTANTS
  l0 = l0  l1 = l1  l2 = l2  v1 = v1  v2 = v2
  Label <- MCLabels
  Zero = l0
  Vec <- MCVec2
  NoVec = NoVec
  MaxIds = 3
  MaxDegree = 2
  RouteDegree = 1
  Levels <- MCLevels
  ResizeStep = 2
  Uses <- MCUses
  CacheInputs <- MCCacheInputs
  CacheBlock = 2
  TornReads = FALSE
  MaxTaskFailures = 1
  MaxTracked = 5
  MaxStored = 1
INVARIANTS GraphsAreSound EntryPointIsRight LabelsAgree  RingsAreGroups
PROPERTIES DeadEdgesNeedDeadEntry CloneKeepsContent ImplementsVectorIndex
