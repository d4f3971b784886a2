SPECIFICATION Spec
CHECK_DEADLOCK FALSE
SYMMETRY MCSymmetry
CONSTANTS
  t1 = t1  t2 = t2  l1 = l1  l2 = l2  l3 = l3  l4 = l4  v1 = v1  v2 = v2
  Thread <- MCThreads1
  Label <- MCLabels3
  Zero = l1
  Vec <- MCVec
  None = None
  MaxIds = 3
  ResizeStep = 2
  Overlap <- MCNone
  ReAdd = FALSE
  CloneWhen = "no_tombstones"
PROPERTY CloneKeepsContent
