SPECIFICATION FairSpec
CHECK_DEADLOCK FALSE
CONSTANTS
  Kinds = {"lazy", "parallel", "reads"}
  t1 = t1  t2 = t2  l1 = l1  l2 = l2  v1 = v1  v2 = v2  s1 = s1  s2 = s2  c1 = c1  c2 = c2
  Thread <- MCThreads2
  Label <- MCLabels
  Vec <- MCVec2
  Null = Null
  Threshold = 2
  MaxCalls = 3
  MaxFailures = 1
  SmallRebuild = FALSE
  Search <- MCSearches
  NumThreads <- MCTwoAndOne
  PoolSize = 2
  QueueSize = 2
  MaxDegree = 3
  MaxHops <- MCHops
  LoadsInOrder = TRUE
  Caller <- MCCallers
  Ctx = {1, 2}
  MaxReads <- MCReads
  BatchSize = 2
  MaxReadCalls = 1
  LateThrows = FALSE
INVARIANTS PhaseIsSound DistancesAreOfThisHop NothingIsShared  BatchesAreSettled
PROPERTIES ImplementsVectorIndex TransitionHappens ParallelSearchReturns ReadsReturn
