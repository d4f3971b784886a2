SPECIFICATION Spec
CHECK_DEADLOCK FALSE
CONSTANTS
  Kinds = {"ivf", "sindi", "simq", "attributes", "hnsw", "fresh_hnsw", "diskann", "pyramid", "search"}
  Label = {0, 1, 2}
  Zero = 0
  IVFThread = {1, 2}
  Bucket = {0, 1}
  MaxCopies = 2
  Attr = {"a", "b"}
  FirstAttr = "a"
  CentroidDist <- MCCentroid
  Batches <- MCBatches
  Doc <- MCDoc
  SparseQuery <- MCQuery
  window_size = 2
  term_id_limit = 2
  MaxDocs = 3
  TokenVec = {0, 1, 2, 3, 4, 5, 6, 7, 8, 9}
  ZeroVec <- ZeroVector
  Dot <- MCDot
  init_percent = 40
  max_cluster_size = 3
  split_start_idx = 2
  BuildData <- MCBuildData
  AddData <- MCAddData
  MaxTokens = 8
  Field = {"f"}
  Value = {0, 1}
  AttrBucket = {0, 1}
  MaxOffset = 2
  WordBits = 2
  IndexBits = 16
  MaxUpdates = 1
  Exprs <- MCExprs
  Adder = {1, 2}
  HNSWLabel = {0, 1}
  Vec = {0, 1}
  MAXIMUM_DEGREE = 1
  MaxElements = 3
  GraphLabel = {0, 1, 3, 4}
  M = 1
  MaxLevel = 1
  build_batch_num = 3
  DataSets <- MCDataSets
  MaxCrashes = 2
  PyThread = {1, 2}
  PyBatches <- MCPyBatches
  no_build_levels = {0}
  index_min_size = 2
  PyCapacity = 4
  MaxReloads = 1
  Node <- MCNodes
  Copies <- MCCopies
  Dist <- MCDist
  SearchDegree = 2
  Requests <- MCRequests
  MaxRounds = 3
CONSTRAINT WithinBounds
INVARIANTS IVFSearchIsExact IVFPartsAgree  
INVARIANTS   RepairedGraphIsSound ResumedBuildIsAligned
INVARIANTS PathsAreAnswered SearchKeepsTheNearest
PROPERTIES  NeverReturnedAgain
