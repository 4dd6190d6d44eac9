SPECIFICATION DataSpec
CONSTANTS
  WordBits = 4
  MaxKey = 3
  NearBuckets = 1
  MidBuckets = 1
  MidWidth = 2
  FarBuckets = 1
  FarWidth = 2
  Starts <- MCStarts
  Verdicts <- MCVerdicts
  Strings <- MCStrings
  Finds <- MCFinds
  Caps <- MCCaps
  WinSets <- MCWinSets
  Epochs = {0, 1}
  MaxFiles = 3
  MaxOps = 3
  Product <- MCProduct
  Calls <- MCCalls
  Unescaped <- MCUnescaped
  Lowered <- MCLowered
  Tracking = {"utm"}
  IndexFiles <- MCIndexFiles
  Invalid = {"bad"}
  Malformed = {"1;x", "2;x", "%zz"}
  Order <- MCOrder
  Given <- MCGiven
  Buckets = 2
  Span = 2
  Blocks = 2
  BlockBits = 4
  K = 2
  MaxBatch = 3
  RibbonSlots = 4
  BandWidth = 3
  FpBits <- MCFpBits
  Cold <- MCCold
  Cells <- MCCells
  Values <- MCValues
  MaxLog = 3
  MaxTop = 3
  Links <- MCLinks
  HorizonMonths = 12
  FacetLimit = 3
  FlagThreshold = 2
  SessionMinLen = 12
  URLBudget = 3
  DepthCap = 3
  PageHost <- MCPageHost
  Prints = {0, 1, 2}
  SoftThreshold = 2
  Hours <- MCHours
  MaxReloads = 1
  MaxRows = 4
CHECK_DEADLOCK FALSE
INVARIANTS RowsKept ReadsAgree CleanRoutes  CanonSafe BatchWhole SeenOnce ReplicaFollows TrapsParked
