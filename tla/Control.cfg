SPECIFICATION Spec
CONSTANTS
  Machines = {1, 2, 3}
  Weight <- MCWeight
  Addressed = {1, 3}
  Score <- MCScore
  MaxParts = 2
  FailThreshold = 2
  HighWater = 1
  LowWater = 1
  MinPartitions = 1
  MaxPartitions = 2
  Breaches = 2
  Cooldown = 1
  Depths = {0, 4}
  Factors = {1}
  MaxEpoch = 3
INVARIANTS Placed
PROPERTIES PromotesReplica ScalesPaced
