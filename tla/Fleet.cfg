SPECIFICATION Spec
CONSTANTS
  h1 = h1
  h2 = h2
  u1 = u1
  u2 = u2
  MaxParts = 2
  Hosts = {h1, h2}
  URLs = {u1, u2}
  HostOf <- MCHostOf
  Jump <- MCJump
  BatchSize = 2
  Depth = 1
  MaxEpoch = 3
  MaxFetched = 2
  Crashes = 1
CHECK_DEADLOCK FALSE
INVARIANTS
  NoURLLost
  EpochIdentifies
PROPERTIES
  RouterForward
