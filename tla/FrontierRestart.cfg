SPECIFICATION Spec
CONSTANTS
  h1 = h1
  h2 = h2
  u1 = u1
  u2 = u2
  u3 = u3
  i1 = i1
  Hosts = {h1}
  URLs = {u1, u2}
  HostOf <- MCHostOf
  IPs = {i1}
  NoIP = NoIP
  IPOf <- MCIPOf
  Robots = Robots
  Shards = {0}
  Home <- MCHomeOne
  Levels = 0
  Target = 2
  Bounded = FALSE
  RefillBatch = 2
  AgePromote = 1
  RobotsOn = TRUE
  StateOn = FALSE
  WheelOn = TRUE
  FreshOn = FALSE
  PrioOn = FALSE
  DnsOn = FALSE
  MaxRetries = 2
  MinGap = 1
  MaxGap = 1
  IPFloor = 1
  Delays = {0}
  HourSecs = 1
  RecrawlGap = 1
  RobotsTTL = 2
  IPTTL = 1
  SeedDefer = 1
  MaxNow = 3
  Restarts = 1
INVARIANTS
  OneFetchPerHost
  URLInOnePlace
  PoolsDisjoint
  NoURLLost
  NoDisallowedFetch
SYMMETRY Swap
