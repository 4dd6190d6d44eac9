SPECIFICATION FairSpec
CONSTANTS
  h1 = h1
  h2 = h2
  h3 = h3
  u1 = u1
  u2 = u2
  u3 = u3
  i1 = i1
  Hosts = {h1, h2, h3}
  URLs = {u1, u2, u3}
  HostOf <- MCSpread
  IPs = {i1}
  NoIP = NoIP
  IPOf <- MCIPOf
  Robots = Robots
  Workers = 1
  Routed = {u3}
  Until = TRUE
  Shards = {0}
  Home <- MCHome
  Levels = 0
  Target = 2
  Bounded = TRUE
  RefillBatch = 1
  AgePromote = 1
  RobotsOn = FALSE
  StateOn = TRUE
  WheelOn = FALSE
  FreshOn = FALSE
  PrioOn = FALSE
  DnsOn = FALSE
  MaxRetries = 2
  MinGap = 1
  MaxGap = 2
  IPFloor = 1
  Delays = {0}
  HourSecs = 4
  RecrawlGap = 1
  RobotsTTL = 1
  IPTTL = 1
  SeedDefer = 0
  MaxNow = 0
  Horizon = 100
  Restarts = 0
INVARIANTS
  DrainedMeansDone
  ActiveHoldsBack
PROPERTIES
  RunReturns
  ScheduledRuns
