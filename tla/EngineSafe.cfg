SPECIFICATION EngineSpec
CONSTANTS
  h1 = h1
  h2 = h2
  h3 = h3
  u1 = u1
  u2 = u2
  u3 = u3
  i1 = i1
  Hosts = {h1, h2}
  URLs = {u1, u3}
  HostOf <- MCHostOf
  IPs = {i1}
  NoIP = NoIP
  IPOf <- MCIPOf
  Robots = Robots
  Workers = 1
  Routed = {u3}
  Until = FALSE
  Shards = {0}
  Home <- MCHome
  Levels = 0
  Target = 2
  Bounded = FALSE
  RefillBatch = 2
  AgePromote = 1
  RobotsOn = TRUE
  StateOn = FALSE
  WheelOn = TRUE
  FreshOn = FALSE
  PrioOn = FALSE
  DnsOn = FALSE
  MaxRetries = 2
  MinGap = 1
  MaxGap = 2
  IPFloor = 1
  Delays = {0}
  HourSecs = 3
  RecrawlGap = 1
  RobotsTTL = 1
  IPTTL = 1
  SeedDefer = 1
  MaxNow = 1
  Horizon = 4
  Restarts = 1
PROPERTIES
  NoOversleep
