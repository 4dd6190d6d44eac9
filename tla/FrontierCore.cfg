SPECIFICATION Spec
CONSTANTS
  h1 = h1
  h2 = h2
  u1 = u1
  u2 = u2
  u3 = u3
  i1 = i1
  Hosts = {h1, h2}
  URLs = {u1, u3}
  HostOf <- MCHostOf
  IPs = {i1}
  NoIP = NoIP
  IPOf <- MCIPOf
  Robots = Robots
  Shards = {0, 1}
  Home <- MCHomeTwo
  Levels = 1
  Target = 2
  Bounded = TRUE
  RefillBatch = 2
  AgePromote = 1
  RobotsOn = FALSE
  StateOn = TRUE
  WheelOn = FALSE
  FreshOn = FALSE
  PrioOn = TRUE
  DnsOn = TRUE
  MaxRetries = 2
  MinGap = 1
  MaxGap = 1
  IPFloor = 1
  Delays = {0}
  HourSecs = 4
  RecrawlGap = 1
  RobotsTTL = 1
  IPTTL = 1
  SeedDefer = 0
  MaxNow = 1
  Restarts = 0
INVARIANTS
  FrontBucketed
PROPERTIES
  PoliteStart
  TerminalStays
