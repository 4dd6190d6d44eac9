SPECIFICATION FairSpec
CONSTANTS
  c1 = c1
  c2 = c2
  k1 = k1
  k2 = k2
  k3 = k3
  Nil = Nil
  URLKeys = {k1, k2, k3}
  HostKeys = {}
  Clients = {c1, c2}
  MayWrite <- MCOwn
  MayRead <- MCReads
  Interners = {c1}
  Ops = {"get"}
  Full = FALSE
  Budget = 1
  Paused = TRUE
  Errors = {"append"}
  Torn = FALSE
  MaxGen = 0
  MaxWrites = 3
  MaxStrings = 1
  MaxLSN = 5
  Crashes = 0
CHECK_DEADLOCK FALSE
INVARIANTS
  ReadCurrent
  LiveIsLogged
  ResidentCounted
PROPERTIES
  CallsReturn
