SPECIFICATION Spec
CONSTANTS
  c1 = c1
  c2 = c2
  k1 = k1
  k2 = k2
  k3 = k3
  Nil = Nil
  URLKeys = {k1}
  HostKeys = {}
  Clients = {c1}
  MayWrite <- MCOwn
  MayRead <- MCReads
  Interners = {}
  Ops = {}
  Full = TRUE
  Budget = 0
  Paused = TRUE
  Errors = {}
  Torn = TRUE
  MaxGen = 0
  MaxWrites = 2
  MaxStrings = 0
  MaxLSN = 5
  Crashes = 1
INVARIANTS
  AckedKept
CHECK_DEADLOCK FALSE
