SPECIFICATION Spec
CONSTANTS
  c1 = c1
  c2 = c2
  k1 = k1
  k2 = k2
  k3 = k3
  Nil = Nil
  URLKeys = {k1}
  HostKeys = {k2}
  Clients = {c1, c2}
  MayWrite <- MCOwn
  MayRead <- MCReads
  Interners = {c1}
  Ops = {"delete", "close"}
  Full = TRUE
  Budget = 0
  Paused = TRUE
  Errors = {"sync", "snap", "super"}
  Torn = FALSE
  MaxGen = 2
  MaxWrites = 2
  MaxStrings = 2
  MaxLSN = 5
  Crashes = 1
CHECK_DEADLOCK FALSE
INVARIANTS
  AckedKept
  ArenaStable
