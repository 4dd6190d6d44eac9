SPECIFICATION Spec
CONSTANTS
  a = a
  c = c
  Hosts <- MCHosts
  Lists <- MCLists
  Prefetchers = {p1, p2}
  Workers = {w1}
  Callers = {s1}
  QueueCap = 1
  MinTTL = 1
  MaxTTL = 1
  NegativeTTL = 1
  TTLs = {0}
  MaxNow = 2
  MaxPrefetch = 2
  MaxResolve = 1
CHECK_DEADLOCK FALSE
INVARIANTS PoolOnce OneVerdict
PROPERTIES PoolDrains
