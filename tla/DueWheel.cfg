SPECIFICATION FairSpec
CONSTANTS
  k1 = k1
  k2 = k2
  k3 = k3
  Keys = {k1, k2}
  Span = 3
  MaxHour = 7
INVARIANTS
  NextDueLeast
PROPERTIES
  ImplementsIndex
  CallReturns
