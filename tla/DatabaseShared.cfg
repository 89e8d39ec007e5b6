SPECIFICATION FairSpec
CONSTANTS
  k1 = k1
  k2 = k2
  d1 = d1
  d2 = d2
  p1 = p1
  p2 = p2
  h1 = h1
  h2 = h2
  NoPath = NoPath
  NoFile = NoFile
  Torn = Torn
  Handles = {h1, h2}
  Keys = {k1}
  Data = {d1}
  Paths = {p1}
  PathOf <- OneFile
  Requests <- RetypeRequests
  FaultKinds = {"error", "memory", "io", "commit"}
  MaxCalls = 4
  MaxFaults = 1
  MaxCrashes = 1
INVARIANTS
  IInv
  KeyHasValue
PROPERTIES
  KeysPersist
  CallsReturnUnlessWedged
CHECK_DEADLOCK FALSE
