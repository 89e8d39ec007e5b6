SPECIFICATION Spec
CONSTANTS
  k1 = k1
  k2 = k2
  d1 = d1
  d2 = d2
  p1 = p1
  p2 = p2
  h1 = h1
  h2 = h2
  NoPath = NoPath
  NoFile = NoFile
  Torn = Torn
  Handles = {h1}
  Keys = {k1}
  Data = {d1, d2}
  Paths = {p1}
  PathOf <- OneFile
  Requests <- ReadWriteRequests
  FaultKinds = {}
  MaxCalls = 2
  MaxFaults = 0
  MaxCrashes = 0
PROPERTIES
  MismatchIsTold
