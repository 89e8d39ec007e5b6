SPECIFICATION FairSpec
CONSTANTS
  k1 = k1
  k2 = k2
  d1 = d1
  d2 = d2
  p1 = p1
  p2 = p2
  h1 = h1
  h2 = h2
  NoPath = NoPath
  NoFile = NoFile
  Torn = Torn
  Handles = {h1}
  Keys = {k1, k2}
  Data = {d1, d2}
  Paths = {p1, p2}
  PathOf <- OwnFiles
  Requests <- AllRequests
  FaultKinds = {}
  MaxCalls = 3
  MaxFaults = 0
  MaxCrashes = 0
INVARIANTS
  SingleInv
  KeptClean
  BlobRowHasFile
PROPERTIES
  Int64LeavesNoFile
  AcknowledgedSetIsStored
  CallsReturn
