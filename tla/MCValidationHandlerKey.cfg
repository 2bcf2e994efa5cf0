CONSTANTS
  r1 = r1
  r2 = r2
  a = a
  b = b
  Empty = Empty
  Malformed = Malformed
  AcceptedDST = AcceptedDST
  OtherDST = OtherDST
  Requests <- MCRequests
  Ids <- MCIds
  SigLens <- MCSigLens
  MinSigLen = 32
  MaxStore = 2
SPECIFICATION Spec
INVARIANT SpecKeyedLookup
