CONSTANTS
  r1 = r1
  r2 = r2
  a = a
  Empty = Empty
  Malformed = Malformed
  AcceptedDST = AcceptedDST
  OtherDST = OtherDST
  Requests <- MCRequests
  Ids <- MCIds
  SigLens <- MCSigLens
  MinSigLen = 32
  MaxStore = 1
SPECIFICATION ProcessSpec
PROPERTY ShutdownCompletes
