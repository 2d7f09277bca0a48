CONSTANTS
  Requests <- MCRequests
  ReallocArgs <- MCRequests
  CallocArgs <- MCCallocArgs
  MethodArgs <- MCMethodArgs
  MaxRegions = 2
  MaxLive = 2
  Tagged = FALSE
SPECIFICATION Spec
INVARIANT NoAdjacentFree
