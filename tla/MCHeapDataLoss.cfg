CONSTANTS
  Requests <- MCRequestsWide
  ReallocArgs <- MCRequests
  CallocArgs <- MCCallocNone
  MethodArgs <- MCMethodArgs
  MaxRegions = 2
  MaxLive = 2
  Tagged = TRUE
SPECIFICATION Spec
INVARIANT ContentsKept
