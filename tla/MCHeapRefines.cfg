CONSTANTS
  Requests <- MCRequestsAll
  ReallocArgs <- MCReallocNone
  CallocArgs <- MCCallocNone
  MethodArgs <- MCMethodArgs
  MaxRegions = 2
  MaxLive = 3
  Tagged = TRUE
SPECIFICATION Spec
PROPERTY AllocatorSpec
