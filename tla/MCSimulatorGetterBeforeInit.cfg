CONSTANTS
  Requests <- MCNoRequests
  ReallocArgs <- MCNoRequests
  CallocArgs <- MCNoCalloc
  MethodArgs <- MCNoMethods
  MaxRegions = 3
  MaxLive = 2
  Tagged = FALSE
  Iterations = 2
  SimSizes <- MCSimSizes
  MaxPtrs = 2
  Rounds = 1
  Builds <- MCAsBuilt
SPECIFICATION SimSpec
CHECK_DEADLOCK FALSE
PROPERTY GetterReturns
