CONSTANTS
  Requests <- MCNoRequests
  ReallocArgs <- MCNoRequests
  CallocArgs <- MCNoCalloc
  MethodArgs <- MCNoMethods
  MaxRegions = 2
  MaxLive = 2
  Tagged = FALSE
  Iterations = 3
  SimSizes <- MCSimSizes
  MaxPtrs = 2
  Rounds = 1
  Builds <- MCBuilds
SPECIFICATION SimSpec
CHECK_DEADLOCK FALSE
INVARIANT SimTypeOK
INVARIANT PunterosTrackHeld
INVARIANT FragExclusive
PROPERTY GetterReturnsAfterInit
PROPERTY FragMeasuredWhenRun
