CONSTANTS
  Sizes = {8, 16, 24, 4104}
  MaxBlocks = 3
SPECIFICATION Spec
INVARIANT BestFitAgrees
