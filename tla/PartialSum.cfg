SPECIFICATION ReductionSpec
CONSTANTS
  Warp = 4
  BlockSizes = {1, 2, 4, 8, 16}
  MaxWarpBlocks = 2
  FitTiers <- MCFitTiers
  Reductions <- MCLargeSums
INVARIANTS
  PartialSumCorrect
CHECK_DEADLOCK FALSE
