SPECIFICATION Spec
CONSTANTS
  NumGens = 5
  ByteBits = 2
  WindowWidth = 2
  ProductSplit <- MCProductSplit
  ReductionSplit <- MCReductionSplit
  FixedCalls <- MCFixedCalls
  ElementBytes = 2
  MaxBlocks = 2
  SortThreads = 2
  CountBlocks = 2
  NumDevices = 2
  MinSortedLength = 2
  MaxSortedLength = 3
  MinBucketLength = 4
  MaxOutputChunk = 2
  MinChunk = 1
  MaxChunk = 4
  AsyncCalls <- MCAsyncCalls
  Warp = 4
  MaxWarpBlocks = 2
  BlockSizes = {1, 2, 4, 8, 16}
  FitTiers <- MCFitTiers
  Reductions <- MCReductions
  TwoVariables = {1, 2}
  FieldWordBits = 2
  FieldLimbs = 4
  FieldPrime = 47
  FieldEncodings = {1, 2, 47, 100, 255}
  Bn254Modulus = 7
  Bn254Points <- MCBn254Points
  Bn254Given = {0, 1, 6}
  Bn254Scalars = {0, 1, 11, 24}
  Bn254ScalarBits = 5
  Curve21Modulus = 13
  Curve21D = 5
  Curve21Points <- MCCurve21Points
  Curve21PrimeOrder = 3
  Curve21Given = {0, 1, 4}
  Curve21Scalars = {0, 9, 127, 200}
  Curve21Nibbles = 2
  ScalarLimbBits = 2
  ScalarHalf = 2
  ScalarExtraBits = 1
  ScalarBrought = {1, 131, 262, 263, 264, 511}
  RistrettoModulus = 29
  RistrettoD = 12
  RistrettoA = 5
  RistrettoPoints <- MCRistrettoPoints
  RistrettoPrimeOrder = 3
  RistrettoGiven = {0, 2, 4, 6, 10}
  RistrettoSqrtm1 = 12
  RistrettoSqrtadm1 = 4
  RistrettoInvsqrtamd = 22
  RistrettoSqrtam2 = 14
  CarriedLimbBits = 4
  CarriedLimbs = 3
  CarriedFold = 3
  CarriedWordBits = 11
  CarriedD = 909
  CarriedA = 7
  CarriedSqrtm1 = 1059
  CarriedSqrtadm1 = 706
  CarriedInvsqrtamd = 458
  CarriedSqrtam2 = 916
  CarriedScalars = {9, 127}
  CarriedHashed = {1000, 4095}
  CarriedCalls = 3
  Copiers = {c1, c2}
  Capacity = 2
  MaxSize = 6
  MaxHandles = 4
INVARIANT ProductsKept
INVARIANT FixedBaseCorrect
INVARIANT AsyncCorrect
INVARIANT HostCorrect
INVARIANT SumsCorrect
INVARIANT FieldKept
INVARIANT PointsKept
INVARIANT EncodingsKept
INVARIANT OneOwner
INVARIANT InFlightIntact
INVARIANT Delivered
PROPERTY CopyReturns
