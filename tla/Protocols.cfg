SPECIFICATION MCSpec
CONSTANTS
  P = 3
  Problems <- MCSumProblems
  Drivers <- MCSumDrivers
  Order = 7
  MaxBits = 3
  HostRounds = 1
  MinDeviceRounds = 2
  InnerProblems <- MCInnerProblems
  InnerDrivers = {"cpu", "gpu"}
  Rate = 5
  Parties = {"prover", "verifier"}
  StrobeLabel <- MCStrobeLabel
  DomainLabel <- MCStrobeLabel
  Labels <- MCLabels
  Messages <- MCMessages
  ChallengeSizes = {1, 2}
  MaxOperations = 3
  UnsignedBits = 16
INVARIANTS
  CommitmentKept
  VerifierDecides
  ChallengesBind
  RoundPolynomialCorrect
  ProofAccepted
  WrongSumNeedsLuck
  CallsAnswered
CHECK_DEADLOCK FALSE
