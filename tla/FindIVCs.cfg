\* Every finder and option, and both variants of CAIVCFinder with every way to
\* find correction sets.
SPECIFICATION Spec
CONSTANTS
  NumGates = 5
  Counterexamples <- ThreeCores
  Fanout <- ThreeCoresFanout
  Outputs <- OutputGate
  KMax = 2
  NMax = 2
  SeedOptions <- AllFinders
  HittingOptions <- SupportedVariants
  BMCDepth = 1
  UnifiedOptions <- Covering
INVARIANTS
  AssertionsHold
  CacheEntriesDistinct
  ProofOfSeed
PROPERTIES
  InOrderOfSize
  ImplementsEnumeration
  Termination
CHECK_DEADLOCK FALSE
