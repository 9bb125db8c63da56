\* MARCOIVCFinder with hints, when the output alone is a core.
SPECIFICATION Spec
CONSTANTS
  NumGates = 2
  Counterexamples <- GateAndInput
  Fanout <- GateAndInputFanout
  Outputs <- OutputOfTwo
  KMax = 0
  NMax = 1
  SeedOptions <- BasicHints
  HittingOptions <- NoOptions
  BMCDepth = 1
  UnifiedOptions <- NoOptions
INVARIANT BlockedSeedNotEmpty
CHECK_DEADLOCK FALSE
