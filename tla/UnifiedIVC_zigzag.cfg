\* UnifiedIVCFinder with both directions on.
SPECIFICATION Spec
CONSTANTS
  NumGates = 6
  Counterexamples <- OneSmallCore
  Fanout <- OneSmallCoreFanout
  Outputs <- OutputOfSix
  KMax = 0
  NMax = 1
  SeedOptions <- NoOptions
  HittingOptions <- NoOptions
  BMCDepth = 1
  UnifiedOptions <- BothDirections
INVARIANT MinimumIsSmallest
CHECK_DEADLOCK FALSE
