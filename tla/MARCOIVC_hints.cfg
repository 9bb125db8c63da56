\* MARCOIVCFinder with hints, on a gate that feeds a gate and a latch.
SPECIFICATION Spec
CONSTANTS
  NumGates = 3
  Counterexamples <- GateAndNextState
  Fanout <- GateAndNextStateFanout
  Outputs <- OutputsOfThree
  KMax = 0
  NMax = 1
  SeedOptions <- BasicHints
  HittingOptions <- NoOptions
  BMCDepth = 1
  UnifiedOptions <- NoOptions
INVARIANT AllCoresReported
CHECK_DEADLOCK FALSE
