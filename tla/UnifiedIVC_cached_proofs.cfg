\* One proof is cached, as it is: it is reused for a smaller seed.
SPECIFICATION Spec
CONSTANTS
  NumGates = 5
  Counterexamples <- ThreeCores
  Fanout <- ThreeCoresFanout
  Outputs <- OutputGate
  KMax = 2
  NMax = 2
  SeedOptions <- NoOptions
  HittingOptions <- NoOptions
  BMCDepth = 1
  UnifiedOptions <- CachedProof
INVARIANT
  ProofInductive
CHECK_DEADLOCK FALSE
