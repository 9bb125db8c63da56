SPECIFICATION Spec
CONSTANTS
  MaxVar = 2
  LevelInf = 11
  Systems <- RedroppedSystem
  MaxCalls = 1
INVARIANT
  ProofInductive
CHECK_DEADLOCK FALSE
