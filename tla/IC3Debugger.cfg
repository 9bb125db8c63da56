SPECIFICATION Spec
CONSTANTS
  MaxVar = 5
  LevelInf = 10
  Systems <- AllSystems
  MaxCalls = 3
INVARIANTS
  LemmasHold
  StepsStayInFrames
  AssertionsHold
  AnswersExact
PROPERTY
  Termination
CHECK_DEADLOCK FALSE
