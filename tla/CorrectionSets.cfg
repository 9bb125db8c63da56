SPECIFICATION Spec
CONSTANTS
  NumGates = 4
  Counterexamples <- FourGates
  Configurations <- BothFinders
  AskedSizes = {1, 3, 7}
  MaxCalls = 3
  CardinalityInf = 7
INVARIANTS DebuggersAgree SearchedIsDone AnswersRight
PROPERTY Termination
CHECK_DEADLOCK FALSE
