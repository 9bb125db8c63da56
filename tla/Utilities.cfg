\* Every sequence of calls: three literals, three elements, all formulas over four
\* groups, seven inputs.  A network with all its clauses and no cardinality left has no call.
SPECIFICATION Spec
CONSTANTS
  Lit = {lit1, lit2, lit3}
  ResetAllPeriod = 2
  ResetSolverPeriod = 2
  Assumptions = {{}, {lit1}}
  Element = {0, 1, 2}
  Group = {g1, g2, g3, g4}
  MaxInputs = 7
  MaxTotalized = 4
INVARIANTS AssumptionsCount AnswersRight
PROPERTIES ImplementsMaxSAT Termination
CHECK_DEADLOCK FALSE
