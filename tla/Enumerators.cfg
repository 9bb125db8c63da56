\* MARCO with every direction and every supported combination of refinements, and
\* both variants of CAMSIS.
SPECIFICATION Spec
CONSTANTS
  NumClauses = 5
  Property = 0
  Transition <- FourProofs
  Options <- SupportedOptions
INVARIANTS FoundAreMSISes NothingLost LowerBoundSound CollapseSetLeft InOrderOfSize
PROPERTIES Termination ImplementsEnumeration
CHECK_DEADLOCK FALSE
