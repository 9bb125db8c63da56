\* SISI, brute force, the simple minimizer with and without findMinimalSupport,
\* findMinimalSupport of every frame that supports some clause, and findSafeMIS on
\* every argument.
SPECIFICATION Spec
CONSTANTS
  NumClauses = 6
  SimpleProof <- FirstFour
  Property = 1
  Transition <- Chains
INVARIANTS NecessaryStays StillSupports FoundAreProofs GreatestKept ResultCorrect
PROPERTY Termination
