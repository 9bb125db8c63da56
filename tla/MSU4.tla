---------------------------------- MODULE MSU4 ----------------------------------
(******************************************************************************)
(* MSU4MaxSATSolver: core-guided MaxSAT that keeps its work between calls.    *)
(* Literals start as assumptions; each unsatisfiable core moves some of them  *)
(* to the blocked ones and lowers the upper bound; each solution may raise    *)
(* the lower bound and asks for one that satisfies more blocked literals than *)
(* it does.  When a clause is added later only the lower bound is forgotten:  *)
(* the cores found, and the upper bound with them, stay.                      *)
(*                                                                            *)
(* The SAT solver decides which solution and which core it returns; both are  *)
(* any that the query allows.  The literals are those of module MaxSATSolver. *)
(******************************************************************************)
EXTENDS ClauseMap

CONSTANTS
  Lit,                 \* the literals ever optimised
  ResetAllPeriod,      \* option msu4_reset_all_period
  ResetSolverPeriod    \* option msu4_reset_solver_period

VARIABLES
  useHintClauses,    \* option msu4_use_hint_clauses
  solutions,         \* the solutions of m_clauses
  optimizationSet,   \* m_optimizationSet
  isSAT,             \* m_isSAT
  absoluteUNSAT,     \* m_absoluteUNSAT
  solves,            \* m_solves
  unsatRounds,       \* m_unsatRounds
  lb, ub,            \* m_lb, m_ub
  currentSoln,       \* m_currentSoln
  initialAssumps,    \* m_initialAssumps
  blockedAssumps,    \* m_blockedAssumps
  lastCardinality,   \* the network kept for reuse: its inputs and its outputs
  encoded,           \* the inputs of the last such network m_solver knows
  assumption,        \* doSolve's cardinality_assumps
  hints,             \* the cores of the hint clauses of the running doSolve
  pc                 \* "idle", or "solve" in doSolve's loop

problemVars == <<useHintClauses, solutions, optimizationSet>>
boundVars   == <<lb, ub, unsatRounds, currentSoln>>
assumpVars  == <<initialAssumps, blockedAssumps>>
networkVars == <<lastCardinality, encoded>>
vars == <<problemVars, isSAT, absoluteUNSAT, solves, boundVars, assumpVars,
          networkVars, assumption, hints, pc>>

\* numeric_limits<unsigned>::max(), larger than any count of literals.
Infinity == Cardinality(Lit) + 1

NoNetwork == [inputs |-> {}, outputs |-> 0]

\* A cardinality assumption: fewer than bound of inputs are false.  It binds
\* only if the solver knows the network it is made of.
NoAssumption == [inputs |-> {}, bound |-> 1, binds |-> FALSE]

--------------------------------------------------------------------------------

Init ==
  /\ useHintClauses \in BOOLEAN
  /\ solutions = SUBSET Lit
  /\ optimizationSet = {}
  /\ isSAT = FALSE
  /\ absoluteUNSAT = FALSE
  /\ solves = 0
  /\ unsatRounds = 0
  /\ lb = 0
  /\ ub = Infinity
  /\ currentSoln = {}
  /\ initialAssumps = {}
  /\ blockedAssumps = {}
  /\ lastCardinality = NoNetwork
  /\ encoded = {}
  /\ assumption = NoAssumption
  /\ hints = {}
  /\ pc = "idle"

\* addClause
AddClause(cls) ==
  /\ pc = "idle"
  /\ solutions' = { S \in solutions : SatisfiesClause(S, cls) }
  /\ isSAT' = FALSE
  /\ lb' = 0
  /\ currentSoln' = {}
  /\ UNCHANGED <<useHintClauses, optimizationSet, absoluteUNSAT, solves, unsatRounds, ub, assumpVars,
                 networkVars, assumption, hints, pc>>

\* reset, for the literals opt, with the work of all earlier calls.
Reset(opt) ==
  /\ isSAT' = FALSE
  /\ unsatRounds' = 0
  /\ lb' = 0
  /\ ub' = Infinity
  /\ currentSoln' = {}
  /\ initialAssumps' = opt
  /\ blockedAssumps' = {}

\* addForOptimization; a literal passed twice is refused.
AddForOptimization(lit) ==
  /\ pc = "idle"
  /\ lit \notin optimizationSet
  /\ optimizationSet' = optimizationSet \union {lit}
  /\ Reset(optimizationSet')
  /\ absoluteUNSAT' = FALSE
  /\ solves' = 0
  /\ lastCardinality' = NoNetwork
  /\ UNCHANGED <<useHintClauses, solutions, encoded, assumption, hints, pc>>

\* Faulty: without resetCardinality.
ResetSolver_KeepsCardinality ==
  /\ encoded' = {}
  /\ UNCHANGED lastCardinality

\* resetSolver: the solver is built anew from m_clauses and forgets networks.
ResetSolver ==
  /\ lastCardinality' = NoNetwork
  /\ encoded' = {}

\* doSolve up to the loop: the periodic resets, then the hard clauses alone.
EnterSolve ==
  /\ pc = "idle"
  /\ IF solves > ResetAllPeriod
     THEN /\ ResetSolver
          /\ Reset(optimizationSet)
          /\ solves' = 1
          /\ absoluteUNSAT' = (solutions = {})
     ELSE /\ IF solves % ResetSolverPeriod = 0
             THEN ResetSolver
             ELSE UNCHANGED networkVars
          /\ solves' = solves + 1
          /\ absoluteUNSAT' = (absoluteUNSAT \/ solutions = {})
          /\ UNCHANGED <<isSAT, boundVars, assumpVars>>
  /\ pc' = IF absoluteUNSAT' THEN "idle" ELSE "solve"
  /\ assumption' = NoAssumption
  /\ hints' = {}
  /\ UNCHANGED problemVars

--------------------------------------------------------------------------------

\* The solutions that meet the cardinality assumption and the hint clauses: one
\* literal of every core found in this call is false.
Allowed ==
  { S \in solutions :
      /\ assumption.binds => Cardinality(assumption.inputs \ S) < assumption.bound
      /\ useHintClauses => \A core \in hints : ~(core \subseteq S) }

\* Back to the caller with a solution.
ReturnSAT ==
  /\ isSAT' = TRUE
  /\ pc' = "idle"
  /\ assumption' = NoAssumption
  /\ hints' = {}

\* addCardinality(inputs, n) assumes that more than n of the inputs are true.  It
\* uses the network of the last call again when that has outputs enough ...
Reusable(inputs, n) ==
  /\ inputs = lastCardinality.inputs
  /\ lastCardinality.outputs > Cardinality(inputs) - n

CardinalityAssumption(inputs, n) ==
  [ inputs |-> inputs,
    bound  |-> Cardinality(inputs) - n,
    binds  |-> Reusable(inputs, n) => encoded = inputs ]

\* ... and otherwise builds one, kept for reuse only if it counts false inputs.
UpdateNetwork(inputs, n) ==
  LET negN == Cardinality(inputs) - n
  IN  IF Reusable(inputs, n) THEN UNCHANGED networkVars
      ELSE IF negN < n * 8
      THEN /\ lastCardinality' = [inputs |-> inputs, outputs |-> negN + 1]
           /\ encoded' = inputs
      ELSE /\ lastCardinality' = NoNetwork
           /\ UNCHANGED encoded

\* A solution: remember it if it is better, then ask for more blocked literals.
FoundSolution ==
  /\ pc = "solve"
  /\ \E S \in Allowed :
       /\ initialAssumps \subseteq S
       /\ LET model == S \intersect optimizationSet
              n == Cardinality(S \intersect blockedAssumps)
              all == n = Cardinality(blockedAssumps)
          IN  /\ IF Cardinality(currentSoln) < Cardinality(model)
                 THEN currentSoln' = model /\ lb' = Cardinality(model)
                 ELSE UNCHANGED <<currentSoln, lb>>
              /\ IF all THEN UNCHANGED networkVars ELSE UpdateNetwork(blockedAssumps, n)
              /\ IF all \/ lb' = ub
                 THEN ReturnSAT
                 ELSE /\ assumption' = CardinalityAssumption(blockedAssumps, n)
                      /\ UNCHANGED <<isSAT, hints, pc>>
  /\ UNCHANGED <<problemVars, absoluteUNSAT, solves, ub, unsatRounds, assumpVars>>

\* The cores the solver may return, the assumptions other than m_initialAssumps
\* taken away.
Cores == { C \in SUBSET initialAssumps : \A S \in Allowed : ~(C \subseteq S) }

\* No solution, and the literals are not to blame: the best known is optimal.
NothingBetter ==
  /\ pc = "solve"
  /\ {} \in Cores
  /\ ReturnSAT
  /\ UNCHANGED <<problemVars, absoluteUNSAT, solves, boundVars, assumpVars, networkVars>>

\* No solution: block the core.
FoundCore ==
  /\ pc = "solve"
  /\ \E core \in Cores \ {{}} :
       /\ initialAssumps' = initialAssumps \ core
       /\ blockedAssumps' = blockedAssumps \union core
       /\ unsatRounds' = unsatRounds + 1
       /\ ub' = Cardinality(optimizationSet) - unsatRounds'
       /\ IF lb = ub'
          THEN ReturnSAT
          ELSE /\ hints' = IF useHintClauses THEN hints \union {core} ELSE hints
               /\ UNCHANGED <<isSAT, assumption, pc>>
  /\ UNCHANGED <<problemVars, absoluteUNSAT, solves, lb, currentSoln, networkVars>>

Loop == FoundSolution \/ NothingBetter \/ FoundCore

Next ==
  \/ \E cls \in MapClause(Lit) : AddClause(cls)
  \/ \E lit \in Lit : AddForOptimization(lit)
  \/ EnterSolve
  \/ Loop

\* A call of solve() keeps running; nobody has to make another.
Spec == Init /\ [][Next]_vars /\ WF_vars(Loop)

--------------------------------------------------------------------------------
(* Properties.                                                                *)

\* The lower bound is what the kept solution attains (the assertion in doSolve
\* before a better one replaces it), and never passes the upper bound, which
\* the test m_lb == m_ub relies on to stop the loop.  The upper bound counts the
\* cores since the last reset, which hold for good: every solution falsifies as
\* many blocked literals as there were cores, also those found while better
\* solutions alone were asked for, and also after clauses were added.  It is why
\* addClause may keep the upper bound.
BoundsAgree ==
  /\ lb = Cardinality(currentSoln)
  /\ lb <= ub
  /\ ub = IF unsatRounds = 0 THEN Infinity
          ELSE Cardinality(optimizationSet) - unsatRounds
  /\ \A S \in solutions : Cardinality(blockedAssumps \ S) >= unsatRounds

\* Every call of solve() returns.
Termination == (pc = "solve") ~> (pc = "idle")

================================================================================
