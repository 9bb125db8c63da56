----------------------------------- MODULE PBO -----------------------------------
(******************************************************************************)
(* PBOMaxSATSolver: MaxSAT as a linear search downwards from all literals, or *)
(* from as many as could be satisfied the last time under the same            *)
(* assumptions.  CollapseSetFinder uses it with assumptions, one set for each *)
(* clause, and blocks what it found.  The counting network is abstracted to   *)
(* the assumption it stands for (module CardinalityConstraint).               *)
(******************************************************************************)
EXTENDS ClauseMap

CONSTANTS
  Lit,            \* the literals ever optimised or assumed
  Assumptions     \* the sets of literals queries assume

VARIABLES
  solutions,         \* the solutions of m_clauses
  optimizationSet,   \* m_optimizationSet
  sat,               \* m_sat
  lastCardinality,   \* m_lastCardinality, all literals where it has no entry
  assumps,           \* the assumptions of the last query
  cardinality,       \* assumpSolve's cardinality
  optimal,           \* was assumpSolve the last call?
  models,            \* m_solver's assignment, if it is the answer of assumpSolve
  pc                 \* "idle", or "solve" in assumpSolve's loop

queryVars == <<assumps, cardinality, optimal, models>>
vars == <<solutions, optimizationSet, sat, lastCardinality, queryVars, pc>>

\* No entry is kept when the set of literals changes.
Unknown(opt) == [A \in Assumptions |-> Cardinality(opt)]

Init ==
  /\ solutions = SUBSET Lit
  /\ optimizationSet = {}
  /\ sat = FALSE
  /\ lastCardinality = Unknown({})
  /\ assumps = {}
  /\ cardinality = 0
  /\ optimal = FALSE
  /\ models = {}
  /\ pc = "idle"

\* The last answer is no longer one.
Forget ==
  /\ assumps' = {}
  /\ cardinality' = 0
  /\ optimal' = FALSE
  /\ models' = {}

\* addClause
AddClause(cls) ==
  /\ pc = "idle"
  /\ solutions' = { S \in solutions : SatisfiesClause(S, cls) }
  /\ sat' = FALSE
  /\ Forget
  /\ UNCHANGED <<optimizationSet, lastCardinality, pc>>

\* Faulty: what is remembered stays.
AddForOptimization_Remembers(lit) ==
  /\ pc = "idle"
  /\ lit \notin optimizationSet
  /\ optimizationSet' = optimizationSet \union {lit}
  /\ Forget
  /\ UNCHANGED <<solutions, sat, lastCardinality, pc>>

\* addForOptimization.  The solver starts anew with the next query; m_sat stays.
AddForOptimization(lit) ==
  /\ pc = "idle"
  /\ lit \notin optimizationSet
  /\ optimizationSet' = optimizationSet \union {lit}
  /\ lastCardinality' = Unknown(optimizationSet')
  /\ Forget
  /\ UNCHANGED <<solutions, sat, pc>>

\* check.  Its callers want no assignment.
Check ==
  /\ pc = "idle"
  /\ Forget
  /\ UNCHANGED <<solutions, optimizationSet, sat, lastCardinality, pc>>

\* assumpSolve up to its loop, and doSolve, for which A is empty.
EnterSolve(A) ==
  /\ pc = "idle"
  /\ assumps' = A
  /\ cardinality' = lastCardinality[A]
  /\ optimal' = FALSE
  /\ models' = {}
  /\ pc' = "solve"
  /\ UNCHANGED <<solutions, optimizationSet, sat, lastCardinality>>

\* The solutions that satisfy the assumptions and cardinality literals at least.
Enough ==
  { S \in solutions :
      assumps \subseteq S /\ Cardinality(S \intersect optimizationSet) >= cardinality }

\* Back to the caller.
Return(answer) ==
  /\ sat' = answer
  /\ lastCardinality' = [lastCardinality EXCEPT ![assumps] = cardinality]
  /\ cardinality' = 0
  /\ optimal' = TRUE
  /\ pc' = "idle"

FoundSolution ==
  /\ pc = "solve"
  /\ \E S \in Enough : models' = {S}
  /\ Return(TRUE)
  /\ UNCHANGED <<solutions, optimizationSet, assumps>>

LowerCardinality ==
  /\ pc = "solve"
  /\ Enough = {}
  /\ cardinality > 0
  /\ cardinality' = cardinality - 1
  /\ UNCHANGED <<solutions, optimizationSet, sat, lastCardinality, assumps, optimal, models, pc>>

NoSolution ==
  /\ pc = "solve"
  /\ Enough = {}
  /\ cardinality = 0
  /\ Return(FALSE)
  /\ UNCHANGED <<solutions, optimizationSet, assumps, models>>

Loop == FoundSolution \/ LowerCardinality \/ NoSolution

Next ==
  \/ \E cls \in MapClause(Lit) : AddClause(cls)
  \/ \E lit \in Lit : AddForOptimization(lit)
  \/ Check
  \/ \E A \in Assumptions : EnterSolve(A)
  \/ Loop

\* A call of assumpSolve() keeps running; nobody has to make another.
Spec == Init /\ [][Next]_vars /\ WF_vars(Loop)

--------------------------------------------------------------------------------
(* Properties.                                                                *)

\* The answer to a query is right when assumpSolve returns: a solution under the
\* assumptions with as many literals as any, or none because there is none.
\* Cardinalities of other assumptions, and of times with fewer clauses, are kept.
AnswerOptimal ==
  optimal =>
    LET candidates == { S \in solutions : assumps \subseteq S }
        Count(S) == Cardinality(S \intersect optimizationSet)
    IN  IF sat
        THEN /\ models # {} /\ models \subseteq candidates
             /\ \A S \in candidates, model \in models : Count(S) <= Count(model)
        ELSE candidates = {}

\* A solution of all literals' problem is at hand: the last call was doSolve, and
\* neither check nor assumpSolve has come since.
Answered == sat /\ optimal /\ assumps = {}

================================================================================
