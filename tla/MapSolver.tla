------------------------------- MODULE MapSolver -------------------------------
(******************************************************************************)
(* The MapSolver classes, which keep the unexplored seeds of MARCOMinimizer,  *)
(* MARCOIVCFinder, CAIVCFinder and UnifiedIVCFinder: one on a plain SAT       *)
(* solver, one that maximises the selected elements, one that minimises them, *)
(* and one of both kinds together.  Each MaxSAT solver is told of its         *)
(* literals when it is first asked, which may be after clauses were added; it *)
(* finds any optimum (module MaxSATSolver).                                   *)
(******************************************************************************)
EXTENDS ClauseMap

CONSTANT Element    \* the elements of the seeds

VARIABLES
  class,         \* "sat", "max", "min" or "both"
  solutions,     \* the solutions of the clauses given to the solvers
  introduced,    \* the elements the SAT solver knows
  inited,        \* those of "max" and "min" whose m_map_inited is set
  optimized,     \* the literals each of them optimises
  unexplored,    \* the seeds not excluded by a call
  result         \* what the last call returned: its kind and the seeds

vars == <<class, solutions, introduced, inited, optimized, unexplored, result>>

\* A literal of an element, and whether a selection satisfies it.
Positive(x) == [elem |-> x, sign |-> TRUE]
Negative(x) == [elem |-> x, sign |-> FALSE]
Satisfied(S, lits) == { lit \in lits : (lit.elem \in S) = lit.sign }

NoResult == [query |-> "none", seeds |-> {}]

Init ==
  /\ class \in {"sat", "max", "min", "both"}
  /\ solutions = SUBSET Element
  /\ introduced = {}
  /\ inited = {}
  /\ optimized = [side \in {"max", "min"} |-> {}]
  /\ unexplored = SUBSET Element
  /\ result = NoResult

Sides == IF class = "both" THEN {"max", "min"} ELSE {class} \ {"sat"}

\* addClauseToSolver, for blockUp, blockDown and addClause; excluded are the seeds
\* that the caller means to exclude.
AddToSolver(cls, excluded) ==
  /\ solutions' = { S \in solutions : SatisfiesClause(S, cls) }
  /\ introduced' = introduced \union cls.neg \union cls.pos
  /\ unexplored' = unexplored \ excluded
  /\ result' = NoResult
  /\ UNCHANGED <<class, inited, optimized>>

blockUp(S) == AddToSolver(BlockUpClause(S), { T \in SUBSET Element : S \subseteq T })
blockDown(S) == AddToSolver(BlockDownClause(Element, S), SUBSET S)

addClause(cls) == AddToSolver(cls, { T \in SUBSET Element : ~SatisfiesClause(T, cls) })

\* initSolver of the two MaxSAT solvers
Literals(side) == { IF side = "max" THEN Positive(x) ELSE Negative(x) : x \in Element }

\* initIfNecessary
initIfNecessary(side) ==
  /\ inited' = inited \union {side}
  /\ IF side \in inited
     THEN UNCHANGED optimized
     ELSE optimized' = [optimized EXCEPT ![side] = Literals(side)]

\* extractSeed from a solution: an element is selected if its literal is kept, or
\* if its negative is optimised and is not kept.
extractSeed(kept, opt) ==
  { x \in Element : Positive(x) \in kept \/ (Negative(x) \in opt \ kept) }

\* doFindMaximalSeed and doFindMinimalSeed
FindOptimum(side) ==
  /\ side \in Sides
  /\ initIfNecessary(side)
  /\ LET opt == optimized'[side]
         optima == Largest({ Satisfied(S, opt) : S \in solutions })
     IN  IF optima = {}
         THEN result' = [query |-> side, seeds |-> {}]
         ELSE \E kept \in optima :
                result' = [query |-> side, seeds |-> {extractSeed(kept, opt)}]
  /\ UNCHANGED <<class, solutions, introduced, unexplored>>

findMaximalSeed == FindOptimum("max")
findMinimalSeed == FindOptimum("min")

\* findSeed of the plain solver, which selects the elements the solver does not know
\* (elsewhere findSeed is one of the two above).
findSeed ==
  /\ class = "sat"
  /\ LET models == { S \intersect introduced : S \in solutions }
     IN  IF models = {}
         THEN result' = [query |-> "any", seeds |-> {}]
         ELSE \E S \in models :
                result' = [query |-> "any", seeds |-> {S \union (Element \ introduced)}]
  /\ UNCHANGED <<class, solutions, introduced, inited, optimized, unexplored>>

\* checkSeed makes all elements known.
checkSeed(S) ==
  /\ result' = [query |-> "check", seeds |-> {S} \intersect solutions]
  /\ introduced' = Element
  /\ UNCHANGED <<class, solutions, inited, optimized, unexplored>>

Next ==
  \/ \E S \in SUBSET Element : blockUp(S) \/ blockDown(S) \/ checkSeed(S)
  \/ \E cls \in MapClause(Element) : addClause(cls)
  \/ findMaximalSeed \/ findMinimalSeed \/ findSeed

Spec == Init /\ [][Next]_vars

--------------------------------------------------------------------------------
(* Properties.                                                                *)

\* A seed found is unexplored and of optimum size where one was asked for, none is
\* found only when all are explored, and checkSeed tells whether a seed is.
SeedsRight ==
  LET found == CASE result.query = "max" -> Largest(unexplored)
                 [] result.query = "min" -> Smallest(unexplored)
                 [] OTHER -> unexplored
  IN  /\ result.seeds \subseteq found
      /\ result.query \in {"max", "min", "any"} /\ unexplored # {} => result.seeds # {}

================================================================================
