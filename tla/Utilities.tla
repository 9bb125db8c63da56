------------------------------- MODULE Utilities -------------------------------
(******************************************************************************)
(* The solvers of optimisation and search problems that the minimizers, the   *)
(* finders and the debuggers call: MSU4MaxSATSolver (module MSU4),            *)
(* PBOMaxSATSolver (PBO), HittingSetFinder and MUSFinder (Finders), the       *)
(* MapSolver classes and CardinalityConstraint.  One of them is picked and    *)
(* called in every order; the variables of the others keep their first        *)
(* values.                                                                    *)
(******************************************************************************)
EXTENDS ClauseMap, Sequences

CONSTANTS
  Lit,                 \* the literals of the MaxSAT solvers
  ResetAllPeriod, ResetSolverPeriod,   \* as in module MSU4
  Assumptions,         \* as in module PBO
  Element,             \* the elements of hitting sets and of seeds
  Group,               \* as in module Finders
  MaxInputs, MaxTotalized              \* as in module CardinalityConstraint

ASSUME UtilitiesAssumption ==
  /\ IsFiniteSet(Lit)
  /\ ResetAllPeriod \in Nat
  /\ ResetSolverPeriod \in Nat \ {0}
  /\ {} \in Assumptions
  /\ Assumptions \subseteq SUBSET Lit
  /\ IsFiniteSet(Element)
  /\ MaxInputs \in Nat
  /\ MaxTotalized \in 1 .. MaxInputs

VARIABLES
  utility,                                     \* the one picked
  solutions, optimizationSet, lastCardinality, cardinality, pc,
                                               \* named alike in several modules
  useHintClauses, isSAT, absoluteUNSAT, solves, unsatRounds, lb, ub, currentSoln,
  initialAssumps, blockedAssumps, encoded, assumption, hints,
                                               \* of module MSU4
  sat, assumps, optimal, models,                \* of module PBO
  sets, known, blocked, clauses, added, answers,
                                               \* of HittingSetFinder
  formula, external, mus, it,                  \* of MUSFinder
  class, introduced, inited, optimized, unexplored, result,
                                               \* of module MapSolver
  kind, inputs, outputs, nodes, nextVar, cnf, current
                                               \* of module CardinalityConstraint

msu4Vars == <<useHintClauses, isSAT, absoluteUNSAT, solves, unsatRounds, lb, ub, currentSoln,
              initialAssumps, blockedAssumps, encoded, assumption, hints>>
pboVars == <<sat, assumps, optimal, models>>
hittingVars == <<sets, known, blocked, clauses, added, answers>>
musVars == <<formula, external, mus, it>>
mapVars == <<class, introduced, inited, optimized, unexplored, result>>
countVars == <<kind, inputs, outputs, nodes, nextVar, cnf, current>>

vars == <<utility, solutions, optimizationSet, lastCardinality, cardinality, pc,
          msu4Vars, pboVars, hittingVars, musVars, mapVars, countVars>>

Core == INSTANCE MSU4
Linear == INSTANCE PBO
Finders == INSTANCE Finders
Map == INSTANCE MapSolver
Count == INSTANCE CardinalityConstraint

NoMaxSAT == optimizationSet = {} /\ lastCardinality = Core!NoNetwork
NoMSU4 ==
  /\ useHintClauses = FALSE /\ isSAT = FALSE /\ absoluteUNSAT = FALSE
  /\ solves = 0 /\ unsatRounds = 0 /\ lb = 0 /\ ub = 0
  /\ currentSoln = {} /\ initialAssumps = {} /\ blockedAssumps = {}
  /\ encoded = {} /\ assumption = Core!NoAssumption /\ hints = {}
NoPBO == sat = FALSE /\ assumps = {} /\ optimal = FALSE /\ models = {}
NoHitting ==
  /\ sets = <<>> /\ known = {} /\ blocked = {} /\ clauses = {} /\ added = {}
  /\ answers = {}
NoMUS == formula = {} /\ external = <<>> /\ mus = <<>> /\ it = 1
NoMap ==
  /\ class = "none" /\ introduced = {} /\ inited = {} /\ unexplored = {}
  /\ optimized = [side \in {"max", "min"} |-> {}] /\ result = Map!NoResult
NoCount ==
  /\ kind = "none" /\ inputs = <<>> /\ outputs = <<>> /\ nodes = <<>> /\ nextVar = 1
  /\ cnf = {} /\ current = FALSE

Init ==
  \/ /\ utility = "msu4"
     /\ Core!Init
     /\ cardinality = 0
     /\ NoPBO /\ NoHitting /\ NoMUS /\ NoMap /\ NoCount
  \/ /\ utility = "pbo"
     /\ Linear!Init
     /\ NoMSU4 /\ NoHitting /\ NoMUS /\ NoMap /\ NoCount
  \/ /\ utility = "hitting"
     /\ Finders!HittingInit
     /\ solutions = {} /\ cardinality = 0 /\ pc = "idle"
     /\ NoMaxSAT /\ NoMSU4 /\ NoPBO /\ NoMUS /\ NoMap /\ NoCount
  \/ /\ utility = "mus"
     /\ Finders!MUSInit
     /\ solutions = {} /\ cardinality = 0
     /\ NoMaxSAT /\ NoMSU4 /\ NoPBO /\ NoHitting /\ NoMap /\ NoCount
  \/ /\ utility = "map"
     /\ Map!Init
     /\ cardinality = 0 /\ pc = "idle"
     /\ NoMaxSAT /\ NoMSU4 /\ NoPBO /\ NoHitting /\ NoMUS /\ NoCount
  \/ /\ utility = "count"
     /\ Count!Init
     /\ solutions = {} /\ pc = "idle"
     /\ NoMaxSAT /\ NoMSU4 /\ NoPBO /\ NoHitting /\ NoMUS /\ NoMap

MSU4Step ==
  /\ utility = "msu4"
  /\ Core!Next
  /\ UNCHANGED <<utility, cardinality, pboVars, hittingVars, musVars, mapVars, countVars>>

PBOStep ==
  /\ utility = "pbo"
  /\ Linear!Next
  /\ UNCHANGED <<utility, msu4Vars, hittingVars, musVars, mapVars, countVars>>

HittingStep ==
  /\ utility = "hitting"
  /\ Finders!HittingNext
  /\ UNCHANGED <<utility, solutions, optimizationSet, lastCardinality, cardinality, pc,
                 msu4Vars, pboVars, musVars, mapVars, countVars>>

MUSStep ==
  /\ utility = "mus"
  /\ Finders!MUSNext
  /\ UNCHANGED <<utility, solutions, optimizationSet, lastCardinality, cardinality,
                 msu4Vars, pboVars, hittingVars, mapVars, countVars>>

MapStep ==
  /\ utility = "map"
  /\ Map!Next
  /\ UNCHANGED <<utility, optimizationSet, lastCardinality, cardinality, pc,
                 msu4Vars, pboVars, hittingVars, musVars, countVars>>

CountStep ==
  /\ utility = "count"
  /\ Count!Next
  /\ UNCHANGED <<utility, solutions, optimizationSet, lastCardinality, pc,
                 msu4Vars, pboVars, hittingVars, musVars, mapVars>>

Next == MSU4Step \/ PBOStep \/ HittingStep \/ MUSStep \/ MapStep \/ CountStep

\* The loops of the searches.
LoopStep ==
  \/ utility = "msu4" /\ Core!Loop /\ MSU4Step
  \/ utility = "pbo" /\ Linear!Loop /\ PBOStep
  \/ utility = "mus" /\ Finders!FindMUS /\ MUSStep

\* A call that has begun keeps running; nobody has to make another.
Spec == Init /\ [][Next]_vars /\ WF_vars(LoopStep)

--------------------------------------------------------------------------------
(* Properties.                                                                *)

\* CardinalityConstraint: an assumption about the count means what it says, in
\* whatever pieces the solver got the clauses of the network.
AssumptionsCount == utility = "count" => Count!AssumptionsCount

\* An answer is right for all that was asked for before it: the optimum under
\* assumptions of PBOMaxSATSolver, which begins where it ended earlier; the hitting
\* set, although supersets are dropped; the minimal unsatisfiable set, although the
\* core changes under the iterator; the seed, although solvers learn of their
\* literals late.  The answer of MSU4MaxSATSolver rests on its bounds: addClause may
\* keep the upper one, and m_lb == m_ub may stop the loop, although cores come of
\* queries with more constraints.
AnswersRight ==
  /\ utility = "msu4" => Core!BoundsAgree
  /\ utility = "pbo" => Linear!AnswerOptimal
  /\ utility = "hitting" => Finders!HittingSetMinimum
  /\ utility = "mus" => Finders!ResultIsMUS
  /\ utility = "map" => Map!SeedsRight

\* Both MaxSAT solvers keep the promise of one; for PBOMaxSATSolver it is doSolve
\* that does, as long as its caller asks for assignments before it calls check or
\* assumpSolve.
MaxSATInUse == utility \in {"msu4", "pbo"}
Problem == IF MaxSATInUse THEN solutions ELSE SUBSET Lit
Answered == IF utility = "msu4" THEN isSAT ELSE utility = "pbo" /\ Linear!Answered
Soln ==
  IF ~Answered THEN {}
  ELSE IF utility = "msu4" THEN currentSoln ELSE (UNION models) \intersect optimizationSet
Busy == MaxSATInUse /\ pc = "solve" /\ assumps = {}

MaxSAT == INSTANCE MaxSATSolver WITH
  solutions <- Problem, isSAT <- Answered, soln <- Soln, busy <- Busy

ImplementsMaxSAT == MaxSAT!Spec

\* Every call of solve(), assumpSolve() and findMUS() returns.
Termination == pc \in {"solve", "loop"} ~> pc \in {"idle", "done"}

================================================================================
