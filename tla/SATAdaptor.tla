------------------------------- MODULE SATAdaptor -------------------------------
(******************************************************************************)
(* SATAdaptor and ClauseDeduplicatingSATAdaptor: IDs are numbered as SAT      *)
(* variables when they are first used, and the numbers are shared with        *)
(* groups, whose clauses hold only while their variable is assumed.           *)
(*                                                                            *)
(* IDs and their negations are integers as literals are, ID_TRUE is 1, and    *)
(* clauses and assumptions are sets of them.  The solver below answers as     *)
(* module SATSolver says, with any model or core.                             *)
(******************************************************************************)
EXTENDS Integers, FiniteSets, Functions

CONSTANTS
  IDClauses,        \* the clauses that are added
  IDAssumptions,    \* the sets of assumptions
  MaxGroups,        \* the groups between two resets
  MaxCalls

VARIABLES
  deduplicating,    \* which of the two classes
  formula, answer,  \* as in SATSolver
  IDToSATMap,
  variables,        \* the number of SAT variables
  groups,
  satClauses,       \* in the solver below
  known,            \* m_clauses: the clauses not to add again
  group, assumptions,   \* of the query
  callsMade,
  pc                \* "idle" or "solving"

vars == <<deduplicating, formula, answer, IDToSATMap, variables, groups, satClauses, known,
          group, assumptions, callsMade, pc>>

ID_TRUE == 1
GROUP_NULL == 0

Strip(l) == IF l < 0 THEN -l ELSE l

\* introduceVariable for every one of the literals.
Introduced(lits) ==
  LET new == { Strip(l) : l \in lits } \ DOMAIN IDToSATMap
      number(id) == variables + Cardinality({ j \in new : j <= id })
  IN  [id \in DOMAIN IDToSATMap \union new |->
         IF id \in new THEN number(id) ELSE IDToSATMap[id]]

Introduce(lits) ==
  /\ IDToSATMap' = Introduced(lits)
  /\ variables' = variables + Cardinality((DOMAIN Introduced(lits)) \ (DOMAIN IDToSATMap))

\* Under the numbers in m.
toSAT(m, lits) == { IF l < 0 THEN -m[-l] ELSE m[l] : l \in lits }
fromSAT(lits) ==
  { l \in DOMAIN IDToSATMap \union { -id : id \in DOMAIN IDToSATMap } :
      toSAT(IDToSATMap, {l}) \subseteq lits }

Init ==
  /\ deduplicating \in BOOLEAN
  /\ formula = {<<GROUP_NULL, {ID_TRUE}>>}
  /\ answer = [result |-> "none", lits |-> {}]
  /\ IDToSATMap = [id \in {ID_TRUE} |-> 1]
  /\ variables = 1
  /\ groups = {}
  /\ satClauses = {{1}}
  /\ known = {}
  /\ group = GROUP_NULL /\ assumptions = {}
  /\ callsMade = 0
  /\ pc = "idle"

Called ==
  /\ pc = "idle"
  /\ callsMade < MaxCalls
  /\ callsMade' = callsMade + 1

addClause(cls) ==
  /\ Called
  /\ formula' = formula \union {<<GROUP_NULL, cls>>}
  /\ \/ /\ deduplicating /\ cls \in known
        /\ UNCHANGED <<IDToSATMap, variables, satClauses, known>>
     \/ /\ cls \notin known
        /\ known' = IF deduplicating THEN known \union {cls} ELSE known
        /\ Introduce(cls)
        /\ satClauses' = satClauses \union {toSAT(IDToSATMap', cls)}
  /\ UNCHANGED <<deduplicating, answer, groups, group, assumptions, pc>>

createGroup ==
  /\ Called
  /\ Cardinality(groups) < MaxGroups
  /\ variables' = variables + 1
  /\ groups' = groups \union {variables'}
  /\ UNCHANGED <<deduplicating, formula, answer, IDToSATMap, satClauses, known, group,
                 assumptions, pc>>

addGroupClause(g, cls) ==
  /\ Called
  /\ g \in groups
  /\ formula' = formula \union {<<g, cls>>}
  /\ Introduce(cls)
  /\ satClauses' = satClauses \union {toSAT(IDToSATMap', cls) \union {-g}}
  /\ UNCHANGED <<deduplicating, answer, groups, known, group, assumptions, pc>>

reset ==
  /\ Called
  /\ formula' = {<<GROUP_NULL, {ID_TRUE}>>}
  /\ answer' = [result |-> "none", lits |-> {}]
  /\ IDToSATMap' = [id \in {ID_TRUE} |-> 1]
  /\ variables' = 1
  /\ groups' = {}
  /\ satClauses' = {{1}}
  /\ known' = IF deduplicating THEN {{ID_TRUE}} ELSE {}
  /\ UNCHANGED <<deduplicating, group, assumptions, pc>>

\* groupSolve before the solver runs.
groupSolve(g, assumps) ==
  /\ Called
  /\ g \in groups \union {GROUP_NULL}
  /\ Introduce(assumps)
  /\ group' = g /\ assumptions' = assumps
  /\ pc' = "solving"
  /\ UNCHANGED <<deduplicating, formula, answer, groups, satClauses, known>>

SATAssumptions == toSAT(IDToSATMap, assumptions) \union ({group} \ {GROUP_NULL})

Models ==
  { M \in { T \union { -v : v \in (1 .. variables) \ T } : T \in SUBSET (1 .. variables) } :
      \A c \in satClauses : c \intersect M # {} }

\* The rest of it: the group is no critical literal.
solved ==
  /\ pc = "solving"
  /\ \/ \E M \in Models :
          /\ SATAssumptions \subseteq M
          /\ answer' = [result |-> "sat", lits |-> fromSAT(M)]
     \/ \E satcrits \in SUBSET SATAssumptions :
          /\ \A M \in Models : ~(satcrits \subseteq M)
          /\ answer' = [result |-> "unsat", lits |-> fromSAT(satcrits \ groups)]
  /\ pc' = "idle"
  /\ UNCHANGED <<deduplicating, formula, IDToSATMap, variables, groups, satClauses, known,
                 group, assumptions, callsMade>>

Next ==
  \/ \E cls \in IDClauses : addClause(cls)
  \/ createGroup
  \/ \E g \in groups, cls \in IDClauses : addGroupClause(g, cls)
  \/ reset
  \/ \E g \in groups \union {GROUP_NULL}, assumps \in IDAssumptions : groupSolve(g, assumps)
  \/ solved

================================================================================
