----------------------------- MODULE MaxSATSolver -----------------------------
(******************************************************************************)
(* What a MaxSAT solver promises (the interface MaxSATSolver): after any      *)
(* sequence of added clauses and literals to optimise, solve() answers that   *)
(* the clauses have no solution, or keeps a solution that satisfies as many   *)
(* of the literals as any solution does, until the problem changes again or   *)
(* another query is made.                                                     *)
(*                                                                            *)
(* Literals are those ever passed to addForOptimization.  Clauses over other  *)
(* variables only restrict what can be satisfied together, so that a problem  *)
(* is the set of its solutions, each the set of literals it satisfies.        *)
(******************************************************************************)
EXTENDS ClauseMap

CONSTANT Lit

VARIABLES
  solutions,        \* the solutions of the clauses added
  optimizationSet,  \* the literals to satisfy as many of as possible
  isSAT,            \* isSAT(): may assignments be asked for?
  soln,             \* the literals of the set that the assignments satisfy
  busy              \* inside solve()

vars == <<solutions, optimizationSet, isSAT, soln, busy>>

\* The values of soln that satisfy as many literals as possible.
Optima == Largest({ S \intersect optimizationSet : S \in solutions })

Init ==
  /\ solutions = SUBSET Lit
  /\ optimizationSet = {}
  /\ isSAT = FALSE
  /\ soln = {}
  /\ busy = FALSE

AddClause(cls) ==
  /\ ~busy
  /\ solutions' = { S \in solutions : SatisfiesClause(S, cls) }
  /\ isSAT' = FALSE
  /\ soln' = {}
  /\ UNCHANGED <<optimizationSet, busy>>

AddForOptimization(lit) ==
  /\ ~busy
  /\ lit \notin optimizationSet
  /\ optimizationSet' = optimizationSet \union {lit}
  /\ isSAT' = FALSE
  /\ soln' = {}
  /\ UNCHANGED <<solutions, busy>>

\* solve() may forget what it knows before it starts.
Enter ==
  /\ ~busy
  /\ busy' = TRUE
  /\ \/ UNCHANGED <<isSAT, soln>>
     \/ isSAT' = FALSE /\ soln' = {}
  /\ UNCHANGED <<solutions, optimizationSet>>

Answer ==
  /\ busy
  /\ busy' = FALSE
  /\ IF solutions = {}
     THEN UNCHANGED <<isSAT, soln>>
     ELSE isSAT' = TRUE /\ soln' \in Optima
  /\ UNCHANGED <<solutions, optimizationSet>>

\* check() and assumpSolve() ask something else; assignments may be lost.
Check ==
  /\ ~busy
  /\ isSAT' = FALSE
  /\ soln' = {}
  /\ UNCHANGED <<solutions, optimizationSet, busy>>

Next ==
  \/ Check \/ Enter \/ Answer
  \/ \E lit \in Lit : AddForOptimization(lit)
  \/ \E cls \in MapClause(Lit) : AddClause(cls)

Spec == Init /\ [][Next]_vars

================================================================================
