------------------------------ MODULE Consecution ------------------------------
(******************************************************************************)
(* The questions every proof minimizer of pme asks a SAT solver about a set   *)
(* of proof clauses, and the notions the answers define.                      *)
(*                                                                            *)
(* A proof is a vector of clauses; a clause is known by its index (ClauseID). *)
(* Which clauses hold before and after a step of the hardware is all that the *)
(* solver queries can tell apart, so the transition relation is the set of    *)
(* its steps, each reduced to the clauses its source state satisfies (pre)    *)
(* and those its target state satisfies (post).  Every monotone consecution   *)
(* relation arises this way, and a satisfying assignment of a failed query is *)
(* exactly one element of Transition.                                         *)
(******************************************************************************)
EXTENDS Integers, FiniteSets

CONSTANTS
  NumClauses,   \* number of clauses of the proof, the property included
  Property,     \* the ClauseID of the clause ~Bad
  Transition    \* the steps of the transition relation

ClauseID == 0 .. NumClauses - 1

Step == [pre : SUBSET ClauseID, post : SUBSET ClauseID]

\* addPropertyIfMissing makes the property one of the clauses of the proof.
ASSUME ProofAssumption ==
  /\ NumClauses \in Nat
  /\ Property \in ClauseID
  /\ Transition \subseteq Step

--------------------------------------------------------------------------------

\* The counterexamples to "frame implies c after one step": the satisfying
\* assignments of frame /\ c /\ T /\ ~c'.  The clause itself is added unprimed
\* when it is not already an element of the frame.
Counterexample(frame, c) ==
  { t \in Transition : frame \union {c} \subseteq t.pre /\ c \notin t.post }

\* ConsecutionChecker::solve: TRUE when the query is unsatisfiable.
Solve(frame, c) == Counterexample(frame, c) = {}

\* Faulty: the activations that are not in the core.
Supports_Inverted(frame, c) == { frame \ Q : Q \in { P \in SUBSET frame : Solve(P, c) } }

\* The supports ConsecutionChecker::supportSolve(frame, c) may return, any core
\* of the activations of the frame.  The clause may be missing from the core of a
\* frame that contains it only if the core needs no copy of it.
Supports(frame, c) ==
  { Q \in SUBSET frame :
      \A t \in Transition : Q \subseteq t.pre /\ c \notin t.post => c \notin frame \union t.pre }

\* The results of findMinimalSupport(frame, c), which replaces the frame by a
\* support of it, again and again (module MinimalSupport).
MinimizedSupports(frame, c) ==
  UNION { Supports(Q, c) : Q \in {frame} \union Supports(frame, c) }

\* ConsecutionChecker::isInductive
IsInductive(S) == \A c \in S : Solve(S, c)

\* isSIS: safe inductive subset.  Initiation is assumed of every clause.
IsSIS(S) == Property \in S /\ IsInductive(S)

\* The clauses of S that S does not support.
Unsupported(S) == { c \in S : ~Solve(S, c) }

InductiveSubsets(S) == { T \in SUBSET S : IsInductive(T) }

\* The largest inductive subset of S: what findSafeMIS leaves in its argument
\* when it succeeds (module FindSafeMIS shows that its loop computes this).
LargestInductive(S) == { c \in S : \E T \in InductiveSubsets(S) : c \in T }

\* The result of findSafeMIS(S, property).
ContainsSIS(S) == Property \in LargestInductive(S)

\* Minimal safe inductive subsets, and those with the fewest clauses.
SIS  == { S \in SUBSET ClauseID : IsSIS(S) }
MSIS == { S \in SIS : \A T \in SIS : T \subseteq S => T = S }
SmallestSIS == { S \in SIS : \A T \in SIS : Cardinality(S) <= Cardinality(T) }

\* A collapse set of c: the clauses missing from the source of a step that
\* satisfies c and leads to ~c.
CollapseSets(c) ==
  { ClauseID \ t.pre : t \in Counterexample({}, c) }

\* The answers of CollapseSetFinder::findAndBlock for c when those in blocked
\* were given before: one of them must have an active clause, and the finder
\* maximises the active clauses, so that a smallest set is left out.
NextCollapseSets(c, blocked) ==
  LET left == { K \in CollapseSets(c) : \A L \in blocked : ~(L \subseteq K) }
  IN  { K \in left : \A L \in left : Cardinality(K) <= Cardinality(L) }

================================================================================
