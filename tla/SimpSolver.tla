------------------------------- MODULE SimpSolver -------------------------------
(******************************************************************************)
(* Minisat::SimpSolver below MinisatSimplifyingSolver: clauses are simplified *)
(* by subsumption and by elimination of variables that are not frozen; what   *)
(* is left is handed out, or solved with the values of eliminated variables   *)
(* found afterwards.                                                          *)
(*                                                                            *)
(* Literals and clauses are as in module CDCL.  Propagation at level 0 is one *)
(* step with its result, and so is the search for a model or a core (module   *)
(* CDCL).  Queues and heaps are sets: their order is a heuristic.  asymm and  *)
(* rcheck are off, as they are by default; grow is 0 and no clause is long    *)
(* enough for the limits on lengths.                                          *)
(******************************************************************************)
EXTENDS Integers, FiniteSets, Sequences, TLC, SequencesExt

CONSTANT Scripts   \* sequences of calls as in CDCL, with operations "freeze" and
                   \* "eliminate" besides

VARIABLES
  calls,           \* the calls to come
  formula, answer, \* as in SATSolver
  ok,              \* the clauses were not found contradictory
  clauses,         \* those attached
  removed,         \* clauses removed since the last garbage collection
  trail,           \* the set of literals assigned, all at level 0
  bwdsub,          \* those used by backwardSubsumptionCheck
  created, frozen, eliminated,
  elimclauses,     \* what extendModel needs of each variable eliminated
  touched, heap,   \* variables to consider again
  queue,           \* clauses to use by backwardSubsumptionCheck
  resolvents,      \* clauses that eliminateVar has yet to add
  exported,        \* what the last eliminate() handed out
  assumptions,     \* of the query
  pc

callVars == <<calls, formula, answer, assumptions>>
vars == <<callVars, ok, clauses, removed, trail, bwdsub, created, frozen, eliminated,
          elimclauses, touched, heap, queue, resolvents, exported, pc>>

VarOf(l) == IF l < 0 THEN -l ELSE l
VarsOf(c) == { VarOf(l) : l \in c }
Negation(c) == { -l : l \in c }

Init ==
  /\ calls \in Scripts
  /\ formula = {} /\ answer = [result |-> "none", lits |-> {}]
  /\ ok = TRUE
  /\ clauses = {} /\ removed = {} /\ trail = {} /\ bwdsub = {}
  /\ created = {} /\ frozen = {} /\ eliminated = {} /\ elimclauses = <<>>
  /\ touched = {} /\ heap = {} /\ queue = {} /\ resolvents = {}
  /\ exported = {} /\ assumptions = {}
  /\ pc = "idle"

--------------------------------------------------------------------------------
(* Clauses.                                                                   *)

\* propagate(): the literals that follow from those in T by unit propagation.
Propagated(T, C) ==
  LET implied(U) == { l \in (UNION C) \ U : \E c \in C : l \in c /\ Negation(c \ {l}) \subseteq U }
      closure[U \in SUBSET Int] ==
        LET more == implied(U) IN IF more = {} THEN U ELSE closure[U \union more]
  IN  closure[T]

Conflicting(T, C) ==
  T \intersect Negation(T) # {} \/ \E c \in C : Negation(c) \subseteq T

EnqueueAll(L, C) ==
  LET T == Propagated(trail \union L, C)
  IN  trail' = T /\ ok' = ~Conflicting(T, C)

\* addClause_
Add(ps) ==
  LET satisfied == ps \intersect (trail \union Negation(ps)) # {}
      unknown == ps \ Negation(trail)
  IN  \/ /\ (~ok \/ satisfied)
         /\ UNCHANGED <<ok, clauses, trail, touched, queue>>
      \/ /\ ok /\ ~satisfied
         /\ Cardinality(unknown) < 2
         /\ IF unknown = {} THEN ok' = FALSE /\ UNCHANGED trail ELSE EnqueueAll(unknown, clauses)
         /\ UNCHANGED <<clauses, touched, queue>>
      \/ /\ ok /\ ~satisfied
         /\ Cardinality(unknown) > 1
         /\ clauses' = clauses \union {unknown}
         /\ queue' = queue \union {unknown}
         /\ touched' = touched \union VarsOf(unknown)
         /\ UNCHANGED <<ok, trail>>

Called(op) ==
  /\ pc = "idle"
  /\ calls # <<>> /\ Head(calls).op = op
  /\ calls' = Tail(calls)

\* Variables begin in elim_heap (newVar).
Create(V) == created' = created \union V /\ heap' = heap \union (V \ created)

AddClause ==
  /\ Called("add")
  /\ Add(Head(calls).lits)
  /\ formula' = formula \union {<<0, Head(calls).lits>>}
  /\ Create(VarsOf(Head(calls).lits))
  /\ UNCHANGED <<answer, assumptions, removed, bwdsub, frozen, eliminated, elimclauses,
                 resolvents, exported, pc>>

\* MinisatSimplifyingSolver::freeze
Freeze ==
  /\ Called("freeze")
  /\ frozen' = frozen \union Head(calls).lits
  /\ Create(Head(calls).lits)
  /\ UNCHANGED <<formula, answer, assumptions, ok, clauses, removed, trail, bwdsub, eliminated,
                 elimclauses, touched, queue, resolvents, exported, pc>>

--------------------------------------------------------------------------------
(* eliminate().                                                               *)

Eliminate ==
  /\ Called("eliminate")
  /\ pc' = IF ok THEN "loop" ELSE "failed"
  /\ UNCHANGED <<formula, answer, assumptions, ok, clauses, removed, trail, bwdsub, created, frozen,
                 eliminated, elimclauses, touched, heap, queue, resolvents, exported>>

\* The main loop, gatherTouchedClauses first.
MainLoop ==
  /\ pc = "loop"
  /\ (touched # {} \/ bwdsub # trail \/ heap # {})
  /\ queue' = queue \union { c \in clauses : VarsOf(c) \intersect touched # {} }
  /\ touched' = {}
  /\ pc' = "subsume"
  /\ UNCHANGED <<callVars, ok, clauses, removed, trail, bwdsub, created, frozen,
                 eliminated, elimclauses, heap, resolvents, exported>>

\* The variables that updateElimHeap puts back.
Candidates(V) == V \ (frozen \union eliminated \union VarsOf(trail))

\* backwardSubsumptionCheck with c: the clauses c subsumes are removed, and those it
\* would but for one literal of the other sign lose that literal.
SubsumeWith(c) ==
  LET subsumed == { d \in clauses \ {c} : c \subseteq d }
      flipped(d) == { l \in d : -l \in c /\ c \ {-l} \subseteq d }
      strong == { d \in clauses : flipped(d) # {} }
      new == { d \ flipped(d) : d \in strong }
      units == { d \in new : Cardinality(d) = 1 }
      changed == UNION { VarsOf(d) : d \in subsumed }
                 \union UNION { IF Cardinality(d) = 2 THEN VarsOf(d) ELSE VarsOf(flipped(d)) :
                                d \in strong }
  IN  /\ clauses' = (clauses \ (subsumed \union strong)) \union (new \ units)
      /\ removed' = removed \union subsumed \union units
      /\ queue' = (queue \ ({c} \union subsumed \union strong)) \union (new \ units)
      /\ EnqueueAll(UNION units, clauses')
      /\ heap' = heap \union Candidates(changed)
      /\ pc' = IF ok' THEN pc ELSE "failed"

Subsuming == pc \in {"subsume", "resubsume"}

SubsumeClause ==
  /\ Subsuming
  /\ \E c \in queue : SubsumeWith(c)
  /\ UNCHANGED <<callVars, bwdsub, created, frozen, eliminated, elimclauses, touched,
                 resolvents, exported>>

\* An assigned literal as a clause, when the queue is empty.
SubsumeUnit ==
  /\ Subsuming
  /\ queue = {}
  /\ \E l \in trail \ bwdsub :
       /\ SubsumeWith({l})
       /\ bwdsub' = bwdsub \union {l}
  /\ UNCHANGED <<callVars, created, frozen, eliminated, elimclauses, touched, resolvents,
                 exported>>

\* checkGarbage, after each variable that is not assigned.
Collect == removed' \in {removed, {}}

Subsumed ==
  /\ Subsuming
  /\ queue = {} /\ bwdsub = trail
  /\ IF pc = "resubsume" THEN Collect ELSE UNCHANGED removed
  /\ pc' = "eliminate"
  /\ UNCHANGED <<callVars, ok, clauses, trail, bwdsub, created, frozen, eliminated,
                 elimclauses, touched, heap, queue, resolvents, exported>>

Occurrences(l) == { c \in clauses : l \in c }

\* merge() of a clause with v and one with its negation.
Resolvent(c, d, v) == (c \ {v}) \union (d \ {-v})
Tautology(c) == c \intersect Negation(c) # {}
Resolvents(v) ==
  { x \in Occurrences(v) \X Occurrences(-v) : ~Tautology(Resolvent(x[1], x[2], v)) }

Eliminable(v) ==
  /\ v \notin eliminated \union VarsOf(trail) \union frozen
  /\ Cardinality(Resolvents(v)) <= Cardinality(Occurrences(v) \union Occurrences(-v))

SkipVar(v) ==
  /\ pc = "eliminate"
  /\ v \in heap
  /\ ~Eliminable(v)
  /\ heap' = heap \ {v}
  /\ IF v \in eliminated \union VarsOf(trail) THEN UNCHANGED removed ELSE Collect
  /\ UNCHANGED <<callVars, ok, clauses, trail, bwdsub, created, frozen,
                 eliminated, elimclauses, touched, queue, resolvents, exported, pc>>

\* eliminateVar: the smaller side is kept for extendModel, with the literal that
\* occurs in it.
EliminateVar(v) ==
  LET occurring == Occurrences(v) \union Occurrences(-v)
      lit == IF Cardinality(Occurrences(v)) > Cardinality(Occurrences(-v)) THEN -v ELSE v
  IN  /\ pc = "eliminate"
      /\ v \in heap
      /\ Eliminable(v)
      /\ eliminated' = eliminated \union {v}
      /\ elimclauses' = Append(elimclauses, [lit |-> lit, clauses |-> Occurrences(lit)])
      /\ clauses' = clauses \ occurring
      /\ removed' = removed \union occurring
      /\ queue' = queue \ occurring
      /\ heap' = (heap \ {v}) \union (Candidates(UNION { VarsOf(c) : c \in occurring }) \ {v})
      /\ resolvents' = { Resolvent(x[1], x[2], v) : x \in Resolvents(v) }
      /\ pc' = "resolve"
      /\ UNCHANGED <<callVars, ok, trail, bwdsub, created, frozen, touched, exported>>

AddResolvent(c) ==
  /\ pc = "resolve"
  /\ c \in resolvents
  /\ resolvents' = resolvents \ {c}
  /\ Add(c)
  /\ pc' = IF ok' THEN pc ELSE "failed"
  /\ UNCHANGED <<callVars, removed, bwdsub, created, frozen, eliminated, elimclauses,
                 heap, exported>>

Resolved ==
  /\ pc = "resolve"
  /\ resolvents = {}
  /\ pc' = "resubsume"
  /\ UNCHANGED <<callVars, ok, clauses, removed, trail, bwdsub, created, frozen,
                 eliminated, elimclauses, touched, heap, queue, resolvents, exported>>

HeapEmpty ==
  /\ pc = "eliminate"
  /\ heap = {}
  /\ pc' = "loop"
  /\ UNCHANGED <<callVars, ok, clauses, removed, trail, bwdsub, created, frozen,
                 eliminated, elimclauses, touched, heap, queue, resolvents, exported>>

\* Faulty: the trail is forgotten.
Export_Clauses ==
  /\ pc = "loop"
  /\ touched = {} /\ bwdsub = trail /\ heap = {}
  /\ Collect
  /\ exported' = clauses \union removed'
  /\ pc' = "done"
  /\ UNCHANGED <<callVars, ok, clauses, trail, bwdsub, created, frozen, eliminated,
                 elimclauses, touched, heap, queue, resolvents>>

\* MinisatSimplifyingSolver::eliminate takes what is in the vector of clauses, removed
\* ones included that no garbage collection has thrown away, and the trail.
Export ==
  /\ pc = "loop"
  /\ touched = {} /\ bwdsub = trail /\ heap = {}
  /\ Collect
  /\ exported' = clauses \union removed' \union { {l} : l \in trail }
  /\ pc' = "done"
  /\ UNCHANGED <<callVars, ok, clauses, trail, bwdsub, created, frozen, eliminated,
                 elimclauses, touched, heap, queue, resolvents>>

Done ==
  /\ pc = "done"
  /\ pc' = "idle"
  /\ UNCHANGED <<callVars, ok, clauses, removed, trail, bwdsub, created, frozen,
                 eliminated, elimclauses, touched, heap, queue, resolvents, exported>>

--------------------------------------------------------------------------------
(* solve().                                                                   *)

Assignments(V) == { M \union { -v : v \in V \ M } : M \in SUBSET V }

\* The models that the search can find: eliminated variables have no value.
Found ==
  { M \in Assignments(created \ eliminated) :
      trail \subseteq M /\ \A c \in clauses : c \intersect M # {} }

\* Faulty: the first variable eliminated first.
extendModel_Forwards(M) ==
  LET extend(N, e) ==
        IF \E c \in e.clauses : Negation(c \ {e.lit}) \subseteq N THEN N \union {e.lit}
        ELSE N \union {-e.lit}
  IN  FoldLeft(extend, M, elimclauses)

\* extendModel: the last variable eliminated first.
extendModel(M) ==
  LET extend(e, N) ==
        IF \E c \in e.clauses : Negation(c \ {e.lit}) \subseteq N THEN N \union {e.lit}
        ELSE N \union {-e.lit}
  IN  FoldRight(extend, elimclauses, M)

\* solve(assumps, do_simp = false)
Solve ==
  /\ Called("solve")
  /\ assumptions' = Range(Head(calls).lits)
  /\ Create(VarsOf(assumptions'))
  /\ pc' = "solving"
  /\ UNCHANGED <<formula, answer, ok, clauses, removed, trail, bwdsub, frozen, eliminated,
                 elimclauses, touched, queue, resolvents, exported>>

Answered(ans) ==
  /\ pc = "solving"
  /\ answer' = ans
  /\ pc' = "idle"
  /\ UNCHANGED <<calls, formula, assumptions, clauses, removed, trail, bwdsub, created,
                 frozen, eliminated, elimclauses, touched, heap, queue, resolvents,
                 exported>>

ModelFound ==
  /\ ok
  /\ \E M \in Found :
       /\ assumptions \subseteq M
       /\ Answered([result |-> "sat", lits |-> extendModel(M)])
  /\ UNCHANGED ok

Contradiction ==
  \E crits \in SUBSET assumptions :
    /\ IF ok THEN \A M \in Found : ~(crits \subseteq M) ELSE crits = {}
    /\ Answered([result |-> "unsat", lits |-> crits])
    /\ ok' = (ok /\ crits # {})

Work ==
  \/ MainLoop
  \/ SubsumeClause \/ SubsumeUnit \/ Subsumed
  \/ \E v \in heap : SkipVar(v) \/ EliminateVar(v)
  \/ \E c \in resolvents : AddResolvent(c)
  \/ Resolved \/ HeapEmpty \/ Export \/ Done
  \/ ModelFound \/ Contradiction

Next == AddClause \/ Freeze \/ Eliminate \/ Solve \/ Work

--------------------------------------------------------------------------------
(* Properties.                                                                *)

\* What is handed out says of the variables not eliminated, the frozen ones among
\* them, what the clauses added say, and no more, whatever was removed, strengthened
\* and resolved in whatever order; and eliminate() gives up only a contradiction.
SimplificationEquivalent ==
  LET Kept == created \ eliminated
      Extends(M, F) ==
        \E N \in Assignments(eliminated) : \A c \in F : c \intersect (M \union N) # {}
      Added == { x[2] : x \in formula }
  IN  /\ frozen \subseteq Kept
      /\ pc = "done" =>
           \A M \in Assignments(Kept) : Extends(M, exported) <=> Extends(M, Added)
      /\ pc = "failed" => \A M \in Assignments(Kept) : ~Extends(M, Added)

================================================================================
