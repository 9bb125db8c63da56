----------------------------- MODULE FindSafeMIS -----------------------------
(******************************************************************************)
(* findSafeMIS(solver, vec, nec): reduce a set of clauses in place to its     *)
(* largest inductive subset, giving up as soon as a necessary clause goes.    *)
(* The clauses are tried in increasing order, over and over until a sweep     *)
(* removes none; after a failed query every clause that the satisfying        *)
(* assignment falsifies in the next state is removed along with the one       *)
(* tried.  Which assignment that is, the SAT solver decides.                  *)
(******************************************************************************)
EXTENDS Consecution

VARIABLES
  input, nec,   \* the arguments: the clauses passed in, and the necessary ones
  vec,          \* the vector being reduced (it is kept sorted: a set)
  it,           \* the iterator: every element of vec below it has been tried
  removed,      \* has the present sweep removed anything?
  pc            \* "enter", "sweep", and the results "true" and "false"

vars == <<input, nec, vec, it, removed, pc>>

\* The callers pass any vector, which need not contain the necessary clauses;
\* the property is always one of those.
Init ==
  /\ input \in SUBSET ClauseID
  /\ nec \in { N \in SUBSET ClauseID : Property \in N }
  /\ vec = input
  /\ it = 0
  /\ removed = FALSE
  /\ pc = "enter"

Return(result) ==
  /\ pc' = result
  /\ UNCHANGED <<input, nec, it, removed>>

--------------------------------------------------------------------------------

\* A necessary clause is not even there.
EnterUnsafe ==
  /\ pc = "enter"
  /\ ~(nec \subseteq vec)
  /\ Return("false")
  /\ UNCHANGED vec

\* The argument is inductive as it stands.
EnterInductive ==
  /\ pc = "enter"
  /\ nec \subseteq vec
  /\ IsInductive(vec)
  /\ Return("true")
  /\ UNCHANGED vec

\* Otherwise start the first sweep.
EnterSweep ==
  /\ pc = "enter"
  /\ nec \subseteq vec
  /\ ~IsInductive(vec)
  /\ pc' = "sweep"
  /\ it' = 0
  /\ removed' = FALSE
  /\ UNCHANGED <<input, nec, vec>>

\* The iterator points at the first element of vec that is not below it.
IsCurrent(id) ==
  /\ id \in vec
  /\ it <= id
  /\ \A c \in vec : it <= c => id <= c

\* The clause under the iterator is supported by the others: step over it.
KeepClause(id) ==
  /\ pc = "sweep"
  /\ IsCurrent(id)
  /\ Solve(vec, id)
  /\ it' = id + 1
  /\ UNCHANGED <<input, nec, vec, removed, pc>>

\* It is not, and it is necessary.
LoseNecessary(id) ==
  /\ pc = "sweep"
  /\ IsCurrent(id)
  /\ ~Solve(vec, id)
  /\ id \in nec
  /\ Return("false")
  /\ UNCHANGED vec

\* Faulty: removes what the assignment satisfies.
SATClauses_Satisfied(S, t) == S \intersect t.post

\* removeSATClauses: the clauses of S that the assignment t falsifies after
\* the step, up to and including the first one that is necessary.
SATClauses(S, t) ==
  LET falsified == S \ t.post
  IN  { c \in falsified : \A d \in falsified \intersect nec : c <= d }

\* It is not, and it goes, along with what the assignment falsifies.  The
\* iterator moves to the first element greater than id.
RemoveClause(id) ==
  /\ pc = "sweep"
  /\ IsCurrent(id)
  /\ id \notin nec
  /\ \E t \in Counterexample(vec, id) :
       LET rest == vec \ {id}
           gone == SATClauses(rest, t)
       IN  /\ vec' = rest \ gone
           /\ IF gone \intersect nec # {}
              THEN /\ pc' = "false"
                   /\ UNCHANGED it
              ELSE /\ it' = id + 1
                   /\ UNCHANGED pc
  /\ removed' = TRUE
  /\ UNCHANGED <<input, nec>>

SweepEnded == pc = "sweep" /\ \A c \in vec : c < it

SweepAgain ==
  /\ SweepEnded
  /\ removed
  /\ it' = 0
  /\ removed' = FALSE
  /\ UNCHANGED <<input, nec, vec, pc>>

\* Faulty: one sweep is enough.
SweepClean_Once ==
  /\ SweepEnded
  /\ Return("true")
  /\ UNCHANGED vec

SweepClean ==
  /\ SweepEnded
  /\ ~removed
  /\ Return("true")
  /\ UNCHANGED vec

Terminating == pc \in {"true", "false"} /\ UNCHANGED vars

Next ==
  \/ EnterUnsafe \/ EnterInductive \/ EnterSweep
  \/ \E id \in ClauseID : KeepClause(id) \/ LoseNecessary(id) \/ RemoveClause(id)
  \/ SweepAgain \/ SweepClean
  \/ Terminating

\* A sequential procedure keeps running until it returns.
Spec == Init /\ [][Next]_vars /\ WF_vars(Next)

--------------------------------------------------------------------------------

TypeOK ==
  /\ input \in SUBSET ClauseID
  /\ nec \in SUBSET ClauseID
  /\ vec \in SUBSET input
  /\ it \in 0 .. NumClauses
  /\ removed \in BOOLEAN
  /\ pc \in {"enter", "sweep", "true", "false"}

\* Dropping several clauses after one failed query never drops a clause that
\* belongs to the largest inductive subset, whichever assignment the solver
\* found, and not even on the way to returning false (find_safe_mis.cpp:96).
GreatestKept == LargestInductive(input) \subseteq vec

\* A true result leaves exactly the largest inductive subset of the argument
\* in vec, the necessary clauses included; a false one means that no inductive
\* subset of the argument has them all (find_safe_mis.cpp:136).
ResultCorrect ==
  /\ pc = "true" => vec = LargestInductive(input) /\ nec \subseteq vec
  /\ pc = "false" => ~(nec \subseteq LargestInductive(input))

\* The nested loops, one of which moves the other's iterator, come to an end.
Termination == <>(pc \in {"true", "false"})

================================================================================
