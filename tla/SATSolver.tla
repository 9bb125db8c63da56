------------------------------- MODULE SATSolver -------------------------------
(******************************************************************************)
(* What a SAT solver promises (the interfaces SAT::Solver and SATAdaptor):    *)
(* after any sequence of added clauses and solved queries, a query is         *)
(* answered with a model of the clauses and the assumptions, or with some of  *)
(* the assumptions that the clauses contradict.                               *)
(*                                                                            *)
(* A literal is a non-zero integer and -l the negation of l; a clause is the  *)
(* set of its literals.  A clause belongs to a group; a query is about one    *)
(* group and group 0, whose clauses are always there.                         *)
(******************************************************************************)
EXTENDS Integers, FiniteSets

VARIABLES
  formula,    \* the clauses added, <<group, clause>>
  query,      \* <<group, assumptions>> inside solve(), or <<>>
  answer      \* to the last query

NoAnswer == [result |-> "none", lits |-> {}]
Sat(model) == [result |-> "sat", lits |-> model]
Unsat(crits) == [result |-> "unsat", lits |-> crits]

Negation(C) == { -l : l \in C }

Clauses(g) == { x[2] : x \in { y \in formula : y[1] \in {0, g} } }

\* The set of true literals M satisfies the clauses in F.
IsModel(M, F) == M \intersect Negation(M) = {} /\ \A c \in F : c \intersect M # {}

\* Some values of the variables of F and A satisfy F, with A true.
Satisfiable(F, A) ==
  \E M \in SUBSET { l \in (UNION F) \union Negation(UNION F) \union A : l > 0 } :
    LET Holds(l) == IF l > 0 THEN l \in M ELSE -l \notin M
    IN  (\A l \in A : Holds(l)) /\ (\A c \in F : \E l \in c : Holds(l))

RightAnswer(F, A, ans) ==
  \/ ans.result = "sat" /\ IsModel(ans.lits, F) /\ A \subseteq ans.lits
  \/ ans.result = "unsat" /\ ans.lits \subseteq A /\ ~Satisfiable(F, ans.lits)

Init ==
  /\ formula \in { {}, {<<0, {1}>>} }    \* SATAdaptor adds ID_TRUE
  /\ query = <<>>
  /\ answer = NoAnswer

AddClauses ==
  /\ query = <<>>
  /\ formula \subseteq formula'
  /\ UNCHANGED <<query, answer>>

\* SATAdaptor::reset()
Forget ==
  /\ query = <<>>
  /\ formula' = {<<0, {1}>>}
  /\ answer' = NoAnswer
  /\ UNCHANGED query

Ask ==
  /\ query = <<>>
  /\ query' # <<>>
  /\ UNCHANGED <<formula, answer>>

Answer ==
  /\ query # <<>>
  /\ query' = <<>>
  /\ RightAnswer(Clauses(query[1]), query[2], answer')
  /\ UNCHANGED formula

Next == AddClauses \/ Forget \/ Ask \/ Answer

vars == <<formula, query, answer>>

Spec == Init /\ [][Next]_vars /\ (query # <<>> ~> query = <<>>)

================================================================================
