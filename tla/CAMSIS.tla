--------------------------------- MODULE CAMSIS ---------------------------------
(******************************************************************************)
(* CAMSISMinimizer: enumerate the minimal safe inductive subsets of a proof   *)
(* in order of size.  A MaxSAT solver that minimises the selected clauses     *)
(* proposes a candidate; collapse sets, one for each of its unsupported       *)
(* clauses, refine the solver until the candidate is a SIS, which is then     *)
(* recorded and blocked.  The naive variant adds every collapse set of every  *)
(* clause up front and takes the candidates for MSISes without checking.      *)
(******************************************************************************)
EXTENDS Consecution, ClauseMap, Sequences

VARIABLES
  camsis_ar,       \* the option of that name: abstraction refinement, not naive
  solverClauses,   \* the clauses of m_solver over the selection variables
  collapseFound,   \* the collapse sets the finder has blocked, for each clause
  minimalProofs,   \* m_minimalProofs
  minimumProof,    \* m_minimumProof, {} while empty
  candidate,       \* the candidate being treated
  todo,            \* clauses left in the loop over the unsupported ones, or in
                   \* the preparation of the naive variant
  pc               \* "prepare", "extract", "refine", "done"

vars == <<camsis_ar, solverClauses, collapseFound, minimalProofs, minimumProof, candidate, todo, pc>>

Found == { minimalProofs[i] : i \in DOMAIN minimalProofs }

Init ==
  /\ camsis_ar \in BOOLEAN
  /\ solverClauses = {SelectClause(Property)}
  /\ collapseFound = [c \in ClauseID |-> {}]
  /\ minimalProofs = <<>>
  /\ minimumProof = {}
  /\ candidate = {}
  /\ IF camsis_ar
     THEN todo = {} /\ pc = "extract"
     ELSE todo = ClauseID /\ pc = "prepare"

\* Faulty: the finder does not block what it returns.
Refine_NotBlocked(c) ==
  \E K \in NextCollapseSets(c, collapseFound[c]) :
    /\ solverClauses' = solverClauses \union {CollapseClause(c, K)}
    /\ UNCHANGED collapseFound

\* attemptRefinement finds a collapse set of c.
Refine(c) ==
  \E K \in NextCollapseSets(c, collapseFound[c]) :
    /\ solverClauses' = solverClauses \union {CollapseClause(c, K)}
    /\ collapseFound' = [collapseFound EXCEPT ![c] = @ \union {K}]

\* It finds none.
NoRefinement(c) ==
  /\ NextCollapseSets(c, collapseFound[c]) = {}
  /\ UNCHANGED <<solverClauses, collapseFound>>

\* Both loops take their clauses in increasing order.
IsNext(c) == c \in todo /\ \A d \in todo : c <= d

\* naiveMinimize: every collapse set of every clause.
PrepareRefine(c) ==
  /\ pc = "prepare"
  /\ IsNext(c)
  /\ Refine(c)
  /\ UNCHANGED <<camsis_ar, minimalProofs, minimumProof, candidate, todo, pc>>

PrepareNext(c) ==
  /\ pc = "prepare"
  /\ IsNext(c)
  /\ NoRefinement(c)
  /\ todo' = todo \ {c}
  /\ pc' = IF todo' = {} THEN "extract" ELSE "prepare"
  /\ UNCHANGED <<camsis_ar, minimalProofs, minimumProof, candidate>>

\* Faulty: the size of the candidate is not minimised.
Candidates_AnySize == Solutions(ClauseID, solverClauses)

\* extractCandidate returns a solution with the fewest clauses.
Candidates == Smallest(Solutions(ClauseID, solverClauses))

\* blockMSIS and recordMSIS: the first proof found is the minimum.
Record(S) ==
  /\ solverClauses' = solverClauses \union {BlockUpClause(S)}
  /\ minimumProof' = IF minimalProofs = <<>> THEN S ELSE minimumProof
  /\ minimalProofs' = Append(minimalProofs, S)
  /\ UNCHANGED <<camsis_ar, collapseFound, candidate, todo, pc>>

\* A candidate that is recorded at once.
ExtractMSIS ==
  /\ pc = "extract"
  /\ \E S \in Candidates :
       /\ camsis_ar => Unsupported(S) = {}
       /\ Record(S)

\* A candidate with unsupported clauses.
ExtractNonSIS ==
  /\ pc = "extract"
  /\ camsis_ar
  /\ \E S \in Candidates :
       /\ Unsupported(S) # {}
       /\ candidate' = S
       /\ todo' = Unsupported(S)
  /\ pc' = "refine"
  /\ UNCHANGED <<camsis_ar, solverClauses, collapseFound, minimalProofs, minimumProof>>

\* One round of the loop over the unsupported clauses.  A refinement must be
\* found; without the assertion the loop would just go on.
RefineStep(c) ==
  /\ pc = "refine"
  /\ IsNext(c)
  /\ Refine(c) \/ NoRefinement(c)
  /\ todo' = todo \ {c}
  /\ IF todo' = {}
     THEN pc' = "extract" /\ candidate' = {}
     ELSE UNCHANGED <<pc, candidate>>
  /\ UNCHANGED <<camsis_ar, minimalProofs, minimumProof>>

\* No candidate is left.
Exhausted ==
  /\ pc = "extract"
  /\ Candidates = {}
  /\ pc' = "done"
  /\ UNCHANGED <<camsis_ar, solverClauses, collapseFound, minimalProofs, minimumProof,
                 candidate, todo>>

Next ==
  \/ ExtractMSIS \/ ExtractNonSIS \/ Exhausted
  \/ \E c \in ClauseID : PrepareRefine(c) \/ PrepareNext(c) \/ RefineStep(c)

Spec == Init /\ [][Next]_vars /\ WF_vars(Next)

--------------------------------------------------------------------------------

TypeOK ==
  /\ camsis_ar \in BOOLEAN
  /\ solverClauses \in SUBSET MapClause(ClauseID)
  /\ collapseFound \in [ClauseID -> SUBSET SUBSET ClauseID]
  /\ minimalProofs \in Seq(SUBSET ClauseID)
  /\ minimumProof \in SUBSET ClauseID
  /\ candidate \in SUBSET ClauseID
  /\ todo \in SUBSET ClauseID
  /\ pc \in {"prepare", "extract", "refine", "done"}

\* A proof recorded is a minimal safe inductive subset, although its minimality
\* is never checked and the naive variant does not even check that it is a SIS
\* (camsis.cpp:88, camsis.cpp:123).
FoundAreMSISes == Found \subseteq MSIS

\* Refinement never loses a proof: a safe inductive subset satisfies every
\* collapse clause, so it is still a solution unless it has a recorded MSIS
\* inside (camsis.cpp:203).
NothingLost ==
  \A S \in SIS :
    S \in Solutions(ClauseID, solverClauses) \/ \E M \in Found : M \subseteq S

\* An unsupported clause of a candidate always has a collapse set the solver
\* does not know yet: abstractionRefinementMinimize asserts it (camsis.cpp:106).
CollapseSetLeft ==
  pc = "refine" => \A c \in todo : NextCollapseSets(c, collapseFound[c]) # {}

\* Proofs come in order of size, so that the first one is a minimum.
InOrderOfSize ==
  \A i, j \in DOMAIN minimalProofs :
    i <= j => Cardinality(minimalProofs[i]) <= Cardinality(minimalProofs[j])

================================================================================
