------------------------------ MODULE Enumerators ------------------------------
(******************************************************************************)
(* Engine::minimize with the two algorithms that enumerate the minimal safe   *)
(* inductive subsets of a proof: MARCOMinimizer (module MARCO) and            *)
(* CAMSISMinimizer (module CAMSIS).  One of them is picked and runs to its    *)
(* end; the variables that only the other has keep their first values.        *)
(******************************************************************************)
EXTENDS Consecution, ClauseMap, Sequences

CONSTANT
  Options   \* the settings of MARCO's options under consideration

VARIABLES
  algorithm,                           \* the algorithm picked, a parameter of minimize
  collapseFound, minimalProofs, minimumProof, todo, pc,         \* of both
  opts, seedClauses, seedCount, lowerBound, smallestProof, mode, seed, mis,  \* of MARCO
  camsis_ar, solverClauses, candidate                           \* of CAMSIS

marcoVars == <<opts, seedClauses, seedCount, lowerBound, smallestProof, mode, seed, mis>>
camsisVars == <<camsis_ar, solverClauses, candidate>>
vars == <<algorithm, collapseFound, minimalProofs, minimumProof, todo, pc, marcoVars, camsisVars>>

Marco == INSTANCE MARCO
Camsis == INSTANCE CAMSIS

\* Without either refinement a non-SIS seed is never blocked, and MARCO would ask
\* for the same seed for ever.
ASSUME OptionsAssumption ==
  /\ Options \subseteq Marco!Setting
  /\ \A o \in Options : o.marco_mcs \/ o.marco_collapse

\* The proof given is one: a safe inductive set of clauses.
ASSUME ProofIsInductive == IsSIS(ClauseID)

NoMarco ==
  /\ opts = CHOOSE o \in Options : TRUE
  /\ seedClauses = {} /\ seedCount = 0 /\ lowerBound = 0
  /\ smallestProof = {} /\ mode = "arb" /\ seed = {} /\ mis = {}
NoCamsis == camsis_ar = FALSE /\ solverClauses = {} /\ candidate = {}

\* Engine::minimize
Init ==
  \/ /\ algorithm = "marco"
     /\ Marco!Init
     /\ NoCamsis
  \/ /\ algorithm = "camsis"
     /\ Camsis!Init
     /\ NoMarco

MarcoStep ==
  /\ algorithm = "marco"
  /\ Marco!Next
  /\ UNCHANGED <<algorithm, camsisVars>>

CamsisStep ==
  /\ algorithm = "camsis"
  /\ Camsis!Next
  /\ UNCHANGED <<algorithm, marcoVars>>

Next == MarcoStep \/ CamsisStep

\* minimize() runs to its end: it is sequential and every query terminates.
Spec == Init /\ [][Next]_vars /\ WF_vars(Next)

--------------------------------------------------------------------------------
(* Properties.                                                                *)

\* Every proof handed out is a minimal safe inductive subset, also the ones MARCO
\* records from a minimum seed without searching or shrinking it
\* (marco.cpp:159-178), and those of CAMSIS, whose minimality is never checked
\* (camsis.cpp:88, camsis.cpp:123).
FoundAreMSISes == \A i \in DOMAIN minimalProofs : minimalProofs[i] \in MSIS

\* No MSIS is ever lost: every safe inductive subset is left to be found or has a
\* recorded MSIS inside, whatever was blocked or refined (marco.cpp:537,
\* camsis.cpp:203).
NothingLost ==
  /\ algorithm = "marco" => Marco!NothingLost
  /\ algorithm = "camsis" => Camsis!NothingLost

\* The lower bound MARCO keeps from minimum seeds bounds every SIS that is not yet
\* explained by a recorded proof, in zigzag mode as well, where maximum seeds come
\* in between; the assertion of getUnexploredMin follows (marco.cpp:442).
LowerBoundSound == algorithm = "marco" => Marco!LowerBoundSound

\* Whenever a clause is unsupported, the collapse set finder still has one to
\* offer that the map or solver does not know, as collapseRefine and
\* abstractionRefinementMinimize assert (marco.cpp:530, camsis.cpp:106).
CollapseSetLeft ==
  /\ algorithm = "marco" => Marco!CollapseSetLeft
  /\ algorithm = "camsis" => Camsis!CollapseSetLeft

\* CAMSIS's proofs come in order of size, so that the first one is a minimum.
InOrderOfSize == algorithm = "camsis" => Camsis!InOrderOfSize

\* Every seed and candidate that is no SIS is excluded by what its refinement
\* adds, so the enumeration ends.
Termination == <>(pc = "done")

\* Both keep the promise of a complete minimizer.
Enumeration == INSTANCE MinimalSetEnumeration WITH
  Minimal <- MSIS, LeastSize <- SmallestSIS,
  reported <- minimalProofs, announced <- minimumProof, returned <- pc = "done"

ImplementsEnumeration == Enumeration!Spec

================================================================================
