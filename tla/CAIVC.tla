--------------------------------- MODULE CAIVC ---------------------------------
(******************************************************************************)
(* CAIVCFinder: minimal inductive validity cores as the minimal hitting sets  *)
(* of the correction sets.  The naive variant finds all correction sets       *)
(* first; abstraction refinement finds some, takes a smallest hitting set as  *)
(* a candidate, and looks for a correction set outside of it when it is       *)
(* unsafe.  No candidate is ever shrunk.                                      *)
(*                                                                            *)
(* The two correction set finders it uses are here too: MCSFinder, exact, and *)
(* ApproximateMCSFinder, a BMC debugger of limited depth that falls back to   *)
(* IC3.  Each debugger has blocked solutions of its own.  The MaxSAT solver's *)
(* optimality is the subject of module MSU4.                                  *)
(******************************************************************************)
EXTENDS IVC

CONSTANTS
  KMax,       \* caivc_ar_bmc_kmax: the depth of the approximate finder
  NMax,       \* caivc_ar_bmc_nmax: its greatest cardinality
  Options     \* the settings of the options under consideration

\* ar: caivc_ar.  upfront_nmax: caivc_ar_upfront_nmax.  How correction sets
\* outside a candidate are found: caivc_grow_mcs, caivc_simple_mcs,
\* caivc_approx_mcs or, by default of these, the exact finder.
Setting == [ar : BOOLEAN, upfront_nmax : Nat, mcs : {"grow", "simple", "approx", "exact"},
            approx_mcs : BOOLEAN]

\* findMCSOverGates relies on every correction set that is blocked having been
\* added to the MaxSAT solver, and on those of one gate having been found.
Supported(o) == o.ar /\ o.mcs = "exact" => o.upfront_nmax = 1

VARIABLES
  opts,           \* the setting of the options
  hitting,        \* the clauses of m_solver, which selects as few gates as it can
  necessary,      \* m_necessary_gates
  exactBlocked,   \* the solutions blocked in m_finder's debuggers
  bmcBlocked,     \* those blocked in m_approx_finder's m_solver
  ic3Blocked,     \* those blocked in its m_fallback
  cardinality,    \* the cardinality of the first loop
  mivcs,          \* m_mivcs
  minimum,        \* m_minimum_ivc, {} while empty
  candidate,      \* the candidate; mss while findMCSOverGatesByGrow grows it
  todo,           \* the gates findMCSOverGatesByGrow has still to try
  pc              \* where doFindIVCs is

finderVars == <<exactBlocked, bmcBlocked, ic3Blocked>>
resultVars == <<mivcs, minimum>>
vars == <<opts, hitting, necessary, finderVars, cardinality, resultVars, candidate, todo, pc>>

Found == { mivcs[i] : i \in DOMAIN mivcs }

AllDepths == { x.depth : x \in Counterexamples }

--------------------------------------------------------------------------------
(* The correction set finders.                                                *)

\* MCSFinder's m_solver at cardinality n, and m_solver_inf.
ExactSolutions(gates, n) == DebugSolutions(exactBlocked, gates, n, AllDepths)

moreCorrectionSets == ExactSolutions(Gate, NumGates) # {}

\* ApproximateMCSFinder: BMC to a fixed depth, and IC3.
BMCSolutions(gates, n) == DebugSolutions(bmcBlocked, gates, n, 0 .. KMax)
IC3Solutions(gates, n) == DebugSolutions(ic3Blocked, gates, n, AllDepths)

\* What a loop over the cardinalities from lo to hi returns: solutions of the
\* first that has some.
Least(Sol(_), lo, hi) ==
  UNION { Sol(n) : n \in { m \in lo .. hi :
            Sol(m) # {} /\ \A l \in lo .. m - 1 : Sol(l) = {} } }

\* findMCSOverGates: those of one gate are taken as known.
ExactOverGates(gates) ==
  LET At(n) == ExactSolutions(gates, n) IN Least(At, 2, Cardinality(gates))

\* findAndBlockOverGates of the approximate finder, and its findFallback.
BMCOverGates(gates) ==
  LET At(n) == BMCSolutions(gates, n)
  IN  Least(At, 1, IF NMax < Cardinality(gates) THEN NMax ELSE Cardinality(gates))

IC3OverGates(gates) ==
  LET At(n) == IC3Solutions(gates, n) IN Least(At, 1, Cardinality(gates))

--------------------------------------------------------------------------------

Init ==
  /\ opts \in Options
  /\ hitting = {}
  /\ necessary = {}
  /\ exactBlocked = {}
  /\ bmcBlocked = {}
  /\ ic3Blocked = {}
  /\ cardinality = 1
  /\ mivcs = <<>>
  /\ minimum = {}
  /\ candidate = {}
  /\ todo = {}
  /\ pc = "upfront"

\* A set of one gate makes that gate necessary.
NoteNecessary(C) ==
  necessary' = IF Cardinality(C) = 1 THEN necessary \union C ELSE necessary

InUpfrontLoop == pc = "upfront" /\ (opts.ar => cardinality <= opts.upfront_nmax)

\* findUpfront in abstraction refinement: the set is blocked, and no clause.
FindUpfront ==
  /\ InUpfrontLoop
  /\ opts.ar
  /\ IF opts.approx_mcs
     THEN \E C \in BMCSolutions(Gate, cardinality) :
            /\ bmcBlocked' = bmcBlocked \union {C}
            /\ NoteNecessary(C)
            /\ UNCHANGED <<exactBlocked, ic3Blocked>>
     ELSE \E C \in ExactSolutions(Gate, cardinality) :
            /\ exactBlocked' = exactBlocked \union {C}
            /\ NoteNecessary(C)
            /\ UNCHANGED <<bmcBlocked, ic3Blocked>>
  /\ UNCHANGED <<opts, hitting, cardinality, resultVars, candidate, todo, pc>>

\* Faulty: sets of one gate too become clauses.
FindNaive_Clauses ==
  /\ InUpfrontLoop
  /\ ~opts.ar
  /\ \E C \in ExactSolutions(Gate, cardinality) :
       /\ exactBlocked' = exactBlocked \union {C}
       /\ NoteNecessary(C)
       /\ hitting' = hitting \union {[neg |-> {}, pos |-> C]}
  /\ UNCHANGED <<opts, bmcBlocked, ic3Blocked, cardinality, resultVars, candidate, todo, pc>>

\* findCorrectionSet in naiveFindIVCs.
FindNaive ==
  /\ InUpfrontLoop
  /\ ~opts.ar
  /\ \E C \in ExactSolutions(Gate, cardinality) :
       /\ exactBlocked' = exactBlocked \union {C}
       /\ NoteNecessary(C)
       /\ hitting' = IF Cardinality(C) = 1 THEN hitting
                     ELSE hitting \union {[neg |-> {}, pos |-> C]}
  /\ UNCHANGED <<opts, bmcBlocked, ic3Blocked, cardinality, resultVars, candidate, todo, pc>>

\* Nothing more at this cardinality.  The naive loop ends when there are no more
\* correction sets at all.
NextCardinality ==
  /\ InUpfrontLoop
  /\ IF opts.ar /\ opts.approx_mcs
     THEN BMCSolutions(Gate, cardinality) = {}
     ELSE ExactSolutions(Gate, cardinality) = {}
  /\ cardinality' = cardinality + 1
  /\ pc' = IF opts.ar \/ moreCorrectionSets THEN "upfront" ELSE "candidate"
  /\ UNCHANGED <<opts, hitting, necessary, finderVars, resultVars, candidate, todo>>

UpfrontDone ==
  /\ pc = "upfront"
  /\ ~InUpfrontLoop
  /\ pc' = "candidate"
  /\ UNCHANGED <<opts, hitting, necessary, finderVars, cardinality, resultVars, candidate, todo>>

--------------------------------------------------------------------------------
(* Candidates.                                                                *)

\* Faulty: any hitting set.
HittingSets_AnySize == Solutions(Gate, hitting)

HittingSets == Smallest(Solutions(Gate, hitting))

\* extractIVC.
Candidates == { necessary \union S : S \in HittingSets }

\* blockMIVC: the necessary gates are in every candidate anyhow.
BlockMIVC(S) == hitting' = hitting \union {BlockUpClause(S \ necessary)}

\* setMinimumIVC for the first, addMIVC and blockMIVC.
Record(S) ==
  /\ mivcs' = Append(mivcs, S)
  /\ minimum' = IF minimum = {} THEN S ELSE minimum
  /\ BlockMIVC(S)

\* naiveFindIVCs takes every candidate for a core.
NaiveCandidate ==
  /\ pc = "candidate"
  /\ ~opts.ar
  /\ \E S \in Candidates : Record(S)
  /\ UNCHANGED <<opts, necessary, finderVars, cardinality, candidate, todo, pc>>

SafeCandidate ==
  /\ pc = "candidate"
  /\ opts.ar
  /\ \E S \in Candidates :
       /\ Safe(S)
       /\ Record(S)
  /\ UNCHANGED <<opts, necessary, finderVars, cardinality, candidate, todo, pc>>

\* findCorrectionSetOverGates looks among the gates outside the candidate.
UnsafeCandidate ==
  /\ pc = "candidate"
  /\ opts.ar
  /\ \E S \in Candidates :
       /\ ~Safe(S)
       /\ candidate' = S
       /\ todo' = IF opts.mcs = "grow" THEN Gate \ S ELSE {}
  /\ pc' = opts.mcs
  /\ UNCHANGED <<opts, hitting, necessary, finderVars, cardinality, resultVars>>

NoCandidate ==
  /\ pc = "candidate"
  /\ HittingSets = {}
  /\ pc' = "done"
  /\ UNCHANGED <<opts, hitting, necessary, finderVars, cardinality, resultVars, candidate, todo>>

Refine(C) ==
  /\ hitting' = hitting \union {[neg |-> {}, pos |-> C]}
  /\ candidate' = {}
  /\ pc' = "candidate"
  /\ UNCHANGED <<opts, necessary, cardinality, resultVars, todo>>

Outside == Gate \ candidate

RefineSimple ==
  /\ pc = "simple"
  /\ Refine(Outside)
  /\ UNCHANGED finderVars

RefineExact ==
  /\ pc = "exact"
  /\ \E C \in ExactOverGates(Outside) :
       /\ exactBlocked' = exactBlocked \union {C}
       /\ Refine(C)
  /\ UNCHANGED <<bmcBlocked, ic3Blocked>>

\* A set BMC finds is blocked in the BMC debugger only, one that IC3 finds in both.
RefineApprox ==
  /\ pc = "approx"
  /\ \E C \in BMCOverGates(Outside) :
       /\ bmcBlocked' = bmcBlocked \union {C}
       /\ Refine(C)
  /\ UNCHANGED <<exactBlocked, ic3Blocked>>

RefineFallback ==
  /\ pc = "approx"
  /\ BMCOverGates(Outside) = {}
  /\ \E C \in IC3OverGates(Outside) :
       /\ ic3Blocked' = ic3Blocked \union {C}
       /\ bmcBlocked' = bmcBlocked \union {C}
       /\ Refine(C)
  /\ UNCHANGED exactBlocked

\* findMCSOverGatesByGrow adds to the candidate, in the order of the gates, each
\* that leaves it unsafe.
GrowStep ==
  /\ pc = "grow"
  /\ \E g \in todo :
       /\ \A h \in todo : g <= h
       /\ candidate' = IF Safe(candidate \union {g}) THEN candidate ELSE candidate \union {g}
       /\ todo' = todo \ {g}
  /\ UNCHANGED <<opts, hitting, necessary, finderVars, cardinality, resultVars, pc>>

RefineGrown ==
  /\ pc = "grow"
  /\ todo = {}
  /\ Refine(Outside)
  /\ UNCHANGED finderVars

Next ==
  \/ FindUpfront
  \/ FindNaive
  \/ NextCardinality
  \/ UpfrontDone
  \/ NaiveCandidate
  \/ SafeCandidate
  \/ UnsafeCandidate
  \/ NoCandidate
  \/ RefineSimple
  \/ RefineExact
  \/ RefineApprox
  \/ RefineFallback
  \/ GrowStep
  \/ RefineGrown

\* A sequential program: it runs on until it returns.
Spec == Init /\ [][Next]_vars /\ WF_vars(Next)

--------------------------------------------------------------------------------
(* Properties.                                                                *)

TypeOK ==
  /\ opts \in Options
  /\ hitting \subseteq MapClause(Gate)
  /\ necessary \subseteq Gate
  /\ exactBlocked \subseteq SUBSET Gate
  /\ bmcBlocked \subseteq SUBSET Gate
  /\ ic3Blocked \subseteq SUBSET Gate
  /\ cardinality \in Nat
  /\ mivcs \in Seq(SUBSET Gate)
  /\ minimum \subseteq Gate
  /\ candidate \subseteq Gate
  /\ todo \subseteq Gate
  /\ pc \in {"upfront", "candidate", "grow", "simple", "approx", "exact", "done"}

\* findMCSOverGates and findApproxMCSOverGates assert that they find a correction
\* set: each unsafe candidate leaves one outside of it that is not blocked.
CorrectionSetFound ==
  /\ pc = "exact" => ExactOverGates(Outside) # {}
  /\ pc = "approx" => BMCOverGates(Outside) \union IC3OverGates(Outside) # {}

\* extractIVC's assertion: the solver selects none of the necessary gates.
NecessaryNotSelected ==
  pc = "candidate" => \A S \in HittingSets : S \intersect necessary = {}

\* CAIVCFinder keeps the promise of a complete enumeration, although the first
\* candidate that is safe is announced as the minimum and none is shrunk.
Enumeration == INSTANCE MinimalSetEnumeration WITH
  Minimal <- MIVC, LeastSize <- SmallestIVC,
  reported <- mivcs, announced <- minimum, returned <- (pc = "done")

ImplementsEnumeration == Enumeration!Spec

\* The cores are reported in order of their size.
InOrderOfSize ==
  [][\A i \in DOMAIN mivcs : i < Len(mivcs') =>
       Cardinality(mivcs'[i]) <= Cardinality(mivcs'[Len(mivcs')])]_mivcs

\* findIVCs returns.
Termination == <>(pc = "done")

================================================================================
