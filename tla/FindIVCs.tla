------------------------------- MODULE FindIVCs -------------------------------
(******************************************************************************)
(* Engine::findIVCs: the finders that shrink seeds (module IVCFinders),       *)
(* CAIVCFinder, which goes through the hitting sets of correction sets, and   *)
(* UnifiedIVCFinder.  One is picked and runs to its end on the model; the     *)
(* variables of the others keep their first values.                           *)
(******************************************************************************)
EXTENDS IVC

CONSTANTS
  Fanout, Outputs,    \* as in module IVCFinders
  KMax, NMax,         \* as in module CAIVC
  SeedOptions,        \* the settings of MARCOIVCFinder, IVCBFFinder and IVCUCBFFinder
  HittingOptions,     \* the settings of CAIVCFinder
  BMCDepth,           \* as in module UnifiedIVC
  UnifiedOptions      \* the settings of UnifiedIVCFinder

VARIABLES
  algorithm,                                   \* which of the three runs
  opts, mivcs, minimum, todo, pc,              \* of each
  map, smallest, seed,                         \* of modules IVCFinders and UnifiedIVC
  hitting, necessary, exactBlocked, bmcBlocked, ic3Blocked, cardinality, candidate,
                                               \* of module CAIVC
  checkMap, corrBlocked, lowerBound, seedCount, cexes, proofs, mode, proof
                                               \* of module UnifiedIVC

seedVars == <<map, smallest, seed>>
hittingVars ==
  <<hitting, necessary, exactBlocked, bmcBlocked, ic3Blocked, cardinality, candidate>>
unifiedVars ==
  <<checkMap, corrBlocked, lowerBound, seedCount, cexes, proofs, mode, proof>>

vars == <<algorithm, opts, mivcs, minimum, todo, pc, seedVars, hittingVars, unifiedVars>>

Seeds == INSTANCE IVCFinders WITH Options <- SeedOptions
Hitting == INSTANCE CAIVC WITH Options <- HittingOptions
Unified == INSTANCE UnifiedIVC WITH Options <- UnifiedOptions

\* The approximate finder also serves the other ways to find correction sets
\* when its option is on.  UnifiedIVCFinder's plain SAT map throws when asked for
\* seeds of optimum size.
ASSUME OptionsAssumption ==
  /\ SeedOptions \subseteq Seeds!Setting
  /\ HittingOptions \subseteq Hitting!Setting
  /\ \A o \in HittingOptions : /\ o.mcs = "approx" => o.approx_mcs
                               /\ o.mcs = "exact" => ~o.approx_mcs
  /\ UnifiedOptions \subseteq Unified!Setting
  /\ \A o \in UnifiedOptions :
       o.map_solver = "sat" => ~o.direction_up /\ ~o.direction_down
  /\ KMax \in Nat
  /\ NMax \in Nat
  /\ BMCDepth \in Nat

\* The combinations of options that the finders are meant for.
ASSUME SupportedAssumption ==
  /\ \A o \in HittingOptions : Hitting!Supported(o)
  /\ \A o \in UnifiedOptions : Unified!Supported(o)

\* A gate that only gates outside of S use is of no use to S.
ASSUME ConeOfInfluence ==
  /\ Fanout \in [Gate -> SUBSET Gate]
  /\ Outputs \subseteq Gate
  /\ \A S \in IVCs : \A g \in S \ Outputs :
       Fanout[g] \intersect S = {} => Safe(S \ {g})

NoSeeds == map = {} /\ smallest = {} /\ seed = {}
NoHitting ==
  /\ hitting = {} /\ necessary = {} /\ cardinality = 1 /\ candidate = {}
  /\ exactBlocked = {} /\ bmcBlocked = {} /\ ic3Blocked = {}
NoUnified ==
  /\ checkMap = {} /\ corrBlocked = {} /\ lowerBound = 0 /\ seedCount = 0
  /\ cexes = <<>> /\ proofs = <<>> /\ mode = "arb" /\ proof = Unified!NoProof

\* Engine::findIVCs
Init ==
  \/ algorithm = "seeds" /\ Seeds!Init /\ NoHitting /\ NoUnified
  \/ algorithm = "hitting" /\ Hitting!Init /\ NoSeeds /\ NoUnified
  \/ algorithm = "unified" /\ Unified!Init /\ NoHitting

SeedStep ==
  /\ algorithm = "seeds"
  /\ Seeds!Next
  /\ UNCHANGED <<algorithm, hittingVars, unifiedVars>>

HittingStep ==
  /\ algorithm = "hitting"
  /\ Hitting!Next
  /\ UNCHANGED <<algorithm, seedVars, unifiedVars>>

UnifiedStep ==
  /\ algorithm = "unified"
  /\ Unified!Next
  /\ UNCHANGED <<algorithm, hittingVars>>

Next == SeedStep \/ HittingStep \/ UnifiedStep

\* A sequential program: it runs on until it returns.
Spec == Init /\ [][Next]_vars /\ WF_vars(Next)

--------------------------------------------------------------------------------
(* Properties.                                                                *)

\* UnifiedIVCFinder: a hit moves its entry to the front of the cache and only a
\* miss inserts one, so that none is held twice.
CacheEntriesDistinct == algorithm = "unified" => Unified!CacheEntriesDistinct

\* UnifiedIVCFinder: the proof that shrinkUC receives proves the seed it shrinks,
\* whether IC3 made it for this seed or the cache for another.
ProofOfSeed == algorithm = "unified" => Unified!ProofOfSeed

\* All its clauses are inductive over the seed, as findMinimalSupport asserts of
\* those that SimpleMinimizer reaches, and MUSFinder of them all.
ProofInductive == algorithm = "unified" => Unified!ProofInductive

\* The assertions on what a search found.  findMCSOverGates and
\* findApproxMCSOverGates find a correction set outside every unsafe candidate;
\* extractIVC is not given necessary gates by the solver; m_mivc_lb
\* exceeds neither the size of a seed, nor that of what shrink makes of it, nor that
\* of a core still to be found (UnifiedIVCFinder::handleSeed).
AssertionsHold ==
  /\ algorithm = "hitting" => Hitting!CorrectionSetFound /\ Hitting!NecessaryNotSelected
  /\ algorithm = "unified" => Unified!LowerBoundSound

\* The seed that MARCOIVCFinder blocks up or down is not empty, as blockUp and
\* blockDown assert (marco_ivc.cpp:247, marco_ivc.cpp:254).
BlockedSeedNotEmpty == algorithm = "seeds" => Seeds!SeedNotEmpty

\* The minimum that UnifiedIVCFinder announces is one.
MinimumIsSmallest == algorithm = "unified" => Unified!MinimumIsSmallest

\* MARCOIVCFinder, once done, has reported every core: its hints stand for the
\* influence that a gate without a gate to feed does not have.
AllCoresReported ==
  algorithm = "seeds" /\ opts.finder = "marcoivc" /\ pc = "done"
    => MIVC \subseteq Seeds!Found

\* MARCOIVCFinder, CAIVCFinder and UnifiedIVCFinder keep the promise of a complete
\* enumeration, although CAIVCFinder shrinks no candidate and announces the first
\* one that is safe as the minimum; the other two report one core, and announce no
\* minimum.  With both directions on, UnifiedIVCFinder does not keep it of what it
\* announces, but of the smallest core it has found.
Enumeration == INSTANCE MinimalSetEnumeration WITH
  Minimal <- MIVC, LeastSize <- SmallestIVC,
  reported <- mivcs,
  announced <- (IF algorithm = "unified" THEN Unified!Promised ELSE minimum),
  returned <- (pc = "done" /\ (algorithm = "seeds" => opts.finder = "marcoivc"))

ImplementsEnumeration == Enumeration!Spec

\* CAIVCFinder reports the cores in order of their size.
InOrderOfSize ==
  [][algorithm = "hitting" =>
       \A i \in DOMAIN mivcs : i < Len(mivcs') =>
         Cardinality(mivcs'[i]) <= Cardinality(mivcs'[Len(mivcs')])]_mivcs

\* findIVCs returns.
Termination == <>(pc = "done")

================================================================================
