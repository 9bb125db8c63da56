------------------------------- MODULE UnifiedIVC ------------------------------
(******************************************************************************)
(* UnifiedIVCFinder: enumerate the minimal inductive validity cores.  Like    *)
(* MARCO it explores the power set of the gates with a map; unlike it, it may *)
(* block correction sets found beforehand, it decides the safety of a seed    *)
(* with BMC and IC3 behind two LRU caches of counterexamples and of proofs,   *)
(* it may add hints about the structure of the circuit to the map, and it may *)
(* ask a second map, without the hints, before it calls a solver.             *)
(*                                                                            *)
(* m_map's solvers for the two directions hold the same clauses and are one   *)
(* set here.  That their solutions have optimum size is the subject of module *)
(* MSU4; which sets a correction set finder returns, that of CorrectionSets.  *)
(******************************************************************************)
EXTENDS IVC

CONSTANTS
  Fanout,     \* for each gate, the gates it is an input of
  Outputs,    \* the property's output and the next-state functions, if gates
  BMCDepth,   \* isSafeBMC's bound, 16 in the code
  Options     \* the settings of the options under consideration

\* uivc_mcs_finder, uivc_map_solver, uivc_upfront_nmax, uivc_cex_cache,
\* uivc_proof_cache, uivc_shrink_cached_proofs, uivc_direction_up and _down,
\* uivc_mcs_grow, uivc_coi_hints, uivc_check_map, uivc_clever_issafe and
\* uivc_skip_uc.
Setting ==
  [mcs_finder : {"basic", "bmc"}, map_solver : {"msu4", "sat"},
   upfront_nmax : Nat, cex_cache : Nat, proof_cache : Nat, shrink_cached : BOOLEAN,
   direction_up : BOOLEAN, direction_down : BOOLEAN, mcs_grow : BOOLEAN,
   coi_hints : BOOLEAN, check_map : BOOLEAN, clever_issafe : BOOLEAN,
   skip_uc : BOOLEAN]

\* CAMUS-style enumeration: with every correction set blocked, the smallest
\* seeds need no check.  The finder based on BMC may have missed some, and seeds
\* of other sizes would be shrunk without checks.
Supported(o) ==
  o.upfront_nmax >= NumGates =>
    o.mcs_finder = "basic" /\ o.direction_up /\ ~o.direction_down

VARIABLES
  opts,          \* the setting of the options
  map,           \* the clauses of m_map
  checkMap,      \* the clauses of m_check_map
  corrBlocked,   \* the correction sets m_cs_finder has found and blocked
  lowerBound,    \* m_mivc_lb
  seedCount,     \* m_seed_count, modulo 2: only its parity is ever used
  cexes,         \* m_cexes, most recently used first
  proofs,        \* m_proofs, most recently used first
  mivcs,         \* m_mivcs
  smallest,      \* m_smallest_ivc, {} while empty
  minimum,       \* m_minimum_ivc, {} while empty
  mode,          \* handleSeed's is_minimal and is_maximal: "min", "max" or "arb"
  seed,          \* handleSeed's seed
  proof,         \* handleSeed's proof
  todo,          \* the gates the running loop of shrink or grow has still to treat
  pc             \* where doFindIVCs is

mapVars    == <<map, checkMap, corrBlocked, seedCount>>
cacheVars  == <<cexes, proofs>>
resultVars == <<mivcs, smallest, minimum>>
workVars   == <<mode, seed, proof, todo>>
vars == <<opts, mapVars, cacheVars, resultVars, lowerBound, workVars, pc>>

Found == { mivcs[i] : i \in DOMAIN mivcs }

--------------------------------------------------------------------------------
(* The caches and isSafe.                                                     *)

\* push_front, and pop_back when the cache has grown beyond its size.
CacheInsert(cache, x, size) ==
  IF size = 0 THEN cache
  ELSE SubSeq(<<x>> \o cache, 1, IF Len(cache) < size THEN Len(cache) + 1 ELSE size)

\* Faulty: the place is counted from the front after the entry was pushed there.
MoveToFront_Shifted(cache, i) ==
  IF i = 1 THEN <<cache[1]>> \o cache
  ELSE <<cache[i]>> \o SubSeq(cache, 1, i - 2) \o SubSeq(cache, i, Len(cache))

\* push_front of entry i, then erase of the place it came from.
MoveToFront(cache, i) ==
  <<cache[i]>> \o SubSeq(cache, 1, i - 1) \o SubSeq(cache, i + 1, Len(cache))

FirstHit(Hits) == CHOOSE i \in Hits : \A j \in Hits : i <= j

NoProof == [all |-> {}, part |-> {}]

\* The replies a source may give about the seed S, none if it does not know:
\* the answer, the proof, and the caches it leaves.
Reply(isSafe, p, cs, ps) == [safe |-> isSafe, proof |-> p, cexes |-> cs, proofs |-> ps]

checkUnsafetyCache(S) ==
  LET hits == { i \in DOMAIN cexes : Refutes(cexes[i], S) }
  IN  IF hits = {} THEN {}
      ELSE { Reply(FALSE, NoProof, MoveToFront(cexes, FirstHit(hits)), proofs) }

\* Faulty: the proof returned is the one that was in front before.
checkSafetyCache_Front(S) ==
  LET hits == { i \in DOMAIN proofs : Proves(proofs[i], S) }
  IN  IF hits = {} THEN {}
      ELSE { Reply(TRUE, proofs[1], cexes, MoveToFront(proofs, FirstHit(hits))) }

checkSafetyCache(S) ==
  LET hits == { i \in DOMAIN proofs : Proves(proofs[i], S) }
      i    == FirstHit(hits)
  IN  IF hits = {} THEN {}
      ELSE { Reply(TRUE, proofs[i], cexes, MoveToFront(proofs, i)) }

UnsafeReplies(X) ==
  { Reply(FALSE, NoProof, CacheInsert(cexes, x, opts.cex_cache), proofs) : x \in X }

isSafeBMC(S) == UnsafeReplies(Shortest(Refuters(S, BMCDepth)))

\* cacheProof: what SISIMinimizer leaves of a proof of S may rest on more gates,
\* but over S no part of it is a proof.
ShrunkProofs ==
  [ S \in IVCs |-> { p \in ProofsOver[S] : p.part \subseteq S => p.part = p.all } ]

isSafeIC3(S) ==
  IF Safe(S)
  THEN { Reply(TRUE, pq[1], cexes, CacheInsert(proofs, pq[2], opts.proof_cache)) :
         pq \in IF opts.shrink_cached THEN ProofsOver[S] \X ShrunkProofs[S]
                ELSE { <<p, p>> : p \in ProofsOver[S] } }
  ELSE UnsafeReplies({ x \in Counterexamples : Refutes(x, S) })

FirstOf(R1, R2) == IF R1 # {} THEN R1 ELSE R2

shouldCheckSafety == opts.upfront_nmax < NumGates

\* The order in which isSafe asks its sources.
isSafe(S, expectSafe) ==
  CASE ~shouldCheckSafety -> { Reply(TRUE, NoProof, cexes, proofs) }
    [] shouldCheckSafety /\ ~opts.clever_issafe ->
         FirstOf(checkUnsafetyCache(S), FirstOf(checkSafetyCache(S),
           FirstOf(isSafeBMC(S), isSafeIC3(S))))
    [] shouldCheckSafety /\ opts.clever_issafe /\ expectSafe ->
         FirstOf(checkSafetyCache(S), FirstOf(isSafeBMC(S), isSafeIC3(S)))
    [] OTHER ->
         FirstOf(checkUnsafetyCache(S), FirstOf(isSafeBMC(S),
           FirstOf(checkSafetyCache(S), isSafeIC3(S))))

SetCaches(reply) ==
  /\ cexes' = reply.cexes
  /\ proofs' = reply.proofs

--------------------------------------------------------------------------------
(* The maps.                                                                  *)

\* addCOIToMap: a gate needs one of the gates it feeds, outputs excepted.
COIHints ==
  { CollapseClause(g, Fanout[g]) : g \in { h \in Gate \ Outputs : Fanout[h] # {} } }

Unexplored == Solutions(Gate, map)

\* checkSeed on m_check_map.
checkSeed(S) == \A cls \in checkMap : SatisfiesClause(S, cls)

BlockBoth(cls) ==
  /\ map' = map \union {cls}
  /\ checkMap' = checkMap \union {cls}

\* getUnexplored: even seeds prefer the way down, odd ones the way up.
NextMode ==
  CASE opts.direction_down /\ (seedCount = 0 \/ ~opts.direction_up) -> "max"
    [] opts.direction_up /\ (seedCount = 1 \/ ~opts.direction_down) -> "min"
    [] ~opts.direction_up /\ ~opts.direction_down -> "arb"

\* The solvers of m_map: two MaxSAT solvers over the same clauses, or one plain SAT
\* solver, which takes a variable it has not seen for TRUE.
findMinimalSeed == Smallest(Unexplored)
findMaximalSeed == Largest(Unexplored)
findSeed ==
  IF opts.map_solver = "msu4" THEN findMaximalSeed
  ELSE { S \in Unexplored : Gate \ Mentioned(map) \subseteq S }

Seeds(m) ==
  CASE m = "max" -> findMaximalSeed
    [] m = "min" -> findMinimalSeed
    [] OTHER -> findSeed

--------------------------------------------------------------------------------
(* What the correction set finder returns: BasicMCSFinder sets of the least   *)
(* size there is, BMCCorrectionSetFinder the cut of some counterexample.      *)

Cuts == { x.cut : x \in Counterexamples }

NextCorrectionSets(gates) ==
  LET fresh == { C \in SUBSET gates : Corrects(C) /\ \A B \in corrBlocked : ~(B \subseteq C) }
  IN  IF opts.mcs_finder = "basic" THEN Smallest(fresh) ELSE fresh \intersect Cuts

\* findAll or findBatch with size n: the finder based on BMC may miss some, and
\* return some that others are subsets of.
Batches(n) ==
  IF opts.mcs_finder = "basic"
  THEN { { C \in MCS : Cardinality(C) <= n } }
  ELSE SUBSET { C \in SUBSET Gate : Corrects(C) /\ Cardinality(C) <= n }

--------------------------------------------------------------------------------

Init ==
  /\ opts \in Options
  /\ map = IF opts.coi_hints THEN COIHints ELSE {}
  /\ checkMap = {}
  /\ corrBlocked = {}
  /\ lowerBound = 0
  /\ seedCount = 0
  /\ cexes = <<>>
  /\ proofs = <<>>
  /\ mivcs = <<>>
  /\ smallest = {}
  /\ minimum = {}
  /\ mode = "arb"
  /\ seed = {}
  /\ proof = NoProof
  /\ todo = {}
  /\ pc = "upfront"

\* findMCSesUpfront.
FindMCSesUpfront ==
  /\ pc = "upfront"
  /\ corrBlocked' \in Batches(opts.upfront_nmax)
  /\ LET blocked == { BlockDownClause(Gate, Gate \ C) : C \in corrBlocked' }
     IN  /\ map' = map \union blocked
         /\ checkMap' = checkMap \union blocked
  /\ pc' = "unexplored"
  /\ UNCHANGED <<opts, lowerBound, seedCount, cacheVars, resultVars, workVars>>

\* getUnexploredMin, getUnexploredMax or getUnexploredArb finds a seed.
NextSeed ==
  /\ pc = "unexplored"
  /\ mode' = NextMode
  /\ seed' \in Seeds(mode')
  /\ seedCount' = 1 - seedCount
  /\ lowerBound' = IF mode' = "min" THEN Cardinality(seed') ELSE lowerBound
  /\ pc' = "check"
  /\ UNCHANGED <<opts, map, checkMap, corrBlocked, cacheVars, resultVars, proof, todo>>

\* The map has no solution: the enumeration is complete.
MapExhausted ==
  /\ pc = "unexplored"
  /\ Unexplored = {}
  /\ seedCount' = 1 - seedCount
  /\ minimum' = IF minimum = {} THEN smallest ELSE minimum
  /\ pc' = "done"
  /\ UNCHANGED <<opts, map, checkMap, corrBlocked, lowerBound, cacheVars, mivcs,
                 smallest, workVars>>

--------------------------------------------------------------------------------
(* handleSeed.                                                                *)

\* seed and proof are local to handleSeed.
NextIteration ==
  /\ pc' = "unexplored"
  /\ mode' = "arb"
  /\ seed' = {}
  /\ proof' = NoProof
  /\ todo' = {}

\* Faulty: the first core found is taken for a minimum.
RecordMIVC_First(S) ==
  /\ mivcs' = Append(mivcs, S)
  /\ smallest' = IF smallest = {} \/ Cardinality(S) < Cardinality(smallest)
                 THEN S ELSE smallest
  /\ minimum' = IF minimum = {} THEN S ELSE minimum

\* recordMIVC, and what follows it: S is a minimum when it meets the bound.
RecordMIVC(S) ==
  /\ mivcs' = Append(mivcs, S)
  /\ smallest' = IF smallest = {} \/ Cardinality(S) < Cardinality(smallest)
                 THEN S ELSE smallest
  /\ minimum' = IF minimum = {} /\ Cardinality(S) = lowerBound THEN S ELSE minimum

\* refineSafe's blockUp and refineUnsafe's blockDown end an iteration.
FinishSafe(S) ==
  /\ BlockBoth(BlockUpClause(S))
  /\ RecordMIVC(S)
  /\ NextIteration
  /\ UNCHANGED <<opts, corrBlocked, lowerBound, seedCount>>

FinishUnsafe(S) ==
  /\ BlockBoth(BlockDownClause(Gate, S))
  /\ NextIteration
  /\ UNCHANGED <<opts, lowerBound, seedCount, resultVars>>

\* A safe seed of least size is a core already.
SafeMinimalSeed ==
  /\ pc = "check"
  /\ mode = "min"
  /\ \E reply \in isSafe(seed, FALSE) : reply.safe /\ SetCaches(reply)
  /\ FinishSafe(seed)

\* Any other safe seed is shrunk.
SafeSeed ==
  /\ pc = "check"
  /\ mode # "min"
  /\ \E reply \in isSafe(seed, mode = "max") :
       /\ reply.safe
       /\ SetCaches(reply)
       /\ proof' = IF opts.skip_uc THEN NoProof ELSE reply.proof
  /\ todo' = seed
  /\ pc' = IF opts.skip_uc THEN "shrink" ELSE "core"
  /\ UNCHANGED <<opts, mapVars, lowerBound, resultVars, mode, seed>>

\* An unsafe seed of greatest size is as large as can be.
UnsafeMaximalSeed ==
  /\ pc = "check"
  /\ mode = "max"
  /\ \E reply \in isSafe(seed, TRUE) : ~reply.safe /\ SetCaches(reply)
  /\ FinishUnsafe(seed)
  /\ UNCHANGED corrBlocked

\* Any other unsafe seed is grown.
UnsafeSeed ==
  /\ pc = "check"
  /\ mode # "max"
  /\ \E reply \in isSafe(seed, FALSE) : ~reply.safe /\ SetCaches(reply)
  /\ todo' = Gate \ seed
  /\ pc' = IF opts.mcs_grow THEN "correct" ELSE "grow"
  /\ UNCHANGED <<opts, mapVars, lowerBound, resultVars, mode, seed, proof>>

\* IVCUCBFFinder::shrinkUC keeps the gates of a core over which what is left of
\* the proof is still inductive; all when that leaves the initial states unsafe.
\* So it does with its assertions off and a proof that is not inductive.
ShrinkUC ==
  /\ pc = "core"
  /\ seed' \in { C \in SUBSET seed : Proves(proof, C) } \union {seed}
  /\ todo' = seed'
  /\ proof' = NoProof
  /\ pc' = "shrink"
  /\ UNCHANGED <<opts, mapVars, cacheVars, resultVars, lowerBound, mode>>

\* Gates are tried in the order of the seed: that of the model, unless the seed
\* is a core.
NextInSeed == IF opts.skip_uc THEN { g \in todo : \A h \in todo : g <= h } ELSE todo

\* The second map, if it is asked, knows that S is not safe.
KnownUnsafe(S) == opts.check_map /\ ~checkSeed(S)

\* One round of shrink's loop: the gate stays when the map or a check says so.
ShrinkKeepsByMap ==
  /\ pc = "shrink"
  /\ \E g \in NextInSeed :
       /\ KnownUnsafe(seed \ {g})
       /\ todo' = todo \ {g}
  /\ UNCHANGED <<opts, mapVars, cacheVars, resultVars, lowerBound, mode, seed, proof, pc>>

ShrinkStep ==
  /\ pc = "shrink"
  /\ \E g \in NextInSeed :
       /\ ~KnownUnsafe(seed \ {g})
       /\ \E reply \in isSafe(seed \ {g}, TRUE) :
            /\ seed' = IF reply.safe THEN seed \ {g} ELSE seed
            /\ SetCaches(reply)
       /\ todo' = todo \ {g}
  /\ UNCHANGED <<opts, mapVars, resultVars, lowerBound, mode, proof, pc>>

\* The seed is a minimal core.
ShrinkDone ==
  /\ pc = "shrink"
  /\ todo = {}
  /\ FinishSafe(seed)
  /\ UNCHANGED cacheVars

\* growByMCS: the complement of a correction set among the gates left out.
GrowByMCS ==
  /\ pc = "correct"
  /\ \E C \in NextCorrectionSets(Gate \ seed) :
       /\ corrBlocked' = corrBlocked \union {C}
       /\ FinishUnsafe(Gate \ C)
  /\ UNCHANGED cacheVars

\* One round of growByBruteForce's loop, in the order of the gates.  A gate is
\* left out when the map has blocked the seed with it, or that is safe.
NextToGrow == { g \in todo : \A h \in todo : g <= h }

GrowStep ==
  /\ pc = "grow"
  /\ \E g \in NextToGrow :
       /\ IF KnownUnsafe(seed \union {g})
          THEN UNCHANGED <<seed, cacheVars>>
          ELSE \E reply \in isSafe(seed \union {g}, FALSE) :
                 /\ seed' = IF reply.safe THEN seed ELSE seed \union {g}
                 /\ SetCaches(reply)
       /\ todo' = todo \ {g}
  /\ UNCHANGED <<opts, mapVars, resultVars, lowerBound, mode, proof, pc>>

GrowDone ==
  /\ pc = "grow"
  /\ todo = {}
  /\ FinishUnsafe(seed)
  /\ UNCHANGED <<corrBlocked, cacheVars>>

Next ==
  \/ FindMCSesUpfront
  \/ NextSeed
  \/ MapExhausted
  \/ SafeMinimalSeed
  \/ SafeSeed
  \/ UnsafeMaximalSeed
  \/ UnsafeSeed
  \/ ShrinkUC
  \/ ShrinkKeepsByMap
  \/ ShrinkStep
  \/ ShrinkDone
  \/ GrowByMCS
  \/ GrowStep
  \/ GrowDone

\* A sequential program: it runs on until it returns.
Spec == Init /\ [][Next]_vars /\ WF_vars(Next)

--------------------------------------------------------------------------------
(* Properties.                                                                *)

\* handleSeed's assertions: m_mivc_lb exceeds neither the size of a seed, nor
\* that of what shrink makes of it, nor that of a core still to be found.
LowerBoundSound ==
  /\ pc \in {"check", "core", "shrink"} => Cardinality(seed) >= lowerBound
  /\ \A S \in MIVC \ Found : Cardinality(S) >= lowerBound

\* Unless isSafe skips a cache that knows the answer, no entry is held twice: a
\* hit moves its entry to the front, and only a miss inserts one.
Distinct(cache) == \A i, j \in DOMAIN cache : cache[i] = cache[j] => i = j

CacheEntriesDistinct == ~opts.clever_issafe => Distinct(cexes) /\ Distinct(proofs)

\* The proof that shrinkUC receives proves the seed it shrinks, whether IC3 made
\* it for this seed or the cache for another.
ProofOfSeed == pc = "core" => proof.all \in IVCs /\ Proves(proof, seed)

\* All its clauses are inductive over the seed, as findMinimalSupport asserts of
\* those that SimpleMinimizer reaches, and MUSFinder of them all.
ProofInductive == pc = "core" => Inductive(proof, seed)

\* "Check if the size is equal to the lower bound, indicating that it is an
\* SMIVC" (unified_ivc.cpp:265).
MinimumIsSmallest == minimum # {} => minimum \in SmallestIVC

\* With both directions on, m_mivc_lb may exceed the size of a core that was not
\* announced when it was found: the minimum announced is not always one, but
\* m_smallest_ivc is in the end.
ZigZag   == opts.direction_up /\ opts.direction_down
Promised == IF ~ZigZag THEN minimum ELSE IF pc = "done" THEN smallest ELSE {}

\* UnifiedIVCFinder keeps the promise of a complete enumeration.
Enumeration == INSTANCE MinimalSetEnumeration WITH
  Minimal <- MIVC, LeastSize <- SmallestIVC,
  reported <- mivcs, announced <- Promised, returned <- (pc = "done")

ImplementsEnumeration == Enumeration!Spec

\* findIVCs returns.
Termination == <>(pc = "done")

================================================================================
