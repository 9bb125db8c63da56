# A TLA+ verification development for pme

pme (ryanberryhill/pme) is a C++ program that minimizes proofs of hardware safety
properties and extracts minimal inductive validity cores (MIVCs) from circuits.
This directory models its algorithms in TLA+, checks them with TLC and proves
theorems about them with TLAPS. Paths below are relative to the repository root;
the program proper is under `src/pme/` and its tests under `tests/`.

## 1. Inventory

pme is sequential: one thread, no signals, nothing persisted but the files it
writes at the end. Its difficulty lies elsewhere, in state that is kept between
queries (bounds, caches, cores, blocked sets, frames, watches, iterators into
containers that shrink) and in results that are used without being verified because
an argument says they must be right. The nondeterminism of the models is what the
code cannot foresee: which model or core a SAT solver returns, the order in which a
caller makes its calls, when a solver restarts or forgets learnt clauses, and the
shuffling of clauses when a random seed is set.

| Component | State it keeps | Operations | What makes it correct |
|---|---|---|---|
| ConsecutionChecker (`engine/consecution_checker.cpp`) | clauses, lazily built SAT solver with activation literals | `solve`, `supportSolve`, `isInductive` | answers are those of the transition relation |
| CollapseSetFinder (`engine/collapse_set_finder.cpp`) | a MaxSAT solver per clause with the sets it has blocked | `find`, `findAndBlock` | every unsupported clause still has a set |
| findSafeMIS (`util/find_safe_mis.cpp`) | the vector it reduces, an iterator, a flag | one procedure | leaves the largest inductive subset, or none has the necessary clauses |
| findMinimalSupport (`util/find_minimal_support.cpp`) | the frame it reduces, an iterator | one procedure | result supports the clause |
| ProofMinimizer (`minimization/minimization.cpp`) | proofs found, the minimum | `addMinimalProof`, `setMinimumProof` | proofs are MSISes, the minimum is one |
| MARCOMinimizer (`minimization/marco.cpp`) | map solvers, collapse finder, lower bound, seed count, smallest proof | seeds, shrink, grow, block, refine | finds every MSIS once and a minimum, and ends |
| CAMSISMinimizer (`minimization/camsis.cpp`) | MaxSAT map, collapse finder | refine, extract, block | as MARCO, in order of size |
| SISIMinimizer, BruteForceMinimizer (`minimization/sisi.cpp`, `brute_force.cpp`) | necessary and feasible clauses | refineNEC, refineFEAS, brute force | one MSIS |
| SimpleMinimizer (`minimization/simple.cpp`) | queue and set of collected clauses | one loop | a safe inductive subset |
| MSU4MaxSATSolver (`util/maxsat_solver.cpp`) | clauses, assumptions, cores, two bounds, cardinality network, counters for periodic resets | `addClause`, `addForOptimization`, `solve` | answers stay optimal between calls |
| PBOMaxSATSolver (same file) | last cardinality for every set of assumptions | the same, and `assumpSolve` | the same |
| MapSolvers (`util/map_solver.cpp`) | solvers for maximum, minimum and arbitrary seeds, built when first used | `blockUp`, `blockDown`, `findSeed`, `checkSeed` | all see the same blocked regions |
| HittingSetFinder, MUSFinder (`util/`) | sets, blocked solutions; groups, cores | `addSet`, `solve`, `renew`; `findMUS` | minimum hitting set; minimal core |
| Cardinality constraints, sorting networks (`util/`) | inputs, outputs, the tree of a totalizer and which nodes are clean | `addInput`, `setCardinality`, `assumeLEq`, `assumeGEq`, `CNFize` | the assumptions count, also after growth |
| UnifiedIVCFinder (`ivc/unified_ivc.cpp`) | map, LRU caches of counterexamples and proofs, lower bound | seeds, cached safety checks, shrink, grow | MIVCs, each once; a minimum |
| CAIVCFinder, MARCOIVCFinder, IVCBFFinder, IVCUCBFFinder (`ivc/`) | map or hitting-set solver, necessary gates | enumerate or shrink | the same; one MIVC |
| CorrectionSetFinder (`ivc/correction_set_finder.cpp`) | current and exhausted cardinality, maximum depth, blocked sets | `findNext`, `findBatch`, `moreCorrectionSets`, `block` | what counts as searched is; no set is lost |
| BMCDebugger, HybridDebugger, IC3Debugger (`util/`) | cardinality, blocked solutions, a solver kept between calls | `setCardinality`, `debug`, `debugOverGates`, `block` | answers are those of the circuit with gates freed |
| BMCSolver, HybridSafetyChecker (`bmc/`, `util/`) | unrolled solvers | `solve`, `prove` | answers up to the bound |
| IC3Solver, InductiveTrace, FrameSolver, UNSATCoreLifter (`ic3/`) | frames of lemmas, obligations, the clauses the solvers have | `prove`, restricting initial states, blocking, generalizing, pushing | safe with an inductive proof, or unsafe with a trace |
| TransitionRelation, DebugTransitionRelation (`engine/`) | latches, gates, constraints | building from an AIG or from some of the gates | a gate left out is an input; a freed gate is one while its debug latch is set |
| SATAdaptor, ClauseDeduplicatingSATAdaptor (`engine/sat_adaptor.cpp`), SAT::Solver (`src/sat/`) | numbers of IDs and groups, clauses seen | `addClause`, `groupSolve`, `solve` | the promise of a SAT solver |
| minisat and glucose (`src/sat/solvers/`) | trail, watches, learnt clauses; eliminated variables | `addClause`, `solve`; `eliminate` | the same promise, whatever the heuristics |
| AIGER library (`src/aiger/aiger.c`) and `save_subcircuit` (`src/main/main.c`) | the AIG being built, a reader's position | `aiger_add_*`, `aiger_check`, `aiger_reencode`, write, read | a file is the AIG written; a saved IVC behaves as its gates do |
| Engine, options, logging, C API, main | results of the last command | dispatch, I/O | none of interest here |

Components call each other directly; there are no callbacks. A minimizer owns a
ConsecutionChecker and calls findSafeMIS, findMinimalSupport and a
CollapseSetFinder; the latter, CAMSIS and MARCO use MaxSAT solvers; a MaxSAT solver
uses a cardinality constraint. The IVC finders use IC3, BMC, map solvers and
correction set finders, these the debuggers, and UnifiedIVCFinder uses SISIMinimizer
to shrink the proofs it caches. IC3Debugger keeps one IC3Solver. All of them reach a
SAT solver through a SATAdaptor. The command line reads a circuit with the AIGER
library, and saves the IVCs found with it.

`PROJECT.json` lists the hazards of this code by line, with the property that would
catch each one, or why there is none.

## 2. Modules

| Module | Models | Correspondence |
|---|---|---|
| `Consecution` | the questions asked of the transition relation | A clause is its index. The relation is a set of steps, each the set of clauses true before (`pre`) and after (`post`); every consecution relation between sets of clauses arises so. A failed query's model is an element of `Counterexample`. |
| `ClauseMap` | clauses over selection variables | `SatisfiesClause`, maximum and minimum solutions, and the clauses that block up, block down and collapse. |
| `FindSafeMIS` | `findSafeMIS` | One action per iteration of the inner loop; `it` is the position of the iterator by clause index. `RemoveClause` includes `removeSATClauses`. |
| `MinimalSupport` | `findMinimalSupport` | One action per visit of the loop. |
| `MARCO` | `MARCOMinimizer` | One action for each query of `doMinimize`, `shrink`, `grow` and `collapseRefine`; the calls after the query, blocking and recording, are part of it. |
| `CAMSIS` | `CAMSISMinimizer` | As MARCO; a candidate's refinement is one action per unsupported clause. |
| `SISI`, `SimpleMinimizer` | `SISIMinimizer`, `BruteForceMinimizer`, `SimpleMinimizer` | One action per clause of each loop; per element taken from the queue. |
| `Enumerators` | the choice between `MARCO` and `CAMSIS` | One is picked in `Init` and runs; what only the other has stutters. |
| `Minimizers` | the choice among `FindSafeMIS`, `MinimalSupport`, `SISI` and `SimpleMinimizer` | One is picked in `Init` and runs; the others stutter. |
| `MinimalSetEnumeration` | the promise of a complete minimizer or IVC finder | Implemented by `Enumerators` with MSISes, by `FindIVCs` with cores. |
| `MaxSATSolver` | the promise of a MaxSAT solver | Implemented by `MSU4` and `PBO`. |
| `MSU4`, `PBO` | the two MaxSAT solvers | One action per call outside `solve()`, and per round of its loop. The cardinality network is its inputs and number of outputs; `encoded` is what the SAT solver knows of it. |
| `CardinalityConstraint` | the clauses of both kinds of networks | A literal is an integer, a clause a set of them; `zipperMerge` and the totalizer's tree are recursive functions, and a network counts if unit propagation from its inputs fixes the outputs. |
| `Finders` | `HittingSetFinder` and `MUSFinder` | One action per call, and per step of the deletion loop of `findMUS`. A vector of distinct numbers in order is `InOrder` of their set. |
| `MapSolver` | the classes behind that interface | One action per call. |
| `Utilities` | the choice among `MSU4` ... `MapSolver` | As `Minimizers`; calls come in every order. |
| `IVC` | partial models | A counterexample is its depth and its cut, the gates it does not compute. |
| `IVCFinders` | `MARCOIVCFinder`, `IVCBFFinder`, `IVCUCBFFinder` | One action per safety query, with what is recorded and blocked after it. |
| `UnifiedIVC` | `UnifiedIVCFinder` | One action per seed or step of shrinking and growing; `isSafe` is part of it, with both caches, sequences of entries in order of use. |
| `CAIVC` | `CAIVCFinder` with `MCSFinder` and `ApproximateMCSFinder` | One action per candidate, refinement or set found upfront. |
| `FindIVCs` | `Engine::findIVCs` | The choice among the three modules above. |
| `CorrectionSets` | `BasicMCSFinder`, `BMCCorrectionSetFinder`, over `BMCDebugger`, `HybridDebugger` | One action per call and per query of a debugger. |
| `IC3Solver` | IC3, with `TransitionRelation`, `DebugTransitionRelation`, `InductiveTrace`, `FrameSolver` and the lifter | `System` makes the transition system IC3 sees of an AIG. A cube is a set of literals over latches, a lemma a cube with its level. One action per query: popping an obligation with what is learnt or requeued, one literal of a generalization, one frame pushed. |
| `IC3Debugger` | `IC3Debugger` and the client's calls | Restrictions of the initial states for one call, on a solver that is kept. |
| `SATSolver` | the promise of a SAT solver | Implemented by `CDCL`, `SimpSolver` and `SATAdaptor`. |
| `CDCL` | the search of minisat and of glucose | One action per visit of a watcher, conflict, decision, restart, `simplify` and `reduceDB`. A clause is a set with two watched literals. What differs between the two is chosen by `glucose`. |
| `SimpSolver` | minisat's `SimpSolver` | One action per subsumption check and per elimination. |
| `SATAdaptor` | the adaptors | One action per call. |
| `Aiger` | the AIGER library, `save_subcircuit` | An AIG is built, written, read back, a subcircuit saved and read again; one action per gate or line that is read, so that an error stops it where it does in the code. A binary gate is the bytes of its deltas. |
| `Libraries` | the choice among `CDCL`, `SimpSolver`, `SATAdaptor` and `Aiger` | As `Minimizers`. |
| `SharedTheorems`, `MinimizersProofs`, `EnumeratorsProofs`, `FindIVCsProofs`, `CorrectionSetsProofs`, `UtilitiesProofs`, `IC3Proofs`, `LibrariesProofs` | | Theorems, section 5. |
| `MC*` | | Instances for TLC. |

How they fit together. Each layer is checked against a promise, and the layer above
takes the promise as one step: `CDCL` implements `SATSolver`, which `SATAdaptor`
takes and implements; `MSU4` and `PBO` query a solver that keeps it, and implement
`MaxSATSolver` (the mapping is at the end of `Utilities`); `MARCO` and `CAMSIS` take `Largest` and `Smallest` solutions as one
step, `FindSafeMIS` shows that its loop leaves `LargestInductive(S)`, which they and
`SISI` use. `IC3Debugger` shows that its answers are exact, as `CorrectionSets`
takes them, and `UnifiedIVC` takes what those promise. The modules that choose among
components run one of them at a time, so that one run covers components which share
no state.

Operators named `<Definition>_<Variant>`, marked "Faulty", are not part of the
models. They are plausible mistakes, each of which breaks a property named in
`PROJECT.json`, and they show that the property depends on the definition.

## 3. What the runs check

Deadlock is checked in `Minimizers`. The other configurations say that the program
may stop, because procedures return and scripts of calls end.

| Run | Question | Result |
|---|---|---|
| `Enumerators` | MARCO with maximum, minimum, alternating and arbitrary seeds and every supported combination of the refinements; both variants of CAMSIS | what is recorded is an MSIS though neither shrunk nor checked, nothing is lost, bounds, minimum and order of sizes are right, collapse sets are left; terminates; implements `MinimalSetEnumeration` |
| `Minimizers` | SISI, brute force and simple minimizer; every frame handed to findMinimalSupport; every argument and set of necessary clauses, over five clauses, handed to findSafeMIS | one MSIS, or a safe inductive subset, a support, the largest inductive subset; they terminate |
| `Utilities` | every sequence of calls of MSU4, PBO, hitting sets, MUSes, maps and networks | answers are right after every call, networks count, also when grown; the MaxSAT solvers implement `MaxSATSolver`; every call returns |
| `FindIVCs` | all IVC finders with every supported option | no core is lost, cached answers are answers for this seed, bounds are right, searches find what they assert; implements `MinimalSetEnumeration`; ends |
| `CorrectionSets` | every sequence of three calls of both finders | what is remembered as searched is, debuggers keep what is blocked, answers are what callers rely on; calls return |
| `IC3Debugger` | sequences of calls of IC3Debugger, and IC3 on all partial models of a circuit | lemmas hold where the trace says, every assertion of the trace holds, answers are exact; calls return |
| `Libraries` | the SAT layers with restarts and forgetting at any moment; AIGs in every order of their variables, damaged files | invariants of the search, elimination keeps the meaning, files survive the round trip or are refused; the SAT layers implement `SATSolver` |
| `UnifiedIVC_cached_proofs` | is a proof handed to the shrinking loop inductive? | **violation**: not when it comes from the cache |
| `IC3_proof` | is a proof of IC3 inductive? | **violation**: not always |
| `UnifiedIVC_zigzag` | is the minimum announced with both directions on one? | **violation**: not always |
| `MARCOIVC_hints` | does MARCOIVCFinder report every core with its hints on? | **violation**: a core can be lost |
| `MARCOIVC_empty_seed` | does MARCOIVCFinder only block seeds that are not empty? | **violation**: not when every other seed is safe or excluded by a hint |

Options that choose behaviour (`marco_direction_up`, `camsis_ar`, `uivc_*`,
`mcs_*`, ...) are variables that keep the value they have initially, so that one run
covers every setting. What is excluded: MARCO's settings outside `SoundOptions`
(below), and in `FindIVCs` those that `SupportedAssumption` excludes. For CAIVCFinder,
`findMCSOverGates` of the exact finder relies on every blocked set having become a
clause and on those of one gate having been found, which other bounds of the upfront
search do not give; `Supported` in `CAIVC` and in `UnifiedIVC` says so of each. With both
directions on, UnifiedIVCFinder is checked to announce what `Promised` says, the
smallest core found, and not the minimum (`UnifiedIVC_zigzag`).

### The five violations

* `UnifiedIVC_cached_proofs`. `checkSafetyCache` finds that part of a cached proof is
  a safe inductive subset for this seed, throws the part away and returns the whole
  proof (`src/pme/ivc/unified_ivc.cpp:624-631`). `shrinkUC` then asserts of all its
  clauses what holds of the part only. In a build without assertions the core is not
  reduced; the answer stays a core, as the run `FindIVCs` shows with the same caches.
* `IC3_proof`. `generalizeIteration` drops a literal, and the core that is left is
  made to exclude the initial states with the cube that still has the literal
  (`src/pme/ic3/ic3_solver.cpp:453`). The literal may come back in place of others, and
  consecution was checked for none of what results. It takes three latches. Answers are
  right all the same: lemmas hold in the states their frame stands for and the clauses
  returned hold in all that can be reached, which `IC3Proofs` proves of this code. They
  are not a proof that a checker accepts.
* `UnifiedIVC_zigzag`. `handleSeed` announces a safe seed of least size among those left,
  unless a minimum is known (`src/pme/ivc/unified_ivc.cpp:253-270`). With both
  directions on, a core found from a maximal seed is compared with the lower bound of
  that moment only. Once the bound has passed its size, a larger core is announced.
  `m_smallest_ivc` is right throughout.
* `MARCOIVC_hints`. `addExploreHints` looks at the gates a gate feeds, and not at latches
  or the property (`src/pme/ivc/marco_ivc.cpp:280-317`). A gate that is also a
  next-state function may be in a core without any of these gates, and the core is lost
  when another one is found first. UnifiedIVCFinder's hints except such gates.
* `MARCOIVC_empty_seed`. `blockDown` asserts that the seed is not empty
  (`src/pme/ivc/marco_ivc.cpp:254`). If every other seed is safe or excluded by a hint, as
  with two gates of which the second is the only core and the first feeds just that one,
  the empty seed is the last one left and comes to be blocked. Without assertions the map is exhausted as it should be. The
  circuit of the run `FindIVCs` has other unsafe seeds, so the case does not come up there
  and its property `AssertionsHold` does not speak of it; `EmptySeedIsExcluded` proves
  when the assertion holds.

Other observations, from runs made while the models were written:

* With neither direction chosen and both `marco_mcs` and `marco_collapse` on, the
  assertion in `collapseRefine` (`src/pme/minimization/marco.cpp:530`) can fail: a seed is
  grown before its unsupported clauses are collected, and a later one need not satisfy
  the collapse clauses found for them. `SoundOptions` leaves the setting out.
* `findMinimalSupport` builds a frame without the clause it tries to do without and
  then queries with the frame that has it (`src/pme/util/find_minimal_support.cpp:50-54`).
  The result supports the clause but need not be minimal.
* `findBatch` gives a cardinality up at a depth `k` it has not searched, and keeps that
  `k` as the new maximum (`src/pme/ivc/correction_set_finder.cpp:545-550`). The next
  cardinality searches it, and can find {a, b} there; {a}, which needs as many steps,
  is found after, although the comment at line 541 says never. The caller removes sets
  that are not minimal, so that no result is wrong.
* `lemmaExists` and `lemmaIsActive` of `InductiveTrace` sort a copy of the cube and look
  up the original. Callers pass sorted cubes, so it makes no difference.
* A comment in `buildCex` (`src/pme/ic3/ic3_solver.cpp:262-264`) says that the first
  cube of a counterexample is a full state; lifted cubes are not.
* `aiger_add_reset` asserts what the reader of a file does not check
  (`src/aiger/aiger.c:421` and `:2154`): a reset that is neither constant nor the latch
  itself ends the program instead of being reported. `main` accepts circuits with
  more than one output, and `save_subcircuit` asserts that there is one
  (`src/main/main.c:232`).

### Bounds and why they are enough

* Minimizers: six clauses, five for those that enumerate. The transition sets in the
  MC modules were chosen so that the interesting cases occur: several MSISes of
  different sizes, some of them overlapping, clauses that need others besides the property, steps that falsify
  several clauses, several collapse sets per clause, and a clause of no use.
  `FindSafeMIS` and `MinimalSupport` take every argument over their clauses. `seedCount`
  in MARCO is kept modulo two because only its parity is read.
* `Utilities`: three literals and all clauses over them of the form that `MapClause`
  allows, reset periods of two: enough for a core that leaves one literal unblocked,
  for two disjoint cores, for a network that is reused and one that is not, and for
  a solver reset between. `solves` in MSU4 returns to zero at its period. Sets and
  seeds over three elements; all formulas over four groups; networks of up to seven
  inputs (`MaxInputs`), so that merges of uneven halves occur at two depths, and
  totalizers of four (`MaxTotalized`) grown in every order.
* `FindIVCs`: a circuit of five gates with three cores of two sizes, correction sets
  found at once, at depth and only by IC3, and one counterexample whose cut is not
  minimal. `BMCDepth`, `KMax` and `NMax` leave some out of BMC's reach. Caches of one
  and two entries overflow.
* `CorrectionSets`: four gates, correction sets of one, two and three gates at depths
  zero to four, `AskedSizes` of one gate, all but one and the code's infinity
  (`CardinalityInf`, any number above the number of gates), three calls (`MaxCalls`): a
  search, one among gates, and one that relies on the first.
* `IC3Debugger`: a circuit of one latch with two debug latches and three calls; eight
  states over three latches, safe and with a counterexample of eight steps; all
  partial models of a circuit of six variables. `LevelInf` is above every level
  reached; `BlockTarget` and `PushFrame` stop short of it, as the code's assertions on
  levels say. Three calls let initial states shrink and grow again with lemmas kept.
* `Libraries`: clauses on three to five variables that make learnt clauses of several
  levels, units, binary clauses and contradictions, with queries between them;
  one restart and one `reduceDB` at any moment (`MaxRestarts`, `MaxReductions`); every
  sequence of four calls of the adaptors with two groups. AIGs of five variables,
  with every permutation of the numbers, so that gates come before what they read
  and all that reencoding does is needed; every set of gates as an IVC; damaged files
  of both formats. Differences of more than one byte are checked on `TheNumbers`.

### Fairness

`WF` of the next step for the procedures: a sequential procedure that can take a step
takes it, and each SAT query terminates. Where a client calls operations, only the
steps inside a call are fair: nobody has to call. No strong fairness is used
anywhere, and none of the choices a SAT solver makes is assumed fair, so
termination holds whatever it returns. The search of `CDCL` is checked for safety
only: with restarts at any moment nothing makes it end, and the counters that make
restarts rarer are left out.

## 4. Abstractions

* Initiation (`I => c`) is assumed of every proof clause, as the code does.
* The three seed solvers of MARCO receive the same clauses; they are one variable.
  A maximum or minimum seed is any solution of maximum or minimum size.
* A core is any subset of the assumptions for which the query stays unsatisfiable, not
  necessarily a minimal one. A query whose clause is in the frame adds no copy of it.
* `marco_mcs` and `marco_collapse` both off is excluded (`OptionsAssumption`): nothing
  then blocks a seed without a SIS, and `minimize()` would ask for it for ever.
* Circuits have no AIG constraints. With constraints the hints of the IVC finders are
  not sound, since a gate that only a constraint reads looks useless, and a saved
  IVC leaves them out.
* In the IVC modules a model is its counterexamples. Whether a proof covers a seed is
  decided by the counterexamples of the seed, and which part of a cached proof is
  inductive is the choice of the model.
* In IC3 the inputs of a counterexample are left out (`obl->inputs`), and so are
  cubes of full states other than those a solver gives.
* In `CDCL` activities, phases, LBDs, the order of literals within clauses and of
  clauses in a watch list, and when to restart or to reduce are nondeterministic.
* Sorting, logging, statistics and timers are left out.

## 5. What is proved

Proofs about the minimizers hold for every number of clauses, every property index and
every set of transitions, under the assumptions named in the modules
(`ProofAssumption`: the property is a clause and steps are over clauses;
`ProofIsInductive`: the set of all clauses, the proof handed to the minimizer, is safe
and inductive). Proofs about the IVC finders hold for every number of gates, every set
of counterexamples (`CounterexamplesAssumption`: there are some, and the model as a
whole is safe) and every set of settings (`OptionsAssumption`, `SupportedAssumption`),
with caches and bounds of any size. `ConeOfInfluence` says of the circuit what it means
that a gate feeds another.

* `SharedTheorems`: facts about numbers and finite sets; what each kind of map clause
  excludes, that a non-empty set of subsets of a finite universe has a smallest element
  (`SmallestExists`), by a descent on sizes, and what remains unexplored when a clause is
  added. Of consecution, that support is monotone in the frame (`SolveMonotone`), so unions
  of inductive sets are inductive (`InductiveUnion`) and each set has a largest
  inductive subset (`LargestInductiveIs`). `ContainsSISIff`: findSIS succeeds on exactly
  the sets with a safe inductive subset. `MinimalIfIrreducible`: a safe inductive set
  from which no clause but the property can be left out is an MSIS. `CollapseClauseSound` and
  `CollapseSetIsLeft`: a collapse clause holds of every inductive set, and a clause that
  is unsupported in a set which meets all collapse sets blocked so far has another one.
* `MinimizersProofs`: the four procedures of `Minimizers`, each with an inductive
  invariant, and their five properties. None of these is inductive as it stands.
  For findSafeMIS the invariant adds that the necessary clauses are in the vector
  while the sweep runs, that clauses before the iterator are supported by the vector
  if nothing was removed in this sweep, and what holds at each return. The key step is
  `CounterexampleSpares`: a model that falsifies a query with a superset of the largest
  inductive subset satisfies every clause of the subset after the step, so dropping
  everything it falsifies never drops one of them. For SISI it adds that what has
  been kept is in every safe inductive subset of what is left, which makes the result
  minimal though `known_ind` outlives the sets it was found in; for SimpleMinimizer,
  that each collected clause is in the queue still or supported by collected ones.
* `EnumeratorsProofs`: MARCO, for the settings in `SoundOptions` (`TypeCorrect` for all),
  and both variants of CAMSIS. Each recorded set is an MSIS, none is recorded twice and
  none lost, MARCO's lower bound is one, CAMSIS's proofs come in order of size, the
  announced minimum is right, the assertions on collapse sets hold, all is found when
  `minimize()` returns, and so both implement `MinimalSetEnumeration` (`Refinement`).
  - `MarcoInv` has two parts. `MarcoCore` relates map and results: proofs found are
    blocked upwards, every SIS is unexplored or explained by a found proof, the bound
    holds of all that is unexplored. It is kept by any clause that all SISes satisfy
    (`MarcoAddClauseKeepsCore`) and by recording an MSIS below a seed
    (`MarcoRecordKeepsCore`). The rest says what `doMinimize` knows at each point
    (`MarcoCheckInv`, `MarcoShrinkInv`, `MarcoGrowInv`, ...). The two steps that need an idea:
    a minimum seed is never searched, but has no SIS inside except itself, for a smaller
    one would be unexplored (`MarcoMinimumSeed`); and collapse sets are asked for of a set
    that was a seed, so it met all earlier ones (`MarcoCollapseMayBegin`). The latter is
    what arbitrary seeds that are grown first break, the reason for the hypothesis
    `Options \subseteq SoundOptions`.
  - `CamsisInv`: that a candidate is an MSIS follows from its least size
    (`CamsisCandidateMinimal`) and, in the naive variant, from all collapse sets being in
    the solver (`CamsisPrepared`). The first proof is a smallest SIS because every SIS is
    a candidate then (`CamsisRecordKeepsCore`). No hypothesis is needed
    (`CamsisInvariance`).
* `FindIVCsProofs`: all IVC finders, with every supported option. `Invariance` states the
  inductive invariant of the finder that runs; the other theorems follow from it.
  - `UnifiedInv`, for UnifiedIVCFinder: each map clause is one that every core not yet
    found satisfies, found cores are blocked upwards, correction sets downwards; cached
    counterexamples are cuts of this circuit and cached proofs have a part that is
    inductive over some seed, each once; the bound is one; and what is known of the seed,
    its proof and the gates still to try at each point. The lemmas about the
    caches are `MoveToFrontKeeps` and `CacheInsertKeeps`: a hit permutes the entries, a
    miss adds one that was not there and drops the oldest, so entries stay distinct. A cached answer is right because
    a hit asks for a part of the proof, or the cut, to be one over this seed. The
    hints hold of every core because a core without the gates a gate feeds has no
    use for the gate (`ConeOfInfluence`).
  - `SeedsInv`, for the finders that shrink: similar, with the empty seed coming only when
    nothing else is left.
  - `HittingInv`, for CAIVCFinder: every clause to be hit belongs to a correction set apart
    from the necessary gates, each of which is a correction set by itself, and the sets
    that are blocked are among the clauses. So every core hits all of them, a safe
    hitting set of least size is a core of least size among those left, which is why
    nothing is shrunk, and an unsafe one has a correction set outside it that is new.
  - `SearchesFind` has no hypothesis. `Refinement` assumes `HintsFit`: where MARCOIVCFinder's
    hints are on, no output and no next-state function feeds a gate. Without it the
    theorem is false, as `MARCOIVC_hints` shows.
  - `EmptySeedIsExcluded` assumes `HintsFit` and `UnsafeSeedsExist`, that the hints allow
    some unsafe seed besides the empty one. Blocking that seed down excludes the empty one.
    Without the second the theorem is false, as `MARCOIVC_empty_seed` shows.

* `CorrectionSetsProofs`: both finders after every sequence of calls, for every circuit,
  every setting and any number of calls. `BlockedIsKnown`, `MemoryIsRight` and
  `CallsAnswerRight` state the three safety properties of the run. The invariant adds
  `SearchRight`, what the loops of a call have done with: nothing is left of the sizes
  before the current one, and in a search by BMC nothing of the depths before the
  current one. Among gates there is something to find. From it follows that the loops end
  at the number of gates although `CARDINALITY_INF` is their bound, that
  what BasicMCSFinder finds is minimal (`SolutionsAreMinimal`) although no debugger is asked
  for minimal sets, and that a search for all sets justifies the memory which a later
  call relies on. What stays done while more is blocked is `LessIsLeft`.
  `LargeSizes` is why `setCardinality` may drop the constraint for sizes no set exceeds.

* `UtilitiesProofs`: every sequence of calls of the utilities, for any finite set of literals
  or elements, any groups and formulas, any sets of assumptions and any periods of the
  resets. `UtilityInvariance` states the inductive invariant of the one that was picked,
  `AnswersRightInvariance` that its answers are right, and `MaxSATRefinement` that both
  MaxSAT solvers implement `MaxSATSolver`.
  - `CoreInv`, for MSU4MaxSATSolver: the invariant adds to the bounds (`CoreBounds`) what the
    query of the loop may leave out (`CoreQuery`). A solution that it leaves out, because of
    the cardinality assumption or of the hint clauses, falsifies more of the blocked
    literals than there were cores, so that it counts for the next core as well and the
    upper bound, which counts cores, holds of it too; and it is no better than the
    solution kept. Nothing is left out when the bounds are equal (`lb = ub`), which is
    where the loop stops. `CoreCounts` is the step from cores to falsified literals.
  - `LinearInv`, for PBOMaxSATSolver: what is remembered of each set of assumptions bounds
    what can be had under them, now that clauses were added since.
  - `HittingInv`: each set ever added includes one that is kept (`HittingKept`), and the
    clauses lie between those of the kept and those of the added sets. That the loop of
    `checkSubsumption` removes sets before it knows whether the new one is kept does no
    harm, because the kept sets never include each other (`HittingPassed`).
  - `MUSInv`: without any group that the iterator has passed, what is left is satisfiable.
    After a removal the groups up to the new position are some of those passed before,
    since both vectors are in order (`UpperBoundPasses`, `InOrderRight`).
  - `MapInv`: the solver's clauses exclude what callers mean (`unexplored = solutions`) and say
    nothing of elements it has not seen, so that findSeed may select these.

* `IC3Proofs`: IC3Debugger with its solver, after every sequence of calls, for every
  finite set of systems that `SystemsAssumption` allows: initial states and bad ones are
  any, debug latches keep their values. The obvious invariant, that a step from frame n
  ends in frame n + 1, is false (`IC3_proof`), so `LemmasHold` cannot be proved from it.
  What the invariant `Inv` says instead is about `Closure(n)`, the states that steps from
  states of frame n reach from the initial ones: a lemma of level n + 1 holds in none of
  them (`TraceInv`). A core that consecution gives for a cube g excludes `Closure(n)`
  when g excludes the initial states, and so does every cube that includes the core and
  excludes the initial states, whatever literals `reinitiate` puts back (`CoreAvoids`);
  that is why the lemma of line 453 is right though consecution does not hold for it.
  Frames only shrink while the restrictions stay or become more, so closures do too
  (`ClosureShrinks`), and states that n steps reach are in `Closure(n - 1)`
  (`ReachedInClosure`).
  - `QueueInv`: an obligation at level n has no state that n - 1 steps reach, so that none
    above level 0 has an initial state, and all that can be reached of it leads to a bad
    state, which makes a counterexample's first state one of a solution. The lifter's
    lemmas may be older than the trace and hold all the same (`LifterInv`).
  - `RestrictionsInv`: the restrictions are those of cardinality, blocked solutions and
    gates. Restrictions of debug latches hold at every level since the latches keep
    their values (`DebugCubeAvoids`); with more initial states the trace starts afresh.
  - `LemmasAreSound`, `ProofIsSound`, `AssertionsNeverFail` and `AnswersAreExact` follow. The
    last has the hypothesis `SolutionsRight`, that the solutions a system is given with
    are those of its steps; TLC evaluates it for the systems of the run
    (`SolutionsAssumption` in `MCIC3Debugger`).
  - `Reached` and `reinitiate` are recursive functions on numbers. That they exist is
    `RecursiveExists`, by `NaturalInduction`, which is about sets of numbers and so needs
    no operator as a parameter.

* `LibrariesProofs`: the search of minisat and glucose, for every script of calls
  (`SearchScriptsAssumption`: clauses are finite sets of literals, assumptions lists of
  them), every choice of decisions, restarts and clauses to forget. `SearchIsSound` states
  the property of the run; `SearchImplementsSAT` says that each step is one of `SATSolver`,
  the promise the adaptors and all modules above rest on, or changes nothing of it. The
  invariant `SearchInv` has these parts.
  - `TrailRight`: variables are assigned once, levels do not fall along the trail and are
    as `trail_lim` says, a reason follows from the formula and makes its literal true
    given earlier ones (`Justified`). With it `analyze` is right: going down the trail,
    the literals of the clause stay false and the clause implied (`Cut`, `ResolveStep`)
    until one of the level is left; what minimization leaves out is implied by the rest
    (`RedundantAre`), and so is what `analyzeFinal` blames on the assumptions.
  - `WatchedRight` is where the obvious statement is wrong. When a watched literal is false
    and was propagated, another literal of the clause is true; to survive `cancelUntil`,
    its level must be no higher than that of the false one. A clause learnt keeps it
    because its second watch is of the level gone back to (`BacktrackLevelIs`), a unit
    found by a visit because it is assigned at the level of the visit. From it comes
    `NothingIsMissed`, and that an assignment of all variables without conflict is a
    model.
  - `ClausesRight` and `FormulaKept`: clauses kept follow from the formula, and each clause
    ever added holds at level 0, is a tautology, or includes one that is kept, though
    `addClause`, `simplify` and `reduceDB` shorten or drop them. The latter may drop what was
    learnt, not what was added.
  - `AssumptionsRight`: the decisions of the first levels are the assumptions, in order, so
    that the conflict found for a false one is over assumptions only.
  - The loops of `analyze` and `analyzeFinal` are recursive functions down the trail;
    `RecursiveUpto` gives their equations and `InductionUpto` their invariants.

Model-checked only:

* Termination everywhere: liveness is outside the prover's reach.
* `StepsStayInFrames` of `IC3Debugger`, which is not true of every system, as said above;
  the run checks it where it shows that `pushLemmas` asks the right frame.
* That networks count (`AssumptionsCount`), which is about functions that recur over
  trees and halves of the inputs: induction over data.
* Variable elimination (`SimplificationEquivalent`), whose models are extended by a fold over
  the stack of eliminated clauses, AIGER files (`FilesRight`), and that `SimpSolver` and
  `SATAdaptor` implement `SATSolver`.

## 6. Plan

The components are modelled in this order, most important first: the consecution
queries and findSafeMIS; MARCO, CAMSIS and their promise; SISI, brute force and
simple; MSU4, PBO and theirs; networks, hitting sets, MUSes and maps; the IVC finders
and theirs; correction sets and debuggers; IC3; the SAT layers; AIGER. All that is
done. What is left:

1. Proofs: that variable elimination keeps the meaning of the clauses, and that what the
   adaptors number and deduplicate implements `SATSolver`.
2. BMCSolver's unrolling, and the activation literals of ConsecutionChecker, over
   `SATAdaptor`.
3. AIG constraints in `IC3Solver` and the IVC modules.

## 7. Not modelled

* Glucose's simplifier, its incremental and certified modes and its parallel solver,
  which no wrapper of `src/sat/` uses; the heuristics of both solvers, and memory.
* Parts of the AIGER library: comments, cones of influence, stripping of symbols,
  reading from and writing to strings, and compressed files.
* The parallel storage of clauses and names (`VariableManager`, `ClauseDatabase`), option
  parsing, logging, statistics, the C API and argument parsing. They are I/O, storage
  or forwarding.
* The unrolling in `BMCSolver`; how a counterexample is printed.
* Dead code: `IVCFinder::addBVC` and the minimal cores of branches it would keep, and
  `findFallback(unsigned)` of BMCCorrectionSetFinder
  (`src/pme/ivc/correction_set_finder.cpp:439-471`).
