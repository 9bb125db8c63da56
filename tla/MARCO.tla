--------------------------------- MODULE MARCO ---------------------------------
(******************************************************************************)
(* MARCOMinimizer: enumerate the minimal safe inductive subsets of a proof by *)
(* exploring the power set of its clauses.  A map, a set of clauses over one  *)
(* variable per proof clause, holds what is still unexplored; a seed is a     *)
(* solution of it, of maximum or minimum size or arbitrary as the direction   *)
(* options say.  A seed with a SIS in it is shrunk to an MSIS and everything  *)
(* above that is blocked; one without is grown and everything below the       *)
(* result is blocked; collapse sets may refine the map further.               *)
(*                                                                            *)
(* The three seed solvers always receive the same clauses, so they are one    *)
(* set here.  That the MaxSAT solvers return solutions of maximum size is the *)
(* subject of module MSU4, and that findSafeMIS computes what findSIS needs,  *)
(* that of module FindSafeMIS.                                                *)
(******************************************************************************)
EXTENDS Consecution, ClauseMap, Sequences

CONSTANT
  Options   \* the settings of the options under consideration, in Setting

\* marco_direction_up and _down: the size of the seeds.
\* marco_mcs: grow the seeds without a SIS and block them down.
\* marco_collapse: refine the map with collapse sets.
Setting == [marco_direction_up : BOOLEAN, marco_direction_down : BOOLEAN,
            marco_mcs : BOOLEAN, marco_collapse : BOOLEAN]

\* The settings for which the enumeration is complete.  With arbitrary seeds and
\* both refinements, collapseRefine works on the clauses of a grown seed.
SoundOptions ==
  { o \in Setting :
      /\ o.marco_mcs \/ o.marco_collapse
      /\ \/ o.marco_direction_up
         \/ o.marco_direction_down
         \/ ~(o.marco_mcs /\ o.marco_collapse) }

VARIABLES
  opts,              \* the setting of the options
  seedClauses,       \* the clauses of the map, in m_seed_solver_{up,down,arb}
  collapseFound,     \* the collapse sets the finder has blocked, for each clause
  seedCount,         \* m_seed_count, modulo 2: only its parity is ever used
  lowerBound,        \* m_lower_bound
  minimalProofs,     \* m_minimalProofs
  smallestProof,     \* m_smallest_proof, {} while empty
  minimumProof,      \* m_minimumProof, {} while empty
  mode,              \* doMinimize's minimum and maximum: "min", "max" or "arb"
  seed,              \* doMinimize's seed
  mis,               \* doMinimize's mis
  todo,              \* the clauses the running loop of shrink, grow or
                     \* collapseRefine has still to treat
  pc                 \* where doMinimize is

mapVars    == <<seedClauses, collapseFound, seedCount>>
resultVars == <<minimalProofs, smallestProof, minimumProof>>
workVars   == <<mode, seed, mis, todo>>
vars == <<opts, mapVars, lowerBound, resultVars, workVars, pc>>

Found == { minimalProofs[i] : i \in DOMAIN minimalProofs }

--------------------------------------------------------------------------------
(* The map.                                                                   *)

Unexplored == Solutions(ClauseID, seedClauses)

\* Faulty: the size of the seeds is not optimised.
Seeds_AnySize(m) == Unexplored

\* What getUnexplored may return: getUnexploredArb takes a variable that the
\* solver has not seen for TRUE.
Seeds(m) ==
  CASE m = "max" -> Largest(Unexplored)
    [] m = "min" -> Smallest(Unexplored)
    [] m = "arb" -> { S \in Unexplored : ClauseID \ Mentioned(seedClauses) \subseteq S }

isDirectionUp     == opts.marco_direction_up /\ ~opts.marco_direction_down
isDirectionDown   == opts.marco_direction_down /\ ~opts.marco_direction_up
isDirectionZigZag == opts.marco_direction_down /\ opts.marco_direction_up

\* isNextSeedMinimum and isNextSeedMaximum.
NextMode ==
  CASE isDirectionUp     -> "min"
    [] isDirectionDown   -> "max"
    [] isDirectionZigZag -> IF seedCount = 1 THEN "min" ELSE "max"
    [] OTHER             -> "arb"

--------------------------------------------------------------------------------

\* The constructor: the property is in every seed.
Init ==
  /\ opts \in Options
  /\ seedClauses = {SelectClause(Property)}
  /\ collapseFound = [c \in ClauseID |-> {}]
  /\ seedCount = 0
  /\ lowerBound = 0
  /\ minimalProofs = <<>>
  /\ smallestProof = {}
  /\ minimumProof = {}
  /\ mode = NextMode
  /\ seed = {}
  /\ mis = {}
  /\ todo = {}
  /\ pc = "unexplored"

\* seed, mis and unsupported are local to an iteration of doMinimize's loop.
NextIteration ==
  /\ pc' = "unexplored"
  /\ seed' = {}
  /\ mis' = {}
  /\ todo' = {}

\* Faulty: without comparing with the bound.
SetMinimum_Unbounded(p, b) ==
  minimumProof' = IF minimumProof = {} /\ p # {} THEN p ELSE minimumProof

\* setMinimumProof, called when the smallest proof p is within the bound b and
\* no minimum is known.
SetMinimum(p, b) ==
  minimumProof' = IF minimumProof = {} /\ p # {} /\ Cardinality(p) <= b
                  THEN p ELSE minimumProof

\* getUnexplored finds a seed.
NextSeed ==
  /\ pc = "unexplored"
  /\ mode' = NextMode
  /\ seed' \in Seeds(mode')
  /\ mis' = seed'
  /\ seedCount' = 1 - seedCount
  /\ IF mode' = "min"
     THEN /\ lowerBound' = Cardinality(seed')
          /\ SetMinimum(smallestProof, lowerBound')
     ELSE UNCHANGED <<lowerBound, minimumProof>>
  /\ pc' = "check"
  /\ UNCHANGED <<opts, seedClauses, collapseFound, minimalProofs, smallestProof, todo>>

\* The map has no solution: the enumeration is complete.
MapExhausted ==
  /\ pc = "unexplored"
  /\ Unexplored = {}
  /\ minimumProof' = IF minimumProof = {} THEN smallestProof ELSE minimumProof
  /\ pc' = "done"
  /\ UNCHANGED <<opts, mapVars, lowerBound, minimalProofs, smallestProof, workVars>>

\* blockUp and updateProofs of the MSIS S.
RecordMSIS(S) ==
  /\ seedClauses' = seedClauses \union {BlockUpClause(S)}
  /\ minimalProofs' = Append(minimalProofs, S)
  /\ smallestProof' = IF \/ smallestProof = {}
                         \/ Cardinality(S) < Cardinality(smallestProof)
                      THEN S ELSE smallestProof
  /\ SetMinimum(smallestProof', lowerBound)
  /\ NextIteration
  /\ UNCHANGED <<opts, collapseFound, seedCount, lowerBound, mode>>

\* What follows a seed without a SIS once it has been grown: collapseRefine of
\* its unsupported clauses, or the next seed.
AfterMCS(S) ==
  IF opts.marco_collapse
  THEN /\ pc' = "collapse"
       /\ todo' = Unsupported(S)
       /\ UNCHANGED <<seed, mis>>
  ELSE NextIteration

\* A minimum seed is not searched for a SIS but checked for being one, and
\* recorded without shrinking.
MinimumIsSIS ==
  /\ pc = "check"
  /\ mode = "min"
  /\ IsSIS(seed)
  /\ RecordMSIS(mis)

\* Any other seed is reduced to its largest inductive subset (findSIS).
SeedHasSIS ==
  /\ pc = "check"
  /\ mode # "min"
  /\ ContainsSIS(seed)
  /\ mis' = LargestInductive(seed)
  /\ todo' = mis' \ {Property}
  /\ pc' = "shrink"
  /\ UNCHANGED <<opts, mapVars, lowerBound, resultVars, mode, seed>>

\* A seed without a SIS: a maximum one is blocked as it is, others are grown.
SeedHasNoSIS ==
  /\ pc = "check"
  /\ IF mode = "min" THEN ~IsSIS(seed) ELSE ~ContainsSIS(seed)
  /\ IF opts.marco_mcs
     THEN IF mode = "max"
          THEN /\ seedClauses' = seedClauses \union {BlockDownClause(ClauseID, seed)}
               /\ AfterMCS(seed)
          ELSE /\ pc' = "grow"
               /\ todo' = ClauseID \ seed
               /\ UNCHANGED <<seedClauses, seed, mis>>
     ELSE /\ UNCHANGED seedClauses
          /\ AfterMCS(seed)
  /\ UNCHANGED <<opts, collapseFound, seedCount, lowerBound, resultVars, mode>>

\* One round of shrink's loop: try to do without c.  The clauses come in
\* increasing order, or shuffled when a random seed is set.
ShrinkStep(c) ==
  /\ pc = "shrink"
  /\ c \in todo
  /\ LET test == mis \ {c}
     IN  IF ContainsSIS(test)
         THEN /\ mis' = LargestInductive(test)
              /\ todo' = (todo \ {c}) \intersect mis'
         ELSE /\ todo' = todo \ {c}
              /\ UNCHANGED mis
  /\ UNCHANGED <<opts, mapVars, lowerBound, resultVars, mode, seed, pc>>

\* Nothing is left to try: mis is an MSIS.
ShrinkDone ==
  /\ pc = "shrink"
  /\ todo = {}
  /\ RecordMSIS(mis)

\* One round of grow's loop, in increasing order.
GrowStep(c) ==
  /\ pc = "grow"
  /\ c \in todo
  /\ \A d \in todo : c <= d
  /\ seed' = IF ContainsSIS(seed \union {c}) THEN seed ELSE seed \union {c}
  /\ todo' = todo \ {c}
  /\ UNCHANGED <<opts, mapVars, lowerBound, resultVars, mode, mis, pc>>

\* The seed is grown: block it and everything below it.  Unless the seed was a
\* minimum one, its unsupported clauses are those of the grown seed.
GrowDone ==
  /\ pc = "grow"
  /\ todo = {}
  /\ seedClauses' = seedClauses \union {BlockDownClause(ClauseID, seed)}
  /\ AfterMCS(IF mode = "min" THEN mis ELSE seed)
  /\ UNCHANGED <<opts, collapseFound, seedCount, lowerBound, resultVars, mode>>

\* One round of collapseRefine's loop.  A collapse set must be found: without
\* the assertion, the clause would go on with an empty one.
CollapseStep(c) ==
  /\ pc = "collapse"
  /\ c \in todo
  /\ \/ \E K \in NextCollapseSets(c, collapseFound[c]) :
          /\ seedClauses' = seedClauses \union {CollapseClause(c, K)}
          /\ collapseFound' = [collapseFound EXCEPT ![c] = @ \union {K}]
     \/ /\ NextCollapseSets(c, collapseFound[c]) = {}
        /\ seedClauses' = seedClauses \union {CollapseClause(c, {})}
        /\ UNCHANGED collapseFound
  /\ IF todo = {c}
     THEN NextIteration
     ELSE /\ todo' = todo \ {c}
          /\ UNCHANGED <<seed, mis, pc>>
  /\ UNCHANGED <<opts, seedCount, lowerBound, resultVars, mode>>

Next ==
  \/ NextSeed \/ MapExhausted
  \/ MinimumIsSIS \/ SeedHasSIS \/ SeedHasNoSIS
  \/ \E c \in ClauseID : ShrinkStep(c) \/ GrowStep(c) \/ CollapseStep(c)
  \/ ShrinkDone \/ GrowDone

\* minimize() runs to its end: it is sequential and every query terminates.
Spec == Init /\ [][Next]_vars /\ WF_vars(Next)

--------------------------------------------------------------------------------

TypeOK ==
  /\ opts \in Options
  /\ seedClauses \in SUBSET MapClause(ClauseID)
  /\ collapseFound \in [ClauseID -> SUBSET SUBSET ClauseID]
  /\ seedCount \in {0, 1}
  /\ lowerBound \in 0 .. NumClauses
  /\ minimalProofs \in Seq(SUBSET ClauseID)
  /\ smallestProof \in SUBSET ClauseID
  /\ minimumProof \in SUBSET ClauseID
  /\ mode \in {"min", "max", "arb"}
  /\ seed \in SUBSET ClauseID
  /\ mis \in SUBSET ClauseID
  /\ todo \in SUBSET ClauseID
  /\ pc \in {"unexplored", "check", "shrink", "grow", "collapse", "done"}

\* Every proof handed out is a minimal safe inductive subset, also the ones
\* recorded from a minimum seed, which is neither searched nor shrunk
\* (marco.cpp:159-178).
FoundAreMSISes == Found \subseteq MSIS

\* No MSIS is ever lost: every safe inductive subset is still unexplored or has
\* a recorded MSIS inside.  Blocking down a seed that was not searched for a SIS
\* (minimum mode), grown, or refined by collapse sets is therefore sound.
NothingLost ==
  \A S \in SIS : S \in Unexplored \/ \E M \in Found : M \subseteq S

\* The same MSIS is never recorded twice.
NoDuplicates ==
  \A i, j \in DOMAIN minimalProofs : minimalProofs[i] = minimalProofs[j] => i = j

\* The lower bound kept from minimum seeds bounds every SIS that is not yet
\* explained by a recorded proof, in zigzag mode as well, where maximum seeds
\* come in between; the assertion of getUnexploredMin follows (marco.cpp:442).
LowerBoundSound == \A S \in Unexplored : lowerBound <= Cardinality(S)

\* As soon as a proof is announced as the minimum, no proof is smaller: neither
\* a known one nor one still to be found (marco.cpp:224, marco.cpp:444).
MinimumCorrect == minimumProof # {} => minimumProof \in SmallestSIS \intersect Found

\* Whenever a clause is unsupported, the collapse set finder still has one to
\* offer that the map does not know: collapseRefine asserts it (marco.cpp:530).
CollapseSetLeft ==
  pc = "collapse" => \A c \in todo : NextCollapseSets(c, collapseFound[c]) # {}

================================================================================
