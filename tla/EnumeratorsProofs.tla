--------------------------- MODULE EnumeratorsProofs ---------------------------
(******************************************************************************)
(* The two minimizers that enumerate.  MARCO, with any of the option settings *)
(* in SoundOptions, enumerates the minimal safe inductive subsets of every    *)
(* proof: each recorded set is one, none is recorded twice or lost, and the   *)
(* minimum announced is right.  CAMSIS, abstraction refinement or naive,      *)
(* enumerates them in order of their size, the first one being the minimum.   *)
(******************************************************************************)
EXTENDS Enumerators, SharedTheorems

--------------------------------------------------------------------------------
(* MARCO.                                                                     *)

\* It speaks of the same clauses, queries and proofs.
LEMMA MarcoQueries ==
  /\ Marco!ClauseID = ClauseID
  /\ \A S, c : Marco!Solve(S, c) <=> Solve(S, c)
  /\ \A S : Marco!IsInductive(S) <=> IsInductive(S)
  /\ \A S : Marco!IsSIS(S) <=> IsSIS(S)
  /\ \A S : Marco!Unsupported(S) = Unsupported(S)
  /\ \A S : Marco!LargestInductive(S) = LargestInductive(S)
  /\ \A S : Marco!ContainsSIS(S) <=> ContainsSIS(S)
  /\ Marco!SIS = SIS
  /\ Marco!MSIS = MSIS
  /\ \A S : Marco!Cardinality(S) = Cardinality(S)
  /\ Marco!SmallestSIS = SmallestSIS
  /\ \A c : Marco!CollapseSets(c) = CollapseSets(c)
<1>1. Marco!ClauseID = ClauseID
  BY DEF Marco!ClauseID, ClauseID
<1>2. \A S, c : Marco!Solve(S, c) <=> Solve(S, c)
  BY DEF Marco!Solve, Marco!Counterexample, Solve, Counterexample
<1>3. \A S : Marco!IsInductive(S) <=> IsInductive(S)
  BY <1>2 DEF Marco!IsInductive, IsInductive
<1>4. \A S : Marco!IsSIS(S) <=> IsSIS(S)
  BY <1>3 DEF Marco!IsSIS, IsSIS
<1>5. \A S : Marco!Unsupported(S) = Unsupported(S)
  BY <1>2 DEF Marco!Unsupported, Unsupported
<1>6. \A S : Marco!LargestInductive(S) = LargestInductive(S)
  BY <1>3
  DEF Marco!LargestInductive, Marco!InductiveSubsets, LargestInductive,
      InductiveSubsets
<1>7. \A S : Marco!ContainsSIS(S) <=> ContainsSIS(S)
  BY <1>6 DEF Marco!ContainsSIS, ContainsSIS
<1>8. Marco!SIS = SIS
  BY <1>1, <1>4 DEF Marco!SIS, SIS
<1>9. Marco!MSIS = MSIS
  BY <1>8 DEF Marco!MSIS, MSIS
<1>10. \A S : Marco!Cardinality(S) = Cardinality(S)
  BY DEF Marco!Cardinality, Cardinality
<1>11. Marco!SmallestSIS = SmallestSIS
  BY <1>8, <1>10 DEF Marco!SmallestSIS, SmallestSIS
<1>12. \A c : Marco!CollapseSets(c) = CollapseSets(c)
  BY <1>1 DEF Marco!CollapseSets, CollapseSets, Marco!Counterexample, Counterexample
<1> QED
  BY <1>1, <1>2, <1>3, <1>4, <1>5, <1>6, <1>7, <1>8, <1>9, <1>10, <1>11, <1>12

\* Maps are maps of them.
LEMMA MarcoMaps ==
  /\ \A F : Marco!Smallest(F) = Smallest(F)
  /\ \A S, cls : Marco!SatisfiesClause(S, cls) <=> SatisfiesClause(S, cls)
  /\ \A U, map : Marco!Solutions(U, map) = Solutions(U, map)
  /\ \A x : Marco!SelectClause(x) = SelectClause(x)
  /\ \A S : Marco!BlockUpClause(S) = BlockUpClause(S)
  /\ \A U, S : Marco!BlockDownClause(U, S) = BlockDownClause(U, S)
  /\ \A c, K : Marco!CollapseClause(c, K) = CollapseClause(c, K)
  /\ \A c, blocked : Marco!NextCollapseSets(c, blocked) = NextCollapseSets(c, blocked)
<1>1. \A F : Marco!Smallest(F) = Smallest(F)
  BY MarcoQueries DEF Marco!Smallest, Smallest
<1>2. \A S, cls : Marco!SatisfiesClause(S, cls) <=> SatisfiesClause(S, cls)
  BY DEF Marco!SatisfiesClause, SatisfiesClause
<1>3. \A U, map : Marco!Solutions(U, map) = Solutions(U, map)
  BY <1>2 DEF Marco!Solutions, Solutions
<1>4. /\ \A x : Marco!SelectClause(x) = SelectClause(x)
      /\ \A S : Marco!BlockUpClause(S) = BlockUpClause(S)
      /\ \A U, S : Marco!BlockDownClause(U, S) = BlockDownClause(U, S)
      /\ \A c, K : Marco!CollapseClause(c, K) = CollapseClause(c, K)
  BY
  DEF Marco!SelectClause, SelectClause, Marco!BlockUpClause, BlockUpClause,
      Marco!BlockDownClause,
         BlockDownClause, Marco!CollapseClause, CollapseClause
<1>5. \A c, blocked : Marco!NextCollapseSets(c, blocked) = NextCollapseSets(c, blocked)
  BY MarcoQueries DEF Marco!NextCollapseSets, NextCollapseSets
<1> QED
  BY <1>1, <1>2, <1>3, <1>4, <1>5

\* So the facts about them hold here too.
LEMMA MarcoSizes ==
  ASSUME NEW U, IsFiniteSet(U), NEW S \in SUBSET U
  PROVE  /\ IsFiniteSet(S)
         /\ Marco!Cardinality(S) \in Nat
         /\ \A T \in SUBSET S :
              /\ Marco!Cardinality(T) \in Nat
              /\ Marco!Cardinality(T) <= Marco!Cardinality(S)
              /\ Marco!Cardinality(S) <= Marco!Cardinality(T) => S = T
BY MarcoQueries, MarcoMaps, Sizes

LEMMA MarcoAddClauseSolutions ==
  ASSUME NEW U, NEW map, NEW cls
  PROVE  Marco!Solutions(U, map \union {cls})
           = { S \in Marco!Solutions(U, map) : Marco!SatisfiesClause(S, cls) }
BY MarcoQueries, MarcoMaps, AddClauseSolutions

LEMMA MarcoSelectClauseIff ==
  ASSUME NEW x, NEW S
  PROVE  Marco!SatisfiesClause(S, Marco!SelectClause(x)) <=> x \in S
BY MarcoQueries, MarcoMaps, SelectClauseIff

LEMMA MarcoBlockUpClauseIff ==
  ASSUME NEW M, NEW S
  PROVE  Marco!SatisfiesClause(S, Marco!BlockUpClause(M)) <=> ~(M \subseteq S)
BY MarcoQueries, MarcoMaps, BlockUpClauseIff

LEMMA MarcoBlockDownClauseIff ==
  ASSUME NEW U, NEW M, NEW S \in SUBSET U
  PROVE  Marco!SatisfiesClause(S, Marco!BlockDownClause(U, M)) <=> ~(S \subseteq M)
BY MarcoQueries, MarcoMaps, BlockDownClauseIff

LEMMA MarcoCollapseClauseIff ==
  ASSUME NEW c, NEW K, NEW S
  PROVE  Marco!SatisfiesClause(S, Marco!CollapseClause(c, K)) <=> (c \in S =>
           S \intersect K # {})
BY MarcoQueries, MarcoMaps, CollapseClauseIff

LEMMA MarcoLargestInductiveIs ==
  ASSUME NEW S
  PROVE  /\ Marco!LargestInductive(S) \subseteq S
         /\ Marco!IsInductive(Marco!LargestInductive(S))
         /\ \A T : T \subseteq S /\ Marco!IsInductive(T) =>
           T \subseteq Marco!LargestInductive(S)
BY MarcoQueries, MarcoMaps, LargestInductiveIs

LEMMA MarcoContainsSISIff ==
  ASSUME NEW S
  PROVE  /\ Marco!ContainsSIS(S) <=> \E T : T \subseteq S /\ Marco!IsSIS(T)
         /\ Marco!ContainsSIS(S) => Marco!IsSIS(Marco!LargestInductive(S))
BY MarcoQueries, MarcoMaps, ContainsSISIff

LEMMA MarcoContainsSISMonotone ==
  ASSUME NEW A, NEW B, A \subseteq B, Marco!ContainsSIS(A)
  PROVE  Marco!ContainsSIS(B)
BY MarcoQueries, MarcoMaps, ContainsSISMonotone

LEMMA MarcoClauseIDFinite == IsFiniteSet(Marco!ClauseID)
BY MarcoQueries, MarcoMaps, ClauseIDFinite

LEMMA MarcoSISSubset ==
  ASSUME NEW S
  PROVE  S \in Marco!SIS <=> S \subseteq Marco!ClauseID /\ Marco!IsSIS(S)
BY MarcoQueries, MarcoMaps, SISSubset

LEMMA MarcoMSISIsSIS == Marco!MSIS \subseteq Marco!SIS
BY MarcoQueries, MarcoMaps, MSISIsSIS

LEMMA MarcoMinimalIfIrreducible ==
  ASSUME NEW S \in SUBSET Marco!ClauseID, Marco!IsSIS(S),
         \A c \in S \ {Property} : ~Marco!ContainsSIS(S \ {c})
  PROVE  S \in Marco!MSIS
BY MarcoQueries, MarcoMaps, MinimalIfIrreducible

LEMMA MarcoCollapseClauseSound ==
  ASSUME NEW S \in SUBSET Marco!ClauseID, Marco!IsInductive(S), NEW c, NEW K \in
           Marco!CollapseSets(c)
  PROVE  Marco!SatisfiesClause(S, Marco!CollapseClause(c, K))
BY MarcoQueries, MarcoMaps, CollapseClauseSound

LEMMA MarcoCollapseSetIsLeft ==
  ASSUME NEW S \in SUBSET Marco!ClauseID, NEW c \in Marco!Unsupported(S),
         NEW blocked, \A L \in blocked : S \intersect L # {}
  PROVE  Marco!NextCollapseSets(c, blocked) # {}
BY MarcoQueries, MarcoMaps, CollapseSetIsLeft

LEMMA MarcoSmallestFoundIsSmallest ==
  ASSUME NEW found \in SUBSET Marco!SIS, NEW unexplored \in SUBSET SUBSET Marco!ClauseID,
         \A S \in Marco!SIS : S \in unexplored \/ \E M \in found : M \subseteq S,
         NEW p \in found, \A M \in found : Marco!Cardinality(p) <= Marco!Cardinality(M),
         \A S \in unexplored : Marco!Cardinality(p) <= Marco!Cardinality(S)
  PROVE  p \in Marco!SmallestSIS
BY MarcoQueries, MarcoMaps, SmallestFoundIsSmallest

--------------------------------------------------------------------------------
(* Types.                                                                     *)

LEMMA MarcoTypeInit == Marco!Init => Marco!TypeOK
<1> SUFFICES ASSUME Marco!Init PROVE Marco!TypeOK
  OBVIOUS
<1>1. seedClauses \in SUBSET Marco!MapClause(Marco!ClauseID)
  BY ProofAssumption, MarcoQueries DEF Marco!Init, Marco!SelectClause, Marco!MapClause
<1>2. mode \in {"min", "max", "arb"}
  BY DEF Marco!Init, Marco!NextMode
<1>3. minimalProofs \in Seq(SUBSET Marco!ClauseID)
  BY DEF Marco!Init
<1>4. collapseFound \in [Marco!ClauseID -> SUBSET SUBSET Marco!ClauseID]
  BY DEF Marco!Init
<1>5. lowerBound \in 0 .. NumClauses
  BY ProofAssumption, MarcoQueries DEF Marco!Init
<1> QED
  BY <1>1, <1>2, <1>3, <1>4, <1>5 DEF Marco!Init, Marco!TypeOK

\* Recording a set of clauses.
LEMMA MarcoTypeRecord ==
  ASSUME Marco!TypeOK, NEW S \in SUBSET Marco!ClauseID, Marco!RecordMSIS(S)
  PROVE  Marco!TypeOK'
<1>1. seedClauses' \in SUBSET Marco!MapClause(Marco!ClauseID)
  BY DEF Marco!TypeOK, Marco!RecordMSIS, Marco!BlockUpClause, Marco!MapClause
<1>2. minimalProofs' \in Seq(SUBSET Marco!ClauseID)
  BY RangeAppend DEF Marco!TypeOK, Marco!RecordMSIS
<1>3. smallestProof' \in SUBSET Marco!ClauseID
  BY DEF Marco!TypeOK, Marco!RecordMSIS
<1>4. minimumProof' \in SUBSET Marco!ClauseID
  BY <1>3 DEF Marco!TypeOK, Marco!RecordMSIS, Marco!SetMinimum
<1> QED
  BY <1>1, <1>2, <1>3, <1>4 DEF Marco!TypeOK, Marco!RecordMSIS, Marco!NextIteration

\* Every step keeps the types.
LEMMA MarcoTypeNext == Marco!TypeOK /\ [Marco!Next]_Marco!vars => Marco!TypeOK'
<1> SUFFICES ASSUME Marco!TypeOK, [Marco!Next]_Marco!vars PROVE Marco!TypeOK'
  OBVIOUS
<1>1. CASE Marco!NextSeed
  <2>1. seed' \in SUBSET Marco!ClauseID
    BY <1>1
    DEF Marco!NextSeed, Marco!Seeds, Marco!Unexplored, Marco!Solutions,
        Marco!Largest, Marco!Smallest, Marco!TypeOK, Marco!NextMode
  <2>2. mode' \in {"min", "max", "arb"}
    BY <1>1 DEF Marco!NextSeed, Marco!NextMode
  <2>3. Marco!Cardinality(seed') \in 0 .. NumClauses
    <3>1. Marco!Cardinality(Marco!ClauseID) = NumClauses
      BY ProofAssumption, FS_Interval, MarcoQueries DEF Marco!ClauseID
    <3>2. Marco!Cardinality(seed') \in Nat /\ Marco!Cardinality(seed') <=
            Marco!Cardinality(Marco!ClauseID)
      BY <2>1, MarcoClauseIDFinite, MarcoSizes
    <3> QED
      BY <3>1, <3>2, ProofAssumption
  <2>4. lowerBound' \in 0 .. NumClauses
    BY <1>1, <2>3 DEF Marco!NextSeed, Marco!TypeOK
  <2>5. minimumProof' \in SUBSET Marco!ClauseID
    BY <1>1 DEF Marco!NextSeed, Marco!TypeOK, Marco!SetMinimum
  <2>6. seedCount' \in {0, 1}
    BY <1>1 DEF Marco!NextSeed, Marco!TypeOK
  <2> QED
    BY <1>1, <2>1, <2>2, <2>4, <2>5, <2>6 DEF Marco!NextSeed, Marco!TypeOK
<1>2. CASE Marco!MapExhausted
  BY <1>2 DEF Marco!MapExhausted, Marco!TypeOK, Marco!mapVars, Marco!workVars
<1>3. CASE Marco!MinimumIsSIS
  <2>1. mis \in SUBSET Marco!ClauseID /\ Marco!RecordMSIS(mis)
    BY <1>3 DEF Marco!MinimumIsSIS, Marco!TypeOK
  <2> QED
    BY <2>1, MarcoTypeRecord
<1>4. CASE Marco!SeedHasSIS
  <2>1. mis' \in SUBSET Marco!ClauseID
    BY <1>4, MarcoLargestInductiveIs DEF Marco!SeedHasSIS, Marco!TypeOK
  <2> QED
    BY <1>4, <2>1 DEF Marco!SeedHasSIS, Marco!TypeOK, Marco!mapVars, Marco!resultVars
<1>5. CASE Marco!SeedHasNoSIS
  <2>1. Marco!BlockDownClause(Marco!ClauseID, seed) \in Marco!MapClause(Marco!ClauseID)
    BY DEF Marco!BlockDownClause, Marco!MapClause
  <2>2. Marco!Unsupported(seed) \in SUBSET Marco!ClauseID
    BY DEF Marco!TypeOK, Marco!Unsupported
  <2> QED
    BY <1>5, <2>1, <2>2
    DEF Marco!SeedHasNoSIS, Marco!AfterMCS, Marco!NextIteration, Marco!TypeOK,
        Marco!resultVars
<1>6. ASSUME NEW c \in Marco!ClauseID, Marco!ShrinkStep(c)
      PROVE  Marco!TypeOK'
  <2>1. mis' \in SUBSET Marco!ClauseID
    BY <1>6, MarcoLargestInductiveIs DEF Marco!ShrinkStep, Marco!TypeOK
  <2>2. todo' \in SUBSET Marco!ClauseID
    BY <1>6 DEF Marco!ShrinkStep, Marco!TypeOK
  <2> QED
    BY <1>6, <2>1, <2>2
    DEF Marco!ShrinkStep, Marco!TypeOK, Marco!mapVars, Marco!resultVars
<1>7. ASSUME NEW c \in Marco!ClauseID, Marco!GrowStep(c)
      PROVE  Marco!TypeOK'
  BY <1>7 DEF Marco!GrowStep, Marco!TypeOK, Marco!mapVars, Marco!resultVars
<1>8. ASSUME NEW c \in Marco!ClauseID, Marco!CollapseStep(c)
      PROVE  Marco!TypeOK'
  <2>1. \A K \in SUBSET Marco!ClauseID : Marco!CollapseClause(c, K) \in
          Marco!MapClause(Marco!ClauseID)
    BY DEF Marco!CollapseClause, Marco!MapClause
  <2>2. Marco!NextCollapseSets(c, collapseFound[c]) \in SUBSET SUBSET Marco!ClauseID
    BY DEF Marco!NextCollapseSets, Marco!CollapseSets
  <2>3. seedClauses' \in SUBSET Marco!MapClause(Marco!ClauseID)
    BY <1>8, <2>1, <2>2 DEF Marco!CollapseStep, Marco!TypeOK
  <2>4. collapseFound' \in [Marco!ClauseID -> SUBSET SUBSET Marco!ClauseID]
    BY <1>8, <2>2 DEF Marco!CollapseStep, Marco!TypeOK
  <2>5. pc' \in {"unexplored", "collapse"} /\ {seed', mis',
        todo'} \subseteq SUBSET Marco!ClauseID
    BY <1>8 DEF Marco!CollapseStep, Marco!TypeOK, Marco!NextIteration
  <2> QED
    BY <1>8, <2>3, <2>4, <2>5 DEF Marco!CollapseStep, Marco!TypeOK, Marco!resultVars
<1>9. CASE Marco!ShrinkDone
  <2>1. mis \in SUBSET Marco!ClauseID /\ Marco!RecordMSIS(mis)
    BY <1>9 DEF Marco!ShrinkDone, Marco!TypeOK
  <2> QED
    BY <2>1, MarcoTypeRecord
<1>10. CASE Marco!GrowDone
  <2>1. Marco!BlockDownClause(Marco!ClauseID, seed) \in Marco!MapClause(Marco!ClauseID)
    BY DEF Marco!BlockDownClause, Marco!MapClause
  <2>2. Marco!Unsupported(seed) \in SUBSET Marco!ClauseID /\ Marco!Unsupported(mis) \in
          SUBSET Marco!ClauseID
    BY DEF Marco!TypeOK, Marco!Unsupported
  <2> QED
    BY <1>10, <2>1, <2>2
    DEF Marco!GrowDone, Marco!AfterMCS, Marco!NextIteration, Marco!TypeOK,
        Marco!resultVars
<1>11. CASE UNCHANGED Marco!vars
  BY <1>11
  DEF Marco!vars, Marco!mapVars, Marco!resultVars, Marco!workVars, Marco!TypeOK
<1> QED
  BY <1>1, <1>2, <1>3, <1>4, <1>5, <1>6, <1>7, <1>8, <1>9, <1>10, <1>11 DEF Marco!Next

--------------------------------------------------------------------------------
(* What the map and the results have to do with each other, at every step.    *)

\* Everything above a recorded proof is blocked (blockUp).
MarcoFoundBlocked == \A M \in Marco!Found : Marco!BlockUpClause(M) \in seedClauses

\* The smallest proof known is one of those of least size (updateProofs).
MarcoSmallestIsFound ==
  IF Marco!Found = {}
  THEN smallestProof = {}
  ELSE smallestProof \in Marco!Found /\ \A M \in Marco!Found :
    Marco!Cardinality(smallestProof) <= Marco!Cardinality(M)

MarcoCore ==
  /\ Marco!SelectClause(Property) \in seedClauses
  /\ Marco!FoundAreMSISes
  /\ MarcoFoundBlocked
  /\ Marco!NoDuplicates
  /\ Marco!NothingLost
  /\ Marco!LowerBoundSound
  /\ MarcoSmallestIsFound
  /\ Marco!MinimumCorrect

LEMMA MarcoUnexploredIff ==
  ASSUME NEW S
  PROVE  S \in Marco!Unexplored <=>
           S \subseteq Marco!ClauseID /\ \A cls \in seedClauses : Marco!SatisfiesClause(S, cls)
BY DEF Marco!Unexplored, Marco!Solutions

\* No seed has a recorded proof inside.
LEMMA MarcoSeedsAreNew ==
  ASSUME MarcoFoundBlocked, NEW S \in Marco!Unexplored, NEW M \in Marco!Found
  PROVE  ~(M \subseteq S)
BY MarcoUnexploredIff, MarcoBlockUpClauseIff DEF MarcoFoundBlocked

\* A seed of minimum size has no SIS inside but itself, so it need neither be
\* searched nor shrunk.
LEMMA MarcoMinimumSeed ==
  ASSUME MarcoCore, NEW S \in Marco!Smallest(Marco!Unexplored), NEW T \in Marco!SIS,
         T \subseteq S
  PROVE  T = S
<1>1. S \in Marco!Unexplored /\ S \in SUBSET Marco!ClauseID
  BY MarcoUnexploredIff DEF Marco!Smallest
<1>2. T \in Marco!Unexplored
  BY <1>1, MarcoSeedsAreNew DEF MarcoCore, Marco!NothingLost
<1>3. Marco!Cardinality(S) <= Marco!Cardinality(T)
  BY <1>2 DEF Marco!Smallest
<1> QED
  BY <1>1, <1>3, MarcoClauseIDFinite, MarcoSizes

\* The smallest proof is a minimum as soon as nothing smaller is unexplored.
LEMMA MarcoSmallestIsMinimum ==
  ASSUME MarcoCore, smallestProof # {},
         \A S \in Marco!Unexplored : Marco!Cardinality(smallestProof) <= Marco!Cardinality(S)
  PROVE  smallestProof \in Marco!SmallestSIS \intersect Marco!Found
<1>1. Marco!Found \in SUBSET Marco!SIS
  BY MarcoMSISIsSIS DEF MarcoCore, Marco!FoundAreMSISes
<1>2. Marco!Unexplored \in SUBSET SUBSET Marco!ClauseID
  BY MarcoUnexploredIff
<1>3. /\ smallestProof \in Marco!Found
      /\ \A M \in Marco!Found : Marco!Cardinality(smallestProof) <= Marco!Cardinality(M)
  BY DEF MarcoCore, MarcoSmallestIsFound
<1>4. \A S \in Marco!SIS : S \in Marco!Unexplored \/ \E M \in Marco!Found : M \subseteq S
  BY DEF MarcoCore, Marco!NothingLost
<1> QED
  BY <1>1, <1>2, <1>3, <1>4, MarcoSmallestFoundIsSmallest

\* The map and the bound, but not the results, change: a clause that every
\* unexplored SIS satisfies loses nothing.
LEMMA MarcoAddClauseKeepsCore ==
  ASSUME MarcoCore, NEW cls, seedClauses' = seedClauses \union {cls},
         \A S \in Marco!SIS : Marco!SatisfiesClause(S, cls),
         UNCHANGED <<Marco!resultVars, lowerBound>>
  PROVE  MarcoCore'
<1>1. Marco!Unexplored' = { S \in Marco!Unexplored : Marco!SatisfiesClause(S, cls) }
  BY MarcoAddClauseSolutions DEF Marco!Unexplored
<1>2. UNCHANGED <<minimalProofs, smallestProof, minimumProof, lowerBound, Marco!Found>>
  BY DEF Marco!resultVars, Marco!Found
<1>3. Marco!NothingLost' /\ Marco!LowerBoundSound'
  BY <1>1, <1>2 DEF MarcoCore, Marco!NothingLost, Marco!LowerBoundSound
<1>4. Marco!FoundAreMSISes' /\ Marco!NoDuplicates' /\ MarcoSmallestIsFound' /\
        Marco!MinimumCorrect'
  BY <1>2
  DEF MarcoCore, Marco!FoundAreMSISes, Marco!NoDuplicates, MarcoSmallestIsFound,
      Marco!MinimumCorrect
<1>5. MarcoFoundBlocked' /\ (Marco!SelectClause(Property) \in seedClauses)'
  BY <1>2 DEF MarcoCore, MarcoFoundBlocked
<1> QED
  BY <1>3, <1>4, <1>5 DEF MarcoCore

\* Neither the map nor the results change.
LEMMA MarcoNothingRecorded ==
  ASSUME MarcoCore, UNCHANGED <<seedClauses, Marco!resultVars, lowerBound>>
  PROVE  MarcoCore'
<1>1. UNCHANGED <<minimalProofs, smallestProof, minimumProof, lowerBound, Marco!Found,
      Marco!Unexplored>>
  BY DEF Marco!resultVars, Marco!Found, Marco!Unexplored
<1> QED
  BY <1>1
  DEF MarcoCore, Marco!FoundAreMSISes, MarcoFoundBlocked, Marco!NoDuplicates,
      Marco!NothingLost,
              Marco!LowerBoundSound, MarcoSmallestIsFound, Marco!MinimumCorrect

\* Recording a new MSIS that lies within a seed (blockUp, updateProofs).
LEMMA MarcoRecordKeepsCore ==
  ASSUME Marco!TypeOK, MarcoCore, NEW S \in Marco!MSIS, NEW T \in Marco!Unexplored,
         S \subseteq T, Marco!RecordMSIS(S)
  PROVE  MarcoCore'
<1>1. S \in Marco!SIS /\ S \in SUBSET Marco!ClauseID /\ S \notin Marco!Found
  <2>1. S \in Marco!SIS /\ S \in SUBSET Marco!ClauseID
    BY MarcoMSISIsSIS, MarcoSISSubset
  <2>2. S \notin Marco!Found
    BY MarcoSeedsAreNew DEF MarcoCore
  <2> QED
    BY <2>1, <2>2
<1>2. Marco!Found' = Marco!Found \union {S}
  <2>1. minimalProofs \in Seq(SUBSET Marco!ClauseID) /\
          minimalProofs' = Append(minimalProofs, S)
    BY DEF Marco!TypeOK, Marco!RecordMSIS
  <2> QED
    BY <1>1, <2>1, RangeAppend DEF Marco!Found
<1>3. seedClauses' = seedClauses \union {Marco!BlockUpClause(S)} /\ lowerBound' = lowerBound
  BY DEF Marco!RecordMSIS
<1>4. Marco!Unexplored' = { A \in Marco!Unexplored : ~(S \subseteq A) }
  <2>1. Marco!Unexplored' = { A \in Marco!Unexplored : Marco!SatisfiesClause(A,
        Marco!BlockUpClause(S)) }
    BY <1>3, MarcoAddClauseSolutions DEF Marco!Unexplored
  <2>2. \A A : Marco!SatisfiesClause(A, Marco!BlockUpClause(S)) <=> ~(S \subseteq A)
    BY MarcoBlockUpClauseIff
  <2> QED
    BY <2>1, <2>2
<1>5. (Marco!SelectClause(Property) \in seedClauses)'
  BY <1>3 DEF MarcoCore
<1>6. Marco!FoundAreMSISes'
  BY <1>2 DEF MarcoCore, Marco!FoundAreMSISes
<1>7. MarcoFoundBlocked'
  BY <1>2, <1>3 DEF MarcoCore, MarcoFoundBlocked
<1>8. Marco!NoDuplicates'
  <2>1. minimalProofs \in Seq(SUBSET Marco!ClauseID) /\
          minimalProofs' = Append(minimalProofs, S)
    BY DEF Marco!TypeOK, Marco!RecordMSIS
  <2>2. /\ \A i \in DOMAIN minimalProofs' :
             IF i \in DOMAIN minimalProofs
             THEN minimalProofs'[i] = minimalProofs[i]
             ELSE minimalProofs'[i] = S
        /\ \A i, j \in DOMAIN minimalProofs' :
             i \notin DOMAIN minimalProofs /\ j \notin DOMAIN minimalProofs => i = j
    BY <1>1, <2>1, RangeAppend
  <2>3. \A i \in DOMAIN minimalProofs : minimalProofs[i] # S
    BY <1>1 DEF Marco!Found
  <2>4. \A i, j \in DOMAIN minimalProofs : minimalProofs[i] = minimalProofs[j] => i = j
    BY DEF MarcoCore, Marco!NoDuplicates
  <2> SUFFICES ASSUME NEW i \in DOMAIN minimalProofs', NEW j \in DOMAIN minimalProofs',
                      minimalProofs'[i] = minimalProofs'[j]
               PROVE  i = j
    BY DEF Marco!NoDuplicates
  <2> QED
    BY <2>2, <2>3, <2>4
<1>9. Marco!NothingLost'
  BY <1>2, <1>4 DEF MarcoCore, Marco!NothingLost
<1>10. Marco!LowerBoundSound'
  BY <1>3, <1>4 DEF MarcoCore, Marco!LowerBoundSound
<1>11. \A M \in Marco!Found' : Marco!Cardinality(M) \in Nat
  BY <1>1, <1>2, MarcoMSISIsSIS, MarcoSISSubset, MarcoClauseIDFinite, MarcoSizes
  DEF MarcoCore, Marco!FoundAreMSISes
<1>12. MarcoSmallestIsFound'
  <2>1. smallestProof' = IF smallestProof = {} \/ Marco!Cardinality(S) < Marco!Cardinality(smallestProof)
                         THEN S ELSE smallestProof
    BY DEF Marco!RecordMSIS
  <2>2. Marco!Cardinality(S) \in Nat /\ \A M \in Marco!Found : Marco!Cardinality(M) \in Nat
    BY <1>2, <1>11
  <2>3. CASE Marco!Found = {}
    BY <1>2, <2>1, <2>2, <2>3 DEF MarcoCore, MarcoSmallestIsFound
  <2>4. CASE Marco!Found # {}
    <3>1. /\ smallestProof \in Marco!Found
          /\ \A M \in Marco!Found : Marco!Cardinality(smallestProof) <= Marco!Cardinality(M)
      BY <2>4 DEF MarcoCore, MarcoSmallestIsFound
    <3>2. smallestProof # {}
      BY <3>1, MarcoMSISIsSIS, MarcoSISSubset
      DEF MarcoCore, Marco!FoundAreMSISes, Marco!IsSIS
    <3>3. CASE Marco!Cardinality(S) < Marco!Cardinality(smallestProof)
      <4>1. smallestProof' = S
        BY <2>1, <3>3
      <4>2. \A M \in Marco!Found' : Marco!Cardinality(S) <= Marco!Cardinality(M)
        BY <1>2, <2>2, <3>1, <3>3
      <4> QED
        BY <1>2, <4>1, <4>2 DEF MarcoSmallestIsFound
    <3>4. CASE ~(Marco!Cardinality(S) < Marco!Cardinality(smallestProof))
      <4>1. smallestProof' = smallestProof
        BY <2>1, <3>2, <3>4
      <4>2. \A M \in Marco!Found' : Marco!Cardinality(smallestProof) <= Marco!Cardinality(M)
        BY <1>2, <2>2, <3>1, <3>4
      <4> QED
        BY <1>2, <3>1, <4>1, <4>2 DEF MarcoSmallestIsFound
    <3> QED
      BY <3>3, <3>4
  <2> QED
    BY <2>3, <2>4
<1>13. Marco!MinimumCorrect'
  <2>1. CASE minimumProof' = minimumProof
    BY <1>2, <2>1 DEF MarcoCore, Marco!MinimumCorrect
  <2>2. CASE minimumProof' # minimumProof
    <3>1. /\ minimumProof' = smallestProof'
          /\ smallestProof' # {}
          /\ Marco!Cardinality(smallestProof') <= lowerBound
      BY <2>2 DEF Marco!RecordMSIS, Marco!SetMinimum
    <3>2. /\ smallestProof' \in Marco!Found'
          /\ \A M \in Marco!Found' : Marco!Cardinality(smallestProof') <= Marco!Cardinality(M)
      BY <1>2, <1>12 DEF MarcoSmallestIsFound
    <3>3. \A A \in Marco!Unexplored' : Marco!Cardinality(smallestProof') <= Marco!Cardinality(A)
      <4> SUFFICES ASSUME NEW A \in Marco!Unexplored'
                   PROVE  Marco!Cardinality(smallestProof') <= Marco!Cardinality(A)
        OBVIOUS
      <4>1. lowerBound <= Marco!Cardinality(A)
        BY <1>4 DEF MarcoCore, Marco!LowerBoundSound
      <4>2. Marco!Cardinality(A) \in Nat
        BY <1>4, MarcoUnexploredIff, MarcoClauseIDFinite, MarcoSizes
      <4>3. Marco!Cardinality(smallestProof') \in Nat /\ lowerBound \in Int
        BY <1>11, <3>2 DEF Marco!TypeOK
      <4> QED
        BY <3>1, <4>1, <4>2, <4>3
    <3>4. \A A \in Marco!SIS : A \in Marco!Unexplored' \/ \E M \in Marco!Found' : M \subseteq A
      BY <1>9 DEF Marco!NothingLost
    <3>5. Marco!Found' \in SUBSET Marco!SIS /\ Marco!Unexplored' \in
            SUBSET SUBSET Marco!ClauseID
      BY <1>4, <1>6, MarcoMSISIsSIS, MarcoUnexploredIff DEF Marco!FoundAreMSISes
    <3>6. smallestProof' \in Marco!SmallestSIS
      BY <3>2, <3>3, <3>4, <3>5, MarcoSmallestFoundIsSmallest
    <3> QED
      BY <3>1, <3>2, <3>6 DEF Marco!MinimumCorrect
  <2> QED
    BY <2>1, <2>2
<1> QED
  BY <1>5, <1>6, <1>7, <1>8, <1>9, <1>10, <1>12, <1>13 DEF MarcoCore

--------------------------------------------------------------------------------
(* Where doMinimize is, and what it knows there.                              *)

\* The collapse sets that the finder does not offer again are in the map.
MarcoCollapseBlocked ==
  \A c \in Marco!ClauseID : \A L \in collapseFound[c] : Marco!CollapseClause(c, L) \in
    seedClauses

\* Arbitrary seeds are asked for only when no direction is set.
MarcoModeFollowsOptions ==
  mode = "arb" => ~opts.marco_direction_up /\ ~opts.marco_direction_down

\* The seed just taken from the map.
MarcoCheckInv ==
  pc = "check" =>
    /\ seed \in Marco!Unexplored
    /\ mis = seed
    /\ mode = "min" => seed \in Marco!Smallest(Marco!Unexplored)

\* shrink has tried every clause that is neither left in todo nor the property.
MarcoShrinkInv ==
  pc = "shrink" =>
    /\ Marco!IsSIS(mis)
    /\ mis \subseteq seed
    /\ seed \in Marco!Unexplored
    /\ todo \subseteq mis
    /\ \A c \in mis : c # Property /\ c \notin todo => ~Marco!ContainsSIS(mis \ {c})

\* grow works above a seed of the map, mis, and never finds a SIS.
MarcoGrowInv ==
  pc = "grow" =>
    /\ opts.marco_mcs
    /\ mode # "max"
    /\ mis \in Marco!Unexplored
    /\ ~Marco!ContainsSIS(seed)

\* minimize() has returned.
MarcoDoneInv == pc = "done" => Marco!Unexplored = {} /\ minimumProof # {}

\* The inductive invariant.
MarcoInv ==
  /\ Marco!TypeOK
  /\ MarcoCore
  /\ MarcoCollapseBlocked
  /\ MarcoModeFollowsOptions
  /\ MarcoCheckInv
  /\ MarcoShrinkInv
  /\ MarcoGrowInv
  /\ Marco!CollapseSetLeft
  /\ MarcoDoneInv

LEMMA MarcoInitInv == Marco!Init => MarcoInv
<1> SUFFICES ASSUME Marco!Init PROVE MarcoInv
  OBVIOUS
<1>1. Marco!TypeOK
  BY MarcoTypeInit
<1>2. Marco!Found = {}
  BY DEF Marco!Init, Marco!Found
<1>3. MarcoCore
  <2>1. \A S \in Marco!SIS : S \in Marco!Unexplored
    <3>1. \A S \in Marco!SIS : S \subseteq Marco!ClauseID /\ Property \in S
      BY MarcoSISSubset DEF Marco!IsSIS
    <3> QED
      BY <3>1, MarcoUnexploredIff, MarcoSelectClauseIff DEF Marco!Init
  <2>2. \A S \in Marco!Unexplored : Marco!Cardinality(S) \in Nat
    BY MarcoUnexploredIff, MarcoClauseIDFinite, MarcoSizes
  <2>3. Marco!LowerBoundSound
    BY <2>2 DEF Marco!Init, Marco!LowerBoundSound
  <2>4. Marco!NoDuplicates
    BY DEF Marco!Init, Marco!NoDuplicates
  <2> QED
    BY <1>2, <2>1, <2>3, <2>4
       DEF Marco!Init, MarcoCore, Marco!FoundAreMSISes, MarcoFoundBlocked,
           Marco!NothingLost, MarcoSmallestIsFound, Marco!MinimumCorrect
<1>4. MarcoCollapseBlocked
  BY DEF Marco!Init, MarcoCollapseBlocked
<1>5. MarcoModeFollowsOptions
  BY
  DEF Marco!Init, MarcoModeFollowsOptions, Marco!NextMode, Marco!isDirectionUp,
      Marco!isDirectionDown, Marco!isDirectionZigZag
<1> QED
  BY <1>1, <1>3, <1>4, <1>5
     DEF Marco!Init, MarcoInv, MarcoCheckInv, MarcoShrinkInv, MarcoGrowInv,
         Marco!CollapseSetLeft, MarcoDoneInv

\* The two sets that are recorded are MSISes: a minimum seed that is a SIS, and
\* what shrink leaves.
LEMMA MarcoMinimumSeedIsMSIS ==
  ASSUME MarcoInv, pc = "check", mode = "min", Marco!IsSIS(seed)
  PROVE  seed \in Marco!MSIS
<1>1. seed \in Marco!Smallest(Marco!Unexplored) /\ seed \in Marco!SIS
  BY MarcoUnexploredIff, MarcoSISSubset DEF MarcoInv, MarcoCheckInv
<1> QED
  BY <1>1, MarcoMinimumSeed DEF Marco!MSIS, MarcoInv

LEMMA MarcoShrunkIsMSIS ==
  ASSUME MarcoInv, pc = "shrink", todo = {}
  PROVE  mis \in Marco!MSIS
<1>1. Marco!IsSIS(mis) /\ \A c \in mis \ {Property} : ~Marco!ContainsSIS(mis \ {c})
  BY DEF MarcoInv, MarcoShrinkInv
<1> QED
  BY <1>1, MarcoMinimalIfIrreducible DEF MarcoInv, Marco!TypeOK

\* RecordMSIS goes on with the next seed.
LEMMA MarcoRecordKeepsInv ==
  ASSUME MarcoInv, NEW S \in Marco!MSIS, NEW T \in Marco!Unexplored, S \subseteq T,
         Marco!RecordMSIS(S)
  PROVE  MarcoInv'
<1>1. Marco!TypeOK'
  BY MarcoMSISIsSIS, MarcoSISSubset, MarcoTypeRecord DEF MarcoInv
<1>2. MarcoCore'
  BY MarcoRecordKeepsCore DEF MarcoInv
<1>3. /\ pc' = "unexplored"
      /\ UNCHANGED <<opts, collapseFound, mode>>
      /\ seedClauses \subseteq seedClauses'
  BY DEF Marco!RecordMSIS, Marco!NextIteration
<1> QED
  BY <1>1, <1>2, <1>3
     DEF MarcoInv, MarcoCollapseBlocked, MarcoModeFollowsOptions, MarcoCheckInv,
         MarcoShrinkInv, MarcoGrowInv,
         Marco!CollapseSetLeft, MarcoDoneInv

\* An unsupported clause of an unexplored set has a collapse set left, and so
\* collapseRefine may begin with the unsupported clauses of a seed.
LEMMA MarcoCollapseMayBegin ==
  ASSUME MarcoCollapseBlocked, NEW S \in Marco!Unexplored, NEW c \in Marco!Unsupported(S)
  PROVE  Marco!NextCollapseSets(c, collapseFound[c]) # {}
<1>1. S \in SUBSET Marco!ClauseID /\ c \in S /\ c \in Marco!ClauseID
  BY MarcoUnexploredIff DEF Marco!Unsupported
<1>2. \A L \in collapseFound[c] : S \intersect L # {}
  BY <1>1, MarcoUnexploredIff, MarcoCollapseClauseIff DEF MarcoCollapseBlocked
<1> QED
  BY <1>1, <1>2, MarcoCollapseSetIsLeft

\* What has no SIS inside may be blocked down.
LEMMA MarcoBlockDownKeepsCore ==
  ASSUME MarcoCore, NEW S, ~Marco!ContainsSIS(S),
         seedClauses' = seedClauses \union {Marco!BlockDownClause(Marco!ClauseID, S)},
         UNCHANGED <<Marco!resultVars, lowerBound>>
  PROVE  MarcoCore'
<1>1. \A T \in Marco!SIS : Marco!SatisfiesClause(T, Marco!BlockDownClause(Marco!ClauseID, S))
  BY MarcoSISSubset, MarcoContainsSISIff, MarcoBlockDownClauseIff
<1> QED
  BY <1>1, MarcoAddClauseKeepsCore

\* A seed without a SIS has been blocked, if it was to be: go on with its
\* collapse sets or the next seed.
LEMMA MarcoAfterMCSKeepsInv ==
  ASSUME MarcoInv, Marco!TypeOK', MarcoCore', seedClauses \subseteq seedClauses',
         UNCHANGED <<opts, collapseFound, mode>>,
         NEW S \in Marco!Unexplored, Marco!AfterMCS(S)
  PROVE  MarcoInv'
<1>1. pc' \in {"unexplored", "collapse"}
  BY DEF Marco!AfterMCS, Marco!NextIteration
<1>2. Marco!CollapseSetLeft'
  <2> SUFFICES ASSUME pc' = "collapse", NEW c \in todo'
               PROVE  Marco!NextCollapseSets(c, collapseFound[c]) # {}
    BY DEF Marco!CollapseSetLeft
  <2>1. c \in Marco!Unsupported(S)
    BY DEF Marco!AfterMCS, Marco!NextIteration
  <2> QED
    BY <2>1, MarcoCollapseMayBegin DEF MarcoInv
<1>3. MarcoCollapseBlocked'
  BY DEF MarcoInv, MarcoCollapseBlocked
<1> QED
  BY <1>1, <1>2, <1>3
  DEF MarcoInv, MarcoModeFollowsOptions, MarcoCheckInv, MarcoShrinkInv, MarcoGrowInv,
      MarcoDoneInv

\* The steps that leave map and results alone, or add a sound clause to the map,
\* keep the core; what is left to show is where doMinimize goes.
LEMMA MarcoNextInv ==
  ASSUME Options \subseteq Marco!SoundOptions, MarcoInv, [Marco!Next]_Marco!vars
  PROVE  MarcoInv'
<1>1. Marco!TypeOK /\ Marco!TypeOK'
  BY MarcoTypeNext DEF MarcoInv
<1>2. opts \in Options /\ opts \in Marco!Setting
  BY <1>1, OptionsAssumption DEF Marco!TypeOK
<1>3. CASE Marco!NextSeed
  <2>1. UNCHANGED <<opts, seedClauses, collapseFound, minimalProofs, smallestProof,
                    Marco!Found, Marco!Unexplored>> /\ pc' = "check"
    BY <1>3 DEF Marco!NextSeed, Marco!Found, Marco!Unexplored
  <2>2. mode' = Marco!NextMode /\ seed' \in Marco!Seeds(mode') /\ mis' = seed'
    BY <1>3 DEF Marco!NextSeed
  <2>3. seed' \in Marco!Unexplored /\ (mode' = "min" => seed' \in
          Marco!Smallest(Marco!Unexplored))
    BY <2>2 DEF Marco!Seeds, Marco!NextMode, Marco!Largest, Marco!Smallest
  <2>4. MarcoCheckInv'
    BY <2>1, <2>2, <2>3 DEF MarcoCheckInv, Marco!Smallest
  <2>5. MarcoModeFollowsOptions'
    BY <1>2, <2>1, <2>2
       DEF Marco!Setting, MarcoModeFollowsOptions, Marco!NextMode,
           Marco!isDirectionUp, Marco!isDirectionDown, Marco!isDirectionZigZag
  <2>6. Marco!LowerBoundSound'
    <3>1. CASE mode' = "min"
      BY <1>3, <2>1, <2>3, <3>1
      DEF Marco!NextSeed, Marco!LowerBoundSound, Marco!Smallest
    <3>2. CASE mode' # "min"
      BY <1>3, <2>1, <3>2
      DEF Marco!NextSeed, Marco!LowerBoundSound, MarcoInv, MarcoCore
    <3> QED
      BY <3>1, <3>2
  <2>7. Marco!MinimumCorrect'
    <3>1. CASE minimumProof' = minimumProof
      BY <2>1, <3>1 DEF Marco!MinimumCorrect, MarcoInv, MarcoCore
    <3>2. CASE minimumProof' # minimumProof
      <4>1. /\ minimumProof' = smallestProof
            /\ smallestProof # {}
            /\ Marco!Cardinality(smallestProof) <= lowerBound'
        BY <1>3, <3>2 DEF Marco!NextSeed, Marco!SetMinimum
      <4>2. \A S \in Marco!Unexplored : Marco!Cardinality(smallestProof) <= Marco!Cardinality(S)
        <5> SUFFICES ASSUME NEW S \in Marco!Unexplored
                     PROVE  Marco!Cardinality(smallestProof) <= Marco!Cardinality(S)
          OBVIOUS
        <5>1. lowerBound' <= Marco!Cardinality(S) /\ lowerBound' \in Int
          BY <1>1, <2>1, <2>6 DEF Marco!LowerBoundSound, Marco!TypeOK
        <5>2. Marco!Cardinality(S) \in Nat
          BY MarcoUnexploredIff, MarcoClauseIDFinite, MarcoSizes
        <5>3. Marco!Cardinality(smallestProof) \in Nat
          BY <1>1, MarcoClauseIDFinite, MarcoSizes DEF Marco!TypeOK
        <5> QED
          BY <4>1, <5>1, <5>2, <5>3
      <4>3. smallestProof \in Marco!SmallestSIS \intersect Marco!Found
        BY <4>1, <4>2, MarcoSmallestIsMinimum DEF MarcoInv
      <4> QED
        BY <2>1, <4>1, <4>3 DEF Marco!MinimumCorrect
    <3> QED
      BY <3>1, <3>2
  <2>8. MarcoCore'
    BY <2>1, <2>6, <2>7
       DEF MarcoInv, MarcoCore, Marco!FoundAreMSISes, MarcoFoundBlocked,
           Marco!NoDuplicates, Marco!NothingLost, MarcoSmallestIsFound
  <2> QED
    BY <1>1, <2>1, <2>4, <2>5, <2>8
       DEF MarcoInv, MarcoCollapseBlocked, MarcoShrinkInv, MarcoGrowInv,
           Marco!CollapseSetLeft, MarcoDoneInv
<1>4. CASE Marco!MapExhausted
  <2>1. UNCHANGED <<opts, seedClauses, collapseFound, mode, lowerBound, minimalProofs,
                    smallestProof, Marco!Found, Marco!Unexplored>> /\ pc' = "done"
    BY <1>4
    DEF Marco!MapExhausted, Marco!mapVars, Marco!workVars, Marco!Found,
        Marco!Unexplored
  <2>2. Marco!Unexplored = {}
    BY <1>4 DEF Marco!MapExhausted
  <2>3. Marco!Found # {}
    <3>1. Marco!ClauseID \in Marco!SIS
      BY ProofIsInductive, MarcoQueries DEF Marco!SIS
    <3> QED
      BY <2>2, <3>1 DEF MarcoInv, MarcoCore, Marco!NothingLost
  <2>4. smallestProof # {}
    BY <2>3, MarcoMSISIsSIS, MarcoSISSubset
    DEF MarcoInv, MarcoCore, MarcoSmallestIsFound, Marco!FoundAreMSISes, Marco!IsSIS
  <2>5. smallestProof \in Marco!SmallestSIS \intersect Marco!Found
    BY <2>2, <2>4, MarcoSmallestIsMinimum DEF MarcoInv
  <2>6. Marco!MinimumCorrect' /\ minimumProof' # {}
    BY <1>4, <2>1, <2>4, <2>5
    DEF Marco!MapExhausted, Marco!MinimumCorrect, MarcoInv, MarcoCore
  <2>7. MarcoCore'
    BY <2>1, <2>6
       DEF MarcoInv, MarcoCore, Marco!FoundAreMSISes, MarcoFoundBlocked,
           Marco!NoDuplicates, Marco!NothingLost,
           Marco!LowerBoundSound, MarcoSmallestIsFound
  <2>8. MarcoDoneInv'
    BY <2>1, <2>2, <2>6 DEF MarcoDoneInv
  <2> QED
    BY <1>1, <2>1, <2>7, <2>8
       DEF MarcoInv, MarcoCollapseBlocked, MarcoModeFollowsOptions, MarcoCheckInv,
           MarcoShrinkInv, MarcoGrowInv, Marco!CollapseSetLeft
<1>5. CASE Marco!MinimumIsSIS
  <2>1. seed \in Marco!MSIS /\ seed \in Marco!Unexplored /\ mis = seed
    BY <1>5, MarcoMinimumSeedIsMSIS DEF Marco!MinimumIsSIS, MarcoInv, MarcoCheckInv
  <2>2. Marco!RecordMSIS(seed)
    BY <1>5, <2>1 DEF Marco!MinimumIsSIS
  <2> QED
    BY <2>1, <2>2, MarcoRecordKeepsInv
<1>6. CASE Marco!ShrinkDone
  <2>1. mis \in Marco!MSIS /\ mis \subseteq seed /\ seed \in Marco!Unexplored /\
          Marco!RecordMSIS(mis)
    BY <1>6, MarcoShrunkIsMSIS DEF Marco!ShrinkDone, MarcoInv, MarcoShrinkInv
  <2> QED
    BY <2>1, MarcoRecordKeepsInv
<1>7. CASE Marco!SeedHasSIS
  <2>1. UNCHANGED <<opts, seedClauses, collapseFound, Marco!resultVars, lowerBound,
        mode, Marco!Unexplored>>
    BY <1>7 DEF Marco!SeedHasSIS, Marco!mapVars, Marco!Unexplored
  <2>2. MarcoCore'
    BY <2>1, MarcoNothingRecorded DEF MarcoInv
  <2>3. pc' = "shrink" /\ seed' = seed /\ mis' = Marco!LargestInductive(seed) /\
          todo' = mis' \ {Property}
    BY <1>7 DEF Marco!SeedHasSIS
  <2>4. seed \in Marco!Unexplored
    BY <1>7 DEF Marco!SeedHasSIS, MarcoInv, MarcoCheckInv
  <2>5. Marco!IsSIS(mis') /\ mis' \subseteq seed
    BY <1>7, <2>3, MarcoLargestInductiveIs, MarcoContainsSISIff DEF Marco!SeedHasSIS
  <2>6. MarcoShrinkInv'
    BY <2>1, <2>3, <2>4, <2>5 DEF MarcoShrinkInv
  <2> QED
    BY <1>1, <2>1, <2>2, <2>3, <2>6
       DEF MarcoInv, MarcoCollapseBlocked, MarcoModeFollowsOptions, MarcoCheckInv,
           MarcoGrowInv, Marco!CollapseSetLeft, MarcoDoneInv
<1>8. ASSUME NEW c \in Marco!ClauseID, Marco!ShrinkStep(c)
      PROVE  MarcoInv'
  <2>1. UNCHANGED <<opts, seedClauses, collapseFound, Marco!resultVars, lowerBound,
        mode, Marco!Unexplored>>
    BY <1>8 DEF Marco!ShrinkStep, Marco!mapVars, Marco!Unexplored
  <2>2. MarcoCore'
    BY <2>1, MarcoNothingRecorded DEF MarcoInv
  <2>3. pc = "shrink" /\ pc' = "shrink" /\ seed' = seed
    BY <1>8 DEF Marco!ShrinkStep
  <2>4. /\ Marco!IsSIS(mis) /\ mis \subseteq seed /\ seed \in Marco!Unexplored /\
          todo \subseteq mis
        /\ \A d \in mis : d # Property /\ d \notin todo => ~Marco!ContainsSIS(mis \ {d})
    BY <2>3 DEF MarcoInv, MarcoShrinkInv
  <2>5. CASE Marco!ContainsSIS(mis \ {c})
    <3>1. mis' = Marco!LargestInductive(mis \ {c}) /\ todo' = (todo \ {c}) \intersect mis'
      BY <1>8, <2>5 DEF Marco!ShrinkStep
    <3>2. Marco!IsSIS(mis') /\ mis' \subseteq mis \ {c}
      BY <2>5, <3>1, MarcoLargestInductiveIs, MarcoContainsSISIff
    <3>3. ASSUME NEW d \in mis', d # Property, d \notin todo'
          PROVE  ~Marco!ContainsSIS(mis' \ {d})
      <4>1. d \in mis /\ d \notin todo
        BY <3>1, <3>2, <3>3
      <4>2. ~Marco!ContainsSIS(mis \ {d}) /\ mis' \ {d} \subseteq mis \ {d}
        BY <2>4, <3>2, <3>3, <4>1
      <4> QED
        BY <4>2, MarcoContainsSISMonotone
    <3> QED
      BY <1>1, <2>1, <2>2, <2>3, <2>4, <3>1, <3>2, <3>3
         DEF MarcoInv, MarcoCollapseBlocked, MarcoModeFollowsOptions, MarcoCheckInv,
             MarcoShrinkInv, MarcoGrowInv,
             Marco!CollapseSetLeft, MarcoDoneInv
  <2>6. CASE ~Marco!ContainsSIS(mis \ {c})
    <3>1. mis' = mis /\ todo' = todo \ {c}
      BY <1>8, <2>6 DEF Marco!ShrinkStep
    <3> QED
      BY <1>1, <2>1, <2>2, <2>3, <2>4, <2>6, <3>1
         DEF MarcoInv, MarcoCollapseBlocked, MarcoModeFollowsOptions, MarcoCheckInv,
             MarcoShrinkInv, MarcoGrowInv,
             Marco!CollapseSetLeft, MarcoDoneInv
  <2> QED
    BY <2>5, <2>6
<1>9. CASE Marco!SeedHasNoSIS
  <2>1. pc = "check" /\ seed \in Marco!Unexplored /\ mis = seed /\ seed \in
          SUBSET Marco!ClauseID
    BY <1>9, MarcoUnexploredIff DEF Marco!SeedHasNoSIS, MarcoInv, MarcoCheckInv
  <2>2. ~Marco!ContainsSIS(seed)
    <3>1. CASE mode # "min"
      BY <1>9, <3>1 DEF Marco!SeedHasNoSIS
    <3>2. CASE mode = "min"
      <4>1. ~Marco!IsSIS(seed) /\ seed \in Marco!Smallest(Marco!Unexplored)
        BY <1>9, <2>1, <3>2 DEF Marco!SeedHasNoSIS, MarcoInv, MarcoCheckInv
      <4>2. \A T \in Marco!SIS : T \subseteq seed => T = seed
        BY <4>1, MarcoMinimumSeed DEF MarcoInv
      <4> QED
        BY <2>1, <4>1, <4>2, MarcoContainsSISIff, MarcoSISSubset
    <3> QED
      BY <3>1, <3>2
  <2>3. UNCHANGED <<opts, collapseFound, Marco!resultVars, lowerBound, mode>>
    BY <1>9 DEF Marco!SeedHasNoSIS
  <2>4. MarcoCore'
    <3>1. CASE UNCHANGED seedClauses
      BY <2>3, <3>1, MarcoNothingRecorded DEF MarcoInv
    <3>2. CASE seedClauses' = seedClauses \union {Marco!BlockDownClause(Marco!ClauseID, seed)}
      BY <2>2, <2>3, <3>2, MarcoBlockDownKeepsCore DEF MarcoInv
    <3> QED
      BY <1>9, <3>1, <3>2 DEF Marco!SeedHasNoSIS
  <2>5. seedClauses \subseteq seedClauses'
    BY <1>9 DEF Marco!SeedHasNoSIS
  <2>6. CASE pc' = "grow"
    <3>1. opts.marco_mcs /\ mode # "max" /\ UNCHANGED <<seedClauses, seed, mis>>
      BY <1>9, <2>6 DEF Marco!SeedHasNoSIS, Marco!AfterMCS, Marco!NextIteration
    <3>2. Marco!Unexplored' = Marco!Unexplored
      BY <3>1 DEF Marco!Unexplored
    <3>3. MarcoGrowInv'
      BY <2>1, <2>2, <2>3, <3>1, <3>2 DEF MarcoGrowInv
    <3> QED
      BY <1>1, <2>3, <2>4, <2>6, <3>1, <3>3
         DEF MarcoInv, MarcoCollapseBlocked, MarcoModeFollowsOptions, MarcoCheckInv,
             MarcoShrinkInv, Marco!CollapseSetLeft, MarcoDoneInv
  <2>7. CASE pc' # "grow"
    <3>1. Marco!AfterMCS(seed)
      BY <1>9, <2>7 DEF Marco!SeedHasNoSIS
    <3> QED
      BY <1>1, <2>1, <2>3, <2>4, <2>5, <3>1, MarcoAfterMCSKeepsInv
  <2> QED
    BY <2>6, <2>7
<1>10. ASSUME NEW c \in Marco!ClauseID, Marco!GrowStep(c)
       PROVE  MarcoInv'
  <2>1. UNCHANGED <<opts, seedClauses, collapseFound, Marco!resultVars, lowerBound,
        mode, mis, Marco!Unexplored>>
    BY <1>10 DEF Marco!GrowStep, Marco!mapVars, Marco!Unexplored
  <2>2. MarcoCore'
    BY <2>1, MarcoNothingRecorded DEF MarcoInv
  <2>3. pc = "grow" /\ pc' = "grow"
    BY <1>10 DEF Marco!GrowStep
  <2>4. ~Marco!ContainsSIS(seed')
    BY <1>10, <2>3 DEF Marco!GrowStep, MarcoInv, MarcoGrowInv
  <2>5. MarcoGrowInv'
    BY <2>1, <2>3, <2>4 DEF MarcoGrowInv, MarcoInv
  <2> QED
    BY <1>1, <2>1, <2>2, <2>3, <2>5
       DEF MarcoInv, MarcoCollapseBlocked, MarcoModeFollowsOptions, MarcoCheckInv,
           MarcoShrinkInv, Marco!CollapseSetLeft, MarcoDoneInv
<1>11. CASE Marco!GrowDone
  <2>1. opts.marco_mcs /\ mode # "max" /\ mis \in Marco!Unexplored /\ ~Marco!ContainsSIS(seed)
    BY <1>11 DEF Marco!GrowDone, MarcoInv, MarcoGrowInv
  <2>2. UNCHANGED <<opts, collapseFound, Marco!resultVars, lowerBound, mode>>
    BY <1>11 DEF Marco!GrowDone
  <2>3. seedClauses' = seedClauses \union {Marco!BlockDownClause(Marco!ClauseID, seed)}
    BY <1>11 DEF Marco!GrowDone
  <2>4. MarcoCore'
    BY <2>1, <2>2, <2>3, MarcoBlockDownKeepsCore DEF MarcoInv
  <2>5. Marco!AfterMCS(mis)
    <3>1. CASE mode = "min"
      BY <1>11, <3>1 DEF Marco!GrowDone
    <3>2. CASE mode = "arb"
      <4>1. ~opts.marco_collapse
        <5>1. ~opts.marco_direction_up /\ ~opts.marco_direction_down
          BY <3>2 DEF MarcoInv, MarcoModeFollowsOptions
        <5>2. opts \in Marco!SoundOptions
          BY <1>2
        <5> QED
          BY <2>1, <5>1, <5>2 DEF Marco!SoundOptions
      <4> QED
        BY <1>11, <4>1 DEF Marco!GrowDone, Marco!AfterMCS
    <3> QED
      BY <1>1, <2>1, <3>1, <3>2 DEF Marco!TypeOK
  <2> QED
    BY <1>1, <2>1, <2>2, <2>3, <2>4, <2>5, MarcoAfterMCSKeepsInv
<1>12. ASSUME NEW c \in Marco!ClauseID, Marco!CollapseStep(c)
       PROVE  MarcoInv'
  <2>1. c \in todo /\ pc = "collapse" /\ UNCHANGED <<opts, Marco!resultVars, lowerBound, mode>>
    BY <1>12 DEF Marco!CollapseStep
  <2>2. Marco!NextCollapseSets(c, collapseFound[c]) # {}
    BY <2>1 DEF MarcoInv, Marco!CollapseSetLeft
  <2>3. PICK K \in Marco!NextCollapseSets(c, collapseFound[c]) :
          /\ seedClauses' = seedClauses \union {Marco!CollapseClause(c, K)}
          /\ collapseFound' = [collapseFound EXCEPT ![c] = @ \union {K}]
    BY <1>12, <2>2 DEF Marco!CollapseStep
  <2>4. K \in Marco!CollapseSets(c)
    BY DEF Marco!NextCollapseSets
  <2>5. MarcoCore'
    <3>1. \A S \in Marco!SIS : Marco!SatisfiesClause(S, Marco!CollapseClause(c, K))
      BY <2>4, MarcoSISSubset, MarcoCollapseClauseSound DEF Marco!IsSIS
    <3> QED
      BY <2>1, <2>3, <3>1, MarcoAddClauseKeepsCore DEF MarcoInv
  <2>6. collapseFound \in [Marco!ClauseID -> SUBSET SUBSET Marco!ClauseID]
    BY <1>1 DEF Marco!TypeOK
  <2>7. \A d \in Marco!ClauseID :
          collapseFound'[d] = IF d = c THEN collapseFound[c] \union {K} ELSE collapseFound[d]
    BY <2>3, <2>6
  <2>8. MarcoCollapseBlocked'
    BY <2>3, <2>7 DEF MarcoInv, MarcoCollapseBlocked
  <2>9. pc' # "collapse" \/ todo' = todo \ {c}
    BY <1>12 DEF Marco!CollapseStep, Marco!NextIteration
  <2>10. Marco!CollapseSetLeft'
    <3> SUFFICES ASSUME pc' = "collapse", NEW d \in todo'
                 PROVE  Marco!NextCollapseSets(d, collapseFound'[d]) # {}
      BY DEF Marco!CollapseSetLeft
    <3>1. d \in todo /\ d # c /\ d \in Marco!ClauseID
      BY <1>1, <2>9 DEF Marco!TypeOK
    <3>2. collapseFound'[d] = collapseFound[d]
      BY <2>7, <3>1
    <3> QED
      BY <2>1, <3>1, <3>2 DEF MarcoInv, Marco!CollapseSetLeft
  <2>11. pc' \in {"unexplored", "collapse"}
    BY <1>12 DEF Marco!CollapseStep, Marco!NextIteration
  <2> QED
    BY <1>1, <2>1, <2>5, <2>8, <2>10, <2>11
       DEF MarcoInv, MarcoModeFollowsOptions, MarcoCheckInv, MarcoShrinkInv,
           MarcoGrowInv, MarcoDoneInv
<1>13. CASE UNCHANGED Marco!vars
  <2>1. UNCHANGED <<opts, seedClauses, collapseFound, Marco!resultVars, lowerBound,
        Marco!workVars, pc, Marco!Unexplored>>
    BY <1>13 DEF Marco!vars, Marco!mapVars, Marco!Unexplored
  <2>2. MarcoCore'
    BY <2>1, MarcoNothingRecorded DEF MarcoInv
  <2> QED
    BY <1>1, <2>1, <2>2
       DEF Marco!resultVars, Marco!workVars, MarcoInv, MarcoCollapseBlocked,
           MarcoModeFollowsOptions, MarcoCheckInv, MarcoShrinkInv,
           MarcoGrowInv, Marco!CollapseSetLeft, MarcoDoneInv
<1> QED
  BY <1>3, <1>4, <1>5, <1>6, <1>7, <1>8, <1>9, <1>10, <1>11, <1>12, <1>13
  DEF MarcoInv, Marco!Next

--------------------------------------------------------------------------------
(* What follows for minimize(), with any of the sound settings.               *)

\* Once the map is exhausted, every minimal safe inductive subset is recorded.
LEMMA MarcoAllFound ==
  ASSUME MarcoCore, Marco!Unexplored = {}
  PROVE  Marco!Found = Marco!MSIS
<1>1. Marco!Found \subseteq Marco!MSIS
  BY DEF MarcoCore, Marco!FoundAreMSISes
<1>2. ASSUME NEW S \in Marco!MSIS
      PROVE  S \in Marco!Found
  <2>1. PICK M \in Marco!Found : M \subseteq S
    BY <1>2, MarcoMSISIsSIS DEF MarcoCore, Marco!NothingLost
  <2>2. M = S
    BY <1>1, <2>1, MarcoMSISIsSIS DEF Marco!MSIS
  <2> QED
    BY <2>1, <2>2
<1> QED
  BY <1>1, <1>2

--------------------------------------------------------------------------------
(* MARCO implements MinimalSetEnumeration: its results are the reported       *)
(* proofs, and each step reports one, announces the minimum, returns or       *)
(* stutters.                                                                  *)

\* What is reported to the caller is what was found.
LEMMA MarcoSameReported ==
  Enumeration!Reported = Marco!Found /\ MSIS = Marco!MSIS /\ SmallestSIS = Marco!SmallestSIS
BY MarcoQueries DEF Enumeration!Reported, Marco!Found

\* Recording a proof is a report, with the minimum announced when it is known.
LEMMA MarcoRecordReports ==
  ASSUME MarcoInv, MarcoInv', pc # "done",
         NEW S \in Marco!MSIS, NEW T \in Marco!Unexplored, S \subseteq T, Marco!RecordMSIS(S)
  PROVE  Enumeration!Report
<1>1. S \notin Marco!Found /\ S \in SUBSET Marco!ClauseID
  BY MarcoSeedsAreNew, MarcoMSISIsSIS, MarcoSISSubset DEF MarcoInv, MarcoCore
<1>2. minimalProofs' = Append(minimalProofs, S) /\ pc' = "unexplored"
  BY DEF Marco!RecordMSIS, Marco!NextIteration
<1>3. Marco!Found' = Marco!Found \union {S}
  BY <1>1, <1>2, RangeAppend, SMTT(30) DEF Marco!Found, MarcoInv, Marco!TypeOK
<1>4. minimumProof' = minimumProof \/ (minimumProof = {} /\ minimumProof' # {})
  BY DEF Marco!RecordMSIS, Marco!SetMinimum
<1>5. minimumProof' # {} => minimumProof' \in Marco!Found' \intersect Marco!SmallestSIS
  BY DEF MarcoInv, MarcoCore, Marco!MinimumCorrect
<1>6. Enumeration!Announcement(Marco!Found \union {S})
  BY <1>3, <1>4, <1>5, MarcoSameReported DEF Enumeration!Announcement
<1> QED
  BY <1>1, <1>2, <1>6, MarcoSameReported DEF Enumeration!Report

\* Each step is one of the abstract specification, or stutters.
LEMMA MarcoStepSimulation ==
  ASSUME MarcoInv, MarcoInv', [Marco!Next]_Marco!vars
  PROVE  [Enumeration!Next]_Enumeration!vars
<1> USE DEF Enumeration!vars
<1>1. CASE Marco!NextSeed
  <2>1. pc # "done" /\ pc' # "done" /\ UNCHANGED minimalProofs
    BY <1>1 DEF Marco!NextSeed
  <2>2. Marco!Found' = Marco!Found
    BY <2>1 DEF Marco!Found
  <2>3. CASE UNCHANGED minimumProof
    BY <2>1, <2>3
  <2>4. CASE minimumProof' # minimumProof
    <3>1. minimumProof = {} /\ minimumProof' # {}
      BY <1>1, <2>4 DEF Marco!NextSeed, Marco!SetMinimum
    <3>2. minimumProof' \in Marco!Found \intersect Marco!SmallestSIS
      BY <2>2, <3>1 DEF MarcoInv, MarcoCore, Marco!MinimumCorrect
    <3> QED
      BY <2>1, <3>1, <3>2, MarcoSameReported
      DEF Enumeration!Next, Enumeration!Announce
  <2> QED
    BY <2>3, <2>4
<1>2. CASE Marco!MapExhausted
  <2>1. pc # "done" /\ pc' = "done" /\ UNCHANGED minimalProofs
    BY <1>2 DEF Marco!MapExhausted
  <2>2. Marco!Found' = Marco!Found
    BY <2>1 DEF Marco!Found
  <2>3. Marco!MSIS \subseteq Marco!Found
    BY <1>2, MarcoAllFound DEF Marco!MapExhausted, MarcoInv
  <2>4. minimumProof' # {} /\ minimumProof' \in Marco!Found \intersect Marco!SmallestSIS
    BY <2>1, <2>2 DEF MarcoInv, MarcoDoneInv, MarcoCore, Marco!MinimumCorrect
  <2>5. minimumProof = {} \/ minimumProof' = minimumProof
    BY <1>2 DEF Marco!MapExhausted
  <2>6. Enumeration!Announcement(Marco!Found)
    BY <2>4, <2>5, MarcoSameReported DEF Enumeration!Announcement
  <2> QED
    BY <2>1, <2>3, <2>4, <2>6, MarcoSameReported
    DEF Enumeration!Next, Enumeration!Return
<1>3. CASE Marco!MinimumIsSIS
  <2>1. pc # "done" /\ seed \in Marco!MSIS /\ seed \in Marco!Unexplored /\
          Marco!RecordMSIS(seed)
    BY <1>3, MarcoMinimumSeedIsMSIS DEF Marco!MinimumIsSIS, MarcoInv, MarcoCheckInv
  <2> QED
    BY <2>1, MarcoRecordReports DEF Enumeration!Next
<1>4. CASE Marco!ShrinkDone
  <2>1. pc # "done" /\ mis \in Marco!MSIS /\ mis \subseteq seed /\ seed \in
          Marco!Unexplored /\ Marco!RecordMSIS(mis)
    BY <1>4, MarcoShrunkIsMSIS DEF Marco!ShrinkDone, MarcoInv, MarcoShrinkInv
  <2> QED
    BY <2>1, MarcoRecordReports DEF Enumeration!Next
<1>5. ASSUME UNCHANGED <<minimalProofs, minimumProof>>, pc # "done", pc' # "done"
      PROVE  UNCHANGED Enumeration!vars
  BY <1>5
<1>6. CASE Marco!SeedHasSIS
  BY <1>5, <1>6 DEF Marco!SeedHasSIS, Marco!resultVars
<1>7. CASE Marco!SeedHasNoSIS
  BY <1>5, <1>7
  DEF Marco!SeedHasNoSIS, Marco!AfterMCS, Marco!NextIteration, Marco!resultVars
<1>8. ASSUME NEW c \in Marco!ClauseID,
             Marco!ShrinkStep(c) \/ Marco!GrowStep(c) \/ Marco!CollapseStep(c)
      PROVE  UNCHANGED Enumeration!vars
  BY <1>5, <1>8
  DEF Marco!ShrinkStep, Marco!GrowStep, Marco!CollapseStep, Marco!NextIteration,
      Marco!resultVars
<1>9. CASE Marco!GrowDone
  BY <1>5, <1>9
  DEF Marco!GrowDone, Marco!AfterMCS, Marco!NextIteration, Marco!resultVars
<1>10. CASE UNCHANGED Marco!vars
  BY <1>10 DEF Marco!vars, Marco!resultVars
<1> QED
  BY <1>1, <1>2, <1>3, <1>4, <1>6, <1>7, <1>8, <1>9, <1>10 DEF Marco!Next

--------------------------------------------------------------------------------
(* CAMSIS.                                                                    *)

\* It speaks of the same clauses, queries and proofs.
LEMMA CamsisQueries ==
  /\ Camsis!ClauseID = ClauseID
  /\ \A S, c : Camsis!Solve(S, c) <=> Solve(S, c)
  /\ \A S : Camsis!IsInductive(S) <=> IsInductive(S)
  /\ \A S : Camsis!IsSIS(S) <=> IsSIS(S)
  /\ \A S : Camsis!Unsupported(S) = Unsupported(S)
  /\ \A S : Camsis!LargestInductive(S) = LargestInductive(S)
  /\ \A S : Camsis!ContainsSIS(S) <=> ContainsSIS(S)
  /\ Camsis!SIS = SIS
  /\ Camsis!MSIS = MSIS
  /\ \A S : Camsis!Cardinality(S) = Cardinality(S)
  /\ Camsis!SmallestSIS = SmallestSIS
  /\ \A c : Camsis!CollapseSets(c) = CollapseSets(c)
<1>1. Camsis!ClauseID = ClauseID
  BY DEF Camsis!ClauseID, ClauseID
<1>2. \A S, c : Camsis!Solve(S, c) <=> Solve(S, c)
  BY DEF Camsis!Solve, Camsis!Counterexample, Solve, Counterexample
<1>3. \A S : Camsis!IsInductive(S) <=> IsInductive(S)
  BY <1>2 DEF Camsis!IsInductive, IsInductive
<1>4. \A S : Camsis!IsSIS(S) <=> IsSIS(S)
  BY <1>3 DEF Camsis!IsSIS, IsSIS
<1>5. \A S : Camsis!Unsupported(S) = Unsupported(S)
  BY <1>2 DEF Camsis!Unsupported, Unsupported
<1>6. \A S : Camsis!LargestInductive(S) = LargestInductive(S)
  BY <1>3
  DEF Camsis!LargestInductive, Camsis!InductiveSubsets, LargestInductive,
      InductiveSubsets
<1>7. \A S : Camsis!ContainsSIS(S) <=> ContainsSIS(S)
  BY <1>6 DEF Camsis!ContainsSIS, ContainsSIS
<1>8. Camsis!SIS = SIS
  BY <1>1, <1>4 DEF Camsis!SIS, SIS
<1>9. Camsis!MSIS = MSIS
  BY <1>8 DEF Camsis!MSIS, MSIS
<1>10. \A S : Camsis!Cardinality(S) = Cardinality(S)
  BY DEF Camsis!Cardinality, Cardinality
<1>11. Camsis!SmallestSIS = SmallestSIS
  BY <1>8, <1>10 DEF Camsis!SmallestSIS, SmallestSIS
<1>12. \A c : Camsis!CollapseSets(c) = CollapseSets(c)
  BY <1>1 DEF Camsis!CollapseSets, CollapseSets, Camsis!Counterexample, Counterexample
<1> QED
  BY <1>1, <1>2, <1>3, <1>4, <1>5, <1>6, <1>7, <1>8, <1>9, <1>10, <1>11, <1>12

\* Maps are maps of them.
LEMMA CamsisMaps ==
  /\ \A F : Camsis!Smallest(F) = Smallest(F)
  /\ \A S, cls : Camsis!SatisfiesClause(S, cls) <=> SatisfiesClause(S, cls)
  /\ \A U, map : Camsis!Solutions(U, map) = Solutions(U, map)
  /\ \A x : Camsis!SelectClause(x) = SelectClause(x)
  /\ \A S : Camsis!BlockUpClause(S) = BlockUpClause(S)
  /\ \A U, S : Camsis!BlockDownClause(U, S) = BlockDownClause(U, S)
  /\ \A c, K : Camsis!CollapseClause(c, K) = CollapseClause(c, K)
  /\ \A c, blocked : Camsis!NextCollapseSets(c, blocked) = NextCollapseSets(c, blocked)
<1>1. \A F : Camsis!Smallest(F) = Smallest(F)
  BY CamsisQueries DEF Camsis!Smallest, Smallest
<1>2. \A S, cls : Camsis!SatisfiesClause(S, cls) <=> SatisfiesClause(S, cls)
  BY DEF Camsis!SatisfiesClause, SatisfiesClause
<1>3. \A U, map : Camsis!Solutions(U, map) = Solutions(U, map)
  BY <1>2 DEF Camsis!Solutions, Solutions
<1>4. /\ \A x : Camsis!SelectClause(x) = SelectClause(x)
      /\ \A S : Camsis!BlockUpClause(S) = BlockUpClause(S)
      /\ \A U, S : Camsis!BlockDownClause(U, S) = BlockDownClause(U, S)
      /\ \A c, K : Camsis!CollapseClause(c, K) = CollapseClause(c, K)
  BY
  DEF Camsis!SelectClause, SelectClause, Camsis!BlockUpClause, BlockUpClause,
      Camsis!BlockDownClause,
         BlockDownClause, Camsis!CollapseClause, CollapseClause
<1>5. \A c, blocked : Camsis!NextCollapseSets(c, blocked) = NextCollapseSets(c, blocked)
  BY CamsisQueries DEF Camsis!NextCollapseSets, NextCollapseSets
<1> QED
  BY <1>1, <1>2, <1>3, <1>4, <1>5

\* So the facts about them hold here too.
LEMMA CamsisSizes ==
  ASSUME NEW U, IsFiniteSet(U), NEW S \in SUBSET U
  PROVE  /\ IsFiniteSet(S)
         /\ Camsis!Cardinality(S) \in Nat
         /\ \A T \in SUBSET S :
              /\ Camsis!Cardinality(T) \in Nat
              /\ Camsis!Cardinality(T) <= Camsis!Cardinality(S)
              /\ Camsis!Cardinality(S) <= Camsis!Cardinality(T) => S = T
BY CamsisQueries, CamsisMaps, Sizes

LEMMA CamsisSmallestExists ==
  ASSUME NEW U, IsFiniteSet(U), NEW F \in SUBSET SUBSET U, F # {}
  PROVE  Camsis!Smallest(F) # {}
BY CamsisQueries, CamsisMaps, SmallestExists

LEMMA CamsisAddClauseSolutions ==
  ASSUME NEW U, NEW map, NEW cls
  PROVE  Camsis!Solutions(U, map \union {cls})
           = { S \in Camsis!Solutions(U, map) : Camsis!SatisfiesClause(S, cls) }
BY CamsisQueries, CamsisMaps, AddClauseSolutions

LEMMA CamsisSelectClauseIff ==
  ASSUME NEW x, NEW S
  PROVE  Camsis!SatisfiesClause(S, Camsis!SelectClause(x)) <=> x \in S
BY CamsisQueries, CamsisMaps, SelectClauseIff

LEMMA CamsisBlockUpClauseIff ==
  ASSUME NEW M, NEW S
  PROVE  Camsis!SatisfiesClause(S, Camsis!BlockUpClause(M)) <=> ~(M \subseteq S)
BY CamsisQueries, CamsisMaps, BlockUpClauseIff

LEMMA CamsisCollapseClauseIff ==
  ASSUME NEW c, NEW K, NEW S
  PROVE  Camsis!SatisfiesClause(S, Camsis!CollapseClause(c, K)) <=> (c \in S =>
           S \intersect K # {})
BY CamsisQueries, CamsisMaps, CollapseClauseIff

LEMMA CamsisClauseIDFinite == IsFiniteSet(Camsis!ClauseID)
BY CamsisQueries, CamsisMaps, ClauseIDFinite

LEMMA CamsisSISSubset ==
  ASSUME NEW S
  PROVE  S \in Camsis!SIS <=> S \subseteq Camsis!ClauseID /\ Camsis!IsSIS(S)
BY CamsisQueries, CamsisMaps, SISSubset

LEMMA CamsisMSISIsSIS == Camsis!MSIS \subseteq Camsis!SIS
BY CamsisQueries, CamsisMaps, MSISIsSIS

LEMMA CamsisCollapseClauseSound ==
  ASSUME NEW S \in SUBSET Camsis!ClauseID, Camsis!IsInductive(S), NEW c, NEW K \in
           Camsis!CollapseSets(c)
  PROVE  Camsis!SatisfiesClause(S, Camsis!CollapseClause(c, K))
BY CamsisQueries, CamsisMaps, CollapseClauseSound

LEMMA CamsisCollapseSetIsLeft ==
  ASSUME NEW S \in SUBSET Camsis!ClauseID, NEW c \in Camsis!Unsupported(S),
         NEW blocked, \A L \in blocked : S \intersect L # {}
  PROVE  Camsis!NextCollapseSets(c, blocked) # {}
BY CamsisQueries, CamsisMaps, CollapseSetIsLeft

\* The candidates that the solver still has.
Remaining == Camsis!Solutions(Camsis!ClauseID, solverClauses)

LEMMA RemainingIff ==
  ASSUME NEW S
  PROVE  S \in Remaining <=>
           S \subseteq Camsis!ClauseID /\ \A cls \in solverClauses :
             Camsis!SatisfiesClause(S, cls)
BY DEF Remaining, Camsis!Solutions

LEMMA CamsisCandidateRemains ==
  ASSUME NEW S \in Camsis!Candidates
  PROVE  /\ S \in Remaining
         /\ S \in SUBSET Camsis!ClauseID
         /\ \A T \in Remaining : Camsis!Cardinality(S) <= Camsis!Cardinality(T)
BY RemainingIff DEF Camsis!Candidates, Remaining, Camsis!Smallest

--------------------------------------------------------------------------------
(* Types.                                                                     *)

LEMMA CamsisTypeInit == Camsis!Init => Camsis!TypeOK
<1> SUFFICES ASSUME Camsis!Init PROVE Camsis!TypeOK
  OBVIOUS
<1>1. solverClauses \in SUBSET Camsis!MapClause(Camsis!ClauseID)
  BY ProofAssumption, CamsisQueries
  DEF Camsis!Init, Camsis!SelectClause, Camsis!MapClause
<1>2. todo \in SUBSET Camsis!ClauseID /\ pc \in {"prepare", "extract", "refine", "done"}
  BY DEF Camsis!Init
<1>3. minimalProofs \in Seq(SUBSET Camsis!ClauseID)
  BY DEF Camsis!Init
<1> QED
  BY <1>1, <1>2, <1>3 DEF Camsis!Init, Camsis!TypeOK

LEMMA CamsisTypeRefine ==
  ASSUME Camsis!TypeOK, NEW c \in Camsis!ClauseID, Camsis!Refine(c)
  PROVE  /\ solverClauses' \in SUBSET Camsis!MapClause(Camsis!ClauseID)
         /\ collapseFound' \in [Camsis!ClauseID -> SUBSET SUBSET Camsis!ClauseID]
<1>1. Camsis!NextCollapseSets(c, collapseFound[c]) \in SUBSET SUBSET Camsis!ClauseID
  BY DEF Camsis!NextCollapseSets, Camsis!CollapseSets
<1>2. \A K \in SUBSET Camsis!ClauseID : Camsis!CollapseClause(c, K) \in
        Camsis!MapClause(Camsis!ClauseID)
  BY DEF Camsis!CollapseClause, Camsis!MapClause
<1> QED
  BY <1>1, <1>2 DEF Camsis!Refine, Camsis!TypeOK

\* Every step keeps the types.
LEMMA CamsisTypeNext == Camsis!TypeOK /\ [Camsis!Next]_Camsis!vars => Camsis!TypeOK'
<1> SUFFICES ASSUME Camsis!TypeOK, [Camsis!Next]_Camsis!vars PROVE Camsis!TypeOK'
  OBVIOUS
<1>1. CASE Camsis!ExtractMSIS
  <2>1. PICK S \in Camsis!Candidates : Camsis!Record(S)
    BY <1>1 DEF Camsis!ExtractMSIS
  <2>2. S \in SUBSET Camsis!ClauseID
    BY CamsisCandidateRemains
  <2>3. minimalProofs' \in Seq(SUBSET Camsis!ClauseID)
    BY <2>1, <2>2, RangeAppend DEF Camsis!Record, Camsis!TypeOK
  <2>4. solverClauses' \in SUBSET Camsis!MapClause(Camsis!ClauseID)
    BY <2>1, <2>2
    DEF Camsis!Record, Camsis!TypeOK, Camsis!BlockUpClause, Camsis!MapClause
  <2> QED
    BY <2>1, <2>2, <2>3, <2>4 DEF Camsis!Record, Camsis!TypeOK
<1>2. CASE Camsis!ExtractNonSIS
  <2>1. candidate' \in SUBSET Camsis!ClauseID
    BY <1>2, CamsisCandidateRemains DEF Camsis!ExtractNonSIS
  <2>2. todo' \in SUBSET Camsis!ClauseID
    BY <1>2, <2>1 DEF Camsis!ExtractNonSIS, Camsis!Unsupported
  <2> QED
    BY <1>2, <2>1, <2>2 DEF Camsis!ExtractNonSIS, Camsis!TypeOK
<1>3. CASE Camsis!Exhausted
  BY <1>3 DEF Camsis!Exhausted, Camsis!TypeOK
<1>4. ASSUME NEW c \in Camsis!ClauseID, Camsis!PrepareRefine(c)
      PROVE  Camsis!TypeOK'
  BY <1>4, CamsisTypeRefine DEF Camsis!PrepareRefine, Camsis!TypeOK
<1>5. ASSUME NEW c \in Camsis!ClauseID, Camsis!PrepareNext(c)
      PROVE  Camsis!TypeOK'
  BY <1>5 DEF Camsis!PrepareNext, Camsis!NoRefinement, Camsis!TypeOK
<1>6. ASSUME NEW c \in Camsis!ClauseID, Camsis!RefineStep(c)
      PROVE  Camsis!TypeOK'
  <2>1. /\ solverClauses' \in SUBSET Camsis!MapClause(Camsis!ClauseID)
        /\ collapseFound' \in [Camsis!ClauseID -> SUBSET SUBSET Camsis!ClauseID]
    BY <1>6, CamsisTypeRefine
    DEF Camsis!RefineStep, Camsis!NoRefinement, Camsis!TypeOK
  <2> QED
    BY <1>6, <2>1 DEF Camsis!RefineStep, Camsis!TypeOK
<1>7. CASE UNCHANGED Camsis!vars
  BY <1>7 DEF Camsis!vars, Camsis!TypeOK
<1> QED
  BY <1>1, <1>2, <1>3, <1>4, <1>5, <1>6, <1>7 DEF Camsis!Next

--------------------------------------------------------------------------------
(* The inductive invariant.                                                   *)

\* Everything above a recorded proof is blocked (blockMSIS).
CamsisFoundBlocked == \A M \in Camsis!Found : Camsis!BlockUpClause(M) \in solverClauses

\* No candidate left is smaller than a recorded proof.
CamsisSizesBelow == \A M \in Camsis!Found : \A S \in Remaining :
    Camsis!Cardinality(M) <= Camsis!Cardinality(S)

\* The first proof is the minimum, and known as such.
CamsisFirstIsMinimum ==
  IF minimalProofs = <<>>
  THEN minimumProof = {}
  ELSE minimumProof \in Camsis!Found \intersect Camsis!SmallestSIS

\* The same MSIS is never recorded twice.
CamsisNoDuplicates ==
  \A i, j \in DOMAIN minimalProofs : minimalProofs[i] = minimalProofs[j] => i = j

\* What the solver and the results have to do with each other.
CamsisCore ==
  /\ Camsis!SelectClause(Property) \in solverClauses
  /\ Camsis!FoundAreMSISes
  /\ CamsisFoundBlocked
  /\ Camsis!NothingLost
  /\ CamsisNoDuplicates
  /\ CamsisSizesBelow
  /\ Camsis!InOrderOfSize
  /\ CamsisFirstIsMinimum

\* The collapse sets that the finder does not offer again are in the solver.
CamsisCollapseBlocked ==
  \A c \in Camsis!ClauseID : \A L \in collapseFound[c] : Camsis!CollapseClause(c,
  L) \in solverClauses

\* The naive variant has all of the collapse sets of the clauses it is done with.
CamsisPrepared ==
  IF camsis_ar
  THEN pc # "prepare"
  ELSE /\ pc # "refine"
       /\ \A c \in Camsis!ClauseID :
            (pc = "prepare" /\ c \in todo) \/ Camsis!NextCollapseSets(c, collapseFound[c]) = {}

\* Nothing is left when minimize() returns.
CamsisDoneInv == pc = "done" => Remaining = {}

CamsisInv ==
  /\ Camsis!TypeOK
  /\ CamsisCore
  /\ CamsisCollapseBlocked
  /\ CamsisPrepared
  /\ Camsis!CollapseSetLeft
  /\ CamsisDoneInv

LEMMA CamsisInitInv == Camsis!Init => CamsisInv
<1> SUFFICES ASSUME Camsis!Init PROVE CamsisInv
  OBVIOUS
<1>1. Camsis!TypeOK
  BY CamsisTypeInit
<1>2. Camsis!Found = {} /\ minimalProofs = <<>> /\ DOMAIN minimalProofs = {}
  BY DEF Camsis!Init, Camsis!Found
<1>3. \A S \in Camsis!SIS : S \in Remaining
  <2>1. \A S \in Camsis!SIS : S \subseteq Camsis!ClauseID /\ Property \in S
    BY CamsisSISSubset DEF Camsis!IsSIS
  <2> QED
    BY <2>1, RemainingIff, CamsisSelectClauseIff DEF Camsis!Init
<1>4. CamsisCore
  BY <1>2, <1>3
     DEF Camsis!Init, CamsisCore, Camsis!FoundAreMSISes, CamsisFoundBlocked,
         Camsis!NothingLost, Remaining, CamsisNoDuplicates,
         CamsisSizesBelow, Camsis!InOrderOfSize, CamsisFirstIsMinimum
<1> QED
  BY <1>1, <1>4
  DEF Camsis!Init, CamsisInv, CamsisCollapseBlocked, CamsisPrepared,
      Camsis!CollapseSetLeft, CamsisDoneInv

\* A candidate of least size has no SIS inside but itself.
LEMMA CamsisCandidateMinimal ==
  ASSUME CamsisCore, NEW S \in Camsis!Candidates, NEW T \in Camsis!SIS, T \subseteq S
  PROVE  T = S
<1>1. S \in Remaining /\ S \in SUBSET Camsis!ClauseID
  BY CamsisCandidateRemains
<1>2. \A M \in Camsis!Found : ~(M \subseteq S)
  BY <1>1, RemainingIff, CamsisBlockUpClauseIff DEF CamsisCore, CamsisFoundBlocked
<1>3. T \in Remaining
  BY <1>2 DEF CamsisCore, Camsis!NothingLost, Remaining
<1>4. Camsis!Cardinality(S) <= Camsis!Cardinality(T)
  BY <1>3, CamsisCandidateRemains
<1> QED
  BY <1>1, <1>4, CamsisClauseIDFinite, CamsisSizes

\* What is recorded is an MSIS, whether its clauses were checked or all of their
\* collapse sets are known.
LEMMA CamsisRecordedIsMSIS ==
  ASSUME CamsisInv, pc = "extract", NEW S \in Camsis!Candidates, camsis_ar =>
           Camsis!Unsupported(S) = {}
  PROVE  S \in Camsis!MSIS /\ S \notin Camsis!Found
<1>1. S \in Remaining /\ S \in SUBSET Camsis!ClauseID
  BY CamsisCandidateRemains
<1>2. Camsis!Unsupported(S) = {}
  <2>1. CASE camsis_ar
    BY <2>1
  <2>2. CASE ~camsis_ar
    <3> SUFFICES ASSUME NEW c \in Camsis!Unsupported(S) PROVE FALSE
      OBVIOUS
    <3>1. c \in S /\ c \in Camsis!ClauseID
      BY <1>1 DEF Camsis!Unsupported
    <3>2. \A L \in collapseFound[c] : S \intersect L # {}
      BY <1>1, <3>1, RemainingIff, CamsisCollapseClauseIff
      DEF CamsisInv, CamsisCollapseBlocked
    <3>3. Camsis!NextCollapseSets(c, collapseFound[c]) # {}
      BY <1>1, <3>2, CamsisCollapseSetIsLeft
    <3> QED
      BY <2>2, <3>1, <3>3 DEF CamsisInv, CamsisPrepared
  <2> QED
    BY <2>1, <2>2
<1>3. Property \in S
  BY <1>1, RemainingIff, CamsisSelectClauseIff DEF CamsisInv, CamsisCore
<1>4. S \in Camsis!SIS
  BY <1>1, <1>2, <1>3, CamsisSISSubset
  DEF Camsis!IsSIS, Camsis!IsInductive, Camsis!Unsupported
<1>5. S \notin Camsis!Found
  BY <1>1, RemainingIff, CamsisBlockUpClauseIff
  DEF CamsisInv, CamsisCore, CamsisFoundBlocked
<1> QED
  BY <1>4, <1>5, CamsisCandidateMinimal DEF Camsis!MSIS, CamsisInv

\* Recording the MSIS S, a candidate of least size.
LEMMA CamsisRecordKeepsCore ==
  ASSUME Camsis!TypeOK, CamsisCore, NEW S \in Camsis!Candidates, S \in Camsis!MSIS,
         S \notin Camsis!Found, Camsis!Record(S)
  PROVE  CamsisCore'
<1>1. S \in Remaining /\ S \in SUBSET Camsis!ClauseID /\ \A T \in Remaining :
        Camsis!Cardinality(S) <= Camsis!Cardinality(T)
  BY CamsisCandidateRemains
<1>2. minimalProofs \in Seq(SUBSET Camsis!ClauseID) /\ minimalProofs' = Append(minimalProofs, S)
  BY DEF Camsis!TypeOK, Camsis!Record
<1>3. Camsis!Found' = Camsis!Found \union {S}
  BY <1>1, <1>2, RangeAppend DEF Camsis!Found
<1>4. solverClauses' = solverClauses \union {Camsis!BlockUpClause(S)}
  BY DEF Camsis!Record
<1>5. Remaining' = { T \in Remaining : ~(S \subseteq T) }
  <2>1. Remaining' = { T \in Remaining : Camsis!SatisfiesClause(T, Camsis!BlockUpClause(S)) }
    BY <1>4, CamsisAddClauseSolutions DEF Remaining
  <2>2. \A T : Camsis!SatisfiesClause(T, Camsis!BlockUpClause(S)) <=> ~(S \subseteq T)
    BY CamsisBlockUpClauseIff
  <2> QED
    BY <2>1, <2>2
<1>6. /\ \A i \in DOMAIN minimalProofs' :
           IF i \in DOMAIN minimalProofs
           THEN minimalProofs'[i] = minimalProofs[i]
           ELSE minimalProofs'[i] = S
      /\ \A i, j \in DOMAIN minimalProofs' :
           i \notin DOMAIN minimalProofs /\ j \notin DOMAIN minimalProofs => i = j
  BY <1>1, <1>2, RangeAppend
<1>7. (Camsis!SelectClause(Property) \in solverClauses)' /\ Camsis!FoundAreMSISes' /\
        CamsisFoundBlocked'
  BY <1>3, <1>4 DEF CamsisCore, Camsis!FoundAreMSISes, CamsisFoundBlocked
<1>8. Camsis!NothingLost'
  <2>1. \A T \in Camsis!SIS : T \in Remaining \/ \E M \in Camsis!Found : M \subseteq T
    BY DEF CamsisCore, Camsis!NothingLost, Remaining
  <2>2. \A T \in Camsis!SIS : T \in Remaining' \/ \E M \in Camsis!Found' : M \subseteq T
    BY <1>3, <1>5, <2>1
  <2> QED
    BY <2>2 DEF Camsis!NothingLost, Remaining
<1>9. CamsisNoDuplicates'
  <2>1. \A i \in DOMAIN minimalProofs : minimalProofs[i] # S
    BY DEF Camsis!Found
  <2>2. \A i, j \in DOMAIN minimalProofs : minimalProofs[i] = minimalProofs[j] => i = j
    BY DEF CamsisCore, CamsisNoDuplicates
  <2> SUFFICES ASSUME NEW i \in DOMAIN minimalProofs', NEW j \in DOMAIN minimalProofs',
                      minimalProofs'[i] = minimalProofs'[j]
               PROVE  i = j
    BY DEF CamsisNoDuplicates
  <2> QED
    BY <1>6, <2>1, <2>2
<1>10. CamsisSizesBelow'
  BY <1>1, <1>3, <1>5 DEF CamsisCore, CamsisSizesBelow
<1>11. Camsis!InOrderOfSize'
  <2>1. \A i \in DOMAIN minimalProofs : Camsis!Cardinality(minimalProofs[i]) <=
          Camsis!Cardinality(S)
    BY <1>1 DEF CamsisCore, CamsisSizesBelow, Camsis!Found
  <2>2. \A i, j \in DOMAIN minimalProofs :
          i <= j => Camsis!Cardinality(minimalProofs[i]) <= Camsis!Cardinality(minimalProofs[j])
    BY DEF CamsisCore, Camsis!InOrderOfSize
  <2>3. DOMAIN minimalProofs = 1 .. Len(minimalProofs) /\ Len(minimalProofs) \in Nat
    BY <1>2
  <2>4. DOMAIN minimalProofs' = 1 .. Len(minimalProofs) + 1
    BY <1>1, <1>2
  <2>5. Camsis!Cardinality(S) \in Nat
    BY <1>1, CamsisClauseIDFinite, CamsisSizes
  <2> SUFFICES ASSUME NEW i \in DOMAIN minimalProofs', NEW j \in DOMAIN minimalProofs', i <= j
               PROVE  Camsis!Cardinality(minimalProofs'[i]) <=
                        Camsis!Cardinality(minimalProofs'[j])
    BY DEF Camsis!InOrderOfSize
  <2>6. CASE j \in DOMAIN minimalProofs
    <3>1. i \in DOMAIN minimalProofs
      BY <2>3, <2>4, <2>6
    <3> QED
      BY <1>6, <2>2, <2>6, <3>1
  <2>7. CASE j \notin DOMAIN minimalProofs /\ i \in DOMAIN minimalProofs
    BY <1>6, <2>1, <2>7
  <2>8. CASE j \notin DOMAIN minimalProofs /\ i \notin DOMAIN minimalProofs
    BY <1>6, <2>5, <2>8
  <2> QED
    BY <2>6, <2>7, <2>8
<1>12. CamsisFirstIsMinimum'
  <2>1. minimalProofs' # <<>>
    BY <1>1, <1>2
  <2>2. CASE minimalProofs = <<>>
    <3>1. Camsis!Found = {} /\ minimumProof' = S
      BY <2>2 DEF Camsis!Found, Camsis!Record
    <3>2. \A T \in Camsis!SIS : T \in Remaining
      BY <3>1 DEF CamsisCore, Camsis!NothingLost, Remaining
    <3>3. S \in Camsis!SmallestSIS
      BY <1>1, <3>2, CamsisMSISIsSIS DEF Camsis!SmallestSIS
    <3> QED
      BY <1>3, <2>1, <3>1, <3>3 DEF CamsisFirstIsMinimum
  <2>3. CASE minimalProofs # <<>>
    BY <1>3, <2>1, <2>3 DEF Camsis!Record, CamsisCore, CamsisFirstIsMinimum
  <2> QED
    BY <2>2, <2>3
<1> QED
  BY <1>7, <1>8, <1>9, <1>10, <1>11, <1>12 DEF CamsisCore

\* A collapse clause excludes candidates only.
LEMMA CamsisRefineKeepsCore ==
  ASSUME Camsis!TypeOK, CamsisCore, NEW c \in Camsis!ClauseID, Camsis!Refine(c),
         UNCHANGED <<minimalProofs, minimumProof>>
  PROVE  CamsisCore'
<1>1. PICK K \in Camsis!NextCollapseSets(c, collapseFound[c]) :
        solverClauses' = solverClauses \union {Camsis!CollapseClause(c, K)}
  BY DEF Camsis!Refine
<1>2. \A S \in Camsis!SIS : Camsis!SatisfiesClause(S, Camsis!CollapseClause(c, K))
  <2>1. K \in Camsis!CollapseSets(c)
    BY DEF Camsis!NextCollapseSets
  <2> QED
    BY <2>1, CamsisSISSubset, CamsisCollapseClauseSound DEF Camsis!IsSIS
<1>3. Remaining' = { S \in Remaining : Camsis!SatisfiesClause(S, Camsis!CollapseClause(c, K)) }
  BY <1>1, CamsisAddClauseSolutions DEF Remaining
<1>4. Camsis!Found' = Camsis!Found
  BY DEF Camsis!Found
<1>5. Camsis!NothingLost'
  <2>1. \A S \in Camsis!SIS : S \in Remaining' \/ \E M \in Camsis!Found' : M \subseteq S
    BY <1>2, <1>3, <1>4 DEF CamsisCore, Camsis!NothingLost, Remaining
  <2> QED
    BY <2>1 DEF Camsis!NothingLost, Remaining
<1>6. CamsisSizesBelow'
  BY <1>3, <1>4 DEF CamsisCore, CamsisSizesBelow
<1>7. CamsisFoundBlocked' /\ (Camsis!SelectClause(Property) \in solverClauses)'
  BY <1>1, <1>4 DEF CamsisCore, CamsisFoundBlocked
<1>8. Camsis!FoundAreMSISes' /\ CamsisNoDuplicates' /\ Camsis!InOrderOfSize' /\
        CamsisFirstIsMinimum'
  BY <1>4
  DEF CamsisCore, Camsis!FoundAreMSISes, CamsisNoDuplicates, Camsis!InOrderOfSize,
      CamsisFirstIsMinimum
<1> QED
  BY <1>5, <1>6, <1>7, <1>8 DEF CamsisCore

LEMMA CamsisRefineKeepsBlocked ==
  ASSUME Camsis!TypeOK, CamsisCollapseBlocked, NEW c \in Camsis!ClauseID, Camsis!Refine(c)
  PROVE  /\ CamsisCollapseBlocked'
         /\ \A d \in Camsis!ClauseID : d # c => collapseFound'[d] = collapseFound[d]
<1>1. PICK K \in Camsis!NextCollapseSets(c, collapseFound[c]) :
        /\ solverClauses' = solverClauses \union {Camsis!CollapseClause(c, K)}
        /\ collapseFound' = [collapseFound EXCEPT ![c] = @ \union {K}]
  BY DEF Camsis!Refine
<1>2. \A d \in Camsis!ClauseID :
        collapseFound'[d] = IF d = c THEN collapseFound[c] \union {K} ELSE collapseFound[d]
  BY <1>1 DEF Camsis!TypeOK
<1> QED
  BY <1>1, <1>2 DEF CamsisCollapseBlocked

LEMMA CamsisNothingRecorded ==
  ASSUME CamsisCore, UNCHANGED <<solverClauses, minimalProofs, minimumProof>>
  PROVE  CamsisCore'
<1>1. Camsis!Found' = Camsis!Found /\ Remaining' = Remaining
  BY DEF Camsis!Found, Remaining
<1> QED
  BY <1>1
  DEF CamsisCore, Camsis!FoundAreMSISes, CamsisFoundBlocked, Camsis!NothingLost,
      Remaining, CamsisNoDuplicates,
              CamsisSizesBelow, Camsis!InOrderOfSize, CamsisFirstIsMinimum

\* Every step keeps the invariant.
LEMMA CamsisNextInv ==
  ASSUME CamsisInv, [Camsis!Next]_Camsis!vars
  PROVE  CamsisInv'
<1>1. Camsis!TypeOK /\ Camsis!TypeOK'
  BY CamsisTypeNext DEF CamsisInv
<1>2. CASE Camsis!ExtractMSIS
  <2>1. PICK S \in Camsis!Candidates : (camsis_ar => Camsis!Unsupported(S) = {}) /\
               Camsis!Record(S)
    BY <1>2 DEF Camsis!ExtractMSIS
  <2>2. pc = "extract" /\ UNCHANGED <<camsis_ar, collapseFound, todo, pc>>
    BY <1>2, <2>1 DEF Camsis!ExtractMSIS, Camsis!Record
  <2>3. CamsisCore'
    BY <2>1, <2>2, CamsisRecordedIsMSIS, CamsisRecordKeepsCore DEF CamsisInv
  <2>4. solverClauses \subseteq solverClauses'
    BY <2>1 DEF Camsis!Record
  <2> QED
    BY <1>1, <2>2, <2>3, <2>4
    DEF CamsisInv, CamsisCollapseBlocked, CamsisPrepared, Camsis!CollapseSetLeft,
        CamsisDoneInv
<1>3. CASE Camsis!ExtractNonSIS
  <2>1. PICK S \in Camsis!Candidates : todo' = Camsis!Unsupported(S)
    BY <1>3 DEF Camsis!ExtractNonSIS
  <2>2. /\ pc = "extract" /\ pc' = "refine" /\ camsis_ar
        /\ UNCHANGED <<camsis_ar, solverClauses, collapseFound, minimalProofs, minimumProof>>
    BY <1>3 DEF Camsis!ExtractNonSIS
  <2>3. CamsisCore'
    BY <2>2, CamsisNothingRecorded DEF CamsisInv
  <2>4. ASSUME NEW c \in Camsis!Unsupported(S)
        PROVE  Camsis!NextCollapseSets(c, collapseFound[c]) # {}
    <3>1. S \in Remaining /\ S \in SUBSET Camsis!ClauseID /\ c \in S /\ c \in Camsis!ClauseID
      BY CamsisCandidateRemains DEF Camsis!Unsupported
    <3>2. \A L \in collapseFound[c] : S \intersect L # {}
      BY <3>1, RemainingIff, CamsisCollapseClauseIff
      DEF CamsisInv, CamsisCollapseBlocked
    <3> QED
      BY <3>1, <3>2, CamsisCollapseSetIsLeft
  <2>5. Camsis!CollapseSetLeft'
    BY <2>1, <2>2, <2>4 DEF Camsis!CollapseSetLeft
  <2> QED
    BY <1>1, <2>2, <2>3, <2>5
    DEF CamsisInv, CamsisCollapseBlocked, CamsisPrepared, CamsisDoneInv
<1>4. CASE Camsis!Exhausted
  <2>1. /\ pc = "extract" /\ pc' = "done"
        /\ UNCHANGED <<camsis_ar, solverClauses, collapseFound, minimalProofs, minimumProof, todo>>
    BY <1>4 DEF Camsis!Exhausted
  <2>2. Remaining = {}
    <3>1. Camsis!Smallest(Remaining) = {}
      BY <1>4 DEF Camsis!Exhausted, Camsis!Candidates, Remaining
    <3>2. Remaining \in SUBSET SUBSET Camsis!ClauseID
      BY RemainingIff
    <3> QED
      BY <3>1, <3>2, CamsisClauseIDFinite, CamsisSmallestExists
  <2>3. CamsisCore' /\ CamsisDoneInv'
    BY <2>1, <2>2, CamsisNothingRecorded DEF CamsisInv, CamsisDoneInv, Remaining
  <2> QED
    BY <1>1, <2>1, <2>3
    DEF CamsisInv, CamsisCollapseBlocked, CamsisPrepared, Camsis!CollapseSetLeft
<1>5. ASSUME NEW c \in Camsis!ClauseID, Camsis!PrepareRefine(c)
      PROVE  CamsisInv'
  <2>1. /\ pc = "prepare" /\ c \in todo /\ Camsis!Refine(c)
        /\ UNCHANGED <<camsis_ar, minimalProofs, minimumProof, todo, pc>>
    BY <1>5 DEF Camsis!PrepareRefine, Camsis!IsNext
  <2>2. CamsisCore' /\ CamsisCollapseBlocked' /\ \A d \in Camsis!ClauseID : d # c =>
          collapseFound'[d] = collapseFound[d]
    BY <1>1, <2>1, CamsisRefineKeepsCore, CamsisRefineKeepsBlocked DEF CamsisInv
  <2>3. CamsisPrepared'
    BY <2>1, <2>2 DEF CamsisInv, CamsisPrepared
  <2> QED
    BY <1>1, <2>1, <2>2, <2>3 DEF CamsisInv, Camsis!CollapseSetLeft, CamsisDoneInv
<1>6. ASSUME NEW c \in Camsis!ClauseID, Camsis!PrepareNext(c)
      PROVE  CamsisInv'
  <2>1. /\ pc = "prepare" /\ pc' \in {"extract", "prepare"} /\ todo' = todo \ {c}
        /\ pc' = "extract" => todo' = {}
        /\ Camsis!NextCollapseSets(c, collapseFound[c]) = {}
        /\ UNCHANGED <<camsis_ar, solverClauses, collapseFound, minimalProofs, minimumProof>>
    BY <1>6 DEF Camsis!PrepareNext, Camsis!NoRefinement
  <2>2. CamsisCore'
    BY <2>1, CamsisNothingRecorded DEF CamsisInv
  <2>3. CamsisPrepared'
    BY <2>1 DEF CamsisInv, CamsisPrepared
  <2> QED
    BY <1>1, <2>1, <2>2, <2>3
    DEF CamsisInv, CamsisCollapseBlocked, Camsis!CollapseSetLeft, CamsisDoneInv
<1>7. ASSUME NEW c \in Camsis!ClauseID, Camsis!RefineStep(c)
      PROVE  CamsisInv'
  <2>1. /\ pc = "refine" /\ pc' \in {"extract", "refine"} /\ c \in todo /\ todo' = todo \ {c}
        /\ UNCHANGED <<camsis_ar, minimalProofs, minimumProof>>
    BY <1>7 DEF Camsis!RefineStep, Camsis!IsNext
  <2>2. Camsis!Refine(c)
    BY <1>7, <2>1
    DEF Camsis!RefineStep, Camsis!NoRefinement, CamsisInv, Camsis!CollapseSetLeft
  <2>3. CamsisCore' /\ CamsisCollapseBlocked' /\ \A d \in Camsis!ClauseID : d # c =>
          collapseFound'[d] = collapseFound[d]
    BY <1>1, <2>1, <2>2, CamsisRefineKeepsCore, CamsisRefineKeepsBlocked DEF CamsisInv
  <2>4. Camsis!CollapseSetLeft'
    BY <1>1, <2>1, <2>3 DEF CamsisInv, Camsis!TypeOK, Camsis!CollapseSetLeft
  <2>5. CamsisPrepared'
    BY <2>1 DEF CamsisInv, CamsisPrepared
  <2> QED
    BY <1>1, <2>1, <2>3, <2>4, <2>5 DEF CamsisInv, CamsisDoneInv
<1>8. CASE UNCHANGED Camsis!vars
  <2>1. CamsisCore' /\ Remaining' = Remaining
    BY <1>8, CamsisNothingRecorded DEF Camsis!vars, CamsisInv, Remaining
  <2> QED
    BY <1>1, <1>8, <2>1
    DEF Camsis!vars, CamsisInv, CamsisCollapseBlocked, CamsisPrepared,
        Camsis!CollapseSetLeft, CamsisDoneInv
<1> QED
  BY <1>2, <1>3, <1>4, <1>5, <1>6, <1>7, <1>8 DEF Camsis!Next

--------------------------------------------------------------------------------
(* CAMSIS implements MinimalSetEnumeration.                                   *)

\* What is reported to the caller is what was found.
LEMMA CamsisSameReported ==
  Enumeration!Reported = Camsis!Found /\ MSIS = Camsis!MSIS /\ SmallestSIS = Camsis!SmallestSIS
BY CamsisQueries DEF Enumeration!Reported, Camsis!Found

\* Once no candidate is left, every MSIS has been recorded.
LEMMA CamsisAllFound ==
  ASSUME CamsisCore, Remaining = {}
  PROVE  Camsis!MSIS \subseteq Camsis!Found /\ minimalProofs # <<>>
<1>1. ASSUME NEW S \in Camsis!MSIS
      PROVE  S \in Camsis!Found
  <2>1. PICK M \in Camsis!Found : M \subseteq S
    BY <1>1, CamsisMSISIsSIS DEF CamsisCore, Camsis!NothingLost, Remaining
  <2>2. M = S
    BY <1>1, <2>1, CamsisMSISIsSIS DEF CamsisCore, Camsis!FoundAreMSISes, Camsis!MSIS
  <2> QED
    BY <2>1, <2>2
<1>2. Camsis!Found # {}
  <2>1. Camsis!ClauseID \in Camsis!SIS
    BY ProofIsInductive, CamsisQueries DEF Camsis!SIS
  <2> QED
    BY <2>1 DEF CamsisCore, Camsis!NothingLost, Remaining
<1>3. minimalProofs # <<>>
  BY <1>2 DEF Camsis!Found
<1> QED
  BY <1>1, <1>3

\* Each step reports a proof, returns or stutters.
LEMMA CamsisStepSimulation ==
  ASSUME CamsisInv, CamsisInv', [Camsis!Next]_Camsis!vars
  PROVE  [Enumeration!Next]_Enumeration!vars
<1> USE DEF Enumeration!vars
<1>1. CASE Camsis!ExtractMSIS
  <2>1. PICK S \in Camsis!Candidates : (camsis_ar => Camsis!Unsupported(S) = {}) /\
               Camsis!Record(S)
    BY <1>1 DEF Camsis!ExtractMSIS
  <2>2. pc = "extract" /\ pc' = "extract" /\ minimalProofs' = Append(minimalProofs, S)
    BY <1>1, <2>1 DEF Camsis!ExtractMSIS, Camsis!Record
  <2>3. S \in Camsis!MSIS /\ S \notin Camsis!Found /\ S \in SUBSET Camsis!ClauseID
    BY <2>1, <2>2, CamsisRecordedIsMSIS, CamsisCandidateRemains
  <2>4. Camsis!Found' = Camsis!Found \union {S} /\ minimalProofs' # <<>>
    <3>1. minimalProofs \in Seq(SUBSET Camsis!ClauseID)
      BY DEF CamsisInv, Camsis!TypeOK
    <3>2. Camsis!Found' = Camsis!Found \union {S}
      BY <2>2, <2>3, <3>1, RangeAppend DEF Camsis!Found
    <3>3. minimalProofs' # <<>>
      BY <2>2, <2>3, <3>1
    <3> QED
      BY <3>2, <3>3
  <2>5. minimumProof' \in Camsis!Found' \intersect Camsis!SmallestSIS
    BY <2>4 DEF CamsisInv, CamsisCore, CamsisFirstIsMinimum
  <2>6. minimumProof' = minimumProof \/ minimumProof = {}
    BY <2>1 DEF Camsis!Record, CamsisInv, CamsisCore, CamsisFirstIsMinimum
  <2>7. Enumeration!Announcement(Camsis!Found \union {S})
    BY <2>4, <2>5, <2>6, CamsisSameReported DEF Enumeration!Announcement
  <2> QED
    BY <2>2, <2>3, <2>7, CamsisSameReported DEF Enumeration!Next, Enumeration!Report
<1>2. CASE Camsis!Exhausted
  <2>1. pc # "done" /\ pc' = "done" /\ UNCHANGED <<minimalProofs, minimumProof, solverClauses>>
    BY <1>2 DEF Camsis!Exhausted
  <2>2. Remaining = {}
    BY <2>1 DEF CamsisInv, CamsisDoneInv, Remaining
  <2>3. Camsis!MSIS \subseteq Camsis!Found /\ minimalProofs # <<>>
    BY <2>2, CamsisAllFound DEF CamsisInv
  <2>4. minimumProof # {}
    <3>1. minimumProof \in Camsis!SIS
      BY <2>3 DEF CamsisInv, CamsisCore, CamsisFirstIsMinimum, Camsis!SmallestSIS
    <3> QED
      BY <3>1, CamsisSISSubset DEF Camsis!IsSIS
  <2> QED
    BY <2>1, <2>3, <2>4, CamsisSameReported
       DEF Enumeration!Next, Enumeration!Return, Enumeration!Announcement
<1>3. ASSUME UNCHANGED <<minimalProofs, minimumProof>>, pc # "done", pc' # "done"
      PROVE  UNCHANGED Enumeration!vars
  BY <1>3
<1>4. CASE Camsis!ExtractNonSIS
  BY <1>3, <1>4 DEF Camsis!ExtractNonSIS
<1>5. ASSUME NEW c \in Camsis!ClauseID,
             Camsis!PrepareRefine(c) \/ Camsis!PrepareNext(c) \/ Camsis!RefineStep(c)
      PROVE  UNCHANGED Enumeration!vars
  BY <1>3, <1>5 DEF Camsis!PrepareRefine, Camsis!PrepareNext, Camsis!RefineStep
<1>6. CASE UNCHANGED Camsis!vars
  BY <1>6 DEF Camsis!vars
<1> QED
  BY <1>1, <1>2, <1>4, <1>5, <1>6 DEF Camsis!Next

--------------------------------------------------------------------------------
(* The algorithm that was picked keeps its invariant.                         *)

\* With settings other than the sound ones MARCO keeps its types only.
EnumeratorsTypes ==
  /\ algorithm \in {"marco", "camsis"}
  /\ algorithm = "marco" => Marco!TypeOK
  /\ algorithm = "camsis" => Camsis!TypeOK

EnumeratorsInv ==
  /\ algorithm = "marco" => MarcoInv
  /\ algorithm = "camsis" => CamsisInv

\* Each step is one of the algorithm that was picked.
LEMMA PickedStep ==
  ASSUME [Next]_vars
  PROVE  /\ algorithm' = algorithm
         /\ algorithm = "marco" => [Marco!Next]_Marco!vars
         /\ algorithm = "camsis" => [Camsis!Next]_Camsis!vars
<1>1. CASE MarcoStep
  BY <1>1 DEF MarcoStep
<1>2. CASE CamsisStep
  BY <1>2 DEF CamsisStep
<1>3. CASE UNCHANGED vars
  BY <1>3
  DEF vars, marcoVars, Marco!vars, Marco!mapVars, Marco!resultVars, Marco!workVars,
      camsisVars,
      Camsis!vars
<1> QED
  BY <1>1, <1>2, <1>3 DEF Next

\* The variables keep the types of the members and locals they stand for, in both
\* algorithms and with every setting of MARCO's options.
THEOREM TypeCorrect == Spec => []EnumeratorsTypes
<1>1. Init => EnumeratorsTypes
  BY MarcoTypeInit, CamsisTypeInit DEF Init, EnumeratorsTypes
<1>2. EnumeratorsTypes /\ [Next]_vars => EnumeratorsTypes'
  BY PickedStep, MarcoTypeNext, CamsisTypeNext DEF EnumeratorsTypes
<1> QED
  BY <1>1, <1>2, PTL DEF Spec

\* The inductive invariant of CAMSIS needs no hypothesis.
LEMMA CamsisInvariance == Spec => [](algorithm = "camsis" => CamsisInv)
<1>1. Init => (algorithm = "camsis" => CamsisInv)
  BY CamsisInitInv DEF Init
<1>2. (algorithm = "camsis" => CamsisInv) /\ [Next]_vars
      => (algorithm = "camsis" => CamsisInv)'
  BY PickedStep, CamsisNextInv
<1> QED
  BY <1>1, <1>2, PTL DEF Spec

\* The inductive invariants hold throughout, whichever algorithm was picked.
THEOREM EnumeratorsInvariance ==
  ASSUME Options \subseteq Marco!SoundOptions
  PROVE  Spec => []EnumeratorsInv
<1>1. Init => (algorithm = "marco" => MarcoInv)
  BY MarcoInitInv DEF Init
<1>2. (algorithm = "marco" => MarcoInv) /\ [Next]_vars => (algorithm = "marco" => MarcoInv)'
  BY PickedStep, MarcoNextInv
<1> QED
  BY <1>1, <1>2, CamsisInvariance, PTL DEF Spec, EnumeratorsInv

--------------------------------------------------------------------------------
(* What follows for minimize().                                               *)

\* Only minimal safe inductive subsets are recorded, also those MARCO does not
\* search or shrink (marco.cpp:159-178), and those CAMSIS never checks
\* (camsis.cpp:88, camsis.cpp:123).
THEOREM RecordedAreMSISes ==
  ASSUME Options \subseteq Marco!SoundOptions
  PROVE  Spec => []FoundAreMSISes
<1>1. EnumeratorsInv /\ EnumeratorsTypes => FoundAreMSISes
  BY MarcoSameReported, CamsisSameReported
  DEF EnumeratorsInv, EnumeratorsTypes, MarcoInv, MarcoCore, Marco!FoundAreMSISes, Marco!Found,
      CamsisInv, CamsisCore, Camsis!FoundAreMSISes, Camsis!Found, FoundAreMSISes
<1> QED
  BY <1>1, EnumeratorsInvariance, TypeCorrect, PTL

\* No refinement or blocking clause loses a proof (marco.cpp:537, camsis.cpp:203).
THEOREM Lossless ==
  ASSUME Options \subseteq Marco!SoundOptions
  PROVE  Spec => []NothingLost
<1>1. EnumeratorsInv => NothingLost
  BY DEF EnumeratorsInv, MarcoInv, MarcoCore, CamsisInv, CamsisCore, NothingLost
<1> QED
  BY <1>1, EnumeratorsInvariance, PTL

\* The same proof is never recorded twice (blockUp, blockMSIS).
THEOREM RecordedOnce ==
  ASSUME Options \subseteq Marco!SoundOptions
  PROVE  Spec => [](\A i, j \in DOMAIN minimalProofs : minimalProofs[i] = minimalProofs[j] => i = j)
<1>1. EnumeratorsInv /\ EnumeratorsTypes =>
        \A i, j \in DOMAIN minimalProofs : minimalProofs[i] = minimalProofs[j] => i = j
  BY
  DEF EnumeratorsInv, EnumeratorsTypes, MarcoInv, MarcoCore, Marco!NoDuplicates,
      CamsisInv,
         CamsisCore, CamsisNoDuplicates
<1> QED
  BY <1>1, EnumeratorsInvariance, TypeCorrect, PTL

\* The bound kept from minimum seeds bounds all that MARCO has not explored
\* (marco.cpp:442).
THEOREM BoundSound ==
  ASSUME Options \subseteq Marco!SoundOptions
  PROVE  Spec => []LowerBoundSound
<1>1. EnumeratorsInv => LowerBoundSound
  BY DEF EnumeratorsInv, MarcoInv, MarcoCore, LowerBoundSound
<1> QED
  BY <1>1, EnumeratorsInvariance, PTL

\* The assertions of collapseRefine and abstractionRefinementMinimize hold: there
\* is a collapse set that the map or solver does not know (marco.cpp:530,
\* camsis.cpp:106).
THEOREM CollapseSetIsFound ==
  ASSUME Options \subseteq Marco!SoundOptions
  PROVE  Spec => []CollapseSetLeft
<1>1. EnumeratorsInv => CollapseSetLeft
  BY DEF EnumeratorsInv, MarcoInv, CamsisInv, CollapseSetLeft
<1> QED
  BY <1>1, EnumeratorsInvariance, PTL

\* CAMSIS's proofs come in order of their size (extractCandidate), whatever
\* settings there are for MARCO.
THEOREM Ordered == Spec => []InOrderOfSize
<1>1. (algorithm = "camsis" => CamsisInv) => InOrderOfSize
  BY DEF CamsisInv, CamsisCore, InOrderOfSize
<1> QED
  BY <1>1, CamsisInvariance, PTL

\* What is announced as the minimum was recorded and is one (marco.cpp:224,
\* marco.cpp:444); CAMSIS takes the first proof for it (camsis.cpp:123).
THEOREM MinimumIsMinimum ==
  ASSUME Options \subseteq Marco!SoundOptions
  PROVE  Spec => [](minimumProof # {} => minimumProof \in
           SmallestSIS \intersect Enumeration!Reported)
<1>1. EnumeratorsInv /\ EnumeratorsTypes =>
        (minimumProof # {} => minimumProof \in SmallestSIS \intersect Enumeration!Reported)
  BY MarcoSameReported, CamsisSameReported
  DEF EnumeratorsInv, EnumeratorsTypes, MarcoInv, MarcoCore, Marco!MinimumCorrect,
      CamsisInv,
      CamsisCore, CamsisFirstIsMinimum
<1> QED
  BY <1>1, EnumeratorsInvariance, TypeCorrect, PTL

\* When minimize() returns, every minimal safe inductive subset has been recorded
\* and nothing else, and a minimum announced.
THEOREM Complete ==
  ASSUME Options \subseteq Marco!SoundOptions
  PROVE  Spec => [](pc = "done" => Enumeration!Reported = MSIS /\ minimumProof # {})
<1>1. ASSUME EnumeratorsInv, EnumeratorsTypes, pc = "done"
      PROVE  Enumeration!Reported = MSIS /\ minimumProof # {}
  <2>1. CASE algorithm = "marco"
    BY <1>1, <2>1, MarcoAllFound, MarcoSameReported
    DEF EnumeratorsInv, MarcoInv, MarcoDoneInv
  <2>2. CASE algorithm = "camsis"
    <3>1. CamsisCore /\ Remaining = {}
      BY <1>1, <2>2 DEF EnumeratorsInv, CamsisInv, CamsisDoneInv
    <3>2. Enumeration!Reported = MSIS /\ minimalProofs # <<>>
      BY <3>1, CamsisAllFound, CamsisSameReported
      DEF CamsisCore, Camsis!FoundAreMSISes
    <3>3. minimumProof \in SIS
      BY <3>1, <3>2, CamsisSameReported
      DEF CamsisCore, CamsisFirstIsMinimum, SmallestSIS
    <3> QED
      BY <3>2, <3>3, SISSubset DEF IsSIS
  <2> QED
    BY <1>1, <2>1, <2>2 DEF EnumeratorsTypes
<1>2. EnumeratorsInv /\ EnumeratorsTypes =>
        (pc = "done" => Enumeration!Reported = MSIS /\ minimumProof # {})
  BY <1>1
<1> QED
  BY <1>2, EnumeratorsInvariance, TypeCorrect, PTL

\* minimize() does what a complete minimizer promises: it reports each minimal
\* proof once, announces a minimum that is one, and does not return before.
THEOREM Refinement ==
  ASSUME Options \subseteq Marco!SoundOptions
  PROVE  Spec => ImplementsEnumeration
<1>1. Init => Enumeration!Init
  BY DEF Init, Marco!Init, Camsis!Init, Enumeration!Init
<1>2. /\ EnumeratorsInv /\ EnumeratorsInv'
      /\ EnumeratorsTypes
      /\ [Next]_vars
      => [Enumeration!Next]_Enumeration!vars
  BY PickedStep, MarcoStepSimulation, CamsisStepSimulation
  DEF EnumeratorsInv, EnumeratorsTypes
<1> QED
  BY <1>1, <1>2, EnumeratorsInvariance, TypeCorrect, PTL
  DEF Spec, ImplementsEnumeration, Enumeration!Spec

================================================================================
