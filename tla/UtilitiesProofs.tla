---------------------------- MODULE UtilitiesProofs ----------------------------
(******************************************************************************)
(* The MaxSAT solvers, the finders and the map solvers answer right after     *)
(* every sequence of calls, for any number of literals, elements and groups,  *)
(* and both MaxSAT solvers implement what one promises.                       *)
(******************************************************************************)
EXTENDS Utilities, SharedTheorems

\* The numbers from 1 to n are n.
LEMMA UpToFinite ==
  ASSUME NEW n \in Nat
  PROVE  IsFiniteSet(1 .. n) /\ Cardinality(1 .. n) = n
<1>1. 1 \in Int /\ n \in Int
  OBVIOUS
<1>2. IsFiniteSet(1 .. n) /\ Cardinality(1 .. n) = IF 1 > n THEN 0 ELSE n - 1 + 1
  BY <1>1, FS_Interval
<1>3. (IF 1 > n THEN 0 ELSE n - 1 + 1) = n
  OBVIOUS
<1> QED
  BY <1>2, <1>3

--------------------------------------------------------------------------------
(* PBOMaxSATSolver.                                                           *)

LEMMA LinearNotions ==
  /\ \A T : Linear!Cardinality(T) = Cardinality(T)
  /\ \A S, cls : Linear!SatisfiesClause(S, cls) <=> SatisfiesClause(S, cls)
<1>1. \A T : Linear!Cardinality(T) = Cardinality(T)
  BY DEF Linear!Cardinality, Cardinality
<1>2. \A S, cls : Linear!SatisfiesClause(S, cls) <=> SatisfiesClause(S, cls)
  BY DEF Linear!SatisfiesClause, SatisfiesClause
<1> QED
  BY <1>1, <1>2

LinearTypes ==
  /\ solutions \in SUBSET SUBSET Lit
  /\ optimizationSet \in SUBSET Lit
  /\ sat \in BOOLEAN
  /\ optimal \in BOOLEAN
  /\ lastCardinality \in [Assumptions -> Nat]
  /\ assumps \in Assumptions
  /\ cardinality \in Nat
  /\ models \in SUBSET solutions
  /\ pc \in {"idle", "solve"}

\* No solution under the assumptions A satisfies more than n literals.
AtMost(A, n) ==
  \A S \in solutions : A \subseteq S => Cardinality(S \intersect optimizationSet) <= n

\* What is remembered of a set of assumptions bounds what can be had under them.
LinearInv ==
  /\ LinearTypes
  /\ \A A \in Assumptions : AtMost(A, lastCardinality[A])
  /\ pc = "solve" => ~optimal /\ models = {} /\ AtMost(assumps, cardinality)
  /\ Linear!AnswerOptimal

LEMMA LitSets ==
  ASSUME NEW S \in SUBSET Lit
  PROVE  /\ IsFiniteSet(S)
         /\ Cardinality(S) \in Nat
         /\ \A T \in SUBSET S : Cardinality(T) \in Nat /\ Cardinality(T) <= Cardinality(S)
BY UtilitiesAssumption, Sizes

LEMMA LinearInitInv == Linear!Init => LinearInv
<1> SUFFICES ASSUME Linear!Init PROVE LinearInv
  OBVIOUS
<1>1. lastCardinality = [A \in Assumptions |-> 0]
  BY LinearNotions, FS_EmptySet DEF Linear!Init, Linear!Unknown
<1>2. LinearTypes
  <2>1. lastCardinality \in [Assumptions -> Nat] /\ cardinality \in Nat
    BY <1>1 DEF Linear!Init
  <2>2. models \in SUBSET solutions /\ solutions \in SUBSET SUBSET Lit
    BY DEF Linear!Init
  <2> QED
    BY <2>1, <2>2, UtilitiesAssumption DEF Linear!Init, LinearTypes
<1>3. \A A \in Assumptions : AtMost(A, lastCardinality[A])
  <2>1. \A S : Cardinality(S \intersect optimizationSet) = 0
    <3>1. \A S : S \intersect {} = {}
      OBVIOUS
    <3>2. optimizationSet = {} /\ Cardinality({}) = 0
      BY FS_EmptySet DEF Linear!Init
    <3> QED
      BY <3>1, <3>2
  <2> QED
    BY <1>1, <2>1 DEF AtMost
<1> QED
  BY <1>2, <1>3 DEF Linear!Init, LinearInv, Linear!AnswerOptimal

\* The calls that change the problem.
LEMMA LinearProblemKeeps ==
  ASSUME LinearInv,
         \/ \E cls \in Linear!MapClause(Lit) : Linear!AddClause(cls)
         \/ \E lit \in Lit : Linear!AddForOptimization(lit)
         \/ Linear!Check
  PROVE  LinearInv'
<1>1. /\ pc = "idle" /\ pc' = "idle" /\ sat' \in BOOLEAN
      /\ assumps' = {} /\ cardinality' = 0 /\ optimal' = FALSE /\ models' = {}
      /\ solutions' \subseteq solutions
  BY
  DEF LinearInv, LinearTypes, Linear!AddClause, Linear!AddForOptimization,
      Linear!Check,
      Linear!Forget
<1>2. /\ optimizationSet' \in SUBSET Lit
      /\ lastCardinality' \in [Assumptions -> Nat]
      /\ \A A \in Assumptions : AtMost(A, lastCardinality[A])'
  <2>1. CASE \E lit \in Lit : Linear!AddForOptimization(lit)
    <3>1. PICK lit \in Lit : Linear!AddForOptimization(lit)
      BY <2>1
    <3>2. /\ optimizationSet' = optimizationSet \union {lit}
          /\ lastCardinality' = [A \in Assumptions |-> Cardinality(optimizationSet')]
      BY <3>1, LinearNotions DEF Linear!AddForOptimization, Linear!Unknown
    <3>3. optimizationSet' \in SUBSET Lit /\ Cardinality(optimizationSet') \in Nat
      BY <3>2, LitSets DEF LinearInv, LinearTypes
    <3>4. \A S : Cardinality(S \intersect optimizationSet') <= Cardinality(optimizationSet')
      BY <3>3, LitSets
    <3> QED
      BY <3>2, <3>3, <3>4 DEF AtMost
  <2>2. CASE UNCHANGED <<optimizationSet, lastCardinality>>
    BY <1>1, <2>2 DEF LinearInv, LinearTypes, AtMost
  <2> QED
    BY <2>1, <2>2 DEF Linear!AddClause, Linear!Check
<1>3. LinearTypes'
  BY <1>1, <1>2, UtilitiesAssumption DEF LinearInv, LinearTypes
<1> QED
  BY <1>1, <1>2, <1>3 DEF LinearInv, Linear!AnswerOptimal

\* The search starts where it ended the last time, which is high enough still.
LEMMA LinearEnterKeeps ==
  ASSUME LinearInv, NEW A \in Assumptions, Linear!EnterSolve(A)
  PROVE  LinearInv'
<1>1. /\ assumps' = A /\ cardinality' = lastCardinality[A] /\ optimal' = FALSE
      /\ models' = {} /\ pc' = "solve"
      /\ UNCHANGED <<solutions, optimizationSet, sat, lastCardinality>>
  BY DEF Linear!EnterSolve
<1>2. LinearTypes'
  BY <1>1 DEF LinearInv, LinearTypes
<1>3. (\A B \in Assumptions : AtMost(B, lastCardinality[B])) '
  BY <1>1 DEF LinearInv, AtMost
<1>4. AtMost(assumps, cardinality)'
  BY <1>1 DEF LinearInv, AtMost
<1> QED
  BY <1>1, <1>2, <1>3, <1>4 DEF LinearInv, Linear!AnswerOptimal

\* Every round of the search, and its end.
LEMMA LinearLoopKeeps ==
  ASSUME LinearInv, Linear!Loop
  PROVE  LinearInv'
<1>1. /\ pc = "solve" /\ ~optimal /\ models = {} /\ AtMost(assumps, cardinality)
      /\ UNCHANGED <<solutions, optimizationSet, assumps>>
  BY
  DEF LinearInv, Linear!Loop, Linear!FoundSolution, Linear!LowerCardinality,
      Linear!NoSolution
<1>2. Linear!Enough
        = { S \in solutions : /\ assumps \subseteq S
                              /\ Cardinality(S \intersect optimizationSet) >= cardinality }
  BY LinearNotions DEF Linear!Enough
<1>3. \A S \in solutions : Cardinality(S \intersect optimizationSet) \in Nat
  BY LitSets DEF LinearInv, LinearTypes
<1>4. CASE Linear!FoundSolution
  <2>1. PICK S \in Linear!Enough : models' = {S}
    BY <1>4 DEF Linear!FoundSolution
  <2>2. /\ sat' = TRUE /\ optimal' = TRUE /\ pc' = "idle" /\ cardinality' = 0
        /\ lastCardinality' = [lastCardinality EXCEPT ![assumps] = cardinality]
    BY <1>4 DEF Linear!FoundSolution, Linear!Return
  <2>3. LinearTypes'
    BY <1>1, <1>2, <2>1, <2>2 DEF LinearInv, LinearTypes
  <2>4. (\A B \in Assumptions : AtMost(B, lastCardinality[B])) '
    BY <1>1, <2>2 DEF LinearInv, LinearTypes, AtMost
  <2>5. S \in solutions /\ assumps \subseteq S
        /\ Cardinality(S \intersect optimizationSet) >= cardinality
    BY <1>2, <2>1
  <2>6. ASSUME NEW T \in solutions, assumps \subseteq T
        PROVE  Cardinality(T \intersect optimizationSet)
                 <= Cardinality(S \intersect optimizationSet)
    BY <1>1, <1>3, <2>5, <2>6 DEF AtMost, LinearInv, LinearTypes
  <2>7. Linear!AnswerOptimal'
    BY <1>1, <2>1, <2>2, <2>5, <2>6, LinearNotions DEF Linear!AnswerOptimal
  <2> QED
    BY <2>2, <2>3, <2>4, <2>7 DEF LinearInv
<1>5. CASE Linear!LowerCardinality
  <2>1. /\ Linear!Enough = {} /\ cardinality > 0 /\ cardinality' = cardinality - 1
        /\ UNCHANGED <<sat, lastCardinality, optimal, models, pc>>
    BY <1>5 DEF Linear!LowerCardinality
  <2>2. LinearTypes'
    BY <1>1, <2>1 DEF LinearInv, LinearTypes
  <2>3. (\A B \in Assumptions : AtMost(B, lastCardinality[B])) '
    BY <1>1, <2>1 DEF LinearInv, AtMost
  <2>4. AtMost(assumps, cardinality)'
    BY <1>1, <1>2, <1>3, <2>1 DEF LinearInv, LinearTypes, AtMost
  <2> QED
    BY <1>1, <2>1, <2>2, <2>3, <2>4 DEF LinearInv, Linear!AnswerOptimal
<1>6. CASE Linear!NoSolution
  <2>1. /\ Linear!Enough = {} /\ cardinality = 0
        /\ sat' = FALSE /\ optimal' = TRUE /\ pc' = "idle" /\ cardinality' = 0
        /\ lastCardinality' = [lastCardinality EXCEPT ![assumps] = cardinality]
        /\ UNCHANGED models
    BY <1>6 DEF Linear!NoSolution, Linear!Return
  <2>2. LinearTypes'
    BY <1>1, <2>1 DEF LinearInv, LinearTypes
  <2>3. (\A B \in Assumptions : AtMost(B, lastCardinality[B])) '
    BY <1>1, <2>1 DEF LinearInv, LinearTypes, AtMost
  <2>4. ASSUME NEW S \in solutions, assumps \subseteq S
        PROVE  FALSE
    <3>1. Cardinality(S \intersect optimizationSet) >= cardinality
      BY <1>3, <2>1
    <3> QED
      BY <1>2, <2>1, <2>4, <3>1
  <2>5. Linear!AnswerOptimal'
    BY <1>1, <2>1, <2>4 DEF Linear!AnswerOptimal
  <2> QED
    BY <2>1, <2>2, <2>3, <2>5 DEF LinearInv
<1> QED
  BY <1>4, <1>5, <1>6 DEF Linear!Loop

LEMMA LinearNextInv ==
  ASSUME LinearInv, Linear!Next
  PROVE  LinearInv'
BY LinearProblemKeeps, LinearEnterKeeps, LinearLoopKeeps DEF Linear!Next

--------------------------------------------------------------------------------
(* MSU4MaxSATSolver.                                                          *)

LEMMA CoreNotions ==
  /\ \A T : Core!Cardinality(T) = Cardinality(T)
  /\ \A S, cls : Core!SatisfiesClause(S, cls) <=> SatisfiesClause(S, cls)
  /\ Core!Infinity = Cardinality(Lit) + 1
<1>1. \A T : Core!Cardinality(T) = Cardinality(T)
  BY DEF Core!Cardinality, Cardinality
<1>2. \A S, cls : Core!SatisfiesClause(S, cls) <=> SatisfiesClause(S, cls)
  BY DEF Core!SatisfiesClause, SatisfiesClause
<1> QED
  BY <1>1, <1>2 DEF Core!Infinity

CoreTypes ==
  /\ solutions \in SUBSET SUBSET Lit
  /\ optimizationSet \in SUBSET Lit
  /\ isSAT \in BOOLEAN
  /\ absoluteUNSAT \in BOOLEAN
  /\ unsatRounds \in Nat
  /\ currentSoln \in SUBSET Lit
  /\ blockedAssumps \in SUBSET optimizationSet
  /\ initialAssumps = optimizationSet \ blockedAssumps
  /\ pc \in {"idle", "solve"}

\* The bounds, and the blocked literals that the upper one counts.
CoreBounds ==
  /\ lb = Cardinality(currentSoln)
  /\ ub = IF unsatRounds = 0 THEN Cardinality(Lit) + 1
          ELSE Cardinality(optimizationSet) - unsatRounds
  /\ lb <= ub
  /\ unsatRounds <= Cardinality(blockedAssumps)
  /\ unsatRounds = 0 => blockedAssumps = {}
  /\ \A S \in solutions : Cardinality(blockedAssumps \ S) >= unsatRounds

\* The solution kept is one, and the best when the solver says so.
CoreAnswers ==
  /\ currentSoln # {} => \E S \in solutions : currentSoln = S \intersect optimizationSet
  /\ absoluteUNSAT => solutions = {}
  /\ isSAT =>
       solutions # {} /\ \A S \in solutions : Cardinality(S \intersect optimizationSet) <= lb

\* A solution that the query excludes falsifies so many blocked literals that it is
\* no better than the one kept, and more of them than there were cores; nothing is
\* excluded while the bounds agree.
CoreQuery ==
  pc = "solve" =>
    /\ solutions # {}
    /\ lb = ub => Core!Allowed = solutions
    /\ \A S \in solutions \ Core!Allowed :
         /\ unsatRounds > 0
         /\ Cardinality(blockedAssumps \ S) >= Cardinality(optimizationSet) - lb

CoreInv == CoreTypes /\ CoreBounds /\ CoreAnswers /\ CoreQuery

\* A set of literals splits into the satisfied and the falsified ones.
LEMMA Split ==
  ASSUME NEW B \in SUBSET Lit, NEW S
  PROVE  /\ Cardinality(B) \in Nat
         /\ Cardinality(S \intersect B) \in Nat
         /\ Cardinality(B \ S) \in Nat
         /\ Cardinality(S \intersect B) + Cardinality(B \ S) = Cardinality(B)
<1>1. IsFiniteSet(B) /\ Cardinality(B) \in Nat
  BY LitSets
<1>2. S \intersect B = B \intersect S /\ S \intersect B \in SUBSET B /\ B \ S \in SUBSET B
  OBVIOUS
<1>3. Cardinality(S \intersect B) \in Nat /\ Cardinality(B \ S) \in Nat
  BY <1>2, LitSets
<1>4. Cardinality(B \ S) = Cardinality(B) - Cardinality(B \intersect S)
  BY <1>1, FS_Difference
<1> QED
  BY <1>1, <1>2, <1>3, <1>4

\* Falsified blocked literals are falsified literals; if no other is, they are all.
LEMMA FalsifiedBlocked ==
  ASSUME NEW O \in SUBSET Lit, NEW B \in SUBSET O, NEW S
  PROVE  /\ Cardinality(S \intersect O) <= Cardinality(O) - Cardinality(B \ S)
         /\ O \ B \subseteq S =>
              Cardinality(S \intersect O) = Cardinality(O) - Cardinality(B \ S)
         /\ Cardinality(S \intersect O) = Cardinality(O) - Cardinality(B \ S) =>
              O \ B \subseteq S
<1>1. O \ S \in SUBSET Lit /\ B \ S \in SUBSET (O \ S) /\ B \in SUBSET Lit
  OBVIOUS
<1>2. /\ Cardinality(B \ S) \in Nat
      /\ Cardinality(B \ S) <= Cardinality(O \ S)
      /\ Cardinality(O \ S) = Cardinality(B \ S) => O \ S = B \ S
  BY <1>1, LitSets, FS_Subset
<1>3. /\ Cardinality(O) \in Nat /\ Cardinality(S \intersect O) \in Nat
      /\ Cardinality(O \ S) \in Nat
      /\ Cardinality(S \intersect O) + Cardinality(O \ S) = Cardinality(O)
  BY Split
<1>4. O \ B \subseteq S => O \ S = B \ S
  OBVIOUS
<1>5. O \ S = B \ S => O \ B \subseteq S
  OBVIOUS
<1> QED
  BY <1>2, <1>3, <1>4, <1>5

LEMMA CoreInitInv == Core!Init => CoreInv
<1> SUFFICES ASSUME Core!Init PROVE CoreInv
  OBVIOUS
<1>1. /\ solutions = SUBSET Lit /\ optimizationSet = {} /\ isSAT = FALSE
      /\ absoluteUNSAT = FALSE /\ unsatRounds = 0 /\ lb = 0 /\ ub = Cardinality(Lit) + 1
      /\ currentSoln = {} /\ initialAssumps = {} /\ blockedAssumps = {} /\ pc = "idle"
  BY CoreNotions DEF Core!Init
<1>2. CoreTypes
  BY <1>1 DEF CoreTypes
<1>3. Cardinality({}) = 0 /\ Cardinality(Lit) \in Nat /\ \A S : {} \ S = {}
  BY FS_EmptySet, UtilitiesAssumption, FS_CardinalityType
<1> QED
  BY <1>1, <1>2, <1>3 DEF CoreInv, CoreBounds, CoreAnswers, CoreQuery

\* What starting over leaves.
LEMMA CoreResetKeeps ==
  ASSUME CoreInv, Core!Reset(optimizationSet'), optimizationSet' \in SUBSET Lit,
         UNCHANGED solutions, absoluteUNSAT' => solutions = {}, absoluteUNSAT' \in BOOLEAN,
         pc' \in {"idle", "solve"},
         pc' = "solve" => solutions # {} /\ Core!Allowed' = solutions
  PROVE  CoreInv'
<1>1. /\ isSAT' = FALSE /\ unsatRounds' = 0 /\ lb' = 0 /\ ub' = Cardinality(Lit) + 1
      /\ currentSoln' = {} /\ initialAssumps' = optimizationSet' /\ blockedAssumps' = {}
  BY CoreNotions DEF Core!Reset
<1>2. CoreTypes'
  BY <1>1 DEF CoreInv, CoreTypes
<1>3. Cardinality({}) = 0 /\ Cardinality(Lit) \in Nat /\ \A S : {} \ S = {}
  BY FS_EmptySet, UtilitiesAssumption, FS_CardinalityType
<1>4. CoreBounds' /\ CoreAnswers'
  BY <1>1, <1>3 DEF CoreBounds, CoreAnswers
<1>5. CoreQuery'
  BY DEF CoreQuery
<1> QED
  BY <1>2, <1>4, <1>5 DEF CoreInv

\* addClause forgets the lower bound alone.
LEMMA CoreAddClauseKeeps ==
  ASSUME CoreInv, NEW cls, Core!AddClause(cls)
  PROVE  CoreInv'
<1>1. /\ pc = "idle" /\ pc' = "idle" /\ solutions' \subseteq solutions
      /\ isSAT' = FALSE /\ lb' = 0 /\ currentSoln' = {}
      /\ UNCHANGED <<optimizationSet, absoluteUNSAT, unsatRounds, ub, initialAssumps,
                     blockedAssumps>>
  BY DEF Core!AddClause, Core!assumpVars
<1>2. CoreTypes'
  BY <1>1 DEF CoreInv, CoreTypes
<1>3. /\ Cardinality({}) = 0 /\ Cardinality(Lit) \in Nat
      /\ Cardinality(blockedAssumps) \in Nat /\ Cardinality(optimizationSet) \in Nat
      /\ Cardinality(blockedAssumps) <= Cardinality(optimizationSet)
  BY FS_EmptySet, UtilitiesAssumption, FS_CardinalityType, LitSets
  DEF CoreInv, CoreTypes
<1>4. 0 <= ub
  BY <1>3 DEF CoreInv, CoreTypes, CoreBounds
<1>5. CoreBounds'
  BY <1>1, <1>3, <1>4 DEF CoreInv, CoreBounds
<1>6. CoreAnswers' /\ CoreQuery'
  BY <1>1 DEF CoreInv, CoreAnswers, CoreQuery
<1> QED
  BY <1>2, <1>5, <1>6 DEF CoreInv

LEMMA CoreAddForOptimizationKeeps ==
  ASSUME CoreInv, NEW lit \in Lit, Core!AddForOptimization(lit)
  PROVE  CoreInv'
<1>1. /\ pc = "idle" /\ pc' = "idle" /\ UNCHANGED solutions /\ absoluteUNSAT' = FALSE
      /\ optimizationSet' = optimizationSet \union {lit} /\ Core!Reset(optimizationSet')
  BY DEF Core!AddForOptimization
<1>2. optimizationSet' \in SUBSET Lit
  BY <1>1 DEF CoreInv, CoreTypes
<1> QED
  BY <1>1, <1>2, CoreResetKeeps

\* A call begins with a query that excludes no solution.
LEMMA CoreEnterKeeps ==
  ASSUME CoreInv, Core!EnterSolve
  PROVE  CoreInv'
<1>1. /\ pc = "idle" /\ UNCHANGED <<solutions, optimizationSet>>
      /\ pc' = (IF absoluteUNSAT' THEN "idle" ELSE "solve")
      /\ assumption' = Core!NoAssumption /\ hints' = {}
  BY DEF Core!EnterSolve, Core!problemVars
<1>2. absoluteUNSAT' \in BOOLEAN /\ (absoluteUNSAT' <=> solutions = {})
  BY DEF CoreInv, CoreTypes, CoreAnswers, Core!EnterSolve
<1>3. Core!Allowed' = solutions
  BY <1>1 DEF Core!Allowed, Core!NoAssumption
<1>4. pc' \in {"idle", "solve"} /\ (pc' = "solve" => solutions # {})
  BY <1>1, <1>2
<1>5. CASE Core!Reset(optimizationSet)
  <2>1. Core!Reset(optimizationSet')
    BY <1>1, <1>5
  <2> QED
    BY <1>1, <1>2, <1>3, <1>4, <2>1, CoreResetKeeps DEF CoreInv, CoreTypes
<1>6. CASE UNCHANGED <<isSAT, lb, ub, unsatRounds, currentSoln, initialAssumps,
                       blockedAssumps>>
  <2>1. CoreTypes'
    BY <1>1, <1>2, <1>4, <1>6 DEF CoreInv, CoreTypes
  <2>2. CoreBounds' /\ CoreAnswers'
    BY <1>1, <1>2, <1>6 DEF CoreInv, CoreBounds, CoreAnswers
  <2>3. CoreQuery'
    BY <1>1, <1>3, <1>4 DEF CoreQuery
  <2> QED
    BY <2>1, <2>2, <2>3 DEF CoreInv
<1> QED
  BY <1>5, <1>6 DEF Core!EnterSolve, Core!boundVars, Core!assumpVars

\* The upper bound is one, and no set of literals is larger than all of them.
LEMMA UpperBoundRight ==
  ASSUME CoreTypes, CoreBounds, NEW S \in solutions, NEW M \in SUBSET Lit,
         Cardinality(M) = ub
  PROVE  Cardinality(S \intersect optimizationSet) <= ub
<1>1. Cardinality(M) <= Cardinality(Lit) /\ Cardinality(Lit) \in Nat
      /\ Cardinality(M) \in Nat
  BY LitSets
<1>2. ub = Cardinality(optimizationSet) - unsatRounds
  BY <1>1 DEF CoreBounds
<1>3. Cardinality(blockedAssumps \ S) >= unsatRounds
  BY DEF CoreBounds
<1>4. Cardinality(S \intersect optimizationSet)
        <= Cardinality(optimizationSet) - Cardinality(blockedAssumps \ S)
  BY FalsifiedBlocked DEF CoreTypes
<1>5. /\ Cardinality(S \intersect optimizationSet) \in Nat
      /\ Cardinality(optimizationSet) \in Nat
      /\ Cardinality(blockedAssumps \ S) \in Nat /\ unsatRounds \in Nat
  BY Split DEF CoreTypes
<1> QED
  BY <1>2, <1>3, <1>4, <1>5

\* A solution of the query.
LEMMA CoreFoundSolutionKeeps ==
  ASSUME CoreInv, Core!FoundSolution
  PROVE  CoreInv'
<1> DEFINE model(S) == S \intersect optimizationSet
           n(S) == Cardinality(S \intersect blockedAssumps)
<1>1. PICK S \in Core!Allowed :
        /\ initialAssumps \subseteq S
        /\ IF Cardinality(currentSoln) < Cardinality(model(S))
           THEN currentSoln' = model(S) /\ lb' = Cardinality(model(S))
           ELSE UNCHANGED <<currentSoln, lb>>
        /\ IF n(S) = Cardinality(blockedAssumps) \/ lb' = ub
           THEN Core!ReturnSAT
           ELSE /\ assumption' = Core!CardinalityAssumption(blockedAssumps, n(S))
                /\ UNCHANGED <<isSAT, hints, pc>>
  BY CoreNotions DEF Core!FoundSolution
<1>2. /\ pc = "solve" /\ solutions # {}
      /\ UNCHANGED <<useHintClauses, solutions, optimizationSet, absoluteUNSAT, ub, unsatRounds,
                     initialAssumps, blockedAssumps>>
  BY DEF Core!FoundSolution, Core!problemVars, Core!assumpVars, CoreInv, CoreQuery
<1>3. S \in solutions
  BY DEF Core!Allowed
<1>4. /\ Cardinality(optimizationSet) \in Nat /\ Cardinality(model(S)) \in Nat
      /\ Cardinality(blockedAssumps) \in Nat /\ n(S) \in Nat
      /\ Cardinality(blockedAssumps \ S) \in Nat
      /\ n(S) + Cardinality(blockedAssumps \ S) = Cardinality(blockedAssumps)
      /\ Cardinality(currentSoln) \in Nat
  BY Split, LitSets DEF CoreInv, CoreTypes
<1>5. Cardinality(model(S)) = Cardinality(optimizationSet) - Cardinality(blockedAssumps \ S)
  BY <1>1, FalsifiedBlocked DEF CoreInv, CoreTypes
<1>6. /\ currentSoln' \in SUBSET Lit /\ lb' = Cardinality(currentSoln') /\ lb' \in Nat
      /\ lb <= lb' /\ Cardinality(model(S)) <= lb'
      /\ lb' = lb \/ lb' = Cardinality(model(S))
  <2>1. /\ currentSoln \in SUBSET Lit /\ lb = Cardinality(currentSoln)
        /\ model(S) \in SUBSET Lit
    BY DEF CoreInv, CoreTypes, CoreBounds
  <2> HIDE DEF model
  <2>2. CASE Cardinality(currentSoln) < Cardinality(model(S))
    BY <1>1, <1>4, <2>1, <2>2
  <2>3. CASE ~(Cardinality(currentSoln) < Cardinality(model(S)))
    BY <1>1, <1>4, <2>1, <2>3
  <2> QED
    BY <2>2, <2>3
<1>7. CoreTypes'
  BY <1>1, <1>2, <1>6 DEF CoreInv, CoreTypes, Core!ReturnSAT
<1>8. CoreBounds'
  <2>1. Cardinality(blockedAssumps \ S) >= unsatRounds
    BY <1>3 DEF CoreInv, CoreBounds
  <2>2. Cardinality(model(S)) <= Cardinality(Lit) /\ Cardinality(Lit) \in Nat
    BY LitSets, UtilitiesAssumption, FS_CardinalityType DEF CoreInv, CoreTypes
  <2>3. Cardinality(model(S)) <= ub
    BY <1>4, <1>5, <2>1, <2>2 DEF CoreInv, CoreBounds, CoreTypes
  <2>4. lb' <= ub'
    BY <1>2, <1>6, <2>3 DEF CoreInv, CoreBounds
  <2> QED
    BY <1>2, <1>6, <2>4 DEF CoreInv, CoreBounds
<1>9. currentSoln' # {} => \E T \in solutions' : currentSoln' = T \intersect optimizationSet'
  BY <1>1, <1>2, <1>3 DEF CoreInv, CoreAnswers
<1>10. CASE n(S) = Cardinality(blockedAssumps) \/ lb' = ub
  <2>1. isSAT' = TRUE /\ pc' = "idle"
    BY <1>1, <1>10 DEF Core!ReturnSAT
  <2>2. ASSUME NEW T \in solutions
        PROVE  Cardinality(T \intersect optimizationSet) <= lb'
    <3>1. CASE n(S) = Cardinality(blockedAssumps)
      <4>1. Cardinality(T \intersect optimizationSet) <= Cardinality(optimizationSet)
            /\ Cardinality(T \intersect optimizationSet) \in Nat
        BY LitSets DEF CoreInv, CoreTypes
      <4> QED
        BY <1>4, <1>5, <1>6, <3>1, <4>1
    <3>2. CASE lb' = ub
      BY <1>6, <3>2, UpperBoundRight DEF CoreInv
    <3> QED
      BY <1>10, <3>1, <3>2
  <2>3. CoreAnswers'
    BY <1>2, <1>9, <2>1, <2>2 DEF CoreInv, CoreAnswers
  <2> QED
    BY <1>7, <1>8, <2>1, <2>3 DEF CoreInv, CoreQuery
<1>11. CASE ~(n(S) = Cardinality(blockedAssumps) \/ lb' = ub)
  <2>1. /\ assumption' = Core!CardinalityAssumption(blockedAssumps, n(S))
        /\ UNCHANGED <<isSAT, hints, pc>>
    BY <1>1, <1>11
  <2>2. CoreAnswers'
    <3>1. ASSUME isSAT, NEW T \in solutions
          PROVE  Cardinality(T \intersect optimizationSet) <= lb'
      <4>1. Cardinality(T \intersect optimizationSet) <= lb
            /\ Cardinality(T \intersect optimizationSet) \in Nat
        BY <3>1, LitSets DEF CoreInv, CoreAnswers, CoreTypes
      <4> QED
        BY <1>6, <4>1 DEF CoreInv, CoreBounds
    <3> QED
      BY <1>2, <1>9, <2>1, <3>1 DEF CoreInv, CoreAnswers
  <2>3. unsatRounds > 0
    <3>1. blockedAssumps # {}
      BY <1>11
    <3> QED
      BY <3>1 DEF CoreInv, CoreTypes, CoreBounds
  <2>4. /\ assumption'.inputs = blockedAssumps
        /\ assumption'.bound = Cardinality(blockedAssumps) - n(S)
    BY <2>1, CoreNotions DEF Core!CardinalityAssumption
  <2>5. ASSUME NEW T \in solutions, T \notin Core!Allowed'
        PROVE  Cardinality(blockedAssumps \ T) >= Cardinality(optimizationSet) - lb'
    <3>1. Cardinality(blockedAssumps \ T) \in Nat
      BY Split DEF CoreInv, CoreTypes
    <3>2. \/ ~(Cardinality(blockedAssumps \ T) < Cardinality(blockedAssumps) - n(S))
          \/ useHintClauses /\ \E core \in hints : core \subseteq T
      BY <1>2, <2>1, <2>4, <2>5, CoreNotions DEF Core!Allowed
    <3>3. CASE ~(Cardinality(blockedAssumps \ T) < Cardinality(blockedAssumps) - n(S))
      BY <1>4, <1>5, <1>6, <3>1, <3>3
    <3>4. CASE useHintClauses /\ \E core \in hints : core \subseteq T
      <4>1. T \notin Core!Allowed
        BY <3>4 DEF Core!Allowed
      <4>2. Cardinality(blockedAssumps \ T) >= Cardinality(optimizationSet) - lb
        BY <1>2, <4>1 DEF CoreInv, CoreQuery
      <4> QED
        BY <1>4, <1>6, <3>1, <4>2 DEF CoreInv, CoreBounds
    <3> QED
      BY <3>2, <3>3, <3>4
  <2>6. CoreQuery'
    BY <1>2, <1>11, <2>3, <2>5 DEF CoreQuery
  <2> QED
    BY <1>7, <1>8, <2>2, <2>6 DEF CoreInv
<1> QED
  BY <1>10, <1>11

\* No solution, whatever the literals.
LEMMA CoreNothingBetterKeeps ==
  ASSUME CoreInv, Core!NothingBetter
  PROVE  CoreInv'
<1>1. /\ pc = "solve" /\ pc' = "idle" /\ isSAT' = TRUE /\ {} \in Core!Cores
      /\ UNCHANGED <<solutions, optimizationSet, absoluteUNSAT, lb, ub, unsatRounds,
                     currentSoln, initialAssumps, blockedAssumps>>
  BY
  DEF Core!NothingBetter, Core!ReturnSAT, Core!problemVars, Core!boundVars,
      Core!assumpVars
<1>2. Core!Allowed = {}
  BY <1>1 DEF Core!Cores
<1>3. CoreTypes'
  BY <1>1 DEF CoreInv, CoreTypes
<1>4. CoreBounds'
  BY <1>1 DEF CoreInv, CoreBounds
<1>5. ASSUME NEW S \in solutions
      PROVE  Cardinality(S \intersect optimizationSet) <= lb
  <2>1. Cardinality(blockedAssumps \ S) >= Cardinality(optimizationSet) - lb
    BY <1>1, <1>2 DEF CoreInv, CoreQuery
  <2>2. Cardinality(S \intersect optimizationSet)
          <= Cardinality(optimizationSet) - Cardinality(blockedAssumps \ S)
    BY FalsifiedBlocked DEF CoreInv, CoreTypes
  <2>3. /\ Cardinality(S \intersect optimizationSet) \in Nat
        /\ Cardinality(optimizationSet) \in Nat
        /\ Cardinality(blockedAssumps \ S) \in Nat /\ lb \in Nat
    BY Split, LitSets DEF CoreInv, CoreTypes, CoreBounds
  <2> QED
    BY <2>1, <2>2, <2>3
<1>6. CoreAnswers'
  BY <1>1, <1>5 DEF CoreInv, CoreAnswers, CoreQuery
<1> QED
  BY <1>1, <1>3, <1>4, <1>6 DEF CoreInv, CoreQuery

\* A core is found only while the bounds differ.
LEMMA CoreMeansApart ==
  ASSUME CoreInv, pc = "solve", NEW core \in Core!Cores, core # {}
  PROVE  lb # ub
<1> SUFFICES ASSUME lb = ub PROVE FALSE
  OBVIOUS
<1>1. Core!Allowed = solutions /\ solutions # {}
  BY DEF CoreInv, CoreQuery
<1>2. core \subseteq optimizationSet \ blockedAssumps /\ \A S \in solutions : ~(core \subseteq S)
  BY <1>1 DEF Core!Cores, CoreInv, CoreTypes
<1>3. /\ Cardinality(optimizationSet) \in Nat /\ Cardinality(blockedAssumps) \in Nat
      /\ unsatRounds \in Nat /\ Cardinality(Lit) \in Nat /\ lb <= Cardinality(Lit) /\ lb \in Nat
  <2>1. Lit \in SUBSET Lit /\ currentSoln \in SUBSET Lit /\ lb = Cardinality(currentSoln)
    BY DEF CoreInv, CoreTypes, CoreBounds
  <2>2. /\ optimizationSet \in SUBSET Lit /\ blockedAssumps \in SUBSET Lit
        /\ unsatRounds \in Nat
    BY DEF CoreInv, CoreTypes
  <2> QED
    BY <2>1, <2>2, LitSets
<1>4. lb = Cardinality(optimizationSet) - unsatRounds
  BY <1>3 DEF CoreInv, CoreBounds
<1>5. PICK S \in solutions : Cardinality(S \intersect optimizationSet) >= lb
  <2>1. CASE currentSoln # {}
    <3>1. PICK S \in solutions : currentSoln = S \intersect optimizationSet
      BY <2>1 DEF CoreInv, CoreAnswers
    <3> QED
      BY <1>3, <3>1 DEF CoreInv, CoreBounds
  <2>2. CASE currentSoln = {}
    <3>1. lb = 0
      BY <2>2, FS_EmptySet DEF CoreInv, CoreBounds
    <3>2. PICK S \in solutions : TRUE
      BY <1>1
    <3>3. Cardinality(S \intersect optimizationSet) \in Nat
      BY Split DEF CoreInv, CoreTypes
    <3>4. Cardinality(S \intersect optimizationSet) >= lb
      BY <3>1, <3>3
    <3> QED
      BY <3>4
  <2> QED
    BY <2>1, <2>2
<1>6. Cardinality(S \intersect optimizationSet)
        <= Cardinality(optimizationSet) - Cardinality(blockedAssumps \ S)
  BY FalsifiedBlocked DEF CoreInv, CoreTypes
<1>7. Cardinality(blockedAssumps \ S) >= unsatRounds
  BY DEF CoreInv, CoreBounds
<1>8. Cardinality(S \intersect optimizationSet) \in Nat /\ Cardinality(blockedAssumps \ S) \in Nat
  BY Split DEF CoreInv, CoreTypes
<1>9. Cardinality(S \intersect optimizationSet)
        = Cardinality(optimizationSet) - Cardinality(blockedAssumps \ S)
  BY <1>3, <1>4, <1>5, <1>6, <1>7, <1>8
<1>10. optimizationSet \ blockedAssumps \subseteq S
  BY <1>9, FalsifiedBlocked DEF CoreInv, CoreTypes
<1> QED
  BY <1>2, <1>10

\* Every solution falsifies a literal of each core, also one that the query excluded.
LEMMA CoreCounts ==
  ASSUME CoreInv, pc = "solve", NEW core \in Core!Cores, core # {}, NEW S \in solutions
  PROVE  Cardinality((blockedAssumps \union core) \ S) >= unsatRounds + 1
<1>1. /\ core \subseteq optimizationSet \ blockedAssumps
      /\ \A T \in Core!Allowed : ~(core \subseteq T)
  BY DEF Core!Cores, CoreInv, CoreTypes
<1>2. /\ blockedAssumps \union core \in SUBSET Lit /\ blockedAssumps \in SUBSET Lit
      /\ optimizationSet \in SUBSET Lit /\ unsatRounds \in Nat
  BY <1>1 DEF CoreInv, CoreTypes
<1>3. Cardinality(blockedAssumps \ S) \in Nat /\ Cardinality((blockedAssumps \union core) \ S) \in Nat
  BY <1>2, Split
<1>4. CASE S \in Core!Allowed
  <2>1. PICK x \in core : x \notin S
    BY <1>1, <1>4
  <2>2. /\ IsFiniteSet(blockedAssumps \ S) /\ x \notin blockedAssumps \ S
        /\ (blockedAssumps \ S) \union {x} \in SUBSET ((blockedAssumps \union core) \ S)
    BY <1>1, <1>2, <2>1, LitSets
  <2>3. Cardinality((blockedAssumps \ S) \union {x}) = Cardinality(blockedAssumps \ S) + 1
    BY <2>2, FS_AddElement
  <2>4. Cardinality((blockedAssumps \ S) \union {x})
          <= Cardinality((blockedAssumps \union core) \ S)
    BY <1>2, <2>2, LitSets
  <2>5. Cardinality(blockedAssumps \ S) >= unsatRounds
    BY DEF CoreInv, CoreBounds
  <2> QED
    BY <1>2, <1>3, <2>3, <2>4, <2>5
<1>5. CASE S \notin Core!Allowed
  <2>1. unsatRounds > 0 /\ Cardinality(blockedAssumps \ S) >= Cardinality(optimizationSet) - lb
    BY <1>5 DEF CoreInv, CoreQuery
  <2>2. lb < ub
    <3>1. lb \in Nat /\ ub \in Int
      BY <1>2, LitSets, UtilitiesAssumption, FS_CardinalityType
      DEF CoreInv, CoreTypes, CoreBounds
    <3> QED
      BY <3>1, CoreMeansApart DEF CoreInv, CoreBounds
  <2>3. lb < Cardinality(optimizationSet) - unsatRounds
    BY <1>2, <2>1, <2>2 DEF CoreInv, CoreBounds
  <2>4. Cardinality(blockedAssumps \ S) <= Cardinality((blockedAssumps \union core) \ S)
    BY <1>2, LitSets
  <2>5. Cardinality(optimizationSet) \in Nat /\ lb \in Nat
    BY <1>2, LitSets DEF CoreInv, CoreTypes, CoreBounds
  <2> QED
    BY <1>2, <1>3, <2>1, <2>3, <2>4, <2>5
<1> QED
  BY <1>4, <1>5

\* A core: its literals are blocked and the upper bound falls.
LEMMA CoreFoundCoreKeeps ==
  ASSUME CoreInv, Core!FoundCore
  PROVE  CoreInv'
<1>1. PICK core \in Core!Cores \ {{}} :
        /\ initialAssumps' = initialAssumps \ core
        /\ blockedAssumps' = blockedAssumps \union core
        /\ unsatRounds' = unsatRounds + 1
        /\ ub' = Cardinality(optimizationSet) - unsatRounds'
        /\ IF lb = ub'
           THEN Core!ReturnSAT
           ELSE /\ hints' = IF useHintClauses THEN hints \union {core} ELSE hints
                /\ UNCHANGED <<isSAT, assumption, pc>>
  BY CoreNotions DEF Core!FoundCore
<1>2. /\ pc = "solve" /\ solutions # {}
      /\ UNCHANGED <<useHintClauses, solutions, optimizationSet, absoluteUNSAT, lb, currentSoln>>
  BY DEF Core!FoundCore, Core!problemVars, CoreInv, CoreQuery
<1>3. /\ core \subseteq optimizationSet \ blockedAssumps
      /\ \A T \in Core!Allowed : ~(core \subseteq T)
  BY DEF Core!Cores, CoreInv, CoreTypes
<1>4. CoreTypes'
  <2>1. isSAT' \in BOOLEAN /\ pc' \in {"idle", "solve"}
    BY <1>1, <1>2 DEF CoreInv, CoreTypes, Core!ReturnSAT
  <2>2. /\ blockedAssumps' \in SUBSET optimizationSet
        /\ initialAssumps' = optimizationSet \ blockedAssumps'
        /\ unsatRounds' \in Nat
    BY <1>1, <1>3 DEF CoreInv, CoreTypes
  <2> QED
    BY <1>2, <2>1, <2>2 DEF CoreInv, CoreTypes
<1>5. \A S \in solutions : Cardinality(blockedAssumps' \ S) >= unsatRounds'
  BY <1>1, <1>2, CoreCounts
<1>6. /\ Cardinality(blockedAssumps') \in Nat /\ Cardinality(optimizationSet) \in Nat
      /\ Cardinality(blockedAssumps') <= Cardinality(optimizationSet)
      /\ unsatRounds \in Nat /\ lb \in Nat
  BY <1>2, <1>4, LitSets DEF CoreInv, CoreTypes, CoreBounds
<1>7. \A S \in solutions :
        /\ Cardinality(S \intersect optimizationSet) \in Nat
        /\ Cardinality(S \intersect optimizationSet) <= ub'
  <2> SUFFICES ASSUME NEW S \in solutions
               PROVE  /\ Cardinality(S \intersect optimizationSet) \in Nat
                      /\ Cardinality(S \intersect optimizationSet) <= ub'
    OBVIOUS
  <2>1. optimizationSet \in SUBSET Lit /\ blockedAssumps' \in SUBSET optimizationSet
    BY <1>2, <1>4 DEF CoreTypes
  <2>2. /\ Cardinality(S \intersect optimizationSet) \in Nat
        /\ Cardinality(blockedAssumps' \ S) \in Nat
        /\ Cardinality(S \intersect optimizationSet)
             <= Cardinality(optimizationSet) - Cardinality(blockedAssumps' \ S)
    BY <2>1, Split, FalsifiedBlocked
  <2> QED
    BY <1>1, <1>5, <1>6, <2>2
<1>8. unsatRounds' <= Cardinality(blockedAssumps')
  <2>1. PICK S \in solutions : TRUE
    BY <1>2
  <2>2. /\ Cardinality(blockedAssumps' \ S) \in Nat
        /\ Cardinality(blockedAssumps' \ S) <= Cardinality(blockedAssumps')
    BY <1>2, <1>4, LitSets DEF CoreTypes
  <2> QED
    BY <1>1, <1>5, <1>6, <2>2
<1>9. lb <= ub'
  <2>1. CASE currentSoln # {}
    BY <1>7, <2>1 DEF CoreInv, CoreAnswers, CoreBounds
  <2>2. CASE currentSoln = {}
    <3>1. lb = 0
      BY <2>2, FS_EmptySet DEF CoreInv, CoreBounds
    <3> QED
      BY <1>1, <1>6, <1>8, <3>1
  <2> QED
    BY <2>1, <2>2
<1>10. CoreBounds'
  BY <1>1, <1>2, <1>5, <1>6, <1>8, <1>9 DEF CoreInv, CoreBounds
<1>11. CoreAnswers'
  <2>1. isSAT' => isSAT \/ lb = ub'
    BY <1>1 DEF Core!ReturnSAT
  <2> QED
    BY <1>2, <1>7, <2>1 DEF CoreInv, CoreAnswers
<1>12. CoreQuery'
  <2>1. CASE lb = ub'
    BY <1>1, <2>1 DEF Core!ReturnSAT, CoreQuery
  <2>2. CASE lb # ub'
    <3>1. ASSUME NEW S \in solutions, S \notin Core!Allowed'
          PROVE  Cardinality(blockedAssumps' \ S) >= Cardinality(optimizationSet) - lb
      <4>1. S \notin Core!Allowed
        BY <1>1, <1>2, <1>3, <2>2, <3>1 DEF Core!Allowed
      <4>2. Cardinality(blockedAssumps \ S) >= Cardinality(optimizationSet) - lb
        BY <1>2, <4>1 DEF CoreInv, CoreQuery
      <4>3. /\ Cardinality(blockedAssumps \ S) \in Nat /\ Cardinality(blockedAssumps' \ S) \in Nat
            /\ Cardinality(blockedAssumps \ S) <= Cardinality(blockedAssumps' \ S)
        <5>1. blockedAssumps' \ S \in SUBSET Lit /\ blockedAssumps \ S \in SUBSET (blockedAssumps' \ S)
          BY <1>1, <1>2, <1>4 DEF CoreTypes
        <5> QED
          BY <5>1, LitSets
      <4> QED
        BY <1>6, <4>2, <4>3
    <3> QED
      BY <1>1, <1>2, <1>6, <2>2, <3>1 DEF CoreQuery
  <2> QED
    BY <2>1, <2>2
<1> QED
  BY <1>4, <1>10, <1>11, <1>12 DEF CoreInv

LEMMA CoreNextInv ==
  ASSUME CoreInv, Core!Next
  PROVE  CoreInv'
BY CoreAddClauseKeeps, CoreAddForOptimizationKeeps, CoreEnterKeeps,
   CoreFoundSolutionKeeps,
   CoreNothingBetterKeeps, CoreFoundCoreKeeps
DEF Core!Next, Core!Loop

LEMMA CoreBoundsAgree == CoreInv => Core!BoundsAgree
BY CoreNotions DEF CoreInv, CoreBounds, Core!BoundsAgree

--------------------------------------------------------------------------------
(* The MapSolver classes.                                                     *)

LEMMA MapNotions ==
  /\ \A T : Map!Cardinality(T) = Cardinality(T)
  /\ \A S, cls : Map!SatisfiesClause(S, cls) <=> SatisfiesClause(S, cls)
  /\ \A F : Map!Largest(F) = Largest(F)
  /\ \A F : Map!Smallest(F) = Smallest(F)
<1>1. \A T : Map!Cardinality(T) = Cardinality(T)
  BY DEF Map!Cardinality, Cardinality
<1>2. \A S, cls : Map!SatisfiesClause(S, cls) <=> SatisfiesClause(S, cls)
  BY DEF Map!SatisfiesClause, SatisfiesClause
<1>3. \A F : Map!Largest(F) = Largest(F) /\ Map!Smallest(F) = Smallest(F)
  BY <1>1 DEF Map!Largest, Largest, Map!Smallest, Smallest
<1> QED
  BY <1>1, <1>2, <1>3

\* The literals a selection satisfies are as many as its elements, or as the others;
\* the selection can be read off them.
LEMMA SatisfiedMax ==
  ASSUME NEW S \in SUBSET Element
  PROVE  /\ Cardinality(Map!Satisfied(S, Map!Literals("max"))) = Cardinality(S)
         /\ Map!extractSeed(Map!Satisfied(S, Map!Literals("max")), Map!Literals("max")) = S
<1> DEFINE opt == Map!Literals("max")
           kept == Map!Satisfied(S, opt)
           f == [x \in S |-> Map!Positive(x)]
<1>1. opt = { Map!Positive(x) : x \in Element }
  BY DEF Map!Literals
<1>2. \A x \in Element : Map!Positive(x) \in kept <=> x \in S
  BY <1>1 DEF Map!Satisfied, Map!Positive
<1>3. kept = { Map!Positive(x) : x \in S }
  BY <1>1, <1>2 DEF Map!Satisfied
<1>4. \A x, y : Map!Positive(x) # Map!Negative(y) /\ (Map!Positive(x) = Map!Positive(y) => x = y)
  BY DEF Map!Positive, Map!Negative
<1>5. f \in Bijection(S, kept)
  BY <1>3, <1>4 DEF Bijection, Injection, Surjection, IsInjective
<1>6. IsFiniteSet(S)
  BY UtilitiesAssumption, FS_Subset
<1>7. Cardinality(kept) = Cardinality(S)
  BY <1>5, <1>6, FS_Bijection DEF ExistsBijection
<1>8. Map!extractSeed(kept, opt) = S
  BY <1>1, <1>2, <1>4 DEF Map!extractSeed
<1> QED
  BY <1>7, <1>8

LEMMA SatisfiedMin ==
  ASSUME NEW S \in SUBSET Element
  PROVE  /\ Cardinality(Map!Satisfied(S, Map!Literals("min"))) = Cardinality(Element \ S)
         /\ Map!extractSeed(Map!Satisfied(S, Map!Literals("min")), Map!Literals("min")) = S
<1> DEFINE opt == Map!Literals("min")
           kept == Map!Satisfied(S, opt)
           f == [x \in Element \ S |-> Map!Negative(x)]
<1>1. opt = { Map!Negative(x) : x \in Element }
  BY DEF Map!Literals
<1>2. \A x \in Element : Map!Negative(x) \in kept <=> x \notin S
  <2> SUFFICES ASSUME NEW x \in Element PROVE Map!Negative(x) \in kept <=> x \notin S
    OBVIOUS
  <2>1. Map!Negative(x) \in opt
    BY <1>1
  <2>2. Map!Negative(x).elem = x /\ Map!Negative(x).sign = FALSE
    BY DEF Map!Negative
  <2>3. Map!Negative(x) \in kept <=> (x \in S) = FALSE
    BY <2>1, <2>2 DEF Map!Satisfied
  <2> QED
    BY <2>3
<1>3. kept = { Map!Negative(x) : x \in Element \ S }
  BY <1>1, <1>2 DEF Map!Satisfied
<1>4. \A x, y : Map!Positive(x) # Map!Negative(y) /\ (Map!Negative(x) = Map!Negative(y) => x = y)
  BY DEF Map!Positive, Map!Negative
<1>5. f \in Bijection(Element \ S, kept)
  BY <1>3, <1>4 DEF Bijection, Injection, Surjection, IsInjective
<1>6. IsFiniteSet(Element \ S)
  BY UtilitiesAssumption, Element \ S \in SUBSET Element, FS_Subset
<1>7. Cardinality(kept) = Cardinality(Element \ S)
  BY <1>5, <1>6, FS_Bijection DEF ExistsBijection
<1>8. Map!extractSeed(kept, opt) = S
  BY <1>1, <1>2, <1>3, <1>4 DEF Map!extractSeed
<1> QED
  BY <1>7, <1>8

\* A set of subsets of a finite universe has a largest element.
LEMMA LargestExists ==
  ASSUME NEW U, IsFiniteSet(U), NEW F \in SUBSET SUBSET U, F # {}
  PROVE  Largest(F) # {}
<1> DEFINE G == { U \ T : T \in F }
<1>1. G \in SUBSET SUBSET U /\ G # {}
  <2>1. PICK T \in F : TRUE
    OBVIOUS
  <2>2. U \ T \in G
    BY <2>1
  <2>3. \A X \in G : X \subseteq U
    OBVIOUS
  <2> QED
    BY <2>2, <2>3
<1>2. PICK R \in G : \A X \in G : Cardinality(R) <= Cardinality(X)
  <2> HIDE DEF G
  <2> QED
    BY <1>1, SmallestExists DEF Smallest
<1>3. PICK S \in F : R = U \ S
  OBVIOUS
<1>4. ASSUME NEW T \in F
      PROVE  Cardinality(T) <= Cardinality(S)
  <2>1. Cardinality(U \ S) <= Cardinality(U \ T)
    BY <1>2, <1>3
  <2>2. \A X \in F : /\ Cardinality(X) \in Nat
                     /\ Cardinality(U \ X) = Cardinality(U) - Cardinality(X)
    <3> SUFFICES ASSUME NEW X \in F
                 PROVE  /\ Cardinality(X) \in Nat
                        /\ Cardinality(U \ X) = Cardinality(U) - Cardinality(X)
      OBVIOUS
    <3>1. Cardinality(X) \in Nat
      BY Sizes
    <3>2. Cardinality(U \ X) = Cardinality(U) - Cardinality(U \intersect X)
      BY FS_Difference
    <3>3. U \intersect X = X
      OBVIOUS
    <3> QED
      BY <3>1, <3>2, <3>3
  <2> QED
    BY <2>1, <2>2, FS_CardinalityType
<1> QED
  BY <1>3, <1>4 DEF Largest

MapTypes ==
  /\ class \in {"sat", "max", "min", "both"}
  /\ solutions \in SUBSET SUBSET Element
  /\ introduced \in SUBSET Element
  /\ inited \in SUBSET {"max", "min"}
  /\ DOMAIN optimized = {"max", "min"}

\* The clauses exclude what the callers mean, and say nothing of the elements that
\* the solver has not seen; a MaxSAT solver that is ready optimises all literals.
MapInv ==
  /\ MapTypes
  /\ unexplored = solutions
  /\ \A S, T \in SUBSET Element :
       S \intersect introduced = T \intersect introduced => (S \in solutions <=> T \in solutions)
  /\ \A side \in inited : optimized[side] = Map!Literals(side)
  /\ Map!SeedsRight

LEMMA MapInitInv == Map!Init => MapInv
BY DEF Map!Init, MapInv, MapTypes, Map!SeedsRight, Map!NoResult

LEMMA MapAddKeeps ==
  ASSUME MapInv, NEW cls \in MapClause(Element), NEW excluded,
         \A T \in SUBSET Element : T \in excluded <=> ~SatisfiesClause(T, cls),
         Map!AddToSolver(cls, excluded)
  PROVE  MapInv'
<1>1. cls.neg \in SUBSET Element /\ cls.pos \in SUBSET Element
  BY DEF MapClause
<1>2. /\ solutions' = { S \in solutions : SatisfiesClause(S, cls) }
      /\ introduced' = introduced \union cls.neg \union cls.pos
      /\ unexplored' = unexplored \ excluded
      /\ result' = Map!NoResult
      /\ UNCHANGED <<class, inited, optimized>>
  BY MapNotions DEF Map!AddToSolver
<1>3. MapTypes' /\ unexplored' = solutions'
  BY <1>1, <1>2 DEF MapInv, MapTypes
<1>4. ASSUME NEW S \in SUBSET Element, NEW T \in SUBSET Element,
             S \intersect introduced' = T \intersect introduced'
      PROVE  S \in solutions' <=> T \in solutions'
  <2>1. S \intersect introduced = T \intersect introduced
    BY <1>2, <1>4
  <2>2. \A x \in cls.neg \union cls.pos : x \in S <=> x \in T
    BY <1>2, <1>4
  <2>3. SatisfiesClause(S, cls) <=> SatisfiesClause(T, cls)
    BY <2>2 DEF SatisfiesClause
  <2>4. S \in solutions <=> T \in solutions
    BY <2>1 DEF MapInv
  <2> QED
    BY <1>2, <2>3, <2>4
<1>5. Map!SeedsRight'
  BY <1>2 DEF Map!SeedsRight, Map!NoResult
<1>6. \A side \in inited' : optimized'[side] = Map!Literals(side)
  BY <1>2 DEF MapInv
<1> QED
  BY <1>3, <1>4, <1>5, <1>6 DEF MapInv

\* The largest sets of satisfied literals are those of the seeds sought.
LEMMA OptimumSeeds ==
  ASSUME NEW side \in {"max", "min"}, NEW F \in SUBSET SUBSET Element
  PROVE  LET opt == Map!Literals(side)
             optima == Largest({ Map!Satisfied(S, opt) : S \in F })
         IN  /\ \A kept \in optima :
                  Map!extractSeed(kept, opt) \in IF side = "max" THEN Largest(F) ELSE Smallest(F)
             /\ optima = {} => F = {}
<1> DEFINE opt == Map!Literals(side)
           family == { Map!Satisfied(S, opt) : S \in F }
<1>1. \A S \in F : /\ Cardinality(S) \in Nat
                   /\ Cardinality(Element \ S) = Cardinality(Element) - Cardinality(S)
  <2>1. \A S \in F : IsFiniteSet(S) /\ Cardinality(S) \in Nat
    BY UtilitiesAssumption, Sizes
  <2>2. \A S \in F : Cardinality(Element \ (S \intersect Element))
                       = Cardinality(Element) - Cardinality(Element \intersect S)
    BY UtilitiesAssumption, FS_Difference
  <2>3. \A S \in F : Element \intersect S = S /\ S \intersect Element = S
    OBVIOUS
  <2> QED
    BY <2>1, <2>2, <2>3
<1>2. Cardinality(Element) \in Nat
  BY UtilitiesAssumption, FS_CardinalityType
<1>3. ASSUME NEW kept \in Largest(family)
      PROVE  Map!extractSeed(kept, opt) \in IF side = "max" THEN Largest(F) ELSE Smallest(F)
  <2>1. PICK S \in F : kept = Map!Satisfied(S, opt)
    BY <1>3 DEF Largest
  <2>2. \A T \in F : Cardinality(Map!Satisfied(T, opt)) <= Cardinality(Map!Satisfied(S, opt))
    BY <1>3, <2>1 DEF Largest
  <2>3. CASE side = "max"
    <3>1. \A T \in F : Cardinality(T) <= Cardinality(S)
      BY <2>2, <2>3, SatisfiedMax
    <3>2. Map!extractSeed(kept, opt) = S
      BY <2>1, <2>3, SatisfiedMax
    <3> QED
      BY <2>3, <3>1, <3>2 DEF Largest
  <2>4. CASE side = "min"
    <3>1. \A T \in F : Cardinality(Element \ T) <= Cardinality(Element \ S)
      BY <2>2, <2>4, SatisfiedMin
    <3>2. ASSUME NEW T \in F
          PROVE  Cardinality(S) <= Cardinality(T)
      <4> DEFINE n == Cardinality(Element)
                 k == Cardinality(S)
                 m == Cardinality(T)
      <4>1. n \in Nat /\ k \in Nat /\ m \in Nat
        BY <1>1, <1>2
      <4>2. n - m <= n - k
        BY <1>1, <3>1
      <4> HIDE DEF n, k, m
      <4>3. k <= m
        BY <4>1, <4>2
      <4> QED
        BY <4>3 DEF k, m
    <3>3. Map!extractSeed(kept, opt) = S
      BY <2>1, <2>4, SatisfiedMin
    <3> QED
      BY <2>4, <3>2, <3>3 DEF Smallest
  <2> QED
    BY <2>3, <2>4
<1>4. ASSUME Largest(family) = {}
      PROVE  F = {}
  <2>1. IsFiniteSet(opt)
    <3> DEFINE g == [x \in Element |-> IF side = "max" THEN Map!Positive(x) ELSE Map!Negative(x)]
    <3>1. opt = { g[x] : x \in Element }
      BY DEF Map!Literals
    <3>2. g \in Surjection(Element, opt)
      BY <3>1 DEF Surjection
    <3> QED
      BY <3>2, UtilitiesAssumption, FS_Surjection
  <2>2. family \in SUBSET SUBSET opt
    BY DEF Map!Satisfied
  <2>3. family = {}
    <3> HIDE DEF family, opt
    <3> QED
      BY <1>4, <2>1, <2>2, LargestExists
  <2> QED
    BY <2>3
<1> QED
  BY <1>3, <1>4

LEMMA MapFindOptimumKeeps ==
  ASSUME MapInv, NEW side \in {"max", "min"}, Map!FindOptimum(side)
  PROVE  MapInv'
<1> DEFINE opt == Map!Literals(side)
           optima == Largest({ Map!Satisfied(S, opt) : S \in solutions })
<1>1. /\ inited' = inited \union {side}
      /\ optimized' = IF side \in inited THEN optimized
                      ELSE [optimized EXCEPT ![side] = opt]
      /\ UNCHANGED <<class, solutions, introduced, unexplored>>
  BY DEF Map!FindOptimum, Map!initIfNecessary
<1>2. optimized'[side] = opt
  BY <1>1 DEF MapInv, MapTypes
<1>3. \/ optima = {} /\ result' = [query |-> side, seeds |-> {}]
      \/ \E kept \in optima : result' = [query |-> side, seeds |-> {Map!extractSeed(kept, opt)}]
  BY <1>2, MapNotions DEF Map!FindOptimum
<1>4. MapTypes'
  BY <1>1 DEF MapInv, MapTypes
<1>5. \A s \in inited' : optimized'[s] = Map!Literals(s)
  BY <1>1, <1>2 DEF MapInv, MapTypes
<1>6. /\ \A kept \in optima : Map!extractSeed(kept, opt)
                                \in IF side = "max" THEN Largest(solutions) ELSE Smallest(solutions)
      /\ optima = {} => solutions = {}
  BY OptimumSeeds DEF MapInv, MapTypes
<1>7. unexplored' = solutions
  BY <1>1 DEF MapInv
<1>8. Map!SeedsRight'
  <2> DEFINE found == IF side = "max" THEN Largest(solutions) ELSE Smallest(solutions)
  <2>1. result'.query = side /\ result'.seeds \subseteq found
    BY <1>3, <1>6
  <2>2. solutions # {} => result'.seeds # {}
    BY <1>3, <1>6
  <2> QED
    BY <1>7, <2>1, <2>2, MapNotions DEF Map!SeedsRight
<1> QED
  BY <1>1, <1>4, <1>5, <1>8 DEF MapInv

LEMMA MapFindSeedKeeps ==
  ASSUME MapInv, Map!findSeed
  PROVE  MapInv'
<1> DEFINE found == { S \intersect introduced : S \in solutions }
<1>1. /\ UNCHANGED <<class, solutions, introduced, inited, optimized, unexplored>>
      /\ \/ found = {} /\ result' = [query |-> "any", seeds |-> {}]
         \/ \E S \in found :
              result' = [query |-> "any", seeds |-> {S \union (Element \ introduced)}]
  BY DEF Map!findSeed
<1>2. ASSUME NEW S \in found
      PROVE  S \union (Element \ introduced) \in solutions
  <2>1. PICK T \in solutions : S = T \intersect introduced
    OBVIOUS
  <2>2. /\ S \union (Element \ introduced) \in SUBSET Element
        /\ T \in SUBSET Element
        /\ (S \union (Element \ introduced)) \intersect introduced = T \intersect introduced
    BY <2>1 DEF MapInv, MapTypes
  <2> QED
    BY <2>2 DEF MapInv
<1>3. result'.query = "any" /\ result'.seeds \subseteq solutions
      /\ (solutions # {} => result'.seeds # {})
  <2>1. CASE found = {} /\ result' = [query |-> "any", seeds |-> {}]
    <3>1. solutions = {}
      <4> SUFFICES ASSUME NEW T \in solutions PROVE FALSE
        OBVIOUS
      <4>1. T \intersect introduced \in found
        OBVIOUS
      <4> QED
        BY <2>1, <4>1
    <3> QED
      BY <2>1, <3>1
  <2>2. CASE \E S \in found :
               result' = [query |-> "any", seeds |-> {S \union (Element \ introduced)}]
    <3>1. PICK S \in found :
                 result' = [query |-> "any", seeds |-> {S \union (Element \ introduced)}]
      BY <2>2
    <3> HIDE DEF found
    <3> QED
      BY <1>2, <3>1
  <2> QED
    BY <1>1, <2>1, <2>2
<1>4. Map!SeedsRight'
  BY <1>1, <1>3 DEF Map!SeedsRight, MapInv
<1> QED
  BY <1>1, <1>4 DEF MapInv, MapTypes

LEMMA MapNextInv ==
  ASSUME MapInv, Map!Next
  PROVE  MapInv'
<1>1. ASSUME NEW S \in SUBSET Element, Map!blockUp(S)
      PROVE  MapInv'
  <2> DEFINE cls == BlockUpClause(S)
             excluded == { T \in SUBSET Element : S \subseteq T }
  <2>1. Map!AddToSolver(cls, excluded)
    BY <1>1 DEF Map!blockUp, Map!BlockUpClause, BlockUpClause
  <2>2. cls \in MapClause(Element)
    BY DEF MapClause, BlockUpClause
  <2>3. \A T \in SUBSET Element : T \in excluded <=> ~SatisfiesClause(T, cls)
    BY BlockUpClauseIff
  <2> HIDE DEF cls, excluded
  <2> QED
    BY <2>1, <2>2, <2>3, MapAddKeeps
<1>2. ASSUME NEW S \in SUBSET Element, Map!blockDown(S)
      PROVE  MapInv'
  <2> DEFINE cls == BlockDownClause(Element, S)
             excluded == SUBSET S
  <2>1. Map!AddToSolver(cls, excluded)
    BY <1>2 DEF Map!blockDown, Map!BlockDownClause, BlockDownClause
  <2>2. cls \in MapClause(Element)
    BY DEF MapClause, BlockDownClause
  <2>3. \A T \in SUBSET Element : T \in excluded <=> ~SatisfiesClause(T, cls)
    BY BlockDownClauseIff
  <2> HIDE DEF cls, excluded
  <2> QED
    BY <2>1, <2>2, <2>3, MapAddKeeps
<1>3. ASSUME NEW cls \in MapClause(Element), Map!addClause(cls)
      PROVE  MapInv'
  <2> DEFINE excluded == { T \in SUBSET Element : ~SatisfiesClause(T, cls) }
  <2>1. Map!AddToSolver(cls, excluded)
    BY <1>3, MapNotions DEF Map!addClause
  <2>2. \A T \in SUBSET Element : T \in excluded <=> ~SatisfiesClause(T, cls)
    OBVIOUS
  <2> HIDE DEF excluded
  <2> QED
    BY <2>1, <2>2, MapAddKeeps
<1>4. ASSUME NEW S \in SUBSET Element, Map!checkSeed(S)
      PROVE  MapInv'
  <2>1. Map!SeedsRight'
    BY <1>4 DEF Map!checkSeed, Map!SeedsRight, MapInv
  <2>2. MapTypes'
    BY <1>4 DEF Map!checkSeed, MapInv, MapTypes
  <2>3. \A T \in SUBSET Element : T \intersect introduced' = T
    BY <1>4 DEF Map!checkSeed
  <2> QED
    BY <1>4, <2>1, <2>2, <2>3 DEF Map!checkSeed, MapInv
<1> QED
  BY <1>1, <1>2, <1>3, <1>4, MapFindOptimumKeeps, MapFindSeedKeeps
  DEF Map!Next, Map!findMaximalSeed, Map!findMinimalSeed, Map!MapClause, MapClause

--------------------------------------------------------------------------------
(* Vectors of numbers in increasing order.                                    *)

LEMMA FindersNotions ==
  /\ \A T : Finders!Cardinality(T) = Cardinality(T)
  /\ \A S, cls : Finders!SatisfiesClause(S, cls) <=> SatisfiesClause(S, cls)
  /\ \A U, map : Finders!Solutions(U, map) = Solutions(U, map)
  /\ \A F : Finders!Smallest(F) = Smallest(F)
  /\ \A S : Finders!BlockUpClause(S) = BlockUpClause(S)
  /\ \A f : Finders!Range(f) = { f[i] : i \in DOMAIN f }
<1>1. \A T : Finders!Cardinality(T) = Cardinality(T)
  BY DEF Finders!Cardinality, Cardinality
<1>2. \A S, cls : Finders!SatisfiesClause(S, cls) <=> SatisfiesClause(S, cls)
  BY DEF Finders!SatisfiesClause, SatisfiesClause
<1>3. \A U, map : Finders!Solutions(U, map) = Solutions(U, map)
  BY <1>2 DEF Finders!Solutions, Solutions
<1>4. \A F : Finders!Smallest(F) = Smallest(F)
  BY <1>1 DEF Finders!Smallest, Smallest
<1>5. \A S : Finders!BlockUpClause(S) = BlockUpClause(S)
  BY DEF Finders!BlockUpClause, BlockUpClause
<1>6. \A f : Finders!Range(f) = { f[i] : i \in DOMAIN f }
  BY DEF Finders!Range
<1> QED
  BY <1>1, <1>2, <1>3, <1>4, <1>5, <1>6

Increasing(seq) == \A i, j \in DOMAIN seq : i < j => seq[i] < seq[j]

\* The number of elements up to x is the position of x.
LEMMA OrderExists ==
  ASSUME NEW C \in SUBSET Nat, IsFiniteSet(C)
  PROVE  \E seq \in [1 .. Cardinality(C) -> C] : Increasing(seq)
<1> DEFINE n == Cardinality(C)
           UpTo(x) == { y \in C : y <= x }
           rank == [x \in C |-> Cardinality(UpTo(x))]
           seq == [i \in 1 .. n |-> CHOOSE x \in C : rank[x] = i]
<1>1. n \in Nat
  BY FS_CardinalityType
<1>2. ASSUME NEW x \in C
      PROVE  rank[x] \in 1 .. n
  <2>1. UpTo(x) \in SUBSET C
    OBVIOUS
  <2>2. x \in UpTo(x)
    OBVIOUS
  <2>3. {x} \in SUBSET UpTo(x)
    BY <2>2
  <2>4. IsFiniteSet(UpTo(x)) /\ Cardinality(UpTo(x)) \in Nat /\ Cardinality(UpTo(x)) <= n
    BY <2>1, Sizes
  <2>5. Cardinality({x}) = 1
    BY FS_Singleton
  <2>6. 1 <= Cardinality(UpTo(x))
    BY <2>3, <2>4, <2>5, FS_Subset
  <2> HIDE DEF UpTo, n
  <2> QED
    BY <1>1, <2>4, <2>6
<1>3. ASSUME NEW x \in C, NEW y \in C, x < y
      PROVE  rank[x] < rank[y]
  <2>1. UpTo(x) \in SUBSET UpTo(y)
    <3> SUFFICES ASSUME NEW z \in C, z <= x PROVE z <= y
      OBVIOUS
    <3>1. x \in Nat /\ y \in Nat /\ z \in Nat
      OBVIOUS
    <3> QED
      BY <1>3, <3>1
  <2>2. y \in UpTo(y) /\ y \notin UpTo(x)
    BY <1>3
  <2>3. UpTo(y) \in SUBSET C
    OBVIOUS
  <2>4. /\ Cardinality(UpTo(x)) <= Cardinality(UpTo(y))
        /\ Cardinality(UpTo(y)) <= Cardinality(UpTo(x)) => UpTo(y) = UpTo(x)
    <3> HIDE DEF UpTo
    <3>1. IsFiniteSet(UpTo(y))
      BY <2>3, FS_Subset
    <3> QED
      BY <2>1, <3>1, Sizes
  <2>5. rank[x] \in 1 .. n /\ rank[y] \in 1 .. n
    BY <1>2
  <2> HIDE DEF UpTo, n
  <2> QED
    BY <2>2, <2>4, <2>5
<1>4. \A x, y \in C : rank[x] = rank[y] => x = y
  <2> SUFFICES ASSUME NEW x \in C, NEW y \in C, rank[x] = rank[y] PROVE x = y
    OBVIOUS
  <2>1. rank[x] \in 1 .. n /\ rank[y] \in 1 .. n
    BY <1>2
  <2>2. x \in Nat /\ y \in Nat
    OBVIOUS
  <2>3. ~(x < y) /\ ~(y < x)
    <3>1. x < y => rank[x] < rank[y]
      BY <1>3
    <3>2. y < x => rank[y] < rank[x]
      BY <1>3
    <3> HIDE DEF rank, n
    <3> QED
      BY <1>1, <2>1, <3>1, <3>2
  <2> QED
    BY <2>2, <2>3
<1>5. rank \in Surjection(C, 1 .. n)
  <2>1. rank \in Injection(C, 1 .. n)
    BY <1>2, <1>4 DEF Injection, IsInjective
  <2>2. IsFiniteSet(1 .. n) /\ Cardinality(1 .. n) = n
    <3> HIDE DEF n
    <3> QED
      BY <1>1, UpToFinite
  <2> HIDE DEF rank
  <2> QED
    BY <2>1, <2>2, FS_Injection
<1>6. \A i \in 1 .. n : seq[i] \in C /\ rank[seq[i]] = i
  <2> HIDE DEF rank, n
  <2> QED
    BY <1>5 DEF Surjection
<1>7. ASSUME NEW i \in 1 .. n, NEW j \in 1 .. n, i < j
      PROVE  seq[i] < seq[j]
  <2>1. seq[i] \in C /\ seq[j] \in C /\ rank[seq[i]] = i /\ rank[seq[j]] = j
    BY <1>6
  <2>2. seq[j] < seq[i] => rank[seq[j]] < rank[seq[i]]
    <3> HIDE DEF rank, seq, n
    <3> QED
      BY <1>3, <2>1
  <2>3. i \in Nat /\ j \in Nat /\ seq[i] \in Nat /\ seq[j] \in Nat
    <3>1. \A x \in C : x \in Nat
      OBVIOUS
    <3>2. i \in Nat /\ j \in Nat
      <4> HIDE DEF n
      <4> QED
        BY <1>1
    <3> HIDE DEF rank, seq, n
    <3> QED
      BY <2>1, <3>1, <3>2
  <2>4. seq[i] # seq[j]
    <3> HIDE DEF rank, seq, n
    <3> QED
      BY <1>7, <2>1, <2>3
  <2>5. ~(seq[j] < seq[i])
    <3> HIDE DEF rank, seq, n
    <3> QED
      BY <1>7, <2>1, <2>2, <2>3
  <2> HIDE DEF rank, seq, n
  <2> QED
    BY <2>3, <2>4, <2>5
<1>8. seq \in [1 .. n -> C] /\ DOMAIN seq = 1 .. n
  BY <1>6
<1>9. Increasing(seq)
  <2> HIDE DEF seq
  <2> QED
    BY <1>7, <1>8 DEF Increasing
<1> HIDE DEF seq
<1> QED
  BY <1>8, <1>9

LEMMA InOrderRight ==
  ASSUME NEW C \in SUBSET Nat, IsFiniteSet(C)
  PROVE  /\ Finders!InOrder(C) \in Seq(C)
         /\ Increasing(Finders!InOrder(C))
         /\ { Finders!InOrder(C)[i] : i \in DOMAIN Finders!InOrder(C) } = C
         /\ Len(Finders!InOrder(C)) = Cardinality(C)
<1> DEFINE n == Cardinality(C)
           seq == Finders!InOrder(C)
<1>1. n \in Nat
  BY FS_CardinalityType
<1>2. seq \in [1 .. n -> C] /\ Increasing(seq)
  <2>1. seq = CHOOSE s \in [1 .. n -> C] : Increasing(s)
    BY FindersNotions DEF Finders!InOrder, Increasing
  <2> HIDE DEF seq
  <2> QED
    BY <2>1, OrderExists
<1> HIDE DEF seq, n
<1>3. seq \in Injection(1 .. n, C)
  <2> SUFFICES ASSUME NEW i \in 1 .. n, NEW j \in 1 .. n, seq[i] = seq[j] PROVE i = j
    BY <1>2 DEF Injection, IsInjective
  <2>1. seq[i] \in Nat /\ seq[j] \in Nat
    BY <1>2
  <2> QED
    BY <1>1, <1>2, <2>1 DEF Increasing
<1>4. seq \in Surjection(1 .. n, C)
  BY <1>1, <1>3, FS_Interval, FS_Injection DEF n
<1>5. { seq[i] : i \in DOMAIN seq } = C
  BY <1>2, <1>4 DEF Surjection
<1>6. seq \in Seq(C) /\ Len(seq) = n
  BY <1>1, <1>2
<1> QED
  BY <1>2, <1>5, <1>6 DEF seq, n

--------------------------------------------------------------------------------
(* HittingSetFinder.                                                          *)

HittingTypes ==
  /\ sets \in Seq(SUBSET Element)
  /\ known \in SUBSET Element
  /\ added \in SUBSET SUBSET Element
  /\ {} \notin added
  /\ blocked \in SUBSET SUBSET known
  /\ answers \in SUBSET SUBSET known

Kept == { sets[i] : i \in DOMAIN sets }

\* Every set added includes one that is kept, whose elements are all known.
HittingKept ==
  /\ Kept \subseteq added
  /\ Kept \subseteq SUBSET known
  /\ \A a \in added : \E k \in Kept : k \subseteq a
  /\ \A i, j \in DOMAIN sets : i # j => ~(sets[i] \subseteq sets[j])

\* The solver has a clause for each set kept and may have others for sets added.
HittingClauses ==
  /\ \A k \in Kept : Finders!Hits(k) \in clauses
  /\ \A B \in blocked : BlockUpClause(B) \in clauses
  /\ \A cls \in clauses : \/ \E a \in added : cls = Finders!Hits(a)
                          \/ \E B \in blocked : cls = BlockUpClause(B)

\* What an answer is sought among.
Hitting ==
  { H \in SUBSET Element :
      /\ \A s \in added : s \intersect H # {}
      /\ \A B \in blocked : ~(B \subseteq H) }

HittingAnswers ==
  \A answer \in answers : IF Hitting = {} THEN answer = {} ELSE answer \in Smallest(Hitting)

HittingInv == HittingTypes /\ HittingKept /\ HittingClauses /\ HittingAnswers

LEMMA HittingInvMinimum == HittingInv => Finders!HittingSetMinimum
BY FindersNotions
DEF HittingInv, HittingAnswers, HittingKept, Hitting, Finders!HittingSetMinimum

LEMMA HittingInitInv == Finders!HittingInit => HittingInv
<1> SUFFICES ASSUME Finders!HittingInit PROVE HittingInv
  OBVIOUS
<1>1. DOMAIN sets = {} /\ sets \in Seq(SUBSET Element)
  BY DEF Finders!HittingInit
<1>2. HittingTypes
  BY <1>1 DEF Finders!HittingInit, HittingTypes
<1>3. HittingKept /\ HittingClauses /\ HittingAnswers
  BY <1>1 DEF Finders!HittingInit, HittingKept, HittingClauses, HittingAnswers, Kept
<1> QED
  BY <1>2, <1>3 DEF HittingInv

LEMMA HitsIff ==
  ASSUME NEW s, NEW S
  PROVE  SatisfiesClause(S, Finders!Hits(s)) <=> s \intersect S # {}
BY DEF SatisfiesClause, Finders!Hits

\* What the solver finds is what it should, among the elements it knows, and these
\* are enough.
LEMMA HittingSolveKeeps ==
  ASSUME HittingInv, Finders!Solve
  PROVE  HittingInv'
<1> DEFINE found == Solutions(known, clauses)
<1>1. /\ UNCHANGED <<sets, known, blocked, clauses, added>>
      /\ \E answer \in IF Smallest(found) = {} THEN {{}} ELSE Smallest(found) : answers' = {answer}
  BY FindersNotions DEF Finders!Solve
<1>2. found = Hitting \intersect SUBSET known
  <2>1. ASSUME NEW H \in found
        PROVE  H \in Hitting
    <3>1. H \in SUBSET Element /\ \A cls \in clauses : SatisfiesClause(H, cls)
      BY DEF HittingInv, HittingTypes, Solutions
    <3>2. ASSUME NEW s \in added
          PROVE  s \intersect H # {}
      <4>1. PICK k \in Kept : k \subseteq s
        BY DEF HittingInv, HittingKept
      <4>2. SatisfiesClause(H, Finders!Hits(k))
        BY <3>1 DEF HittingInv, HittingClauses
      <4> QED
        BY <4>1, <4>2, HitsIff
    <3>3. ASSUME NEW B \in blocked
          PROVE  ~(B \subseteq H)
      <4>1. SatisfiesClause(H, BlockUpClause(B))
        BY <3>1 DEF HittingInv, HittingClauses
      <4> QED
        BY <4>1, BlockUpClauseIff
    <3> QED
      BY <3>1, <3>2, <3>3 DEF Hitting
  <2>2. ASSUME NEW H \in Hitting, H \in SUBSET known, NEW cls \in clauses
        PROVE  SatisfiesClause(H, cls)
    <3>1. CASE \E a \in added : cls = Finders!Hits(a)
      BY <3>1, HitsIff DEF Hitting
    <3>2. CASE \E B \in blocked : cls = BlockUpClause(B)
      BY <3>2, BlockUpClauseIff DEF Hitting
    <3> QED
      BY <3>1, <3>2 DEF HittingInv, HittingClauses
  <2> QED
    BY <2>1, <2>2 DEF Solutions
<1>3. ASSUME NEW H \in Hitting
      PROVE  H \intersect known \in found
  <2>1. ASSUME NEW s \in added
        PROVE  s \intersect (H \intersect known) # {}
    <3>1. PICK k \in Kept : k \subseteq s
      BY DEF HittingInv, HittingKept
    <3>2. k \subseteq known /\ k \intersect H # {}
      BY DEF HittingInv, HittingKept, Hitting
    <3> QED
      BY <3>1, <3>2
  <2> QED
    BY <1>2, <2>1 DEF Hitting, HittingInv, HittingTypes
<1>4. IsFiniteSet(known) /\ \A H \in SUBSET Element : Cardinality(H) \in Nat
  BY UtilitiesAssumption, Sizes, FS_Subset DEF HittingInv, HittingTypes
<1>5. ASSUME Smallest(found) = {}
      PROVE  Hitting = {}
  <2>1. found \in SUBSET SUBSET known
    BY DEF Solutions
  <2>2. found = {}
    BY <1>4, <1>5, <2>1, SmallestExists
  <2> QED
    BY <1>3, <2>2
<1>6. ASSUME NEW answer \in Smallest(found)
      PROVE  answer \in Smallest(Hitting)
  <2>1. answer \in Hitting
    BY <1>2 DEF Smallest
  <2>2. ASSUME NEW H \in Hitting
        PROVE  Cardinality(answer) <= Cardinality(H)
    <3>1. Cardinality(answer) <= Cardinality(H \intersect known)
      BY <1>3 DEF Smallest
    <3>2. Cardinality(H \intersect known) <= Cardinality(H)
      BY UtilitiesAssumption, Sizes DEF Hitting
    <3>3. /\ Cardinality(answer) \in Nat
          /\ Cardinality(H) \in Nat
          /\ Cardinality(H \intersect known) \in Nat
      BY <1>4, <2>1 DEF Hitting
    <3> QED
      BY <3>1, <3>2, <3>3
  <2> QED
    BY <2>1, <2>2 DEF Smallest
<1>7. PICK answer : /\ answers' = {answer}
                    /\ IF Smallest(found) = {} THEN answer = {} ELSE answer \in Smallest(found)
  BY <1>1
<1>8. answer \in SUBSET known
  BY <1>7 DEF Smallest, Solutions
<1>9. IF Hitting = {} THEN answer = {} ELSE answer \in Smallest(Hitting)
  <2>1. CASE Smallest(found) = {}
    BY <1>5, <1>7, <2>1
  <2>2. CASE Smallest(found) # {}
    BY <1>6, <1>7, <2>2 DEF Smallest
  <2> QED
    BY <2>1, <2>2
<1>10. Hitting' = Hitting /\ Kept' = Kept
  BY <1>1 DEF Hitting, Kept
<1>11. HittingTypes'
  BY <1>1, <1>7, <1>8 DEF HittingInv, HittingTypes
<1>12. HittingKept' /\ HittingClauses'
  BY <1>1, <1>10 DEF HittingInv, HittingKept, HittingClauses
<1>13. HittingAnswers'
  BY <1>7, <1>9, <1>10 DEF HittingAnswers
<1> QED
  BY <1>11, <1>12, <1>13 DEF HittingInv

LEMMA HittingBlockKeeps ==
  ASSUME HittingInv, Finders!BlockSolution
  PROVE  HittingInv'
<1>1. PICK answer \in answers \ {{}} : /\ blocked' = blocked \union {answer}
                                       /\ clauses' = clauses \union {BlockUpClause(answer)}
  BY FindersNotions DEF Finders!BlockSolution
<1>2. answers' = {} /\ UNCHANGED <<sets, known, added>>
  BY DEF Finders!BlockSolution
<1>3. HittingTypes'
  BY <1>1, <1>2 DEF HittingInv, HittingTypes
<1>4. HittingKept' /\ Kept' = Kept
  BY <1>2 DEF HittingInv, HittingKept, Kept
<1>5. HittingClauses'
  BY <1>1, <1>2, <1>4 DEF HittingInv, HittingClauses
<1>6. HittingAnswers'
  BY <1>2 DEF HittingAnswers
<1> QED
  BY <1>3, <1>4, <1>5, <1>6 DEF HittingInv

LEMMA HittingRenewKeeps ==
  ASSUME HittingInv, Finders!Renew
  PROVE  HittingInv'
<1>1. /\ clauses' = { Finders!Hits(sets[i]) : i \in DOMAIN sets }
                      \union { BlockUpClause(B) : B \in blocked }
      /\ UNCHANGED <<sets, known, blocked, added, answers>>
  BY FindersNotions DEF Finders!Renew
<1>2. HittingTypes'
  BY <1>1 DEF HittingInv, HittingTypes
<1>3. HittingKept' /\ Kept' = Kept
  BY <1>1 DEF HittingInv, HittingKept, Kept
<1>4. HittingAnswers'
  BY <1>1 DEF HittingInv, HittingAnswers, Hitting
<1>5. HittingClauses'
  <2>1. \A k \in Kept : Finders!Hits(k) \in clauses'
    BY <1>1 DEF Kept
  <2>2. \A i \in DOMAIN sets : sets[i] \in added
    BY DEF HittingInv, HittingKept, Kept
  <2> QED
    BY <1>1, <1>3, <2>1, <2>2 DEF HittingClauses
<1> QED
  BY <1>2, <1>3, <1>4, <1>5 DEF HittingInv

\* No set goes when another subsumes the new one: that one would be included in
\* the set that goes.  So those that go include the new set, which is then kept.
LEMMA HittingPassed ==
  ASSUME HittingInv, NEW s \in SUBSET Element
  PROVE  LET gone == { i \in DOMAIN sets : i < Finders!Subsumer(s) /\ s \subseteq sets[i] }
         IN  \/ /\ Finders!Keeps(s)
                /\ \A i \in DOMAIN sets : sets[i] \subseteq s => sets[i] = s
                /\ gone = { i \in DOMAIN sets : s \subseteq sets[i] }
             \/ /\ ~Finders!Keeps(s)
                /\ \E i \in DOMAIN sets : sets[i] \subseteq s
                /\ gone = {}
<1> DEFINE within == { i \in DOMAIN sets : sets[i] \subseteq s /\ sets[i] # s }
           gone == { i \in DOMAIN sets : i < Finders!Subsumer(s) /\ s \subseteq sets[i] }
<1>1. Len(sets) \in Nat /\ DOMAIN sets = 1 .. Len(sets)
  BY DEF HittingInv, HittingTypes
<1>2. Finders!Subsumer(s) = IF within = {} THEN Len(sets) + 1 ELSE Finders!Min(within)
  BY DEF Finders!Subsumer
<1>3. CASE within = {}
  <2>1. Finders!Subsumer(s) = Len(sets) + 1
    BY <1>2, <1>3
  <2>2. Finders!Keeps(s)
    BY <1>1, <2>1 DEF Finders!Keeps
  <2>3. gone = { i \in DOMAIN sets : s \subseteq sets[i] }
    BY <1>1, <2>1
  <2>4. \A i \in DOMAIN sets : sets[i] \subseteq s => sets[i] = s
    BY <1>3
  <2> QED
    BY <2>2, <2>3, <2>4
<1>4. CASE within # {}
  <2>1. within \in SUBSET Nat
    BY <1>1
  <2>2. \E m \in within : \A n \in within : m <= n
    <3> HIDE DEF within
    <3> QED
      BY <1>4, <2>1, LeastNatural
  <2>3. Finders!Min(within) \in within
    <3> HIDE DEF within
    <3> QED
      BY <2>2 DEF Finders!Min
  <2> DEFINE m == Finders!Subsumer(s)
  <2>4. m \in DOMAIN sets /\ sets[m] \subseteq s
    BY <1>2, <1>4, <2>3
  <2>5. ~Finders!Keeps(s)
    BY <1>1, <2>4 DEF Finders!Keeps
  <2>6. ASSUME NEW i \in gone
        PROVE  FALSE
    <3>1. sets[m] \subseteq sets[i] /\ i # m
      BY <1>1, <2>4, <2>6
    <3> QED
      BY <2>4, <3>1 DEF HittingInv, HittingKept
  <2> QED
    BY <2>4, <2>5, <2>6
<1> QED
  BY <1>3, <1>4

\* What is left of the sets kept.
LEMMA HittingLeft ==
  ASSUME HittingInv, NEW s \in SUBSET Element
  PROVE  LET left == Finders!WithoutSupersets(s)
         IN  /\ left \in Seq(SUBSET Element)
             /\ { left[i] : i \in DOMAIN left }
                  = { sets[i] : i \in { j \in DOMAIN sets :
                                          j < Finders!Subsumer(s) => ~(s \subseteq sets[j]) } }
             /\ \A i, j \in DOMAIN left : i # j => ~(left[i] \subseteq left[j])
<1> DEFINE C == { i \in DOMAIN sets : i < Finders!Subsumer(s) => ~(s \subseteq sets[i]) }
           order == Finders!InOrder(C)
           left == Finders!WithoutSupersets(s)
<1>1. sets \in Seq(SUBSET Element) /\ Len(sets) \in Nat /\ DOMAIN sets = 1 .. Len(sets)
  BY DEF HittingInv, HittingTypes
<1>2. C \in SUBSET DOMAIN sets
  OBVIOUS
<1>3. C \in SUBSET Nat /\ IsFiniteSet(C)
  <2>1. IsFiniteSet(1 .. Len(sets))
    BY <1>1, UpToFinite
  <2> HIDE DEF C
  <2> QED
    BY <1>1, <1>2, <2>1, FS_Subset
<1>4. left = [i \in DOMAIN order |-> sets[order[i]]]
  BY DEF Finders!WithoutSupersets
<1> HIDE DEF C, left
<1>5. order \in Seq(C) /\ Increasing(order) /\ { order[i] : i \in DOMAIN order } = C
  BY <1>3, InOrderRight
<1> HIDE DEF order
<1>6. \A i \in DOMAIN order : order[i] \in C
  BY <1>5
<1>7. left \in Seq(SUBSET Element)
  <2>1. DOMAIN order = 1 .. Len(order) /\ Len(order) \in Nat
    BY <1>5
  <2>2. \A i \in 1 .. Len(order) : sets[order[i]] \in SUBSET Element
    BY <1>1, <1>2, <1>6, <2>1
  <2>3. left \in [1 .. Len(order) -> SUBSET Element]
    BY <1>4, <2>1, <2>2
  <2> QED
    BY <2>1, <2>3
<1>8. { left[i] : i \in DOMAIN left } = { sets[i] : i \in C }
  BY <1>4, <1>5
<1>9. ASSUME NEW i \in DOMAIN left, NEW j \in DOMAIN left, i # j
      PROVE  ~(left[i] \subseteq left[j])
  <2>1. i \in DOMAIN order /\ j \in DOMAIN order
    BY <1>4
  <2>2. DOMAIN order = 1 .. Len(order) /\ Len(order) \in Nat
    BY <1>5
  <2>3. i < j \/ j < i
    BY <1>9, <2>1, <2>2
  <2>4. order[i] \in Nat /\ order[j] \in Nat
    BY <1>3, <1>6, <2>1
  <2>5. order[i] # order[j]
    BY <1>5, <2>1, <2>3, <2>4 DEF Increasing
  <2>6. order[i] \in DOMAIN sets /\ order[j] \in DOMAIN sets
    BY <1>2, <1>6, <2>1
  <2> QED
    BY <1>4, <2>1, <2>5, <2>6 DEF HittingInv, HittingKept
<1> QED
  BY <1>7, <1>8, <1>9 DEF C, left

LEMMA HittingAddKeeps ==
  ASSUME HittingInv, NEW s \in (SUBSET Element) \ {{}}, Finders!AddSet(s)
  PROVE  HittingInv'
<1> DEFINE left == Finders!WithoutSupersets(s)
           stays == { k \in Kept : ~(s \subseteq k) }
<1>1. added' = added \union {s} /\ answers' = {} /\ blocked' = blocked
  BY DEF Finders!AddSet
<1>2. /\ left \in Seq(SUBSET Element)
      /\ { left[i] : i \in DOMAIN left }
           = { sets[i] : i \in { j \in DOMAIN sets :
                                   j < Finders!Subsumer(s) => ~(s \subseteq sets[j]) } }
      /\ \A i, j \in DOMAIN left : i # j => ~(left[i] \subseteq left[j])
  BY HittingLeft
<1>3. HittingAnswers'
  BY <1>1 DEF HittingAnswers
<1>4. CASE Finders!Keeps(s)
  <2>1. /\ sets' = Append(left, s)
        /\ known' = known \union s
        /\ clauses' = clauses \union {Finders!Hits(s)}
    BY <1>4 DEF Finders!AddSet
  <2>2. /\ \A i \in DOMAIN sets : sets[i] \subseteq s => sets[i] = s
        /\ { i \in DOMAIN sets : i < Finders!Subsumer(s) /\ s \subseteq sets[i] }
             = { i \in DOMAIN sets : s \subseteq sets[i] }
    BY <1>4, HittingPassed
  <2>3. { left[i] : i \in DOMAIN left } = stays
    BY <1>2, <2>2 DEF Kept
  <2> HIDE DEF left
  <2>4. /\ sets' \in Seq(SUBSET Element)
        /\ Kept' = stays \union {s}
        /\ \A i \in DOMAIN sets' :
             IF i \in DOMAIN left THEN sets'[i] = left[i] ELSE sets'[i] = s
        /\ \A i, j \in DOMAIN sets' : i \notin DOMAIN left /\ j \notin DOMAIN left => i = j
    <3>1. left \in Seq(SUBSET Element) /\ s \in SUBSET Element
      BY <1>2
    <3>2. /\ Append(left, s) \in Seq(SUBSET Element)
          /\ { Append(left, s)[i] : i \in DOMAIN Append(left, s) }
               = { left[i] : i \in DOMAIN left } \union {s}
          /\ \A i \in DOMAIN Append(left, s) :
               IF i \in DOMAIN left THEN Append(left, s)[i] = left[i] ELSE Append(left, s)[i] = s
          /\ \A i, j \in DOMAIN Append(left, s) :
               i \notin DOMAIN left /\ j \notin DOMAIN left => i = j
      BY <3>1, RangeAppend
    <3>3. Kept' = { sets'[i] : i \in DOMAIN sets' }
      BY DEF Kept
    <3> HIDE DEF stays
    <3> QED
      BY <2>1, <2>3, <3>2, <3>3
  <2>5. HittingTypes'
    BY <1>1, <2>1, <2>4 DEF HittingInv, HittingTypes
  <2>6. ASSUME NEW i \in DOMAIN sets', NEW j \in DOMAIN sets', i # j
        PROVE  ~(sets'[i] \subseteq sets'[j])
    <3>1. CASE i \in DOMAIN left /\ j \in DOMAIN left
      BY <1>2, <2>4, <2>6, <3>1
    <3>2. CASE i \in DOMAIN left /\ j \notin DOMAIN left
      <4>1. sets'[i] \in stays /\ sets'[j] = s
        BY <2>3, <2>4, <3>2
      <4>2. sets'[i] \subseteq s => sets'[i] = s
        BY <2>2, <4>1 DEF Kept
      <4> QED
        BY <4>1, <4>2
    <3>3. CASE i \notin DOMAIN left /\ j \in DOMAIN left
      BY <2>3, <2>4, <3>3
    <3> QED
      BY <2>4, <2>6, <3>1, <3>2, <3>3
  <2>7. ASSUME NEW a \in added'
        PROVE  \E k \in Kept' : k \subseteq a
    <3>1. CASE a = s
      BY <2>4, <3>1
    <3>2. CASE a \in added
      <4>1. PICK k \in Kept : k \subseteq a
        BY <3>2 DEF HittingInv, HittingKept
      <4>2. CASE s \subseteq k
        BY <2>4, <4>1, <4>2
      <4>3. CASE ~(s \subseteq k)
        BY <2>4, <4>1, <4>3
      <4> QED
        BY <4>2, <4>3
    <3> QED
      BY <1>1, <3>1, <3>2
  <2>8. HittingKept'
    <3>1. Kept' \subseteq added' /\ Kept' \subseteq SUBSET known'
      BY <1>1, <2>1, <2>4 DEF HittingInv, HittingKept
    <3> QED
      BY <2>6, <2>7, <3>1 DEF HittingKept
  <2>9. HittingClauses'
    BY <1>1, <2>1, <2>4 DEF HittingInv, HittingClauses
  <2> QED
    BY <1>3, <2>5, <2>8, <2>9 DEF HittingInv
<1>5. CASE ~Finders!Keeps(s)
  <2>1. sets' = left /\ UNCHANGED <<known, clauses>>
    BY <1>5 DEF Finders!AddSet
  <2>2. /\ \E i \in DOMAIN sets : sets[i] \subseteq s
        /\ { i \in DOMAIN sets : i < Finders!Subsumer(s) /\ s \subseteq sets[i] } = {}
    BY <1>5, HittingPassed
  <2>3. { left[i] : i \in DOMAIN left } = Kept
    <3>1. { j \in DOMAIN sets : j < Finders!Subsumer(s) => ~(s \subseteq sets[j]) } = DOMAIN sets
      BY <2>2
    <3> QED
      BY <1>2, <3>1 DEF Kept
  <2> HIDE DEF left
  <2>4. Kept' = Kept
    BY <2>1, <2>3 DEF Kept
  <2>5. \E k \in Kept : k \subseteq s
    BY <2>2 DEF Kept
  <2>6. HittingTypes'
    BY <1>1, <1>2, <2>1 DEF HittingInv, HittingTypes
  <2>7. HittingKept'
    BY <1>1, <1>2, <2>1, <2>4, <2>5 DEF HittingInv, HittingKept
  <2>8. HittingClauses'
    BY <1>1, <2>1, <2>4 DEF HittingInv, HittingClauses
  <2> QED
    BY <1>3, <2>6, <2>7, <2>8 DEF HittingInv
<1> QED
  BY <1>4, <1>5

LEMMA HittingNextInv ==
  ASSUME HittingInv, Finders!HittingNext
  PROVE  HittingInv'
BY HittingAddKeeps, HittingSolveKeeps, HittingBlockKeeps, HittingRenewKeeps
DEF Finders!HittingNext

--------------------------------------------------------------------------------
(* MUSFinder.                                                                 *)

MUSTypes ==
  /\ formula \in Finders!Formulas
  /\ external \in Seq(Group)
  /\ pc \in {"add", "loop", "done"}
  /\ pc = "add" => it = 1

InMUS == { mus[j] : j \in DOMAIN mus }

\* What is left is unsatisfiable and in order, and without any of the groups that
\* the iterator has passed it is not.
MUSLoop ==
  /\ mus \in Seq(Finders!Internal)
  /\ Increasing(mus)
  /\ Finders!Unsat(InMUS)
  /\ it \in 1 .. Len(mus) + 1
  /\ \A j \in 1 .. it - 1 : ~Finders!Unsat(InMUS \ {mus[j]})

MUSInv ==
  /\ MUSTypes
  /\ pc \in {"loop", "done"} => MUSLoop
  /\ pc = "done" => it = Len(mus) + 1

LEMMA UnsatGrows ==
  ASSUME NEW C, NEW D, C \subseteq D, Finders!Unsat(C)
  PROVE  Finders!Unsat(D)
BY DEF Finders!Unsat, Finders!mapCore

LEMMA MUSInitInv == Finders!MUSInit => MUSInv
<1> SUFFICES ASSUME Finders!MUSInit PROVE MUSInv
  OBVIOUS
<1>1. external \in Seq(Group)
  BY DEF Finders!MUSInit
<1> QED
  BY <1>1 DEF Finders!MUSInit, MUSInv, MUSTypes

\* The cores of groups of numbers.
LEMMA CoreRight ==
  ASSUME NEW groups \in SUBSET Finders!Internal, external \in Seq(Group),
         NEW core \in Finders!Cores(groups)
  PROVE  /\ core \in Seq(Finders!Internal)
         /\ Increasing(core)
         /\ { core[j] : j \in DOMAIN core } \in SUBSET groups
         /\ Finders!Unsat({ core[j] : j \in DOMAIN core })
<1>1. PICK C \in SUBSET groups : Finders!Unsat(C) /\ core = Finders!InOrder(C)
  BY DEF Finders!Cores
<1>2. C \in SUBSET Nat /\ IsFiniteSet(C)
  <2>1. Len(external) \in Nat
    OBVIOUS
  <2>2. Finders!Internal = 0 .. Len(external) - 1
    BY DEF Finders!Internal
  <2>3. IsFiniteSet(Finders!Internal)
    BY <2>1, <2>2, FS_Interval
  <2>4. Finders!Internal \subseteq Nat
    BY <2>1, <2>2
  <2> QED
    BY <2>3, <2>4, FS_Subset
<1>3. core \in Seq(C) /\ Increasing(core) /\ { core[j] : j \in DOMAIN core } = C
  BY <1>1, <1>2, InOrderRight
<1>4. core \in Seq(Finders!Internal)
  <2>1. \A j \in 1 .. Len(core) : core[j] \in Finders!Internal
    BY <1>3
  <2>2. Len(core) \in Nat /\ core \in [1 .. Len(core) -> Finders!Internal]
    BY <1>3, <2>1
  <2> QED
    BY <2>2
<1> QED
  BY <1>1, <1>3, <1>4

LEMMA MUSFindCoreKeeps ==
  ASSUME MUSInv, Finders!FindCore
  PROVE  MUSInv'
<1>1. /\ pc' = "loop" /\ it' = 1 /\ formula' = formula /\ external' = external
      /\ mus' \in Finders!Cores(Finders!Internal)
  BY DEF Finders!FindCore, MUSInv, MUSTypes
<1>2. /\ mus' \in Seq(Finders!Internal)
      /\ Increasing(mus')
      /\ Finders!Unsat({ mus'[j] : j \in DOMAIN mus' })
  <2>1. external \in Seq(Group)
    BY DEF MUSInv, MUSTypes
  <2>2. \A core \in Finders!Cores(Finders!Internal) :
          /\ core \in Seq(Finders!Internal)
          /\ Increasing(core)
          /\ Finders!Unsat({ core[j] : j \in DOMAIN core })
    BY <2>1, CoreRight
  <2> QED
    BY <1>1, <2>2
<1>3. Finders!Internal' = Finders!Internal /\ (Finders!Unsat(InMUS))' = Finders!Unsat(InMUS')
  BY <1>1 DEF Finders!Internal, Finders!Unsat, Finders!mapCore
<1>4. InMUS' = { mus'[j] : j \in DOMAIN mus' }
  BY DEF InMUS
<1>5. Increasing(mus)' <=> Increasing(mus')
  BY DEF Increasing
<1>6. it' \in 1 .. Len(mus') + 1 /\ 1 .. it' - 1 = {}
  BY <1>1, <1>2
<1>7. MUSLoop'
  BY <1>2, <1>3, <1>4, <1>5, <1>6 DEF MUSLoop
<1> QED
  BY <1>1, <1>7 DEF MUSInv, MUSTypes

\* upper_bound: what it has passed is not greater.
LEMMA UpperBoundPasses ==
  ASSUME NEW seq \in Seq(Nat), Increasing(seq), NEW g \in Nat
  PROVE  /\ Finders!UpperBound(seq, g) \in 1 .. Len(seq) + 1
         /\ \A j \in 1 .. Finders!UpperBound(seq, g) - 1 : j \in DOMAIN seq /\ seq[j] <= g
<1> DEFINE D == { i \in DOMAIN seq : seq[i] <= g }
           n == Len(seq)
<1>1. n \in Nat /\ DOMAIN seq = 1 .. n
  OBVIOUS
<1>2. IsFiniteSet(1 .. n) /\ Cardinality(1 .. n) = n
  <2> HIDE DEF n
  <2> QED
    BY <1>1, UpToFinite
<1>3. D \in SUBSET (1 .. n)
  BY <1>1
<1>4. Cardinality(D) \in Nat /\ Cardinality(D) <= n
  <2> HIDE DEF D
  <2>1. IsFiniteSet(D) /\ Cardinality(D) <= Cardinality(1 .. n)
    BY <1>2, <1>3, FS_Subset
  <2> QED
    BY <1>2, <2>1, FS_CardinalityType
<1>5. Finders!UpperBound(seq, g) = Cardinality(D) + 1
  BY FindersNotions DEF Finders!UpperBound
<1>6. ASSUME NEW j \in 1 .. n, j <= Cardinality(D), ~(seq[j] <= g)
      PROVE  FALSE
  <2>1. ASSUME NEW i \in D
        PROVE  i \in 1 .. j - 1
    <3>1. i \in 1 .. n /\ seq[i] <= g
      BY <1>1
    <3>2. seq[i] \in Nat /\ seq[j] \in Nat /\ i \in Nat /\ j \in Nat
      BY <1>1, <3>1
    <3>3. ~(j < i) /\ i # j
      BY <1>1, <1>6, <3>1, <3>2 DEF Increasing
    <3> QED
      BY <3>1, <3>2, <3>3
  <2>2. D \in SUBSET (1 .. j - 1)
    BY <2>1
  <2>3. j \in Nat /\ j >= 1
    BY <1>1
  <2>4. IsFiniteSet(1 .. j - 1) /\ Cardinality(1 .. j - 1) = j - 1
    <3>1. j - 1 \in Nat
      BY <2>3
    <3> QED
      BY <3>1, UpToFinite
  <2>5. Cardinality(D) <= j - 1
    <3> HIDE DEF D
    <3> QED
      BY <2>2, <2>4, FS_Subset
  <2> HIDE DEF D
  <2> QED
    BY <1>4, <1>6, <2>3, <2>5
<1> HIDE DEF D, n
<1>7. \A j \in 1 .. Cardinality(D) : j \in DOMAIN seq /\ seq[j] <= g
  BY <1>1, <1>4, <1>6
<1> QED
  BY <1>1, <1>4, <1>5, <1>7 DEF n

LEMMA MUSRemoveKeeps ==
  ASSUME MUSInv, Finders!RemoveGroup
  PROVE  MUSInv'
<1> DEFINE core == { mus'[j] : j \in DOMAIN mus' }
           g == mus[it]
<1>1. /\ pc = "loop" /\ it <= Len(mus)
      /\ mus' \in Finders!Cores(Finders!Candidate)
      /\ it' = Finders!UpperBound(mus', g)
      /\ formula' = formula /\ external' = external /\ pc' = pc
  BY DEF Finders!RemoveGroup
<1>2. MUSTypes /\ MUSLoop
  BY <1>1 DEF MUSInv
<1>3. Finders!Candidate = InMUS \ {g}
  BY FindersNotions DEF Finders!Candidate, InMUS
<1>4. Len(mus) \in Nat /\ DOMAIN mus = 1 .. Len(mus) /\ it \in DOMAIN mus
  BY <1>1, <1>2 DEF MUSLoop
<1>5. InMUS \subseteq Finders!Internal /\ Finders!Internal \subseteq Nat
  <2>1. Finders!Internal \subseteq Nat
    BY <1>2 DEF Finders!Internal, MUSTypes
  <2> QED
    BY <1>2, <2>1 DEF InMUS, MUSLoop
<1>6. /\ mus' \in Seq(Finders!Internal)
      /\ Increasing(mus')
      /\ core \in SUBSET (InMUS \ {g})
      /\ Finders!Unsat(core)
  <2>1. external \in Seq(Group) /\ InMUS \ {g} \in SUBSET Finders!Internal
    BY <1>2, <1>5 DEF MUSTypes
  <2>2. \A seq \in Finders!Cores(InMUS \ {g}) :
          /\ seq \in Seq(Finders!Internal)
          /\ Increasing(seq)
          /\ { seq[j] : j \in DOMAIN seq } \in SUBSET (InMUS \ {g})
          /\ Finders!Unsat({ seq[j] : j \in DOMAIN seq })
    <3> HIDE DEF g
    <3> QED
      BY <2>1, CoreRight
  <2> QED
    BY <1>1, <1>3, <2>2
<1>7. mus' \in Seq(Nat) /\ g \in Nat
  <2>1. \A j \in 1 .. Len(mus') : mus'[j] \in Nat
    <3>1. \A j \in 1 .. Len(mus') : mus'[j] \in Finders!Internal
      BY <1>6
    <3> QED
      BY <1>5, <3>1
  <2>2. Len(mus') \in Nat /\ mus' \in [1 .. Len(mus') -> Nat]
    BY <1>6, <2>1
  <2>3. mus' \in Seq(Nat)
    BY <2>2
  <2>4. g \in InMUS
    BY <1>4 DEF InMUS
  <2> QED
    BY <1>5, <2>3, <2>4
<1>8. /\ it' \in 1 .. Len(mus') + 1
      /\ \A j \in 1 .. it' - 1 : j \in DOMAIN mus' /\ mus'[j] <= g
  <2> HIDE DEF g
  <2> QED
    BY <1>1, <1>6, <1>7, UpperBoundPasses
<1>9. ASSUME NEW j \in 1 .. it' - 1
      PROVE  ~Finders!Unsat(core \ {mus'[j]})
  <2>1. mus'[j] \in core /\ mus'[j] <= g
    BY <1>8
  <2>2. PICK p \in DOMAIN mus : mus[p] = mus'[j]
    BY <1>6, <2>1 DEF InMUS
  <2>3. mus[p] \in Nat /\ mus[p] # g
    BY <1>5, <1>6, <2>1, <2>2 DEF InMUS
  <2>4. p < it
    <3>1. p \in Nat /\ it \in Nat
      BY <1>4
    <3>2. mus[p] < mus[it]
      BY <1>7, <2>1, <2>2, <2>3
    <3>3. it < p => mus[it] < mus[p]
      BY <1>2, <1>4 DEF MUSLoop, Increasing
    <3>4. mus[it] \in Nat
      BY <1>7
    <3> QED
      BY <2>3, <3>1, <3>2, <3>3, <3>4
  <2>5. ~Finders!Unsat(InMUS \ {mus[p]})
    BY <1>2, <1>4, <2>4 DEF MUSLoop
  <2>6. core \ {mus'[j]} \subseteq InMUS \ {mus[p]}
    BY <1>6, <2>2
  <2> HIDE DEF core
  <2> QED
    BY <2>5, <2>6, UnsatGrows
<1>10. Finders!Internal' = Finders!Internal /\ InMUS' = core
  BY <1>1 DEF Finders!Internal, InMUS
<1>11. Finders!Unsat(InMUS)'
  BY <1>1, <1>6, <1>10 DEF Finders!Unsat, Finders!mapCore
<1>12. \A j \in 1 .. it' - 1 : ~Finders!Unsat(InMUS \ {mus[j]})'
  BY <1>1, <1>9, <1>10 DEF Finders!Unsat, Finders!mapCore
<1>13. Increasing(mus)'
  BY <1>6 DEF Increasing
<1>14. MUSLoop'
  BY <1>6, <1>8, <1>10, <1>11, <1>12, <1>13 DEF MUSLoop
<1> QED
  BY <1>1, <1>2, <1>14 DEF MUSInv, MUSTypes

\* The iterator moves and the core stays.
LEMMA MUSStays ==
  ASSUME MUSLoop, UNCHANGED <<formula, external, mus>>, it' \in 1 .. Len(mus) + 1,
         \A j \in 1 .. it' - 1 : ~Finders!Unsat(InMUS \ {mus[j]})
  PROVE  MUSLoop'
<1>1. mus' = mus /\ external' = external /\ formula' = formula
  OBVIOUS
<1>2. Finders!Internal' = Finders!Internal /\ InMUS' = InMUS
  BY <1>1 DEF Finders!Internal, InMUS
<1>3. Finders!Unsat(InMUS)'
  BY <1>1, <1>2 DEF MUSLoop, Finders!Unsat, Finders!mapCore
<1>4. \A j \in 1 .. it' - 1 : ~Finders!Unsat(InMUS \ {mus[j]})'
  BY <1>1, <1>2 DEF Finders!Unsat, Finders!mapCore
<1>5. Increasing(mus)'
  BY <1>1 DEF MUSLoop, Increasing
<1> QED
  BY <1>1, <1>2, <1>3, <1>4, <1>5 DEF MUSLoop

LEMMA MUSKeepKeeps ==
  ASSUME MUSInv, Finders!KeepGroup
  PROVE  MUSInv'
<1>1. /\ pc = "loop" /\ it <= Len(mus) /\ it' = it + 1
      /\ ~Finders!Unsat(InMUS \ {mus[it]})
      /\ UNCHANGED <<formula, external, mus, pc>>
  BY FindersNotions DEF Finders!KeepGroup, Finders!Candidate, InMUS
<1>2. MUSTypes /\ MUSLoop
  BY <1>1 DEF MUSInv
<1>3. Len(mus) \in Nat /\ it \in 1 .. Len(mus)
  BY <1>1, <1>2 DEF MUSLoop
<1>4. it' \in 1 .. Len(mus) + 1 /\ 1 .. it' - 1 = (1 .. it - 1) \union {it}
  BY <1>1, <1>3
<1>5. \A j \in 1 .. it' - 1 : ~Finders!Unsat(InMUS \ {mus[j]})
  BY <1>1, <1>2, <1>4 DEF MUSLoop
<1>6. MUSLoop'
  BY <1>1, <1>2, <1>4, <1>5, MUSStays
<1> QED
  BY <1>1, <1>2, <1>6 DEF MUSInv, MUSTypes

LEMMA MUSFinishKeeps ==
  ASSUME MUSInv, Finders!Finish
  PROVE  MUSInv'
<1>1. pc = "loop" /\ it > Len(mus) /\ pc' = "done" /\ UNCHANGED <<formula, external, mus, it>>
  BY DEF Finders!Finish
<1>2. MUSTypes /\ MUSLoop
  BY <1>1 DEF MUSInv
<1>3. it = Len(mus) + 1
  <2>1. Len(mus) \in Nat /\ it \in 1 .. Len(mus) + 1
    BY <1>2 DEF MUSLoop
  <2> QED
    BY <1>1, <2>1
<1>4. MUSLoop'
  <2>1. it' \in 1 .. Len(mus) + 1 /\ \A j \in 1 .. it' - 1 : ~Finders!Unsat(InMUS \ {mus[j]})
    BY <1>1, <1>2 DEF MUSLoop
  <2> QED
    BY <1>1, <1>2, <2>1, MUSStays
<1> QED
  BY <1>1, <1>2, <1>3, <1>4 DEF MUSInv, MUSTypes

LEMMA MUSAddKeeps ==
  ASSUME MUSInv, NEW group \in Group, Finders!AddSoftClause(group)
  PROVE  MUSInv'
<1>1. pc = "add" /\ external' = Append(external, group) /\ UNCHANGED <<formula, mus, it, pc>>
  BY DEF Finders!AddSoftClause
<1>2. external' \in Seq(Group)
  BY <1>1 DEF MUSInv, MUSTypes
<1> QED
  BY <1>1, <1>2 DEF MUSInv, MUSTypes

LEMMA MUSNextInv ==
  ASSUME MUSInv, Finders!MUSNext
  PROVE  MUSInv'
BY MUSAddKeeps, MUSFindCoreKeeps, MUSRemoveKeeps, MUSKeepKeeps, MUSFinishKeeps
DEF Finders!MUSNext, Finders!FindMUS

\* A group outside the minimal unsatisfiable set could go.
LEMMA MUSInvMinimal == MUSInv => Finders!ResultIsMUS
<1> SUFFICES ASSUME MUSInv, pc = "done"
             PROVE  Finders!mapCore(InMUS) \in formula
  BY FindersNotions DEF Finders!ResultIsMUS, InMUS
<1>1. MUSLoop /\ it = Len(mus) + 1
  BY DEF MUSInv
<1>2. PICK M \in formula : M \subseteq Finders!mapCore(InMUS)
  BY <1>1 DEF MUSLoop, Finders!Unsat
<1>3. ASSUME NEW gid \in InMUS, external[gid + 1] \notin M
      PROVE  FALSE
  <2>1. Len(mus) \in Nat /\ DOMAIN mus = 1 .. Len(mus)
    BY <1>1 DEF MUSLoop
  <2>2. PICK j \in 1 .. Len(mus) : mus[j] = gid
    BY <2>1 DEF InMUS
  <2>3. it - 1 = Len(mus)
    BY <1>1, <2>1
  <2>4. ~Finders!Unsat(InMUS \ {gid})
    BY <1>1, <2>2, <2>3 DEF MUSLoop
  <2>5. M \subseteq Finders!mapCore(InMUS \ {gid})
    BY <1>2, <1>3 DEF Finders!mapCore
  <2> QED
    BY <1>2, <2>4, <2>5 DEF Finders!Unsat
<1>4. Finders!mapCore(InMUS) = M
  BY <1>2, <1>3 DEF Finders!mapCore
<1> QED
  BY <1>2, <1>4

--------------------------------------------------------------------------------
(* All of them.                                                               *)

UtilityInv ==
  /\ utility \in {"msu4", "pbo", "hitting", "mus", "map", "count"}
  /\ utility = "msu4" => CoreInv /\ assumps = {}
  /\ utility = "pbo" => LinearInv
  /\ utility = "hitting" => HittingInv
  /\ utility = "mus" => MUSInv
  /\ utility = "map" => MapInv
  /\ ~MaxSATInUse => optimizationSet = {}

LEMMA UtilityInitInv == Init => UtilityInv
<1> SUFFICES ASSUME Init PROVE UtilityInv
  OBVIOUS
<1>1. CASE utility = "msu4"
  <2>1. CoreInv
    BY <1>1, CoreInitInv DEF Init
  <2> QED
    BY <1>1, <2>1 DEF Init, NoPBO, UtilityInv, MaxSATInUse
<1>2. CASE utility = "pbo"
  <2>1. LinearInv
    BY <1>2, LinearInitInv DEF Init
  <2> QED
    BY <1>2, <2>1 DEF UtilityInv, MaxSATInUse
<1>3. CASE utility = "hitting"
  <2>1. HittingInv
    BY <1>3, HittingInitInv DEF Init
  <2> QED
    BY <1>3, <2>1 DEF Init, NoMaxSAT, UtilityInv, MaxSATInUse
<1>4. CASE utility = "mus"
  <2>1. MUSInv
    BY <1>4, MUSInitInv DEF Init
  <2> QED
    BY <1>4, <2>1 DEF Init, NoMaxSAT, UtilityInv, MaxSATInUse
<1>5. CASE utility = "map"
  <2>1. MapInv
    BY <1>5, MapInitInv DEF Init
  <2> QED
    BY <1>5, <2>1 DEF Init, NoMaxSAT, UtilityInv, MaxSATInUse
<1>6. CASE utility = "count"
  BY <1>6 DEF Init, NoMaxSAT, UtilityInv, MaxSATInUse
<1> QED
  BY <1>1, <1>2, <1>3, <1>4, <1>5, <1>6 DEF Init

LEMMA UtilityStutterInv ==
  ASSUME UtilityInv, UNCHANGED vars
  PROVE  UtilityInv'
<1>1. /\ UNCHANGED <<utility, solutions, optimizationSet, lastCardinality, cardinality, pc>>
      /\ UNCHANGED <<useHintClauses, isSAT, absoluteUNSAT, lb, ub, unsatRounds, currentSoln,
                     initialAssumps, blockedAssumps, assumption, hints>>
      /\ UNCHANGED <<sat, assumps, optimal, models>>
  BY DEF vars, msu4Vars, pboVars
<1>2. /\ UNCHANGED <<sets, known, blocked, clauses, added, answers>>
      /\ UNCHANGED <<formula, external, mus, it>>
      /\ UNCHANGED <<class, introduced, inited, optimized, unexplored, result>>
  BY DEF vars, hittingVars, musVars, mapVars
<1>3. CoreInv => CoreInv'
  <2>1. CoreTypes => CoreTypes'
    BY <1>1 DEF CoreTypes
  <2>2. CoreBounds => CoreBounds'
    BY <1>1 DEF CoreBounds
  <2>3. CoreAnswers => CoreAnswers'
    BY <1>1 DEF CoreAnswers
  <2>4. CoreQuery => CoreQuery'
    <3>1. Core!Allowed' = Core!Allowed
      BY <1>1 DEF Core!Allowed
    <3> QED
      BY <1>1, <3>1 DEF CoreQuery
  <2> QED
    BY <2>1, <2>2, <2>3, <2>4 DEF CoreInv
<1>4. LinearInv => LinearInv'
  BY <1>1 DEF LinearInv, LinearTypes, AtMost, Linear!AnswerOptimal
<1>5. HittingInv => HittingInv'
  <2>1. HittingTypes => HittingTypes'
    BY <1>2 DEF HittingTypes
  <2>2. Kept' = Kept /\ Hitting' = Hitting
    BY <1>2 DEF Kept, Hitting
  <2>3. HittingKept => HittingKept'
    BY <1>2, <2>2 DEF HittingKept
  <2>4. HittingClauses => HittingClauses'
    BY <1>2, <2>2 DEF HittingClauses
  <2>5. HittingAnswers => HittingAnswers'
    BY <1>2, <2>2 DEF HittingAnswers
  <2> QED
    BY <2>1, <2>3, <2>4, <2>5 DEF HittingInv
<1>6. MUSInv => MUSInv'
  <2>1. MUSLoop => MUSLoop'
    BY <1>2, MUSStays DEF MUSLoop
  <2> QED
    BY <1>1, <1>2, <2>1 DEF MUSInv, MUSTypes
<1>7. MapInv => MapInv'
  BY <1>1, <1>2 DEF MapInv, MapTypes, Map!SeedsRight
<1> QED
  BY <1>1, <1>3, <1>4, <1>5, <1>6, <1>7 DEF UtilityInv, MaxSATInUse

LEMMA UtilityNextInv ==
  ASSUME UtilityInv, Next
  PROVE  UtilityInv'
<1>1. CASE MSU4Step
  <2>1. CoreInv'
    BY <1>1, CoreNextInv DEF MSU4Step, UtilityInv
  <2> QED
    BY <1>1, <2>1 DEF MSU4Step, UtilityInv, pboVars, MaxSATInUse
<1>2. CASE PBOStep
  <2>1. LinearInv'
    BY <1>2, LinearNextInv DEF PBOStep, UtilityInv
  <2> QED
    BY <1>2, <2>1 DEF PBOStep, UtilityInv, MaxSATInUse
<1>3. CASE HittingStep
  <2>1. HittingInv'
    BY <1>3, HittingNextInv DEF HittingStep, UtilityInv
  <2> QED
    BY <1>3, <2>1 DEF HittingStep, UtilityInv, MaxSATInUse
<1>4. CASE MUSStep
  <2>1. MUSInv'
    BY <1>4, MUSNextInv DEF MUSStep, UtilityInv
  <2> QED
    BY <1>4, <2>1 DEF MUSStep, UtilityInv, MaxSATInUse
<1>5. CASE MapStep
  <2>1. MapInv'
    BY <1>5, MapNextInv DEF MapStep, UtilityInv
  <2> QED
    BY <1>5, <2>1 DEF MapStep, UtilityInv, MaxSATInUse
<1>6. CASE CountStep
  BY <1>6 DEF CountStep, UtilityInv, MaxSATInUse
<1> QED
  BY <1>1, <1>2, <1>3, <1>4, <1>5, <1>6 DEF Next

\* The invariant of whichever utility was picked.
THEOREM UtilityInvariance == Spec => []UtilityInv
<1>1. UtilityInv /\ [Next]_vars => UtilityInv'
  BY UtilityNextInv, UtilityStutterInv
<1> QED
  BY <1>1, UtilityInitInv, PTL DEF Spec

\* Every answer is right for all the calls before it (AnswersRight).
THEOREM AnswersRightInvariance == Spec => []AnswersRight
<1>1. UtilityInv => AnswersRight
  BY CoreBoundsAgree, HittingInvMinimum, MUSInvMinimal
  DEF UtilityInv, AnswersRight, LinearInv, MapInv
<1> QED
  BY <1>1, UtilityInvariance, PTL

--------------------------------------------------------------------------------
(* The promise of a MaxSAT solver.                                            *)

LEMMA MaxSATNotions ==
  /\ \A S, cls : MaxSAT!SatisfiesClause(S, cls) <=> SatisfiesClause(S, cls)
  /\ MaxSAT!Optima = Largest({ S \intersect optimizationSet : S \in Problem })
<1>1. \A T : MaxSAT!Cardinality(T) = Cardinality(T)
  BY DEF MaxSAT!Cardinality, Cardinality
<1>2. \A F : MaxSAT!Largest(F) = Largest(F)
  BY <1>1 DEF MaxSAT!Largest, Largest
<1> QED
  BY <1>2 DEF MaxSAT!Optima, MaxSAT!SatisfiesClause, SatisfiesClause

\* What the promise says of each of the two.
LEMMA CoreMaxSAT ==
  ASSUME utility = "msu4", assumps = {}
  PROVE  /\ Problem = solutions
         /\ Answered = isSAT
         /\ Soln = IF ~isSAT THEN {} ELSE currentSoln
         /\ Busy <=> pc = "solve"
BY DEF Problem, Answered, Soln, Busy, MaxSATInUse

LEMMA LinearMaxSAT ==
  ASSUME utility = "pbo"
  PROVE  /\ Problem = solutions
         /\ Answered <=> sat /\ optimal /\ assumps = {}
         /\ Soln = IF ~(sat /\ optimal /\ assumps = {}) THEN {}
                   ELSE (UNION models) \intersect optimizationSet
         /\ Busy <=> pc = "solve" /\ assumps = {}
BY DEF Problem, Answered, Soln, Busy, MaxSATInUse, Linear!Answered

MaxSATVars == <<Problem, optimizationSet, Answered, Soln, Busy>>

\* The kept solution is an optimum when the solver says so.
CoreOptimum ==
  CoreInv /\ isSAT =>
    currentSoln \in Largest({ S \intersect optimizationSet : S \in solutions })

LEMMA CoreOptimal == CoreOptimum
<1> SUFFICES ASSUME CoreInv, isSAT
             PROVE  currentSoln \in Largest({ S \intersect optimizationSet : S \in solutions })
  BY DEF CoreOptimum
<1>1. /\ solutions # {} /\ lb = Cardinality(currentSoln)
      /\ \A S \in solutions : Cardinality(S \intersect optimizationSet) <= Cardinality(currentSoln)
  BY DEF CoreInv, CoreAnswers, CoreBounds
<1>2. \E S \in solutions : currentSoln = S \intersect optimizationSet
  <2>1. CASE currentSoln # {}
    BY <2>1 DEF CoreInv, CoreAnswers
  <2>2. CASE currentSoln = {}
    <3>1. PICK S \in solutions : TRUE
      BY <1>1
    <3>2. Cardinality(S \intersect optimizationSet) <= 0
      BY <1>1, <2>2, FS_EmptySet
    <3>3. S \intersect optimizationSet \in SUBSET Lit
      BY DEF CoreInv, CoreTypes
    <3>4. IsFiniteSet(S \intersect optimizationSet)
          /\ Cardinality(S \intersect optimizationSet) \in Nat
      BY <3>3, LitSets
    <3>5. Cardinality(S \intersect optimizationSet) = 0
      BY <3>2, <3>4
    <3>6. S \intersect optimizationSet = {}
      BY <3>4, <3>5, FS_EmptySet
    <3> QED
      BY <2>2, <3>6
  <2> QED
    BY <2>1, <2>2
<1> QED
  BY <1>1, <1>2 DEF Largest

LEMMA CoreOptimalNext == CoreOptimum'
BY CoreOptimal, PTL

\* No better solution replaces an optimum.
LEMMA CoreKeepsOptimum ==
  ASSUME CoreInv, isSAT, Core!Loop
  PROVE  isSAT' = isSAT /\ currentSoln' = currentSoln
<1>1. isSAT = TRUE /\ isSAT' = TRUE
  BY
  DEF CoreInv, CoreTypes, Core!Loop, Core!FoundSolution, Core!NothingBetter,
      Core!FoundCore,
         Core!ReturnSAT
<1>2. CASE Core!FoundSolution
  <2>1. PICK S \in solutions :
          IF Cardinality(currentSoln) < Cardinality(S \intersect optimizationSet)
          THEN currentSoln' = S \intersect optimizationSet
          ELSE currentSoln' = currentSoln
    BY <1>2, CoreNotions DEF Core!FoundSolution, Core!Allowed
  <2>2. Cardinality(S \intersect optimizationSet) <= Cardinality(currentSoln)
    BY DEF CoreInv, CoreAnswers, CoreBounds
  <2>3. Cardinality(S \intersect optimizationSet) \in Nat /\ Cardinality(currentSoln) \in Nat
    BY LitSets DEF CoreInv, CoreTypes
  <2>4. ~(Cardinality(currentSoln) < Cardinality(S \intersect optimizationSet))
    BY <2>2, <2>3
  <2> QED
    BY <1>1, <2>1, <2>4
<1>3. CASE Core!NothingBetter
  BY <1>1, <1>3 DEF Core!NothingBetter, Core!boundVars
<1>4. CASE Core!FoundCore
  BY <1>1, <1>4 DEF Core!FoundCore
<1> QED
  BY <1>2, <1>3, <1>4 DEF Core!Loop

LEMMA CoreLoopSimulates ==
  ASSUME CoreInv, CoreInv', Core!Loop, utility = "msu4", utility' = "msu4",
         assumps = {}, assumps' = {}
  PROVE  MaxSAT!Answer \/ UNCHANGED MaxSATVars
<1>1. /\ Problem = solutions /\ Answered = isSAT /\ (Busy <=> pc = "solve")
      /\ Soln = IF ~isSAT THEN {} ELSE currentSoln
  BY CoreMaxSAT
<1>2. /\ Problem' = solutions' /\ Answered' = isSAT' /\ (Busy' <=> pc' = "solve")
      /\ Soln' = IF ~isSAT' THEN {} ELSE currentSoln'
  BY DEF Problem, Answered, Soln, Busy, MaxSATInUse
<1>3. /\ pc = "solve" /\ UNCHANGED <<solutions, optimizationSet>>
      /\ \/ pc' = "solve" /\ isSAT' = isSAT
         \/ pc' = "idle" /\ isSAT' = TRUE
  BY
  DEF Core!Loop, Core!FoundSolution, Core!NothingBetter, Core!FoundCore,
      Core!ReturnSAT,
         Core!problemVars
<1>4. solutions # {} /\ isSAT \in BOOLEAN
  BY <1>3 DEF CoreInv, CoreQuery, CoreTypes
<1>5. CASE pc' = "solve" /\ isSAT' = isSAT
  <2>1. isSAT => currentSoln' = currentSoln
    BY CoreKeepsOptimum
  <2>2. Soln' = Soln
    BY <1>1, <1>2, <1>5, <2>1
  <2>3. Busy' = Busy
    BY <1>3, <1>5 DEF Busy, MaxSATInUse
  <2> QED
    BY <1>1, <1>2, <1>3, <1>5, <2>2, <2>3 DEF MaxSATVars
<1>6. CASE pc' = "idle" /\ isSAT' = TRUE
  <2>1. currentSoln' \in Largest({ S \intersect optimizationSet : S \in solutions })
    <3>1. currentSoln' \in Largest({ S \intersect optimizationSet' : S \in solutions' })
      BY <1>6, CoreOptimalNext DEF CoreOptimum
    <3> QED
      BY <1>3, <3>1
  <2>2. Soln' \in MaxSAT!Optima
    BY <1>1, <1>2, <1>6, <2>1, MaxSATNotions
  <2>3. Busy /\ Busy' = FALSE
    BY <1>1, <1>2, <1>3, <1>6 DEF Busy
  <2> QED
    BY <1>1, <1>2, <1>3, <1>4, <1>6, <2>2, <2>3 DEF MaxSAT!Answer
<1> QED
  BY <1>3, <1>5, <1>6

LEMMA CoreSimulates ==
  ASSUME CoreInv, CoreInv', Core!Next, utility = "msu4", utility' = "msu4",
         assumps = {}, assumps' = {}
  PROVE  MaxSAT!Next \/ UNCHANGED MaxSATVars
<1>1. /\ Problem = solutions /\ Answered = isSAT /\ (Busy <=> pc = "solve")
      /\ Soln = IF ~isSAT THEN {} ELSE currentSoln
  BY CoreMaxSAT
<1>2. /\ Problem' = solutions' /\ Answered' = isSAT' /\ (Busy' <=> pc' = "solve")
      /\ Soln' = IF ~isSAT' THEN {} ELSE currentSoln'
  BY DEF Problem, Answered, Soln, Busy, MaxSATInUse
<1>3. Busy \in BOOLEAN /\ Busy' \in BOOLEAN
  BY DEF Busy, MaxSATInUse
<1>4. ASSUME NEW cls \in Core!MapClause(Lit), Core!AddClause(cls)
      PROVE  MaxSAT!AddClause(cls) /\ cls \in MaxSAT!MapClause(Lit)
  <2>1. /\ pc = "idle" /\ pc' = "idle" /\ isSAT' = FALSE
        /\ solutions' = { S \in solutions : SatisfiesClause(S, cls) }
        /\ UNCHANGED optimizationSet
    BY <1>4, CoreNotions DEF Core!AddClause
  <2>2. ~Busy /\ Busy' = Busy
    BY <1>1, <1>2, <1>3, <2>1
  <2> QED
    BY <1>1, <1>2, <1>4, <2>1, <2>2, MaxSATNotions
    DEF MaxSAT!AddClause, Core!MapClause, MaxSAT!MapClause
<1>5. ASSUME NEW lit \in Lit, Core!AddForOptimization(lit)
      PROVE  MaxSAT!AddForOptimization(lit)
  <2>1. /\ pc = "idle" /\ pc' = "idle" /\ isSAT' = FALSE /\ UNCHANGED solutions
        /\ lit \notin optimizationSet /\ optimizationSet' = optimizationSet \union {lit}
    BY <1>5 DEF Core!AddForOptimization, Core!Reset
  <2>2. ~Busy /\ Busy' = Busy
    BY <1>1, <1>2, <1>3, <2>1
  <2> QED
    BY <1>1, <1>2, <2>1, <2>2 DEF MaxSAT!AddForOptimization
<1>6. CASE Core!EnterSolve
  <2>1. /\ pc = "idle" /\ UNCHANGED <<solutions, optimizationSet>>
        /\ pc' = (IF absoluteUNSAT' THEN "idle" ELSE "solve")
        /\ \/ isSAT' = FALSE
           \/ UNCHANGED <<isSAT, currentSoln>>
    BY <1>6 DEF Core!EnterSolve, Core!problemVars, Core!Reset, Core!boundVars
  <2>2. ~Busy
    BY <1>1, <2>1
  <2>3. CASE absoluteUNSAT'
    <3>1. solutions = {}
      BY <2>1, <2>3 DEF CoreInv, CoreAnswers
    <3>2. isSAT = FALSE /\ isSAT' = FALSE
      BY <2>1, <3>1 DEF CoreInv, CoreAnswers, CoreTypes
    <3>3. Busy' = Busy
      BY <1>2, <1>3, <2>1, <2>2, <2>3
    <3> QED
      BY <1>1, <1>2, <2>1, <3>2, <3>3 DEF MaxSATVars
  <2>4. CASE ~absoluteUNSAT'
    <3>1. Busy' = TRUE
      BY <1>2, <1>3, <2>1, <2>4
    <3>2. MaxSAT!Enter
      BY <1>1, <1>2, <2>1, <2>2, <3>1 DEF MaxSAT!Enter
    <3> QED
      BY <3>2 DEF MaxSAT!Next
  <2> QED
    BY <2>3, <2>4
<1>7. CASE Core!Loop
  BY <1>7, CoreLoopSimulates DEF MaxSAT!Next
<1> QED
  BY <1>4, <1>5, <1>6, <1>7 DEF Core!Next, MaxSAT!Next

LEMMA LinearLoopSimulates ==
  ASSUME LinearInv, LinearInv', Linear!Loop, utility = "pbo", utility' = "pbo"
  PROVE  MaxSAT!Answer \/ UNCHANGED MaxSATVars
<1>1. /\ Problem = solutions /\ Answered \in BOOLEAN /\ Busy \in BOOLEAN
      /\ Answered <=> sat /\ optimal /\ assumps = {}
      /\ Soln = IF ~Answered THEN {} ELSE (UNION models) \intersect optimizationSet
      /\ Busy <=> pc = "solve" /\ assumps = {}
  BY DEF Problem, Answered, Soln, Busy, MaxSATInUse, Linear!Answered
<1>2. /\ Problem' = solutions' /\ Answered' \in BOOLEAN /\ Busy' \in BOOLEAN
      /\ Answered' <=> sat' /\ optimal' /\ assumps' = {}
      /\ Soln' = IF ~Answered' THEN {} ELSE (UNION models') \intersect optimizationSet'
      /\ Busy' <=> pc' = "solve" /\ assumps' = {}
  BY DEF Problem, Answered, Soln, Busy, MaxSATInUse, Linear!Answered
<1>3. /\ pc = "solve" /\ ~optimal
      /\ UNCHANGED <<solutions, optimizationSet, assumps>>
  BY
  DEF LinearInv, Linear!Loop, Linear!FoundSolution, Linear!LowerCardinality,
      Linear!NoSolution
<1>4. Answered = FALSE /\ Soln = {}
  BY <1>1, <1>3
<1>5. CASE assumps # {}
  <2>1. Answered' = FALSE /\ Soln' = {} /\ Busy' = FALSE /\ Busy = FALSE
    BY <1>1, <1>2, <1>3, <1>5
  <2> QED
    BY <1>1, <1>2, <1>3, <1>4, <2>1 DEF MaxSATVars
<1>6. CASE Linear!LowerCardinality
  <2>1. pc' = pc /\ ~optimal'
    BY <1>3, <1>6 DEF Linear!LowerCardinality
  <2>2. Answered' = FALSE /\ Soln' = {} /\ Busy' = Busy
    BY <1>1, <1>2, <1>3, <2>1
  <2> QED
    BY <1>1, <1>2, <1>3, <1>4, <2>2 DEF MaxSATVars
<1>7. CASE assumps = {} /\ Linear!FoundSolution
  <2>1. sat' = TRUE /\ optimal' = TRUE /\ pc' = "idle"
    BY <1>7 DEF Linear!FoundSolution, Linear!Return
  <2>2. PICK S \in solutions : models' = {S}
    BY <1>7 DEF Linear!FoundSolution, Linear!Enough
  <2>3. \A T \in solutions : Cardinality(T \intersect optimizationSet)
                               <= Cardinality(S \intersect optimizationSet)
    <3>1. Linear!AnswerOptimal'
      BY DEF LinearInv
    <3> QED
      BY <1>3, <1>7, <2>1, <2>2, <3>1, LinearNotions DEF Linear!AnswerOptimal
  <2>4. Answered' = TRUE /\ Soln' = S \intersect optimizationSet
    BY <1>2, <1>3, <1>7, <2>1, <2>2
  <2>5. Soln' \in MaxSAT!Optima
    BY <1>1, <2>3, <2>4, MaxSATNotions DEF Largest
  <2>6. Busy = TRUE /\ Busy' = FALSE
    BY <1>1, <1>2, <1>3, <1>7, <2>1
  <2> QED
    BY <1>1, <1>2, <1>3, <2>2, <2>4, <2>5, <2>6 DEF MaxSAT!Answer
<1>8. CASE assumps = {} /\ Linear!NoSolution
  <2>1. sat' = FALSE /\ optimal' = TRUE /\ pc' = "idle"
    BY <1>8 DEF Linear!NoSolution, Linear!Return
  <2>2. solutions = {}
    <3>1. Linear!AnswerOptimal'
      BY DEF LinearInv
    <3>2. { S \in solutions : {} \subseteq S } = {}
      BY <1>3, <1>8, <2>1, <3>1 DEF Linear!AnswerOptimal
    <3> QED
      BY <3>2
  <2>3. Answered' = FALSE /\ Soln' = {}
    BY <1>2, <2>1
  <2>4. Busy = TRUE /\ Busy' = FALSE
    BY <1>1, <1>2, <1>3, <1>8, <2>1
  <2> QED
    BY <1>1, <1>2, <1>3, <1>4, <2>2, <2>3, <2>4 DEF MaxSAT!Answer
<1> QED
  BY <1>5, <1>6, <1>7, <1>8 DEF Linear!Loop

LEMMA LinearSimulates ==
  ASSUME LinearInv, LinearInv', Linear!Next, utility = "pbo", utility' = "pbo"
  PROVE  MaxSAT!Next \/ UNCHANGED MaxSATVars
<1>1. /\ Problem = solutions /\ Answered \in BOOLEAN /\ Busy \in BOOLEAN
      /\ Answered <=> sat /\ optimal /\ assumps = {}
      /\ Soln = IF ~Answered THEN {} ELSE (UNION models) \intersect optimizationSet
      /\ Busy <=> pc = "solve" /\ assumps = {}
  BY DEF Problem, Answered, Soln, Busy, MaxSATInUse, Linear!Answered
<1>2. /\ Problem' = solutions' /\ Answered' \in BOOLEAN /\ Busy' \in BOOLEAN
      /\ Answered' <=> sat' /\ optimal' /\ assumps' = {}
      /\ Soln' = IF ~Answered' THEN {} ELSE (UNION models') \intersect optimizationSet'
      /\ Busy' <=> pc' = "solve" /\ assumps' = {}
  BY DEF Problem, Answered, Soln, Busy, MaxSATInUse, Linear!Answered
<1>3. ASSUME NEW cls \in Linear!MapClause(Lit), Linear!AddClause(cls)
      PROVE  MaxSAT!AddClause(cls) /\ cls \in MaxSAT!MapClause(Lit)
  <2>1. /\ pc = "idle" /\ pc' = "idle" /\ ~optimal'
        /\ solutions' = { S \in solutions : SatisfiesClause(S, cls) }
        /\ UNCHANGED optimizationSet
    BY <1>3, LinearNotions DEF Linear!AddClause, Linear!Forget
  <2>2. Busy = FALSE /\ Busy' = FALSE /\ Answered' = FALSE /\ Soln' = {}
    BY <1>1, <1>2, <2>1
  <2> QED
    BY <1>1, <1>2, <1>3, <2>1, <2>2, MaxSATNotions
    DEF MaxSAT!AddClause, Linear!MapClause, MaxSAT!MapClause
<1>4. ASSUME NEW lit \in Lit, Linear!AddForOptimization(lit)
      PROVE  MaxSAT!AddForOptimization(lit)
  <2>1. /\ pc = "idle" /\ pc' = "idle" /\ ~optimal' /\ UNCHANGED solutions
        /\ lit \notin optimizationSet /\ optimizationSet' = optimizationSet \union {lit}
    BY <1>4 DEF Linear!AddForOptimization, Linear!Forget
  <2>2. Busy = FALSE /\ Busy' = FALSE /\ Answered' = FALSE /\ Soln' = {}
    BY <1>1, <1>2, <2>1
  <2> QED
    BY <1>1, <1>2, <2>1, <2>2 DEF MaxSAT!AddForOptimization
<1>5. ASSUME Linear!Check \/ \E A \in Assumptions \ {{}} : Linear!EnterSolve(A)
      PROVE  MaxSAT!Check
  <2>1. /\ pc = "idle" /\ ~optimal' /\ UNCHANGED <<solutions, optimizationSet>>
        /\ pc' = "idle" \/ assumps' # {}
    BY <1>5 DEF Linear!Check, Linear!Forget, Linear!EnterSolve
  <2>2. Busy = FALSE /\ Busy' = FALSE /\ Answered' = FALSE /\ Soln' = {}
    BY <1>1, <1>2, <2>1
  <2> QED
    BY <1>1, <1>2, <2>1, <2>2 DEF MaxSAT!Check
<1>6. ASSUME Linear!EnterSolve({})
      PROVE  MaxSAT!Enter
  <2>1. /\ pc = "idle" /\ ~optimal' /\ UNCHANGED <<solutions, optimizationSet>>
        /\ pc' = "solve" /\ assumps' = {}
    BY <1>6 DEF Linear!EnterSolve
  <2>2. Busy = FALSE /\ Busy' = TRUE /\ Answered' = FALSE /\ Soln' = {}
    BY <1>1, <1>2, <2>1
  <2> QED
    BY <1>1, <1>2, <2>1, <2>2 DEF MaxSAT!Enter
<1>7. CASE Linear!Loop
  BY <1>7, LinearLoopSimulates DEF MaxSAT!Next
<1> QED
  BY <1>3, <1>4, <1>5, <1>6, <1>7 DEF Linear!Next, MaxSAT!Next

LEMMA OthersStutter ==
  ASSUME utility \notin {"msu4", "pbo"}, utility' = utility, optimizationSet' = optimizationSet
  PROVE  UNCHANGED MaxSATVars
<1>1. /\ Problem = SUBSET Lit /\ Answered = FALSE /\ Soln = {} /\ Busy = FALSE
      /\ Problem' = SUBSET Lit /\ Answered' = FALSE /\ Soln' = {} /\ Busy' = FALSE
  BY DEF Problem, Answered, Soln, Busy, MaxSATInUse
<1> QED
  BY <1>1 DEF MaxSATVars

LEMMA MaxSATInitSimulates ==
  ASSUME Init
  PROVE  MaxSAT!Init
<1>1. Answered = FALSE /\ Busy = FALSE
  BY
  DEF Init, Core!Init, Linear!Init, NoPBO, Answered, Busy, MaxSATInUse,
      Linear!Answered
<1>2. Problem = SUBSET Lit /\ optimizationSet = {}
  BY DEF Init, Core!Init, Linear!Init, NoMaxSAT, Problem, MaxSATInUse
<1>3. Soln = {}
  BY <1>1 DEF Soln
<1> QED
  BY <1>1, <1>2, <1>3 DEF MaxSAT!Init

\* Both MaxSAT solvers keep the promise that the minimizers, the map solvers and the
\* finders rely on (ImplementsMaxSAT); the other utilities take no part.
THEOREM MaxSATRefinement == Spec => ImplementsMaxSAT
<1>1. Init => MaxSAT!Init
  BY MaxSATInitSimulates
<1>2. ASSUME UtilityInv, UtilityInv', [Next]_vars
      PROVE  [MaxSAT!Next]_MaxSAT!vars
  <2>1. UNCHANGED MaxSATVars => UNCHANGED MaxSAT!vars
    BY DEF MaxSAT!vars, MaxSATVars
  <2>2. CASE MSU4Step
    <3>1. /\ utility = "msu4" /\ utility' = "msu4" /\ Core!Next /\ CoreInv /\ CoreInv'
          /\ assumps = {} /\ assumps' = {}
      BY <1>2, <2>2 DEF MSU4Step, UtilityInv
    <3>2. MaxSAT!Next \/ UNCHANGED MaxSATVars
      BY <3>1, CoreSimulates
    <3> QED
      BY <2>1, <3>2
  <2>3. CASE PBOStep
    <3>1. utility = "pbo" /\ utility' = "pbo" /\ Linear!Next /\ LinearInv /\ LinearInv'
      BY <1>2, <2>3 DEF PBOStep, UtilityInv
    <3>2. MaxSAT!Next \/ UNCHANGED MaxSATVars
      BY <3>1, LinearSimulates
    <3> QED
      BY <2>1, <3>2
  <2>4. CASE HittingStep \/ MUSStep \/ MapStep \/ CountStep
    <3>1. UNCHANGED MaxSATVars
      BY <2>4, OthersStutter DEF HittingStep, MUSStep, MapStep, CountStep
    <3> QED
      BY <2>1, <3>1
  <2>5. CASE UNCHANGED vars
    <3>1. UNCHANGED <<utility, solutions, optimizationSet, pc, isSAT, currentSoln, sat, assumps,
                      optimal, models>>
      BY <2>5 DEF vars, msu4Vars, pboVars
    <3>2. UNCHANGED MaxSATVars
      BY <3>1
      DEF MaxSATVars, Problem, Answered, Soln, Busy, MaxSATInUse, Linear!Answered
    <3> QED
      BY <2>1, <3>2
  <2> QED
    BY <1>2, <2>2, <2>3, <2>4, <2>5 DEF Next
<1> QED
  BY <1>1, <1>2, UtilityInvariance, PTL DEF Spec, ImplementsMaxSAT, MaxSAT!Spec

================================================================================
