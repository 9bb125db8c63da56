---------------------------- MODULE MinimizersProofs ----------------------------
(******************************************************************************)
(* The algorithms that reduce a proof to one smaller proof are right for      *)
(* every proof and every transition relation: what SISI and the brute-force   *)
(* minimizer find is minimal, what the simple minimizer finds is a proof,     *)
(* findMinimalSupport keeps its support, and findSafeMIS leaves the largest   *)
(* inductive subset of its argument unless that lacks a necessary clause.     *)
(******************************************************************************)
EXTENDS Minimizers, SharedTheorems, SequenceTheorems

--------------------------------------------------------------------------------
(* Each algorithm speaks of the same clauses, queries and proofs.             *)

LEMMA ClausewiseNotions ==
  /\ Clausewise!ClauseID = ClauseID
  /\ \A S, c : Clausewise!Solve(S, c) <=> Solve(S, c)
  /\ \A S : Clausewise!IsInductive(S) <=> IsInductive(S)
  /\ \A S : Clausewise!IsSIS(S) <=> IsSIS(S)
  /\ \A S : Clausewise!LargestInductive(S) = LargestInductive(S)
  /\ \A S : Clausewise!Cardinality(S) = Cardinality(S)
  /\ Clausewise!SIS = SIS
  /\ Clausewise!MSIS = MSIS
  /\ \A S, c : Clausewise!Supports(S, c) = Supports(S, c)
  /\ \A S, c : Clausewise!MinimizedSupports(S, c) = MinimizedSupports(S, c)
<1>1. Clausewise!ClauseID = ClauseID
  BY DEF Clausewise!ClauseID, ClauseID
<1>2. \A S, c : Clausewise!Solve(S, c) <=> Solve(S, c)
  BY DEF Clausewise!Solve, Clausewise!Counterexample, Solve, Counterexample
<1>3. \A S : Clausewise!IsInductive(S) <=> IsInductive(S)
  BY <1>2 DEF Clausewise!IsInductive, IsInductive
<1>4. \A S : Clausewise!IsSIS(S) <=> IsSIS(S)
  BY <1>3 DEF Clausewise!IsSIS, IsSIS
<1>5. \A S : Clausewise!LargestInductive(S) = LargestInductive(S)
  BY <1>3
  DEF Clausewise!LargestInductive, Clausewise!InductiveSubsets, LargestInductive,
              InductiveSubsets
<1>6. Clausewise!SIS = SIS
  BY <1>1, <1>4 DEF Clausewise!SIS, SIS
<1>7. Clausewise!MSIS = MSIS
  BY <1>6 DEF Clausewise!MSIS, MSIS
<1>8. \A S, c : Clausewise!Supports(S, c) = Supports(S, c)
  BY DEF Clausewise!Supports, Supports
<1>9. \A S, c : Clausewise!MinimizedSupports(S, c) = MinimizedSupports(S, c)
  BY <1>8 DEF Clausewise!MinimizedSupports, MinimizedSupports
<1>10. \A S : Clausewise!Cardinality(S) = Cardinality(S)
  BY DEF Clausewise!Cardinality, Cardinality
<1> QED
  BY <1>1, <1>2, <1>3, <1>4, <1>5, <1>6, <1>7, <1>8, <1>9, <1>10

--------------------------------------------------------------------------------
(* SISIMinimizer and BruteForceMinimizer.                                     *)

\* The notions of the source's comments, and how the sets lie in each other: NEC
\* in FEAS, what is known to be supported in FEAS, NEC in what is kept.
ClausewiseInv ==
  /\ Clausewise!NECNecessary
  /\ Clausewise!KnownSupported
  /\ Clausewise!KeptNecessary
  /\ Clausewise!FoundAreMSISes
  /\ Property \in nec
  /\ nec \subseteq feas
  /\ feas \subseteq ClauseID
  /\ knownInd \subseteq feas
  /\ pc = "nec1" => feas = ClauseID /\ knownInd = {}
  /\ pc = "brute" => rest \subseteq feas /\ nec \subseteq keep

\* What a query returns as the support of a clause supports it.
LEMMA SupportsAre ==
  ASSUME NEW F, NEW c, NEW Q \in Supports(F, c)
  PROVE  Q \subseteq F /\ Solve(Q, c)
BY DEF Supports, Solve, Counterexample

LEMMA MinimizedSupportsAre ==
  ASSUME NEW F, NEW c, NEW Q \in MinimizedSupports(F, c)
  PROVE  Q \subseteq F /\ Solve(Q, c)
<1>1. PICK P \in {F} \union Supports(F, c) : Q \in Supports(P, c)
  BY DEF MinimizedSupports
<1> QED
  BY <1>1, SupportsAre

\* The clauses of a proof that leaves id out are found without it.
LEMMA NecessaryIfNotFound ==
  ASSUME NEW id, NEW S, ~Clausewise!FindSIS(S \ {id}),
         NEW M \in SIS, M \subseteq S, nec \subseteq M
  PROVE  id \in M
<1> SUFFICES ASSUME id \notin M PROVE FALSE
  OBVIOUS
<1>1. M \subseteq S \ {id} /\ IsInductive(M)
  BY DEF SIS, IsSIS
<1>2. M \subseteq LargestInductive(S \ {id})
  BY <1>1, LargestInductiveIs
<1> QED
  BY <1>2, ClausewiseNotions DEF Clausewise!FindSIS

\* Sets of clauses are finite, and one within another of its size is the other.
LEMMA ClauseSets ==
  ASSUME NEW S \in SUBSET ClauseID, NEW T \in SUBSET S, Cardinality(T) >= Cardinality(S)
  PROVE  T = S
<1>1. /\ Cardinality(S) \in Nat /\ Cardinality(T) \in Nat
      /\ Cardinality(S) <= Cardinality(T) => S = T
  BY ClauseIDFinite, Sizes
<1> QED
  BY <1>1

LEMMA ClausewiseInit == Init /\ algorithm = "clausewise" => ClausewiseInv
<1> SUFFICES ASSUME Clausewise!Init PROVE ClausewiseInv
  BY DEF Init
<1>1. nec = {Property} /\ feas = ClauseID /\ knownInd = {} /\ minimalProofs = {}
  BY DEF Clausewise!Init, Clausewise!ClauseID, ClauseID
<1>2. pc = "nec1" \/ (pc = "brute" /\ keep = nec /\ rest = feas)
  BY DEF Clausewise!Init
<1>3. \A M \in SIS : nec \subseteq M
  BY <1>1 DEF SIS, IsSIS
<1>4. Clausewise!NECNecessary
  BY <1>3, ClausewiseNotions DEF Clausewise!NECNecessary
<1>5. Clausewise!KnownSupported
  BY <1>1, <1>2, ProofIsInductive, ClausewiseNotions DEF Clausewise!KnownSupported
<1>6. Clausewise!KeptNecessary
  BY <1>1, <1>2, <1>3, ProofIsInductive, ProofAssumption, ClausewiseNotions
  DEF Clausewise!KeptNecessary
<1> QED
  BY <1>1, <1>2, <1>4, <1>5, <1>6, ProofAssumption
  DEF ClausewiseInv, Clausewise!FoundAreMSISes

LEMMA ClausewiseNext ==
  ASSUME ClausewiseInv, Clausewise!Next
  PROVE  ClausewiseInv'
<1> DEFINE Considered == IF pc \in {"nec1", "feas"} THEN ClauseID ELSE feas
<1>1. \A M \in SIS : M \subseteq Considered => nec \subseteq M
  BY ClausewiseNotions DEF ClausewiseInv, Clausewise!NECNecessary
<1>2. pc = "brute" => /\ keep \subseteq rest /\ IsSIS(rest)
                      /\ \A M \in SIS : M \subseteq rest => keep \subseteq M
  BY ClausewiseNotions DEF ClausewiseInv, Clausewise!KeptNecessary
<1>3. /\ \A c \in knownInd : Solve(feas, c)
      /\ pc \in {"nec2", "brute"} => IsSIS(feas)
  BY ClausewiseNotions DEF ClausewiseInv, Clausewise!KnownSupported
<1>4. ASSUME NEW id \in ClauseID, Clausewise!ClauseNecessary(id)
      PROVE  ClausewiseInv'
  <2>1. id \in feas /\ pc \in {"nec1", "nec2"}
    BY <1>4 DEF Clausewise!ClauseNecessary, Clausewise!IsCurrent
  <2>2. /\ nec' = nec \/ (nec' = nec \union {id} /\ ~Clausewise!FindSIS(feas \ {id}))
        /\ UNCHANGED <<feas, knownInd, keep, rest, minimalProofs, pc>>
    BY <1>4 DEF Clausewise!ClauseNecessary
  <2>3. Considered = feas
    BY <2>1 DEF ClausewiseInv
  <2>4. \A M \in SIS : M \subseteq feas => nec' \subseteq M
    BY <1>1, <2>2, <2>3, NecessaryIfNotFound
  <2>5. Clausewise!NECNecessary'
    BY <2>1, <2>2, <2>3, <2>4, ClausewiseNotions DEF Clausewise!NECNecessary
  <2>6. Clausewise!KnownSupported'
    BY <1>3, <2>1, <2>2, ClausewiseNotions DEF Clausewise!KnownSupported
  <2>7. Clausewise!KeptNecessary' /\ Clausewise!FoundAreMSISes'
    BY <2>1, <2>2
    DEF ClausewiseInv, Clausewise!KeptNecessary, Clausewise!FoundAreMSISes
  <2> QED
    BY <2>1, <2>2, <2>5, <2>6, <2>7 DEF ClausewiseInv
<1>5. CASE Clausewise!RefineNECEnd
  <2>1. /\ UNCHANGED <<nec, knownInd, minimalProofs>>
        /\ \/ pc = "nec1" /\ feas' = nec /\ pc' = "feas" /\ UNCHANGED <<keep, rest>>
           \/ pc = "nec2" /\ keep' = nec /\ rest' = feas /\ pc' = "brute" /\ UNCHANGED feas
    BY <1>5 DEF Clausewise!RefineNECEnd
  <2>2. Clausewise!NECNecessary'
    BY <1>1, <2>1, ClausewiseNotions DEF Clausewise!NECNecessary
  <2>3. Clausewise!KnownSupported'
    BY <1>3, <2>1, ClausewiseNotions DEF ClausewiseInv, Clausewise!KnownSupported
  <2>4. Clausewise!KeptNecessary'
    BY <1>1, <1>3, <2>1, ClausewiseNotions DEF ClausewiseInv, Clausewise!KeptNecessary
  <2>5. Clausewise!FoundAreMSISes'
    BY <2>1 DEF ClausewiseInv, Clausewise!FoundAreMSISes
  <2> QED
    BY <2>1, <2>2, <2>3, <2>4, <2>5 DEF ClausewiseInv
<1>6. ASSUME NEW id \in ClauseID,
             Clausewise!ClauseSupported(id) \/ Clausewise!ClauseUnsupported(id)
      PROVE  ClausewiseInv'
  <2>1. /\ pc = "feas" /\ id \in feas /\ knownInd' = knownInd \union {id}
        /\ UNCHANGED <<nec, keep, rest, minimalProofs, pc>>
    BY <1>6 DEF Clausewise!ClauseSupported, Clausewise!ClauseUnsupported,
                Clausewise!IsCurrent
  <2>2. feas \subseteq feas' /\ feas' \subseteq ClauseID /\ Solve(feas', id)
    <3>1. CASE Clausewise!ClauseSupported(id)
      BY <1>3, <3>1, ClausewiseNotions DEF ClausewiseInv, Clausewise!ClauseSupported
    <3>2. CASE Clausewise!ClauseUnsupported(id)
      <4>1. PICK support \in Supports(ClauseID, id) :
              \E minimized \in MinimizedSupports(support, id) :
                feas' = feas \union minimized
        BY <3>2, ClausewiseNotions DEF Clausewise!ClauseUnsupported
      <4>2. PICK minimized \in MinimizedSupports(support, id) :
              feas' = feas \union minimized
        BY <4>1
      <4>3. minimized \subseteq support /\ support \subseteq ClauseID
        BY <4>1, <4>2, MinimizedSupportsAre, SupportsAre
      <4>4. Solve(minimized, id)
        BY <4>2, MinimizedSupportsAre
      <4> QED
        BY <4>2, <4>3, <4>4, SolveMonotone DEF ClausewiseInv
    <3> QED
      BY <1>6, <3>1, <3>2
  <2>3. \A c \in knownInd' : Solve(feas', c)
    BY <1>3, <2>1, <2>2, SolveMonotone
  <2>4. Clausewise!KnownSupported'
    BY <2>1, <2>3, ClausewiseNotions DEF Clausewise!KnownSupported
  <2>5. Clausewise!NECNecessary' /\ Clausewise!KeptNecessary' /\ Clausewise!FoundAreMSISes'
    BY <2>1 DEF ClausewiseInv, Clausewise!NECNecessary, Clausewise!KeptNecessary,
                Clausewise!FoundAreMSISes
  <2> QED
    BY <2>1, <2>2, <2>4, <2>5 DEF ClausewiseInv
<1>7. CASE Clausewise!RefineFEASEnd
  <2>1. /\ pc = "feas"
        /\ pc' \in {"feas", "nec2"}
        /\ pc' = "nec2" => Cardinality(knownInd) >= Cardinality(feas)
        /\ UNCHANGED <<nec, feas, knownInd, keep, rest, minimalProofs>>
    BY <1>7, ClausewiseNotions DEF Clausewise!RefineFEASEnd, Clausewise!AllKnown
  <2>2. pc' = "nec2" => IsSIS(feas)
    BY <1>3, <2>1, ClauseSets DEF ClausewiseInv, IsSIS, IsInductive
  <2>3. Clausewise!NECNecessary'
    BY <1>1, <2>1, ClausewiseNotions DEF ClausewiseInv, Clausewise!NECNecessary
  <2>4. Clausewise!KnownSupported'
    BY <1>3, <2>1, <2>2, ClausewiseNotions DEF Clausewise!KnownSupported
  <2>5. Clausewise!KeptNecessary' /\ Clausewise!FoundAreMSISes'
    BY <2>1 DEF ClausewiseInv, Clausewise!KeptNecessary, Clausewise!FoundAreMSISes
  <2> QED
    BY <2>1, <2>3, <2>4, <2>5 DEF ClausewiseInv
<1>8. ASSUME NEW id \in ClauseID, Clausewise!SkipClause(id)
      PROVE  ClausewiseInv'
  BY <1>8 DEF Clausewise!SkipClause, ClausewiseInv, Clausewise!NECNecessary,
              Clausewise!KnownSupported, Clausewise!KeptNecessary, Clausewise!FoundAreMSISes
<1>9. ASSUME NEW id \in ClauseID, Clausewise!DropClause(id)
      PROVE  ClausewiseInv'
  <2>1. /\ pc = "brute" /\ nec \subseteq LargestInductive(rest \ {id})
        /\ rest' = LargestInductive(rest \ {id})
        /\ UNCHANGED <<nec, feas, knownInd, keep, minimalProofs, pc>>
    BY <1>9, ClausewiseNotions
    DEF Clausewise!DropClause, Clausewise!BruteForce, Clausewise!FindSIS
  <2>2. rest' \subseteq rest /\ IsSIS(rest')
    BY <2>1, LargestInductiveIs DEF ClausewiseInv, IsSIS
  <2>3. rest' \in SIS
    BY <2>1, <2>2, SISSubset DEF ClausewiseInv
  <2>4. Clausewise!KeptNecessary'
    BY <1>2, <2>1, <2>2, <2>3, ClausewiseNotions DEF Clausewise!KeptNecessary
  <2>5. Clausewise!NECNecessary' /\ Clausewise!KnownSupported' /\ Clausewise!FoundAreMSISes'
    BY <2>1 DEF ClausewiseInv, Clausewise!NECNecessary, Clausewise!KnownSupported,
                Clausewise!FoundAreMSISes
  <2> QED
    BY <2>1, <2>2, <2>4, <2>5 DEF ClausewiseInv
<1>10. ASSUME NEW id \in ClauseID, Clausewise!KeepClause(id)
       PROVE  ClausewiseInv'
  <2>1. /\ pc = "brute" /\ id \in rest /\ ~Clausewise!FindSIS(rest \ {id})
        /\ keep' = keep \union {id}
        /\ UNCHANGED <<nec, feas, knownInd, rest, minimalProofs, pc>>
    BY <1>10 DEF Clausewise!KeepClause, Clausewise!BruteForce, Clausewise!IsCurrent
  <2>2. \A M \in SIS : M \subseteq rest => keep' \subseteq M
    BY <1>2, <2>1, NecessaryIfNotFound DEF ClausewiseInv
  <2>3. Clausewise!KeptNecessary'
    BY <1>2, <2>1, <2>2, ClausewiseNotions DEF Clausewise!KeptNecessary
  <2>4. Clausewise!NECNecessary' /\ Clausewise!KnownSupported' /\ Clausewise!FoundAreMSISes'
    BY <2>1 DEF ClausewiseInv, Clausewise!NECNecessary, Clausewise!KnownSupported,
                Clausewise!FoundAreMSISes
  <2> QED
    BY <2>1, <2>3, <2>4 DEF ClausewiseInv
<1>11. CASE Clausewise!AddMinimalProof
  <2>1. /\ pc = "brute" /\ ~(Cardinality(keep) < Cardinality(rest))
        /\ minimalProofs' = minimalProofs \union {keep}
        /\ pc' = "done" /\ UNCHANGED <<nec, feas, knownInd, keep, rest>>
    BY <1>11, ClausewiseNotions DEF Clausewise!AddMinimalProof, Clausewise!BruteForce
  <2>2. rest \subseteq ClauseID /\ keep \subseteq rest
    BY <1>2, <2>1 DEF ClausewiseInv
  <2>3. keep = rest
    <3>1. /\ Cardinality(rest) \in Nat /\ Cardinality(keep) \in Nat
      BY <2>2, ClauseIDFinite, Sizes
    <3> QED
      BY <2>1, <2>2, <3>1, ClauseSets
  <2>4. keep \in MSIS
    BY <1>2, <2>1, <2>2, <2>3, SISSubset DEF MSIS
  <2>5. Clausewise!FoundAreMSISes'
    BY <2>1, <2>4, ClausewiseNotions DEF ClausewiseInv, Clausewise!FoundAreMSISes
  <2>6. Clausewise!NECNecessary'
    BY <1>1, <2>1, ClausewiseNotions DEF Clausewise!NECNecessary
  <2>7. Clausewise!KnownSupported' /\ Clausewise!KeptNecessary'
    BY <1>3, <2>1, ClausewiseNotions
    DEF Clausewise!KnownSupported, Clausewise!KeptNecessary
  <2> QED
    BY <2>1, <2>5, <2>6, <2>7 DEF ClausewiseInv
<1>12. CASE Clausewise!Terminating
  BY <1>12 DEF Clausewise!Terminating, Clausewise!vars, ClausewiseInv,
               Clausewise!NECNecessary, Clausewise!KnownSupported,
               Clausewise!KeptNecessary, Clausewise!FoundAreMSISes
<1> QED
  BY <1>4, <1>5, <1>6, <1>7, <1>8, <1>9, <1>10, <1>11, <1>12,
     ClausewiseNotions
  DEF Clausewise!Next

--------------------------------------------------------------------------------
(* SimpleMinimizer.                                                           *)

LEMMA SimpleNotions ==
  /\ Simple!ClauseID = ClauseID
  /\ \A S : Simple!Cardinality(S) = Cardinality(S)
  /\ Simple!SIS = SIS
  /\ \A S, c : Simple!Supports(S, c) = Supports(S, c)
  /\ \A S, c : Simple!MinimizedSupports(S, c) = MinimizedSupports(S, c)
<1>1. Simple!ClauseID = ClauseID
  BY DEF Simple!ClauseID, ClauseID
<1>2. \A S, c : Simple!Solve(S, c) <=> Solve(S, c)
  BY DEF Simple!Solve, Simple!Counterexample, Solve, Counterexample
<1>3. \A S : Simple!IsSIS(S) <=> IsSIS(S)
  BY <1>2 DEF Simple!IsSIS, Simple!IsInductive, IsSIS, IsInductive
<1>4. Simple!SIS = SIS
  BY <1>1, <1>3 DEF Simple!SIS, SIS
<1>5. \A S, c : Simple!Supports(S, c) = Supports(S, c)
  BY DEF Simple!Supports, Supports
<1>6. \A S, c : Simple!MinimizedSupports(S, c) = MinimizedSupports(S, c)
  BY <1>5 DEF Simple!MinimizedSupports, MinimizedSupports
<1>7. \A S : Simple!Cardinality(S) = Cardinality(S)
  BY DEF Simple!Cardinality, Cardinality
<1> QED
  BY <1>1, <1>4, <1>5, <1>6, <1>7

\* The elements of a queue, by an operator that the provers need not expand.
Waiting(s) == { s[i] : i \in DOMAIN s }

\* A clause collected was supported, by what is collected, or waits.
SimpleInv ==
  /\ Simple!FoundAreProofs
  /\ Property \in nec
  /\ nec \subseteq SimpleProof
  /\ toProcess \in Seq(ClauseID)
  /\ nec \subseteq supported \union Waiting(toProcess)
  /\ \A c \in supported : Solve(nec, c)

LEMMA HeadAndTail ==
  ASSUME NEW T, NEW s \in Seq(T), s # <<>>
  PROVE  /\ Head(s) \in T /\ Tail(s) \in Seq(T)
         /\ Waiting(s) \subseteq {Head(s)} \union Waiting(Tail(s))
<1>1. /\ Head(s) = s[1] /\ Head(s) \in T /\ Tail(s) \in Seq(T)
      /\ Len(s) \in Nat /\ Len(Tail(s)) = Len(s) - 1
  OBVIOUS
<1>2. ASSUME NEW i \in DOMAIN s, i # 1
      PROVE  i - 1 \in DOMAIN Tail(s) /\ Tail(s)[i - 1] = s[i]
  BY <1>2, <1>1
<1> QED
  BY <1>1, <1>2 DEF Waiting

LEMMA RangeConcat ==
  ASSUME NEW T, NEW s \in Seq(T), NEW t \in Seq(T)
  PROVE  /\ s \o t \in Seq(T)
         /\ Waiting(s) \union Waiting(t) \subseteq Waiting(s \o t)
<1>1. /\ s \o t \in Seq(T) /\ Len(s) \in Nat /\ Len(t) \in Nat
      /\ Len(s \o t) = Len(s) + Len(t)
  OBVIOUS
<1>2. ASSUME NEW i \in DOMAIN s
      PROVE  i \in DOMAIN (s \o t) /\ (s \o t)[i] = s[i]
  BY <1>1
<1>3. ASSUME NEW i \in DOMAIN t
      PROVE  i + Len(s) \in DOMAIN (s \o t) /\ (s \o t)[i + Len(s)] = t[i]
  BY <1>1
<1> QED
  BY <1>1, <1>2, <1>3 DEF Waiting

LEMMA SimpleInit == Simple!Init => SimpleInv
<1> SUFFICES ASSUME Simple!Init PROVE SimpleInv
  OBVIOUS
<1>1. /\ toProcess = <<Property>> /\ supported = {} /\ nec = {Property}
      /\ minimalProofs = {}
  BY DEF Simple!Init
<1>2. Property \in SimpleProof
  BY ProofIsInductive DEF SIS, IsSIS
<1>3. toProcess \in Seq(ClauseID) /\ toProcess[1] = Property /\ 1 \in DOMAIN toProcess
  BY <1>1, ProofAssumption
<1> QED
  BY <1>1, <1>2, <1>3 DEF SimpleInv, Simple!FoundAreProofs, Waiting

LEMMA SimpleNext ==
  ASSUME SimpleInv, Simple!Next
  PROVE  SimpleInv'
<1>1. CASE Simple!SkipFront
  <2>1. /\ toProcess # <<>> /\ Head(toProcess) \in supported
        /\ toProcess' = Tail(toProcess)
        /\ UNCHANGED <<supported, nec, minimalProofs>>
    BY <1>1 DEF Simple!SkipFront
  <2>2. /\ toProcess' \in Seq(ClauseID)
        /\ Waiting(toProcess) \subseteq {Head(toProcess)} \union Waiting(toProcess')
    <3>1. toProcess \in Seq(ClauseID)
      BY DEF SimpleInv
    <3>2. /\ Tail(toProcess) \in Seq(ClauseID)
          /\ Waiting(toProcess) \subseteq {Head(toProcess)} \union Waiting(Tail(toProcess))
      BY <2>1, <3>1, HeadAndTail
    <3> QED
      BY <2>1, <3>2
  <2> QED
    BY <2>1, <2>2 DEF SimpleInv, Simple!FoundAreProofs
<1>2. CASE Simple!ProcessFront
  <2> DEFINE front == Head(toProcess)
  <2>1. /\ toProcess # <<>>
        /\ supported' = supported \union {front} /\ UNCHANGED minimalProofs
    BY <1>2 DEF Simple!ProcessFront
  <2>2. PICK support \in Simple!ComputedSupports(front) :
          /\ nec' = nec \union support
          /\ \E order \in Simple!Orders(support \ supported) :
               toProcess' = Tail(toProcess) \o order
    BY <1>2 DEF Simple!ProcessFront
  <2>3. PICK order \in Simple!Orders(support \ supported) :
          toProcess' = Tail(toProcess) \o order
    BY <2>2
  <2>4. support \subseteq SimpleProof /\ Solve(support, front)
    BY <2>2, SupportsAre, MinimizedSupportsAre, SimpleNotions
    DEF Simple!ComputedSupports
  <2>5. SimpleProof \subseteq ClauseID
    BY ProofIsInductive, SISSubset
  <2>6. /\ order \in Seq(ClauseID)
        /\ Waiting(order) = support \ supported
    <3>1. Cardinality(support \ supported) \in Nat
      BY <2>4, <2>5, ClauseIDFinite, Sizes
    <3>2. /\ order \in [1 .. Cardinality(support \ supported) -> support \ supported]
          /\ Waiting(order) = support \ supported
      BY <2>3, SimpleNotions DEF Simple!Orders, Waiting
    <3>3. order \in Seq(support \ supported)
      BY <3>1, <3>2, SeqDef
    <3>4. support \ supported \subseteq ClauseID
      BY <2>4, <2>5
    <3> QED
      BY <3>2, <3>3, <3>4, SeqMonotonic
  <2>7. /\ Tail(toProcess) \in Seq(ClauseID)
        /\ Waiting(toProcess) \subseteq {front} \union Waiting(Tail(toProcess))
    BY <2>1, HeadAndTail DEF SimpleInv
  <2>8. /\ toProcess' \in Seq(ClauseID)
        /\ Waiting(Tail(toProcess)) \union Waiting(order) \subseteq Waiting(toProcess')
    <3>1. /\ Tail(toProcess) \o order \in Seq(ClauseID)
          /\ Waiting(Tail(toProcess)) \union Waiting(order)
               \subseteq Waiting(Tail(toProcess) \o order)
      BY <2>6, <2>7, RangeConcat
    <3> QED
      BY <2>3, <3>1
  <2>9. nec' \subseteq supported' \union Waiting(toProcess')
    BY <2>1, <2>2, <2>6, <2>7, <2>8 DEF SimpleInv
  <2>10. \A c \in supported' : Solve(nec', c)
    BY <2>1, <2>2, <2>4, SolveMonotone DEF SimpleInv
  <2> QED
    BY <2>1, <2>2, <2>4, <2>8, <2>9, <2>10 DEF SimpleInv, Simple!FoundAreProofs
<1>3. CASE Simple!AddMinimalProof
  <2>1. /\ toProcess = <<>> /\ minimalProofs' = minimalProofs \union {nec}
        /\ UNCHANGED <<toProcess, supported, nec>>
    BY <1>3 DEF Simple!AddMinimalProof
  <2>2. Waiting(toProcess) = {}
    BY <2>1 DEF Waiting
  <2>3. nec \in SIS
    BY <2>2, ProofIsInductive DEF SimpleInv, SIS, IsSIS, IsInductive
  <2> QED
    BY <2>1, <2>3, SimpleNotions DEF SimpleInv, Simple!FoundAreProofs
<1>4. CASE Simple!Terminating
  BY <1>4 DEF Simple!Terminating, Simple!vars, SimpleInv, Simple!FoundAreProofs
<1> QED
  BY <1>1, <1>2, <1>3, <1>4 DEF Simple!Next

--------------------------------------------------------------------------------
(* findMinimalSupport.                                                        *)

\* The results of findMinimalSupport are closed under taking supports: a core
\* of a core is one of the results its callers are modelled with.  When a core
\* leaves out a clause of the frame that is the clause to support, it is a core
\* of the frame itself.
LEMMA SupportOfMinimized ==
  ASSUME NEW F, NEW c, NEW Q \in MinimizedSupports(F, c), NEW R \in Supports(Q, c)
  PROVE  R \in MinimizedSupports(F, c)
<1>1. PICK P \in {F} \union Supports(F, c) : Q \in Supports(P, c)
  BY DEF MinimizedSupports
<1>2. CASE c \notin P
  <2>1. R \in Supports(P, c)
    BY <1>1, <1>2 DEF Supports
  <2> QED
    BY <1>1, <2>1 DEF MinimizedSupports
<1>3. CASE P # F /\ c \in P
  <2>1. Q \in Supports(F, c)
    BY <1>1, <1>3 DEF Supports
  <2> QED
    BY <2>1 DEF MinimizedSupports
<1>4. CASE P = F
  BY <1>1, <1>4 DEF MinimizedSupports
<1> QED
  BY <1>2, <1>3, <1>4

LEMMA SupportNotions ==
  /\ \A S, c : Support!Solve(S, c) <=> Solve(S, c)
  /\ \A S, c : Support!Supports(S, c) = Supports(S, c)
  /\ \A S, c : Support!MinimizedSupports(S, c) = MinimizedSupports(S, c)
<1>1. \A S, c : Support!Solve(S, c) <=> Solve(S, c)
  BY DEF Support!Solve, Support!Counterexample, Solve, Counterexample
<1>2. \A S, c : Support!Supports(S, c) = Supports(S, c)
  BY DEF Support!Supports, Supports
<1>3. \A S, c : Support!MinimizedSupports(S, c) = MinimizedSupports(S, c)
  BY <1>2 DEF Support!MinimizedSupports, MinimizedSupports
<1> QED
  BY <1>1, <1>2, <1>3

LEMMA SupportInit == Support!Init => Support!StillSupports
BY SupportNotions DEF Support!Init, Support!StillSupports

LEMMA SupportNext ==
  ASSUME Support!StillSupports, Support!Next
  PROVE  Support!StillSupports'
<1>1. ASSUME NEW id, Support!Visit(id), Solve(frame, cls)
      PROVE  Support!StillSupports'
  <2>1. frame' \in Supports(frame, cls) /\ UNCHANGED <<cls, given>>
    BY <1>1, SupportNotions DEF Support!Visit
  <2>2. Solve(frame', cls)
    BY <2>1, SupportsAre
  <2>3. frame' \in MinimizedSupports(given, cls)
    <3>1. CASE frame = given
      BY <2>1, <3>1 DEF MinimizedSupports
    <3>2. CASE frame \in MinimizedSupports(given, cls)
      BY <2>1, <3>2, SupportOfMinimized
    <3> QED
      BY <3>1, <3>2, SupportNotions DEF Support!StillSupports
  <2> QED
    BY <2>1, <2>2, <2>3, SupportNotions DEF Support!StillSupports
<1>2. ASSUME NEW id, Support!Visit(id), ~Solve(frame, cls)
      PROVE  Support!StillSupports'
  BY <1>2, SupportNotions DEF Support!Visit, Support!StillSupports
<1>3. CASE Support!Finish \/ Support!Terminating
  BY <1>3 DEF Support!Finish, Support!Terminating, Support!vars, Support!StillSupports
<1> QED
  BY <1>1, <1>2, <1>3 DEF Support!Next

--------------------------------------------------------------------------------
(* findSafeMIS.                                                               *)

LEMMA SafeMISNotions ==
  /\ SafeMIS!ClauseID = ClauseID
  /\ \A S, c : SafeMIS!Solve(S, c) <=> Solve(S, c)
  /\ \A S, c : SafeMIS!Counterexample(S, c) = Counterexample(S, c)
  /\ \A S : SafeMIS!IsInductive(S) <=> IsInductive(S)
  /\ \A S : SafeMIS!LargestInductive(S) = LargestInductive(S)
<1>1. SafeMIS!ClauseID = ClauseID
  BY DEF SafeMIS!ClauseID, ClauseID
<1>2. \A S, c : SafeMIS!Counterexample(S, c) = Counterexample(S, c)
  BY DEF SafeMIS!Counterexample, Counterexample
<1>3. \A S, c : SafeMIS!Solve(S, c) <=> Solve(S, c)
  BY <1>2 DEF SafeMIS!Solve, Solve
<1>4. \A S : SafeMIS!IsInductive(S) <=> IsInductive(S)
  BY <1>3 DEF SafeMIS!IsInductive, IsInductive
<1>5. \A S : SafeMIS!LargestInductive(S) = LargestInductive(S)
  BY <1>4 DEF SafeMIS!LargestInductive, SafeMIS!InductiveSubsets, LargestInductive,
              InductiveSubsets
<1> QED
  BY <1>1, <1>2, <1>3, <1>4, <1>5

\* The clauses that the present sweep has visited and kept.
Swept == { c \in vec : c < it }

\* SafeMIS!GreatestKept, and why the sweep that removes nothing may be the last one:
\* until something is removed, what it has visited is supported by all of vec.
SafeMISInv ==
  /\ SafeMIS!TypeOK
  /\ SafeMIS!GreatestKept
  /\ pc = "sweep" => nec \subseteq vec
  /\ pc = "sweep" /\ ~removed => \A c \in Swept : Solve(vec, c)
  /\ pc = "true" => IsInductive(vec) /\ nec \subseteq vec
  /\ pc = "false" => ~(nec \subseteq LargestInductive(input))

LEMMA SafeMISInit == SafeMIS!Init => SafeMISInv
<1> SUFFICES ASSUME SafeMIS!Init PROVE SafeMISInv
  OBVIOUS
<1>1. SafeMIS!TypeOK
  <2>1. removed \in BOOLEAN
    BY DEF SafeMIS!Init
  <2> QED
    BY <2>1, ProofAssumption, SafeMISNotions
    DEF SafeMIS!Init, SafeMIS!TypeOK, ClauseID
<1>2. SafeMIS!GreatestKept
  BY LargestInductiveIs, SafeMISNotions DEF SafeMIS!Init, SafeMIS!GreatestKept
<1> QED
  BY <1>1, <1>2 DEF SafeMIS!Init, SafeMISInv

\* A failed query never costs a clause of the largest inductive subset: the
\* counterexample would be one to that subset too.
LEMMA CounterexampleSpares ==
  ASSUME NEW S, NEW id, NEW t \in Counterexample(S, id),
         NEW L, L \subseteq S, IsInductive(L)
  PROVE  id \notin L /\ L \subseteq t.post
<1>1. ASSUME NEW c \in L PROVE c \in t.post
  BY <1>1 DEF Counterexample, IsInductive, Solve
<1> QED
  BY <1>1 DEF Counterexample

LEMMA SafeMISNext == SafeMISInv /\ SafeMIS!Next => SafeMISInv'
<1> SUFFICES ASSUME SafeMISInv, SafeMIS!Next PROVE SafeMISInv'
  OBVIOUS
<1> DEFINE L == LargestInductive(input)
<1> USE ProofAssumption, SafeMISNotions
<1>0. L \subseteq vec /\ IsInductive(L)
  BY LargestInductiveIs DEF SafeMISInv, SafeMIS!GreatestKept
<1>1. CASE SafeMIS!EnterUnsafe
  BY <1>1, <1>0
  DEF SafeMISInv, SafeMIS!TypeOK, SafeMIS!GreatestKept, SafeMIS!EnterUnsafe,
      SafeMIS!Return
<1>2. CASE SafeMIS!EnterInductive
  BY <1>2
  DEF SafeMISInv, SafeMIS!TypeOK, SafeMIS!GreatestKept, SafeMIS!EnterInductive,
      SafeMIS!Return
<1>3. CASE SafeMIS!EnterSweep
  <2>1. removed' \in BOOLEAN
    BY <1>3 DEF SafeMIS!EnterSweep
  <2> QED
    BY <1>3, <2>1
    DEF SafeMISInv, SafeMIS!TypeOK, SafeMIS!GreatestKept, SafeMIS!EnterSweep, Swept,
        ClauseID
<1>4. ASSUME NEW id \in ClauseID, SafeMIS!KeepClause(id)
      PROVE  SafeMISInv'
  <2>1. SafeMIS!TypeOK'
    BY <1>4 DEF SafeMISInv, SafeMIS!TypeOK, SafeMIS!KeepClause, ClauseID
  <2>2. \A c \in Swept' : c \in Swept \/ c = id
    BY <1>4
    DEF SafeMIS!KeepClause, SafeMIS!IsCurrent, Swept, ClauseID, SafeMISInv,
        SafeMIS!TypeOK
  <2>3. ~removed => \A c \in Swept' : Solve(vec, c)
    BY <1>4, <2>2 DEF SafeMIS!KeepClause, SafeMISInv
  <2> QED
    BY <1>4, <2>1, <2>3 DEF SafeMIS!KeepClause, SafeMISInv, SafeMIS!GreatestKept
<1>5. ASSUME NEW id \in ClauseID, SafeMIS!LoseNecessary(id)
      PROVE  SafeMISInv'
  <2>1. id \notin L
    BY <1>0, <1>5, CounterexampleSpares DEF SafeMIS!LoseNecessary, Solve
  <2> QED
    BY <1>5, <2>1
    DEF SafeMIS!LoseNecessary, SafeMIS!Return, SafeMISInv, SafeMIS!TypeOK,
        SafeMIS!GreatestKept
<1>6. ASSUME NEW id \in ClauseID, SafeMIS!RemoveClause(id)
      PROVE  SafeMISInv'
  <2> DEFINE kept == vec \ {id}
             gone(t) == SafeMIS!SATClauses(kept, t)
  <2>1. PICK t \in Counterexample(vec, id) :
          /\ vec' = kept \ gone(t)
          /\ IF gone(t) \intersect nec # {}
             THEN pc' = "false" /\ UNCHANGED it
             ELSE it' = id + 1 /\ UNCHANGED pc
    BY <1>6 DEF SafeMIS!RemoveClause
  <2>2. id \notin L /\ L \subseteq t.post
    BY <1>0, <2>1, CounterexampleSpares
  <2>3. gone(t) \intersect L = {}
    BY <2>2 DEF SafeMIS!SATClauses
  <2>4. SafeMIS!TypeOK'
    <3>1. removed' \in BOOLEAN
      BY <1>6 DEF SafeMIS!RemoveClause
    <3>2. it' \in 0 .. NumClauses
      BY <1>6, <2>1 DEF SafeMISInv, SafeMIS!TypeOK, ClauseID
    <3> QED
      BY <1>6, <2>1, <3>1, <3>2 DEF SafeMISInv, SafeMIS!TypeOK, SafeMIS!RemoveClause
  <2>5. SafeMIS!GreatestKept'
    BY <1>6, <1>0, <2>1, <2>2, <2>3 DEF SafeMIS!RemoveClause, SafeMIS!GreatestKept
  <2>6. pc' = "sweep" => nec \subseteq vec'
    BY <1>6, <2>1 DEF SafeMIS!RemoveClause, SafeMISInv
  <2>7. pc' = "false" => ~(nec \subseteq L)
    BY <1>6, <2>1, <2>3 DEF SafeMIS!RemoveClause, SafeMISInv
  <2> QED
    BY <1>6, <2>1, <2>4, <2>5, <2>6, <2>7 DEF SafeMIS!RemoveClause, SafeMISInv
<1>7. CASE SafeMIS!SweepAgain
  <2>1. removed' \in BOOLEAN
    BY <1>7 DEF SafeMIS!SweepAgain
  <2> QED
    BY <1>7, <2>1
    DEF SafeMISInv, SafeMIS!TypeOK, SafeMIS!GreatestKept, SafeMIS!SweepAgain,
        SafeMIS!SweepEnded, Swept, ClauseID
<1>8. CASE SafeMIS!SweepClean
  <2>1. IsInductive(vec)
    BY <1>8 DEF SafeMIS!SweepClean, SafeMIS!SweepEnded, SafeMISInv, Swept, IsInductive
  <2> QED
    BY <1>8, <2>1
    DEF SafeMISInv, SafeMIS!TypeOK, SafeMIS!GreatestKept, SafeMIS!SweepClean,
        SafeMIS!SweepEnded, SafeMIS!Return
<1>9. CASE SafeMIS!Terminating
  BY <1>9
  DEF SafeMIS!Terminating, SafeMIS!vars, SafeMISInv, SafeMIS!TypeOK,
      SafeMIS!GreatestKept, Swept
<1> QED
  BY <1>1, <1>2, <1>3, <1>4, <1>5, <1>6, <1>7, <1>8, <1>9 DEF SafeMIS!Next

--------------------------------------------------------------------------------
(* The algorithm picked runs to its end; the invariant is its own.            *)

MinimizersInv ==
  /\ algorithm = "clausewise" => ClausewiseInv
  /\ algorithm = "simple" => SimpleInv
  /\ algorithm = "support" => Support!StillSupports
  /\ algorithm = "safeMIS" => SafeMISInv

\* minimize with one of these algorithms keeps the invariant of the algorithm.
THEOREM MinimizersInvariance == Spec => []MinimizersInv
<1>1. Init => MinimizersInv
  BY ClausewiseInit, SimpleInit, SupportInit, SafeMISInit DEF Init, MinimizersInv
<1>2. MinimizersInv /\ [Next]_vars => MinimizersInv'
  <2> SUFFICES ASSUME MinimizersInv, [Next]_vars
               PROVE  MinimizersInv'
    OBVIOUS
  <2>1. CASE ClausewiseStep
    BY <2>1, ClausewiseNext DEF ClausewiseStep, MinimizersInv
  <2>2. CASE SimpleStep
    BY <2>2, SimpleNext DEF SimpleStep, MinimizersInv
  <2>3. CASE SupportStep
    BY <2>3, SupportNext DEF SupportStep, MinimizersInv
  <2>4. CASE SafeMISStep
    BY <2>4, SafeMISNext DEF SafeMISStep, MinimizersInv
  <2>5. CASE UNCHANGED vars
    BY <2>5
    DEF vars, sisiVars, simpleVars, supportVars, safeMISVars, SafeMISInv, Swept,
        SafeMIS!TypeOK, SafeMIS!GreatestKept, MinimizersInv, ClausewiseInv, SimpleInv,
        Clausewise!NECNecessary, Clausewise!KnownSupported, Clausewise!KeptNecessary,
        Clausewise!FoundAreMSISes, Simple!FoundAreProofs, Support!StillSupports
  <2> QED
    BY <2>1, <2>2, <2>3, <2>4, <2>5 DEF Next
<1> QED
  BY <1>1, <1>2, PTL DEF Spec

\* SISI and brute force never keep a clause that a proof still considered could
\* do without: a clause of NEC, or one kept, is never tested again
\* (sisi.cpp, bruteforce.cpp).
THEOREM NecessaryAlways == Spec => []NecessaryStays
<1>1. MinimizersInv => NecessaryStays
  BY DEF MinimizersInv, ClausewiseInv, NecessaryStays
<1> QED
  BY <1>1, MinimizersInvariance, PTL

\* findMinimalSupport never loses the support, and returns what one or two
\* supports in a row can return, however many queries it makes.
THEOREM AlwaysSupports == Spec => []StillSupports
<1>1. MinimizersInv => StillSupports
  BY DEF MinimizersInv, StillSupports
<1> QED
  BY <1>1, MinimizersInvariance, PTL

\* The proof that minimize returns is minimal after SISI and brute force, and
\* safe and inductive after the simple minimizer.
THEOREM FoundAlwaysProofs == Spec => []FoundAreProofs
<1>1. MinimizersInv => FoundAreProofs
  BY DEF MinimizersInv, ClausewiseInv, SimpleInv, FoundAreProofs
<1> QED
  BY <1>1, MinimizersInvariance, PTL

\* Removing several clauses after one query is safe whichever assignment the
\* solver found (removeSATClauses).
THEOREM GreatestAlwaysKept == Spec => []GreatestKept
<1>1. MinimizersInv => GreatestKept
  BY DEF MinimizersInv, SafeMISInv, GreatestKept
<1> QED
  BY <1>1, MinimizersInvariance, PTL

\* A result of findSafeMIS is the largest inductive subset with the necessary
\* clauses in it, or the knowledge that one of them is in none.
THEOREM ResultAlwaysCorrect == Spec => []ResultCorrect
<1>1. MinimizersInv => ResultCorrect
  <2> SUFFICES ASSUME MinimizersInv, algorithm = "safeMIS" PROVE SafeMIS!ResultCorrect
    BY DEF ResultCorrect
  <2>1. SafeMISInv
    BY DEF MinimizersInv
  <2>2. ASSUME pc = "true" PROVE vec = LargestInductive(input)
    <3>1. vec \subseteq input /\ IsInductive(vec) /\ LargestInductive(input) \subseteq vec
      BY <2>1, <2>2, SafeMISNotions
      DEF SafeMISInv, SafeMIS!TypeOK, SafeMIS!GreatestKept
    <3> QED
      BY <3>1, LargestInductiveIs
  <2> QED
    BY <2>1, <2>2, SafeMISNotions DEF SafeMISInv, SafeMIS!ResultCorrect
<1> QED
  BY <1>1, MinimizersInvariance, PTL

================================================================================
