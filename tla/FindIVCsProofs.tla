----------------------------- MODULE FindIVCsProofs -----------------------------
(******************************************************************************)
(* The finders of inductive validity cores keep their promises on every model *)
(* and with every setting they are meant for: their assertions hold, the      *)
(* caches are sound, and what they report is a complete enumeration.          *)
(******************************************************************************)
EXTENDS FindIVCs, SharedTheorems, SequenceTheorems

--------------------------------------------------------------------------------
(* Cores.                                                                     *)

LEMMA GateFinite == IsFiniteSet(Gate)
BY GatesAssumption, FS_Interval DEF Gate

\* More gates leave fewer counterexamples.
LEMMA SafeMonotone ==
  ASSUME NEW A, NEW B, A \subseteq B, Safe(A)
  PROVE  Safe(B)
<1> SUFFICES ASSUME NEW x \in Counterexamples, Refutes(x, B) PROVE FALSE
  BY DEF Safe
<1>1. Refutes(x, A)
  BY DEF Refutes
<1> QED
  BY <1>1 DEF Safe

\* The model as a whole is safe, and without gates it is not.
LEMMA ExtremesSafety == Safe(Gate) /\ ~Safe({})
BY CounterexamplesAssumption DEF Safe, Refutes

\* What is safe contains a minimal core.
LEMMA CoreBelow ==
  ASSUME NEW S \in SUBSET Gate, Safe(S)
  PROVE  \E M \in MIVC : M \subseteq S
<1> DEFINE F == { T \in SUBSET S : Safe(T) }
<1>1. F # {} /\ F \in SUBSET SUBSET Gate
  OBVIOUS
<1>2. PICK M : M \in Smallest(F)
  <2> HIDE DEF F
  <2> QED
    BY <1>1, GateFinite, SmallestExists
<1>3. M \in SUBSET S /\ Safe(M) /\ \A T \in F : Cardinality(M) <= Cardinality(T)
  BY <1>2 DEF Smallest
<1>4. ASSUME NEW g \in M, Safe(M \ {g})
      PROVE  FALSE
  <2>1. M \ {g} \in F /\ M \ {g} \in SUBSET M
    BY <1>3, <1>4
  <2>2. Cardinality(M) <= Cardinality(M \ {g})
    BY <1>3, <2>1
  <2>3. M = M \ {g}
    BY <1>3, <2>1, <2>2, GateFinite, Sizes
  <2> QED
    BY <2>3
<1> QED
  BY <1>3, <1>4 DEF MIVC, IVCs

\* No minimal core contains another.
LEMMA CoresIncomparable ==
  ASSUME NEW M \in MIVC, NEW S, S \subseteq M, Safe(S)
  PROVE  S = M
<1> SUFFICES ASSUME NEW g \in M, g \notin S PROVE FALSE
  OBVIOUS
<1>1. S \subseteq M \ {g}
  OBVIOUS
<1> QED
  BY <1>1, SafeMonotone DEF MIVC

\* A minimal core is a safe set of gates, and not empty.
LEMMA CoreFacts ==
  ASSUME NEW M \in MIVC
  PROVE  M \in SUBSET Gate /\ Safe(M) /\ M # {} /\ \A g \in M : ~Safe(M \ {g})
BY ExtremesSafety DEF MIVC, IVCs

\* Minimal is what is safe and loses that with any gate.
LEMMA CoreIff ==
  ASSUME NEW S \in SUBSET Gate, Safe(S), \A g \in S : ~Safe(S \ {g})
  PROVE  S \in MIVC
BY DEF MIVC, IVCs

\* A core is a smallest one when no minimal core is smaller.
LEMMA SmallestCore ==
  ASSUME NEW S \in MIVC, \A M \in MIVC : Cardinality(S) <= Cardinality(M)
  PROVE  S \in SmallestIVC
<1> SUFFICES ASSUME NEW T \in IVCs PROVE Cardinality(S) <= Cardinality(T)
  BY CoreFacts DEF SmallestIVC, Smallest, IVCs
<1>1. PICK M \in MIVC : M \subseteq T
  BY CoreBelow DEF IVCs
<1>2. Cardinality(M) <= Cardinality(T) /\ Cardinality(T) \in Nat /\ Cardinality(M) \in Nat
  BY <1>1, GateFinite, Sizes DEF IVCs
<1>3. Cardinality(S) \in Nat /\ Cardinality(S) <= Cardinality(M)
  BY CoreFacts, GateFinite, Sizes
<1> QED
  BY <1>2, <1>3

\* A set without which the model is unsafe contains a correction set.
LEMMA CorrectionBelow ==
  ASSUME NEW S \in SUBSET Gate, Corrects(S)
  PROVE  \E C \in MCS : C \subseteq S
<1> DEFINE F == { T \in SUBSET S : Corrects(T) }
<1>1. F # {} /\ F \in SUBSET SUBSET Gate
  OBVIOUS
<1>2. PICK C : C \in Smallest(F)
  <2> HIDE DEF F
  <2> QED
    BY <1>1, GateFinite, SmallestExists
<1>3. C \in SUBSET S /\ Corrects(C) /\ \A T \in F : Cardinality(C) <= Cardinality(T)
  BY <1>2 DEF Smallest
<1>4. ASSUME NEW g \in C, Corrects(C \ {g})
      PROVE  FALSE
  <2>1. C \ {g} \in F /\ C \ {g} \in SUBSET C
    BY <1>3, <1>4
  <2>2. Cardinality(C) <= Cardinality(C \ {g})
    BY <1>3, <2>1
  <2>3. C = C \ {g}
    BY <1>3, <2>1, <2>2, GateFinite, Sizes
  <2> QED
    BY <2>3
<1> QED
  BY <1>3, <1>4 DEF MCS

\* A seed that is not safe leaves out a correction set.
LEMMA UnsafeIff ==
  ASSUME NEW S \in SUBSET Gate
  PROVE  Corrects(Gate \ S) <=> ~Safe(S)
<1>1. Gate \ (Gate \ S) = S
  OBVIOUS
<1> QED
  BY <1>1 DEF Corrects

--------------------------------------------------------------------------------
(* UnifiedIVCFinder.  Its names for the notions of module IVC mean the same.  *)

LEMMA UnifiedNotions ==
  /\ Unified!Gate = Gate
  /\ \A x, S : Unified!Refutes(x, S) <=> Refutes(x, S)
  /\ \A S : Unified!Safe(S) <=> Safe(S)
  /\ Unified!IVCs = IVCs
  /\ Unified!MIVC = MIVC
<1>1. Unified!Gate = Gate
  BY DEF Unified!Gate, Gate
<1>2. \A x, S : Unified!Refutes(x, S) <=> Refutes(x, S)
  BY DEF Unified!Refutes, Refutes
<1>3. \A S : Unified!Safe(S) <=> Safe(S)
  BY <1>2 DEF Unified!Safe, Safe
<1>4. Unified!IVCs = IVCs
  BY <1>1, <1>3 DEF Unified!IVCs, IVCs
<1>5. Unified!MIVC = MIVC
  BY <1>3, <1>4 DEF Unified!MIVC, MIVC
<1> QED
  BY <1>1, <1>2, <1>3, <1>4, <1>5

LEMMA UnifiedMaps ==
  /\ \A S, cls : Unified!SatisfiesClause(S, cls) <=> SatisfiesClause(S, cls)
  /\ \A m : Unified!Solutions(Gate, m) = Solutions(Gate, m)
  /\ \A F : Unified!Smallest(F) = Smallest(F)
  /\ \A S : Unified!BlockUpClause(S) = BlockUpClause(S)
  /\ \A S : Unified!BlockDownClause(Gate, S) = BlockDownClause(Gate, S)
  /\ \A g, K : Unified!CollapseClause(g, K) = CollapseClause(g, K)
  /\ \A S : Unified!Corrects(S) <=> Corrects(S)
  /\ Unified!MCS = MCS
<1>1. \A S, cls : Unified!SatisfiesClause(S, cls) <=> SatisfiesClause(S, cls)
  BY DEF Unified!SatisfiesClause, SatisfiesClause
<1>2. \A m : Unified!Solutions(Gate, m) = Solutions(Gate, m)
  BY <1>1 DEF Unified!Solutions, Solutions
<1>3. \A F : Unified!Smallest(F) = Smallest(F)
  <2>1. \A S : Unified!Cardinality(S) = Cardinality(S)
    BY DEF Unified!Cardinality, Cardinality
  <2> QED
    BY <2>1 DEF Unified!Smallest, Smallest
<1>4. \A S : /\ Unified!BlockUpClause(S) = BlockUpClause(S)
             /\ Unified!BlockDownClause(Gate, S) = BlockDownClause(Gate, S)
  BY
  DEF Unified!BlockUpClause, BlockUpClause, Unified!BlockDownClause, BlockDownClause
<1>5. \A g, K : Unified!CollapseClause(g, K) = CollapseClause(g, K)
  BY DEF Unified!CollapseClause, CollapseClause
<1>6. \A S : Unified!Corrects(S) <=> Corrects(S)
  BY UnifiedNotions DEF Unified!Corrects, Corrects
<1>7. Unified!MCS = MCS
  BY <1>6, UnifiedNotions DEF Unified!MCS, MCS
<1> QED
  BY <1>1, <1>2, <1>3, <1>4, <1>5, <1>6, <1>7

--------------------------------------------------------------------------------
(* The caches: what they hold is moved and inserted as it should be.          *)

LEMMA FirstHitIs ==
  ASSUME NEW hits \in SUBSET Nat, hits # {}
  PROVE  Unified!FirstHit(hits) \in hits
BY LeastNatural DEF Unified!FirstHit

\* A hit moves to the front, before what was in front of it.
LEMMA MoveToFrontIs ==
  ASSUME NEW T, NEW cache \in Seq(T), NEW i \in DOMAIN cache
  PROVE  LET moved == Unified!MoveToFront(cache, i)
         IN  /\ moved \in Seq(T)
             /\ Len(moved) = Len(cache)
             /\ \A k \in 1 .. Len(cache) :
                  moved[k] = IF k = 1 THEN cache[i]
                             ELSE IF k <= i THEN cache[k - 1] ELSE cache[k]
<1> DEFINE before == SubSeq(cache, 1, i - 1)
           after  == SubSeq(cache, i + 1, Len(cache))
           front  == <<cache[i]>> \o before
           moved  == Unified!MoveToFront(cache, i)
<1>1. i \in 1 .. Len(cache) /\ Len(cache) \in Nat /\ cache[i] \in T
  OBVIOUS
<1>2. /\ before \in Seq(T)
      /\ Len(before) = i - 1
      /\ \A k \in 1 .. i - 1 : before[k] = cache[k]
  BY <1>1, SubSeqProperties
<1>3. /\ after \in Seq(T)
      /\ Len(after) = Len(cache) - i
      /\ \A k \in 1 .. Len(cache) - i : after[k] = cache[k + i]
  BY <1>1, SubSeqProperties
<1>4. <<cache[i]>> \in Seq(T) /\ Len(<<cache[i]>>) = 1 /\ <<cache[i]>>[1] = cache[i]
  BY <1>1
<1>5. /\ front \in Seq(T)
      /\ Len(front) = i
      /\ \A k \in 1 .. i : front[k] = IF k = 1 THEN cache[i] ELSE cache[k - 1]
  <2> HIDE DEF before
  <2>1. front \in Seq(T) /\ Len(front) = i
    BY <1>1, <1>2, <1>4, ConcatProperties
  <2>2. ASSUME NEW k \in 1 .. i
        PROVE  front[k] = IF k = 1 THEN cache[i] ELSE cache[k - 1]
    <3>1. front[k] = IF k <= 1 THEN <<cache[i]>>[k] ELSE before[k - 1]
      BY <1>1, <1>2, <1>4, ConcatProperties
    <3> QED
      BY <3>1, <1>1, <1>2, <1>4
  <2> QED
    BY <2>1, <2>2
<1>6. moved = front \o after
  BY DEF Unified!MoveToFront
<1> HIDE DEF front, after, moved
<1>7. moved \in Seq(T) /\ Len(moved) = Len(cache)
  BY <1>1, <1>3, <1>5, <1>6, ConcatProperties
<1>8. ASSUME NEW k \in 1 .. Len(cache)
      PROVE  moved[k] = IF k = 1 THEN cache[i]
                        ELSE IF k <= i THEN cache[k - 1] ELSE cache[k]
  <2>1. moved[k] = IF k <= i THEN front[k] ELSE after[k - i]
    BY <1>1, <1>3, <1>5, <1>6, ConcatProperties
  <2>2. CASE k <= i
    BY <2>1, <2>2, <1>1, <1>5
  <2>3. CASE k > i
    <3>1. k - i \in 1 .. Len(cache) - i /\ (k - i) + i = k
      BY <2>3, <1>1
    <3> QED
      BY <2>1, <2>3, <3>1, <1>1, <1>3
  <2> QED
    BY <2>2, <2>3, <1>1
<1> QED
  BY <1>7, <1>8 DEF moved

\* So the cache keeps its entries, each at one place.
LEMMA MoveToFrontKeeps ==
  ASSUME NEW T, NEW cache \in Seq(T), NEW i \in DOMAIN cache
  PROVE  /\ Unified!MoveToFront(cache, i) \in Seq(T)
         /\ Unified!Distinct(cache) => Unified!Distinct(Unified!MoveToFront(cache, i))
<1> DEFINE moved == Unified!MoveToFront(cache, i)
<1>1. /\ moved \in Seq(T)
      /\ Len(moved) = Len(cache)
      /\ \A k \in 1 .. Len(cache) :
           moved[k] = IF k = 1 THEN cache[i]
                      ELSE IF k <= i THEN cache[k - 1] ELSE cache[k]
  BY MoveToFrontIs
<1> HIDE DEF moved
<1>2. DOMAIN moved = 1 .. Len(cache) /\ DOMAIN cache = 1 .. Len(cache) /\ Len(cache) \in Nat
  BY <1>1
<1>3. ASSUME Unified!Distinct(cache), NEW j \in 1 .. Len(cache), NEW k \in 1 .. Len(cache),
             moved[j] = moved[k]
      PROVE  j = k
  <2> DEFINE Came(n) == IF n = 1 THEN i ELSE IF n <= i THEN n - 1 ELSE n
  <2>1. \A n \in 1 .. Len(cache) : Came(n) \in 1 .. Len(cache) /\ moved[n] = cache[Came(n)]
    BY <1>1, <1>2
  <2>2. Came(j) = Came(k)
    BY <1>2, <1>3, <2>1 DEF Unified!Distinct
  <2> QED
    BY <2>2, <1>2
<1>4. Unified!Distinct(cache) => Unified!Distinct(moved)
  BY <1>2, <1>3 DEF Unified!Distinct
<1> QED
  BY <1>1, <1>4 DEF moved

\* A new entry goes to the front, and the oldest one may go.
LEMMA CacheInsertKeeps ==
  ASSUME NEW T, NEW cache \in Seq(T), NEW x \in T, NEW size \in Nat
  PROVE  /\ Unified!CacheInsert(cache, x, size) \in Seq(T)
         /\ Unified!Distinct(cache) /\ (\A i \in DOMAIN cache : cache[i] # x)
              => Unified!Distinct(Unified!CacheInsert(cache, x, size))
<1> DEFINE pushed == <<x>> \o cache
           length == IF Len(cache) < size THEN Len(cache) + 1 ELSE size
           cut    == SubSeq(pushed, 1, length)
<1>1. CASE size = 0
  BY <1>1 DEF Unified!CacheInsert
<1>2. CASE size # 0
  <2>1. Unified!CacheInsert(cache, x, size) = cut
    BY <1>2 DEF Unified!CacheInsert
  <2>2. <<x>> \in Seq(T) /\ Len(<<x>>) = 1 /\ <<x>>[1] = x
    OBVIOUS
  <2>3. Len(cache) \in Nat /\ DOMAIN cache = 1 .. Len(cache)
    OBVIOUS
  <2>4. /\ pushed \in Seq(T)
        /\ Len(pushed) = Len(cache) + 1
        /\ \A k \in 1 .. Len(cache) + 1 : pushed[k] = IF k = 1 THEN x ELSE cache[k - 1]
    <3>1. pushed \in Seq(T) /\ Len(pushed) = Len(cache) + 1
      BY <2>2, <2>3, ConcatProperties
    <3>2. ASSUME NEW k \in 1 .. Len(cache) + 1
          PROVE  pushed[k] = IF k = 1 THEN x ELSE cache[k - 1]
      <4>1. pushed[k] = IF k <= 1 THEN <<x>>[k] ELSE cache[k - 1]
        BY <2>2, <2>3, ConcatProperties
      <4> QED
        BY <4>1, <2>2, <2>3
    <3> QED
      BY <3>1, <3>2
  <2>5. length \in 1 .. Len(cache) + 1
    BY <1>2, <2>3
  <2> HIDE DEF pushed, length
  <2>6. cut \in Seq(T) /\ Len(cut) = length /\ \A k \in 1 .. length : cut[k] = pushed[k]
    BY <2>3, <2>4, <2>5, SubSeqProperties
  <2> HIDE DEF cut
  <2>7. DOMAIN cut = 1 .. length
    BY <2>6
  <2>8. ASSUME Unified!Distinct(cache), \A i \in DOMAIN cache : cache[i] # x,
               NEW j \in 1 .. length, NEW k \in 1 .. length, cut[j] = cut[k]
        PROVE  j = k
    <3>1. pushed[j] = pushed[k] /\ j \in 1 .. Len(cache) + 1 /\ k \in 1 .. Len(cache) + 1
      BY <2>3, <2>5, <2>6, <2>8
    <3>2. CASE j = 1 \/ k = 1
      <4>1. ASSUME NEW l \in 1 .. Len(cache) + 1, l # 1
            PROVE  pushed[l] # pushed[1]
        <5>1. pushed[1] = x /\ pushed[l] = cache[l - 1] /\ l - 1 \in DOMAIN cache
          BY <2>3, <2>4, <4>1
        <5> QED
          BY <5>1, <2>8
      <4> QED
        BY <3>1, <3>2, <4>1
    <3>3. CASE j # 1 /\ k # 1
      <4>1. cache[j - 1] = cache[k - 1] /\ j - 1 \in DOMAIN cache /\ k - 1 \in DOMAIN cache
        BY <2>3, <2>4, <3>1, <3>3
      <4>2. j - 1 = k - 1
        BY <2>8, <4>1 DEF Unified!Distinct
      <4> QED
        BY <4>2, <2>3, <3>1
    <3> QED
      BY <3>2, <3>3
  <2>9. Unified!Distinct(cache) /\ (\A i \in DOMAIN cache : cache[i] # x)
          => Unified!Distinct(cut)
    BY <2>7, <2>8 DEF Unified!Distinct
  <2> QED
    BY <2>1, <2>6, <2>9
<1> QED
  BY <1>1, <1>2

--------------------------------------------------------------------------------
(* isSafe: whichever source answers, the answer is right, a proof that comes  *)
(* with it proves the set asked for, and the caches are left in order.        *)

CachedProof == [all : IVCs, part : IVCs]

CacheTypes == cexes \in Seq(Counterexamples) /\ proofs \in Seq(CachedProof)

CachesDistinct == Unified!Distinct(cexes) /\ Unified!Distinct(proofs)

\* What is said of a reply about S.
GoodReply(reply, S) ==
  /\ reply.cexes \in Seq(Counterexamples)
  /\ reply.proofs \in Seq(CachedProof)
  /\ ~opts.clever_issafe /\ CachesDistinct
       => Unified!Distinct(reply.cexes) /\ Unified!Distinct(reply.proofs)
  /\ reply.safe \in BOOLEAN
  /\ reply.safe <=> Safe(S)
  /\ reply.safe => reply.proof \in CachedProof /\ Unified!Proves(reply.proof, S)

LEMMA OptionTypes ==
  ASSUME opts \in UnifiedOptions
  PROVE  /\ opts.upfront_nmax \in Nat /\ opts.cex_cache \in Nat /\ opts.proof_cache \in Nat
         /\ opts.clever_issafe \in BOOLEAN /\ opts.direction_up \in BOOLEAN
         /\ opts.direction_down \in BOOLEAN /\ opts.coi_hints \in BOOLEAN
         /\ opts.mcs_finder \in {"basic", "bmc"} /\ opts.map_solver \in {"msu4", "sat"}
BY OptionsAssumption DEF Unified!Setting

\* A cached proof that covers a set shows that it is safe.
LEMMA ProofMeansSafe ==
  ASSUME NEW p \in CachedProof, NEW S \in SUBSET Gate, Unified!Proves(p, S)
  PROVE  Safe(S)
<1>1. Safe(p.all) /\ Safe(p.part)
  BY DEF CachedProof, IVCs
<1> QED
  BY <1>1, SafeMonotone DEF Unified!Proves, Unified!Inductive

\* What IC3 makes of a safe set proves it, shrunk or not.
LEMMA ProofsOverAreProofs ==
  ASSUME NEW S \in IVCs, NEW p \in Unified!ProofsOver[S]
  PROVE  p \in CachedProof /\ Unified!Proves(p, S)
<1>1. PICK P \in Unified!Extremes(S) : p \in [all : {P}, part : MIVC \union {P}]
  BY UnifiedNotions DEF Unified!ProofsOver
<1>2. P \in IVCs /\ P \subseteq S
  BY <1>1, UnifiedNotions DEF Unified!Extremes, MIVC
<1>3. MIVC \subseteq IVCs
  BY DEF MIVC
<1> QED
  BY <1>1, <1>2, <1>3 DEF CachedProof, Unified!Proves, Unified!Inductive

LEMMA ReplyOfUnsafetyCache ==
  ASSUME CacheTypes, NEW S \in SUBSET Gate, NEW reply \in Unified!checkUnsafetyCache(S)
  PROVE  GoodReply(reply, S)
<1> DEFINE hits == { i \in DOMAIN cexes : Unified!Refutes(cexes[i], S) }
           i == Unified!FirstHit(hits)
<1>1. /\ hits # {}
      /\ reply = Unified!Reply(FALSE, Unified!NoProof, Unified!MoveToFront(cexes, i), proofs)
  BY DEF Unified!checkUnsafetyCache
<1>2. hits \in SUBSET Nat
  BY DEF CacheTypes
<1>3. i \in hits
  <2> HIDE DEF hits
  <2> QED
    BY <1>1, <1>2, FirstHitIs
<1>4. i \in DOMAIN cexes /\ Refutes(cexes[i], S) /\ cexes[i] \in Counterexamples
  BY <1>3, UnifiedNotions DEF CacheTypes
<1> HIDE DEF i, hits
<1>5. ~Safe(S)
  BY <1>4 DEF Safe
<1>6. /\ Unified!MoveToFront(cexes, i) \in Seq(Counterexamples)
      /\ Unified!Distinct(cexes) => Unified!Distinct(Unified!MoveToFront(cexes, i))
  BY <1>4, MoveToFrontKeeps DEF CacheTypes
<1> QED
  BY <1>1, <1>5, <1>6 DEF GoodReply, CacheTypes, CachesDistinct, Unified!Reply

LEMMA ReplyOfSafetyCache ==
  ASSUME CacheTypes, NEW S \in SUBSET Gate, NEW reply \in Unified!checkSafetyCache(S)
  PROVE  GoodReply(reply, S)
<1> DEFINE hits == { i \in DOMAIN proofs : Unified!Proves(proofs[i], S) }
           i == Unified!FirstHit(hits)
<1>1. /\ hits # {}
      /\ reply = Unified!Reply(TRUE, proofs[i], cexes, Unified!MoveToFront(proofs, i))
  BY DEF Unified!checkSafetyCache
<1>2. hits \in SUBSET Nat
  BY DEF CacheTypes
<1>3. i \in hits
  <2> HIDE DEF hits
  <2> QED
    BY <1>1, <1>2, FirstHitIs
<1>4. i \in DOMAIN proofs /\ Unified!Proves(proofs[i], S) /\ proofs[i] \in CachedProof
  BY <1>3 DEF CacheTypes
<1> HIDE DEF i, hits
<1>5. Safe(S)
  BY <1>4, ProofMeansSafe
<1>6. /\ Unified!MoveToFront(proofs, i) \in Seq(CachedProof)
      /\ Unified!Distinct(proofs) => Unified!Distinct(Unified!MoveToFront(proofs, i))
  BY <1>4, MoveToFrontKeeps DEF CacheTypes
<1> QED
  BY <1>1, <1>4, <1>5, <1>6 DEF GoodReply, CacheTypes, CachesDistinct, Unified!Reply

\* A counterexample that a solver finds is cached; when the cache was asked before, it
\* is not there.
LEMMA UnsafeReply ==
  ASSUME opts \in UnifiedOptions, CacheTypes, NEW S \in SUBSET Gate,
         NEW x \in Counterexamples, Refutes(x, S),
         ~opts.clever_issafe => Unified!checkUnsafetyCache(S) = {},
         NEW reply \in Unified!UnsafeReplies({x})
  PROVE  GoodReply(reply, S)
<1>1. reply = Unified!Reply(FALSE, Unified!NoProof,
                            Unified!CacheInsert(cexes, x, opts.cex_cache), proofs)
  BY DEF Unified!UnsafeReplies
<1>2. ~Safe(S)
  BY DEF Safe
<1>3. ~opts.clever_issafe => \A i \in DOMAIN cexes : cexes[i] # x
  BY UnifiedNotions DEF Unified!checkUnsafetyCache
<1>4. /\ Unified!CacheInsert(cexes, x, opts.cex_cache) \in Seq(Counterexamples)
      /\ Unified!Distinct(cexes) /\ (\A i \in DOMAIN cexes : cexes[i] # x)
           => Unified!Distinct(Unified!CacheInsert(cexes, x, opts.cex_cache))
  BY CacheInsertKeeps, OptionTypes DEF CacheTypes
<1> QED
  BY <1>1, <1>2, <1>3, <1>4 DEF GoodReply, CacheTypes, CachesDistinct, Unified!Reply

LEMMA ReplyOfBMC ==
  ASSUME opts \in UnifiedOptions, CacheTypes, NEW S \in SUBSET Gate,
         ~opts.clever_issafe => Unified!checkUnsafetyCache(S) = {},
         NEW reply \in Unified!isSafeBMC(S)
  PROVE  GoodReply(reply, S)
<1>1. PICK x \in Unified!Refuters(S, BMCDepth) : reply \in Unified!UnsafeReplies({x})
  BY DEF Unified!isSafeBMC, Unified!Shortest, Unified!UnsafeReplies
<1>2. x \in Counterexamples /\ Refutes(x, S)
  BY UnifiedNotions DEF Unified!Refuters
<1> QED
  BY <1>1, <1>2, UnsafeReply

LEMMA ReplyOfIC3 ==
  ASSUME opts \in UnifiedOptions, CacheTypes, NEW S \in SUBSET Gate,
         ~opts.clever_issafe => /\ Unified!checkUnsafetyCache(S) = {}
                                /\ Unified!checkSafetyCache(S) = {},
         NEW reply \in Unified!isSafeIC3(S)
  PROVE  GoodReply(reply, S)
<1>1. CASE Safe(S)
  <2>1. PICK p \in Unified!ProofsOver[S], q \in Unified!ProofsOver[S] :
           reply = Unified!Reply(TRUE, p, cexes,
                                 Unified!CacheInsert(proofs, q, opts.proof_cache))
    <3>1. S \in IVCs
      BY <1>1 DEF IVCs
    <3>2. Unified!ShrunkProofs[S] \subseteq Unified!ProofsOver[S]
      BY <3>1, UnifiedNotions DEF Unified!ShrunkProofs
    <3>3. PICK pq \in Unified!ProofsOver[S] \X Unified!ProofsOver[S] :
            reply = Unified!Reply(TRUE, pq[1], cexes,
                                  Unified!CacheInsert(proofs, pq[2], opts.proof_cache))
      <4>1. CASE opts.shrink_cached
        BY <1>1, <3>2, <4>1, UnifiedNotions DEF Unified!isSafeIC3
      <4>2. CASE ~opts.shrink_cached
        <5>1. PICK p \in Unified!ProofsOver[S] :
                reply = Unified!Reply(TRUE, <<p, p>>[1], cexes,
                          Unified!CacheInsert(proofs, <<p, p>>[2], opts.proof_cache))
          BY <1>1, <4>2, UnifiedNotions DEF Unified!isSafeIC3
        <5>2. <<p, p>> \in Unified!ProofsOver[S] \X Unified!ProofsOver[S]
          OBVIOUS
        <5> QED
          BY <5>1, <5>2
      <4> QED
        BY <4>1, <4>2
    <3> QED
      BY <3>3
  <2>2. /\ p \in CachedProof /\ Unified!Proves(p, S)
        /\ q \in CachedProof /\ Unified!Proves(q, S)
    BY <1>1, ProofsOverAreProofs DEF IVCs
  <2>3. ~opts.clever_issafe => \A i \in DOMAIN proofs : proofs[i] # q
    BY <2>2 DEF Unified!checkSafetyCache
  <2>4. /\ Unified!CacheInsert(proofs, q, opts.proof_cache) \in Seq(CachedProof)
        /\ Unified!Distinct(proofs) /\ (\A i \in DOMAIN proofs : proofs[i] # q)
             => Unified!Distinct(Unified!CacheInsert(proofs, q, opts.proof_cache))
    BY <2>2, CacheInsertKeeps, OptionTypes DEF CacheTypes
  <2> QED
    BY <1>1, <2>1, <2>2, <2>3, <2>4
    DEF GoodReply, CacheTypes, CachesDistinct, Unified!Reply
<1>2. CASE ~Safe(S)
  <2>1. PICK x \in Counterexamples : Refutes(x, S) /\ reply \in Unified!UnsafeReplies({x})
    BY <1>2, UnifiedNotions DEF Unified!isSafeIC3, Unified!UnsafeReplies
  <2> QED
    BY <2>1, UnsafeReply
<1> QED
  BY <1>1, <1>2

\* isSafe, when it does check.
LEMMA RepliesAreGood ==
  ASSUME opts \in UnifiedOptions, CacheTypes, Unified!shouldCheckSafety,
         NEW S \in SUBSET Gate, NEW expectSafe \in BOOLEAN,
         NEW reply \in Unified!isSafe(S, expectSafe)
  PROVE  GoodReply(reply, S)
<1>1. opts.clever_issafe \in BOOLEAN
  BY OptionTypes
<1>2. CASE ~opts.clever_issafe
  <2>1. Unified!isSafe(S, expectSafe)
          = Unified!FirstOf(Unified!checkUnsafetyCache(S),
              Unified!FirstOf(Unified!checkSafetyCache(S),
                Unified!FirstOf(Unified!isSafeBMC(S), Unified!isSafeIC3(S))))
    BY <1>2 DEF Unified!isSafe
  <2> QED
    BY <2>1, ReplyOfUnsafetyCache, ReplyOfSafetyCache, ReplyOfBMC, ReplyOfIC3
    DEF Unified!FirstOf
<1>3. CASE opts.clever_issafe
  <2>1. \/ reply \in Unified!checkUnsafetyCache(S)
        \/ reply \in Unified!checkSafetyCache(S)
        \/ reply \in Unified!isSafeBMC(S)
        \/ reply \in Unified!isSafeIC3(S)
    <3>1. CASE expectSafe
      BY <1>3, <3>1 DEF Unified!isSafe, Unified!FirstOf
    <3>2. CASE ~expectSafe
      BY <1>3, <3>2 DEF Unified!isSafe, Unified!FirstOf
    <3> QED
      BY <3>1, <3>2
  <2> QED
    BY <1>3, <2>1, ReplyOfUnsafetyCache, ReplyOfSafetyCache, ReplyOfBMC, ReplyOfIC3
<1> QED
  BY <1>1, <1>2, <1>3

\* With every correction set blocked, isSafe does not check.
LEMMA RepliesUnchecked ==
  ASSUME ~Unified!shouldCheckSafety, NEW S, NEW expectSafe,
         NEW reply \in Unified!isSafe(S, expectSafe)
  PROVE  reply = Unified!Reply(TRUE, Unified!NoProof, cexes, proofs)
BY DEF Unified!isSafe

--------------------------------------------------------------------------------
(* The map and the cores found, in UnifiedIVCFinder and MARCOIVCFinder.       *)

Found == { mivcs[i] : i \in DOMAIN mivcs }
Unexplored == Solutions(Gate, map)

\* No minimal core is lost, no superset of one that was found comes back, and the
\* smallest one found is known.
MapRight ==
  /\ mivcs \in Seq(MIVC)
  /\ \A M \in MIVC : M \in Found \/ M \in Unexplored
  /\ \A F \in Found, S \in Unexplored : ~(F \subseteq S)
  /\ IF Found = {} THEN smallest = {}
     ELSE smallest \in Found /\ \A F \in Found : Cardinality(smallest) <= Cardinality(F)

LEMMA FoundAreCores == MapRight => Found \subseteq MIVC
BY DEF MapRight, Found

\* A seed that contains nothing found is no less than a core to be found.
LEMMA SafeSeedIsNew ==
  ASSUME MapRight, NEW S \in SUBSET Gate, Safe(S), \A F \in Found : ~(F \subseteq S)
  PROVE  \E M \in MIVC : M \subseteq S /\ M \in Unexplored
BY CoreBelow DEF MapRight

\* Unsafe sets are blocked with their subsets.
LEMMA BlockedDown ==
  ASSUME MapRight, NEW new,
         \A cls \in new : \E T \in SUBSET Gate : ~Safe(T) /\ cls = BlockDownClause(Gate, T),
         map' = map \union new, UNCHANGED <<mivcs, smallest>>
  PROVE  MapRight' /\ Unexplored' \subseteq Unexplored /\ Found' = Found
<1>1. Found' = Found
  BY DEF Found
<1>2. Unexplored' \subseteq Unexplored
  BY DEF Unexplored, Solutions
<1>3. ASSUME NEW M \in MIVC, M \in Unexplored
      PROVE  M \in Unexplored'
  <2>1. ASSUME NEW cls \in new
        PROVE  SatisfiesClause(M, cls)
    <3>1. PICK T \in SUBSET Gate : ~Safe(T) /\ cls = BlockDownClause(Gate, T)
      OBVIOUS
    <3>2. ~(M \subseteq T)
      BY <3>1, CoreFacts, SafeMonotone
    <3> QED
      BY <3>1, <3>2, CoreFacts, BlockDownClauseIff
  <2> QED
    BY <1>3, <2>1 DEF Unexplored, Solutions
<1> QED
  BY <1>1, <1>2, <1>3 DEF MapRight

\* A core is blocked with its supersets.
LEMMA BlockedUp ==
  ASSUME MapRight, NEW S \in MIVC, S \notin Found,
         map' = map \union {BlockUpClause(S)},
         mivcs' = Append(mivcs, S),
         smallest' = IF smallest = {} \/ Cardinality(S) < Cardinality(smallest)
                     THEN S ELSE smallest
  PROVE  MapRight' /\ Unexplored' \subseteq Unexplored /\ Found' = Found \union {S}
<1>1. Found' = Found \union {S} /\ mivcs' \in Seq(MIVC)
  BY RangeAppend DEF Found, MapRight
<1>2. Unexplored' = { T \in Unexplored : ~(S \subseteq T) }
  <2>1. Unexplored' = Solutions(Gate, map \union {BlockUpClause(S)})
    BY DEF Unexplored, Solutions
  <2>2. Unexplored' = { T \in Unexplored : SatisfiesClause(T, BlockUpClause(S)) }
    BY <2>1, AddClauseSolutions DEF Unexplored
  <2> QED
    BY <2>2, BlockUpClauseIff
<1>3. ASSUME NEW M \in MIVC
      PROVE  M \in Found' \/ M \in Unexplored'
  <2>1. CASE M = S \/ M \in Found
    BY <1>1, <2>1
  <2>2. CASE M # S /\ M \notin Found
    <3>1. M \in Unexplored
      BY <2>2 DEF MapRight
    <3>2. ~(S \subseteq M)
      BY <2>2, CoresIncomparable, CoreFacts
    <3> QED
      BY <1>2, <3>1, <3>2
  <2> QED
    BY <2>1, <2>2
<1>4. \A F \in Found', T \in Unexplored' : ~(F \subseteq T)
  BY <1>1, <1>2 DEF MapRight
<1>5. smallest' \in Found' /\ \A F \in Found' : Cardinality(smallest') <= Cardinality(F)
  <2>1. \A F \in Found \union {S} : Cardinality(F) \in Nat
    BY FoundAreCores, CoreFacts, GateFinite, Sizes
  <2>2. CASE Found = {}
    BY <1>1, <2>1, <2>2 DEF MapRight
  <2>3. CASE Found # {}
    <3>1. /\ smallest \in Found /\ smallest # {}
          /\ \A F \in Found : Cardinality(smallest) <= Cardinality(F)
      BY <2>3, FoundAreCores, CoreFacts DEF MapRight
    <3> QED
      BY <1>1, <2>1, <3>1
  <2> QED
    BY <2>2, <2>3
<1> QED
  BY <1>1, <1>2, <1>3, <1>4, <1>5 DEF MapRight

\* With nothing left to explore all cores are found, and the smallest is known.
LEMMA AllFound ==
  ASSUME MapRight, Unexplored = {}
  PROVE  Found = MIVC /\ smallest \in SmallestIVC \intersect Found /\ smallest # {}
<1>1. Found = MIVC
  BY FoundAreCores DEF MapRight
<1>2. Found # {}
  <2>1. Gate \in SUBSET Gate /\ Safe(Gate)
    BY ExtremesSafety
  <2> QED
    BY <1>1, <2>1, CoreBelow
<1>3. smallest \in MIVC /\ \A F \in MIVC : Cardinality(smallest) <= Cardinality(F)
  BY <1>1, <1>2 DEF MapRight
<1> QED
  BY <1>1, <1>3, SmallestCore, CoreFacts

--------------------------------------------------------------------------------
(* The invariant of UnifiedIVCFinder.                                         *)

UpOnly == opts.direction_up /\ ~opts.direction_down

UnifiedTypes ==
  /\ opts \in UnifiedOptions
  /\ CacheTypes
  /\ lowerBound \in Nat
  /\ seedCount \in {0, 1}
  /\ mode \in {"max", "min", "arb"}
  /\ seed \in SUBSET Gate
  /\ todo \in SUBSET Gate
  /\ pc \in {"upfront", "unexplored", "check", "core", "shrink", "correct", "grow", "done"}

\* What the second map excludes is found or unsafe.
CheckMapRight ==
  \A S \in SUBSET Gate : Safe(S) /\ (\A F \in Found : ~(F \subseteq S))
                           => \A cls \in checkMap : SatisfiesClause(S, cls)

\* The bound, and the minimum before the end.
BoundRight ==
  /\ \A S \in Unexplored : lowerBound <= Cardinality(S)
  /\ ~opts.direction_up => lowerBound = 0
  /\ pc # "done" /\ ~opts.direction_up => minimum = {}
  /\ pc # "done" /\ UpOnly /\ minimum = {} => Found = {}

\* Without checks the seeds are safe, of least size, and never shrunk.
UncheckedRight ==
  /\ ~Unified!shouldCheckSafety => UpOnly
  /\ ~Unified!shouldCheckSafety /\ pc # "upfront" => \A S \in Unexplored : Safe(S)
  /\ pc \in {"core", "shrink", "correct", "grow"} => Unified!shouldCheckSafety
  /\ UpOnly => pc \notin {"core", "shrink"} /\ (pc = "check" => mode = "min")

\* The work on a seed.
SeedRight ==
  /\ pc \in {"check", "core", "shrink"} => \A F \in Found : ~(F \subseteq seed)
  /\ pc = "check" => seed \in Unexplored
  /\ pc = "check" /\ mode = "min" => /\ seed \in Smallest(Unexplored)
                                     /\ lowerBound = Cardinality(seed)
  /\ pc = "core" => /\ Safe(seed)
                    /\ proof \in CachedProof /\ Unified!Proves(proof, seed)
  /\ pc = "shrink" => /\ Safe(seed)
                      /\ todo \subseteq seed
                      /\ \A g \in seed \ todo : ~Safe(seed \ {g})
  /\ pc \in {"correct", "grow"} => ~Safe(seed)

UnifiedInv ==
  /\ UnifiedTypes
  /\ ~opts.clever_issafe => CachesDistinct
  /\ MapRight
  /\ CheckMapRight
  /\ BoundRight
  /\ UncheckedRight
  /\ SeedRight
  /\ pc = "done" => Unexplored = {}

LEMMA UnifiedSame == Unified!Found = Found /\ Unified!Unexplored = Unexplored
<1>1. Unified!Found = Found
  BY DEF Unified!Found, Found
<1>2. Unified!Unexplored = Unexplored
  BY UnifiedNotions, UnifiedMaps DEF Unified!Unexplored, Unexplored
<1> QED
  BY <1>1, <1>2

\* The hints hold of every minimal core.
LEMMA HintsSound ==
  ASSUME NEW M \in MIVC, NEW cls \in Unified!COIHints
  PROVE  SatisfiesClause(M, cls)
<1>1. PICK g \in Gate \ Outputs : cls = CollapseClause(g, Fanout[g])
  BY UnifiedNotions, UnifiedMaps DEF Unified!COIHints
<1> SUFFICES ASSUME g \in M PROVE M \intersect Fanout[g] # {}
  BY <1>1, CollapseClauseIff
<1>2. M \in IVCs /\ g \in M \ Outputs /\ ~Safe(M \ {g})
  BY <1>1, CoreFacts DEF MIVC
<1> QED
  BY <1>2, ConeOfInfluence

LEMMA UnifiedInitInv == Unified!Init => UnifiedInv
<1> SUFFICES ASSUME Unified!Init PROVE UnifiedInv
  OBVIOUS
<1> USE DEF Unified!Init
<1>1. CacheTypes /\ CachesDistinct
  BY DEF CacheTypes, CachesDistinct, Unified!Distinct
<1>2. UnifiedTypes
  BY <1>1 DEF UnifiedTypes
<1>3. Found = {}
  BY DEF Found
<1>4. MapRight
  <2>1. ASSUME NEW M \in MIVC
        PROVE  M \in Unexplored
    BY HintsSound, CoreFacts DEF Unexplored, Solutions
  <2>2. mivcs \in Seq(MIVC)
    OBVIOUS
  <2> QED
    BY <1>3, <2>1, <2>2 DEF MapRight
<1>5. BoundRight
  <2>1. \A S \in SUBSET Gate : Cardinality(S) \in Nat
    BY GateFinite, Sizes
  <2> QED
    BY <1>3, <2>1 DEF BoundRight, Unexplored, Solutions
<1>6. UncheckedRight
  BY SupportedAssumption, GatesAssumption, OptionTypes
  DEF UncheckedRight, UpOnly, Unified!Supported, Unified!shouldCheckSafety
<1> QED
  BY <1>1, <1>2, <1>3, <1>4, <1>5, <1>6 DEF UnifiedInv, CheckMapRight, SeedRight

--------------------------------------------------------------------------------
(* The steps of UnifiedIVCFinder.                                             *)

\* Steps that work on a seed leave the map and the results.
LEMMA MapsKept ==
  ASSUME UnifiedInv, pc # "done", pc' # "done",
         UNCHANGED <<opts, map, checkMap, mivcs, smallest, minimum, lowerBound>>
  PROVE  /\ Found' = Found
         /\ Unexplored' = Unexplored
         /\ MapRight'
         /\ CheckMapRight'
         /\ BoundRight'
         /\ UpOnly' = UpOnly
         /\ Unified!shouldCheckSafety' = Unified!shouldCheckSafety
<1>1. Found' = Found /\ Unexplored' = Unexplored
  BY DEF Found, Unexplored
<1>2. UpOnly' = UpOnly /\ Unified!shouldCheckSafety' = Unified!shouldCheckSafety
  BY DEF UpOnly, Unified!shouldCheckSafety
<1>3. MapRight' /\ CheckMapRight'
  BY <1>1 DEF UnifiedInv, MapRight, CheckMapRight
<1>4. BoundRight'
  BY <1>1, <1>2 DEF UnifiedInv, BoundRight
<1> QED
  BY <1>1, <1>2, <1>3, <1>4

\* An iteration ends with a core.
LEMMA FinishSafeKeeps ==
  ASSUME UnifiedInv, pc \notin {"upfront", "done"},
         NEW S \in MIVC, S \notin Found, UpOnly => Cardinality(S) = lowerBound,
         Unified!FinishSafe(S),
         CacheTypes', ~opts.clever_issafe => CachesDistinct'
  PROVE  UnifiedInv' /\ Found' = Found \union {S}
<1> USE DEF Unified!FinishSafe, Unified!BlockBoth, Unified!RecordMIVC, Unified!NextIteration
<1>1. MapRight' /\ Unexplored' \subseteq Unexplored /\ Found' = Found \union {S}
  <2>1. map' = map \union {BlockUpClause(S)}
    BY UnifiedMaps
  <2>2. /\ mivcs' = Append(mivcs, S)
        /\ smallest' = IF smallest = {} \/ Cardinality(S) < Cardinality(smallest)
                       THEN S ELSE smallest
    <3>1. \A T : Unified!Cardinality(T) = Cardinality(T)
      BY DEF Unified!Cardinality, Cardinality
    <3> QED
      BY <3>1
  <2> QED
    BY <2>1, <2>2, BlockedUp DEF UnifiedInv
<1>2. UnifiedTypes'
  BY DEF UnifiedInv, UnifiedTypes
<1>3. CheckMapRight'
  <2>1. checkMap' = checkMap \union {BlockUpClause(S)}
    BY UnifiedMaps
  <2> QED
    BY <1>1, <2>1, BlockUpClauseIff DEF UnifiedInv, CheckMapRight
<1>4. BoundRight'
  <2>1. S # {} /\ Cardinality(S) \in Nat /\ Cardinality(S) # 0
    BY CoreFacts, GateFinite, Sizes, FS_Subset, FS_EmptySet
  <2>2. \A T : Unified!Cardinality(T) = Cardinality(T)
    BY DEF Unified!Cardinality, Cardinality
  <2>3. \/ minimum' = minimum /\ ~(minimum = {} /\ Cardinality(S) = lowerBound)
        \/ minimum' = S /\ minimum = {} /\ Cardinality(S) = lowerBound
    BY <2>2
  <2>4. ~opts.direction_up => minimum' = {}
    BY <2>1, <2>3 DEF UnifiedInv, BoundRight
  <2>5. UpOnly => minimum' # {}
    BY <2>1, <2>3
  <2> QED
    BY <1>1, <2>4, <2>5 DEF UnifiedInv, BoundRight, UpOnly
<1>5. UncheckedRight'
  BY <1>1 DEF UnifiedInv, UncheckedRight, UpOnly, Unified!shouldCheckSafety
<1> QED
  BY <1>1, <1>2, <1>3, <1>4, <1>5 DEF UnifiedInv, SeedRight

\* An iteration ends with an unsafe set.
LEMMA FinishUnsafeKeeps ==
  ASSUME UnifiedInv, pc \notin {"upfront", "done"},
         NEW T \in SUBSET Gate, ~Safe(T),
         Unified!FinishUnsafe(T),
         CacheTypes', ~opts.clever_issafe => CachesDistinct'
  PROVE  UnifiedInv'
<1> USE DEF Unified!FinishUnsafe, Unified!BlockBoth, Unified!NextIteration, Unified!resultVars
<1>0. /\ map' = map \union {BlockDownClause(Gate, T)}
      /\ checkMap' = checkMap \union {BlockDownClause(Gate, T)}
  BY UnifiedMaps, UnifiedNotions
<1>1. MapRight' /\ Unexplored' \subseteq Unexplored /\ Found' = Found
  BY <1>0, BlockedDown DEF UnifiedInv
<1>2. UnifiedTypes'
  BY DEF UnifiedInv, UnifiedTypes
<1>3. CheckMapRight'
  BY <1>0, <1>1, BlockDownClauseIff, SafeMonotone DEF UnifiedInv, CheckMapRight
<1>4. BoundRight'
  BY <1>1 DEF UnifiedInv, BoundRight, UpOnly
<1>5. UncheckedRight'
  BY <1>1 DEF UnifiedInv, UncheckedRight, UpOnly, Unified!shouldCheckSafety
<1> QED
  BY <1>1, <1>2, <1>3, <1>4, <1>5 DEF UnifiedInv, SeedRight

\* isSafe's answer is right, and leaves the caches in order.
LEMMA Answered ==
  ASSUME UnifiedInv, NEW S \in SUBSET Gate, NEW expectSafe \in BOOLEAN,
         NEW reply \in Unified!isSafe(S, expectSafe), Unified!SetCaches(reply),
         UNCHANGED opts
  PROVE  /\ CacheTypes' /\ (~opts.clever_issafe => CachesDistinct')
         /\ Unified!shouldCheckSafety =>
              /\ reply.safe <=> Safe(S)
              /\ reply.safe => reply.proof \in CachedProof /\ Unified!Proves(reply.proof, S)
         /\ ~reply.safe => Unified!shouldCheckSafety
<1> USE DEF Unified!SetCaches
<1>1. CASE Unified!shouldCheckSafety
  <2>1. GoodReply(reply, S)
    BY <1>1, RepliesAreGood DEF UnifiedInv, UnifiedTypes
  <2> QED
    BY <1>1, <2>1 DEF GoodReply, CacheTypes, CachesDistinct, UnifiedInv
<1>2. CASE ~Unified!shouldCheckSafety
  <2>1. reply = Unified!Reply(TRUE, Unified!NoProof, cexes, proofs)
    BY <1>2, RepliesUnchecked
  <2> QED
    BY <1>2, <2>1
    DEF Unified!Reply, CacheTypes, CachesDistinct, UnifiedInv, UnifiedTypes
<1> QED
  BY <1>1, <1>2

\* Every correction set found beforehand leaves an unsafe set.
LEMMA FindMCSesUpfrontKeeps ==
  ASSUME UnifiedInv, Unified!FindMCSesUpfront
  PROVE  UnifiedInv'
<1> USE DEF Unified!FindMCSesUpfront
<1> DEFINE blocked == { BlockDownClause(Gate, Gate \ C) : C \in corrBlocked' }
<1>1. map' = map \union blocked /\ checkMap' = checkMap \union blocked
  BY UnifiedNotions, UnifiedMaps
<1>2. ASSUME NEW C \in corrBlocked'
      PROVE  C \in SUBSET Gate /\ Corrects(C)
  BY UnifiedNotions, UnifiedMaps DEF Unified!Batches, MCS
<1>3. ASSUME NEW cls \in blocked
      PROVE  \E T \in SUBSET Gate : ~Safe(T) /\ cls = BlockDownClause(Gate, T)
  <2>1. PICK C \in corrBlocked' : cls = BlockDownClause(Gate, Gate \ C)
    OBVIOUS
  <2> QED
    BY <1>2, <2>1 DEF Corrects
<1> HIDE DEF blocked
<1>4. MapRight' /\ Unexplored' \subseteq Unexplored /\ Found' = Found
  BY <1>1, <1>3, BlockedDown DEF UnifiedInv, Unified!resultVars
<1>5. CheckMapRight'
  <2>1. ASSUME NEW S \in SUBSET Gate, Safe(S), NEW cls \in blocked
        PROVE  SatisfiesClause(S, cls)
    BY <1>3, <2>1, BlockDownClauseIff, SafeMonotone
  <2> QED
    BY <1>1, <1>4, <2>1 DEF UnifiedInv, CheckMapRight
<1>6. ASSUME ~Unified!shouldCheckSafety, NEW S \in Unexplored'
      PROVE  Safe(S)
  <2> SUFFICES ASSUME ~Safe(S) PROVE FALSE
    OBVIOUS
  <2>1. S \in SUBSET Gate /\ \A cls \in blocked : SatisfiesClause(S, cls)
    BY <1>1 DEF Unexplored, Solutions
  <2>2. PICK C \in MCS : C \subseteq Gate \ S
    BY <2>1, UnsafeIff, CorrectionBelow
  <2>3. C \in corrBlocked'
    <3>1. opts.mcs_finder = "basic" /\ opts.upfront_nmax >= NumGates
      BY <1>6, SupportedAssumption, GatesAssumption, OptionTypes
      DEF Unified!Supported, Unified!shouldCheckSafety, UnifiedInv, UnifiedTypes
    <3>2. Cardinality(C) <= NumGates /\ Cardinality(C) \in Nat
      <4>1. Cardinality(Gate) = NumGates
        BY GatesAssumption, FS_Interval DEF Gate
      <4>2. C \in SUBSET Gate
        BY DEF MCS
      <4> QED
        BY <4>1, <4>2, GateFinite, Sizes
    <3>3. Cardinality(C) <= opts.upfront_nmax
      BY <3>1, <3>2, GatesAssumption, OptionTypes DEF UnifiedInv, UnifiedTypes
    <3>4. Unified!Cardinality(C) = Cardinality(C)
      BY DEF Unified!Cardinality, Cardinality
    <3> QED
      BY <3>1, <3>3, <3>4, UnifiedMaps DEF Unified!Batches
  <2>4. SatisfiesClause(S, BlockDownClause(Gate, Gate \ C))
    BY <2>1, <2>3 DEF blocked
  <2> QED
    BY <2>1, <2>2, <2>4, BlockDownClauseIff
<1>7. UnifiedTypes'
  BY DEF UnifiedInv, UnifiedTypes, Unified!cacheVars, Unified!workVars, CacheTypes
<1>8. BoundRight'
  BY <1>4 DEF UnifiedInv, BoundRight, UpOnly, Unified!resultVars
<1>9. UncheckedRight'
  BY <1>6 DEF UnifiedInv, UncheckedRight, UpOnly, Unified!shouldCheckSafety
<1>10. CachesDistinct' = CachesDistinct
  BY DEF CachesDistinct, Unified!cacheVars
<1> QED
  BY <1>4, <1>5, <1>7, <1>8, <1>9, <1>10 DEF UnifiedInv, SeedRight

\* A seed is unexplored, and one asked for with least size has it.
LEMMA NextSeedKeeps ==
  ASSUME UnifiedInv, Unified!NextSeed
  PROVE  UnifiedInv'
<1> USE DEF Unified!NextSeed, Unified!cacheVars, Unified!resultVars
<1>1. /\ mode' \in {"max", "min", "arb"}
      /\ UpOnly => mode' = "min"
      /\ mode' = "min" => opts.direction_up
  BY OptionTypes DEF Unified!NextMode, UpOnly, UnifiedInv, UnifiedTypes
<1>2. seed' \in Unexplored
  BY UnifiedSame
  DEF Unified!Seeds, Unified!findMaximalSeed, Unified!findMinimalSeed,
      Unified!findSeed,
      Unified!Largest, Unified!Smallest
<1>3. mode' = "min" => seed' \in Smallest(Unexplored)
  BY UnifiedSame, UnifiedMaps DEF Unified!Seeds, Unified!findMinimalSeed
<1>4. seed' \in SUBSET Gate /\ Cardinality(seed') \in Nat
  BY <1>2, GateFinite, Sizes DEF Unexplored, Solutions
<1>5. lowerBound' = IF mode' = "min" THEN Cardinality(seed') ELSE lowerBound
  <2>1. Unified!Cardinality(seed') = Cardinality(seed')
    BY DEF Unified!Cardinality, Cardinality
  <2> QED
    BY <2>1
<1>6. Found' = Found /\ Unexplored' = Unexplored /\ UpOnly' = UpOnly
  BY DEF Found, Unexplored, UpOnly
<1>7. MapRight' /\ CheckMapRight'
  BY <1>6 DEF UnifiedInv, MapRight, CheckMapRight
<1>8. UnifiedTypes'
  BY <1>1, <1>4, <1>5 DEF UnifiedInv, UnifiedTypes, CacheTypes
<1>9. BoundRight'
  BY <1>1, <1>3, <1>5, <1>6 DEF UnifiedInv, BoundRight, Smallest
<1>10. UncheckedRight'
  BY <1>1, <1>6 DEF UnifiedInv, UncheckedRight, Unified!shouldCheckSafety
<1>11. SeedRight'
  BY <1>2, <1>3, <1>5, <1>6 DEF UnifiedInv, SeedRight, MapRight
<1>12. CachesDistinct' = CachesDistinct
  BY DEF CachesDistinct
<1> QED
  BY <1>7, <1>8, <1>9, <1>10, <1>11, <1>12 DEF UnifiedInv

LEMMA MapExhaustedKeeps ==
  ASSUME UnifiedInv, Unified!MapExhausted
  PROVE  UnifiedInv'
<1> USE DEF Unified!MapExhausted, Unified!cacheVars, Unified!workVars
<1>1. Found' = Found /\ Unexplored' = Unexplored /\ UpOnly' = UpOnly /\ Unexplored = {}
  BY UnifiedSame DEF Found, Unexplored, UpOnly
<1>2. MapRight' /\ CheckMapRight'
  BY <1>1 DEF UnifiedInv, MapRight, CheckMapRight
<1>3. UnifiedTypes'
  BY DEF UnifiedInv, UnifiedTypes, CacheTypes
<1>4. BoundRight'
  BY <1>1 DEF UnifiedInv, BoundRight
<1>5. UncheckedRight' /\ SeedRight'
  BY <1>1 DEF UnifiedInv, UncheckedRight, SeedRight, Unified!shouldCheckSafety
<1>6. CachesDistinct' = CachesDistinct
  BY DEF CachesDistinct
<1> QED
  BY <1>1, <1>2, <1>3, <1>4, <1>5, <1>6 DEF UnifiedInv

\* A safe seed of least size is a core.
LEMMA MinimalSeedIsCore ==
  ASSUME UnifiedInv, pc = "check", mode = "min", Safe(seed)
  PROVE  seed \in MIVC /\ seed \notin Found
<1>1. seed \in SUBSET Gate /\ seed \in Smallest(Unexplored) /\ \A F \in Found : ~(F \subseteq seed)
  BY DEF UnifiedInv, UnifiedTypes, SeedRight
<1>2. PICK M \in MIVC : M \subseteq seed /\ M \in Unexplored
  BY <1>1, SafeSeedIsNew DEF UnifiedInv
<1>3. Cardinality(seed) <= Cardinality(M)
  BY <1>1, <1>2 DEF Smallest
<1>4. M = seed
  BY <1>1, <1>2, <1>3, GateFinite, Sizes
<1> QED
  BY <1>1, <1>2, <1>4

LEMMA SafeMinimalSeedKeeps ==
  ASSUME UnifiedInv, Unified!SafeMinimalSeed
  PROVE  UnifiedInv' /\ seed \in MIVC /\ seed \notin Found
<1> USE DEF Unified!SafeMinimalSeed
<1>1. PICK reply \in Unified!isSafe(seed, FALSE) : reply.safe /\ Unified!SetCaches(reply)
  OBVIOUS
<1>2. seed \in SUBSET Gate /\ UNCHANGED opts
  BY DEF UnifiedInv, UnifiedTypes, Unified!FinishSafe
<1>3. /\ CacheTypes' /\ (~opts.clever_issafe => CachesDistinct')
      /\ Unified!shouldCheckSafety => Safe(seed)
  BY <1>1, <1>2, Answered
<1>4. Safe(seed)
  BY <1>3 DEF UnifiedInv, UncheckedRight, SeedRight
<1>5. seed \in MIVC /\ seed \notin Found
  BY <1>4, MinimalSeedIsCore
<1>6. lowerBound = Cardinality(seed)
  BY DEF UnifiedInv, SeedRight
<1> QED
  BY <1>3, <1>5, <1>6, FinishSafeKeeps

\* Any other safe seed is shrunk, with the proof that makes it safe.
LEMMA SafeSeedKeeps ==
  ASSUME UnifiedInv, Unified!SafeSeed
  PROVE  UnifiedInv'
<1> USE DEF Unified!SafeSeed, Unified!mapVars, Unified!resultVars
<1>1. PICK reply \in Unified!isSafe(seed, mode = "max") :
        /\ reply.safe
        /\ Unified!SetCaches(reply)
        /\ proof' = IF opts.skip_uc THEN Unified!NoProof ELSE reply.proof
  OBVIOUS
<1>2. seed \in SUBSET Gate /\ (mode = "max") \in BOOLEAN
  BY DEF UnifiedInv, UnifiedTypes
<1>3. Unified!shouldCheckSafety /\ ~UpOnly
  BY DEF UnifiedInv, UncheckedRight
<1>4. /\ CacheTypes' /\ (~opts.clever_issafe => CachesDistinct')
      /\ Safe(seed) /\ reply.proof \in CachedProof /\ Unified!Proves(reply.proof, seed)
  BY <1>1, <1>2, <1>3, Answered
<1>5. /\ Found' = Found /\ Unexplored' = Unexplored
      /\ MapRight' /\ CheckMapRight' /\ BoundRight'
      /\ UpOnly' = UpOnly /\ Unified!shouldCheckSafety' = Unified!shouldCheckSafety
  BY MapsKept
<1>6. UnifiedTypes'
  BY <1>4 DEF UnifiedInv, UnifiedTypes
<1>7. UncheckedRight'
  BY <1>3, <1>5 DEF UnifiedInv, UncheckedRight
<1>8. SeedRight'
  <2>1. pc' = "core" => proof' = reply.proof
    BY <1>1
  <2>2. pc' = "core" => proof' \in CachedProof /\ Unified!Proves(proof', seed')
    BY <1>4, <2>1
  <2>3. pc' = "core" => proof' \in CachedProof /\ Unified!Proves(proof, seed)'
    BY <2>2 DEF Unified!Proves, Unified!Inductive
  <2>4. Safe(seed)' /\ CachedProof' = CachedProof
    BY <1>4 DEF Safe, Refutes
  <2> QED
    BY <1>5, <2>3, <2>4 DEF UnifiedInv, SeedRight
<1> QED
  BY <1>4, <1>5, <1>6, <1>7, <1>8 DEF UnifiedInv

\* An unsafe seed of greatest size is blocked.
LEMMA UnsafeMaximalSeedKeeps ==
  ASSUME UnifiedInv, Unified!UnsafeMaximalSeed
  PROVE  UnifiedInv'
<1> USE DEF Unified!UnsafeMaximalSeed
<1>1. PICK reply \in Unified!isSafe(seed, TRUE) : ~reply.safe /\ Unified!SetCaches(reply)
  OBVIOUS
<1>2. seed \in SUBSET Gate /\ UNCHANGED opts
  BY DEF UnifiedInv, UnifiedTypes, Unified!FinishUnsafe
<1>3. CacheTypes' /\ (~opts.clever_issafe => CachesDistinct') /\ ~Safe(seed)
  BY <1>1, <1>2, Answered
<1> QED
  BY <1>2, <1>3, FinishUnsafeKeeps

\* Any other unsafe seed is grown.
LEMMA UnsafeSeedKeeps ==
  ASSUME UnifiedInv, Unified!UnsafeSeed
  PROVE  UnifiedInv'
<1> USE DEF Unified!UnsafeSeed, Unified!mapVars, Unified!resultVars
<1>1. PICK reply \in Unified!isSafe(seed, FALSE) : ~reply.safe /\ Unified!SetCaches(reply)
  OBVIOUS
<1>2. seed \in SUBSET Gate
  BY DEF UnifiedInv, UnifiedTypes
<1>3. /\ CacheTypes' /\ (~opts.clever_issafe => CachesDistinct')
      /\ ~Safe(seed) /\ Unified!shouldCheckSafety
  BY <1>1, <1>2, Answered
<1>4. /\ Found' = Found /\ Unexplored' = Unexplored
      /\ MapRight' /\ CheckMapRight' /\ BoundRight'
      /\ UpOnly' = UpOnly /\ Unified!shouldCheckSafety' = Unified!shouldCheckSafety
  BY MapsKept
<1>5. UnifiedTypes'
  BY <1>3, UnifiedNotions DEF UnifiedInv, UnifiedTypes
<1>6. UncheckedRight'
  BY <1>3, <1>4 DEF UnifiedInv, UncheckedRight
<1>7. SeedRight'
  BY <1>3, <1>4 DEF UnifiedInv, SeedRight, Safe, Refutes
<1> QED
  BY <1>3, <1>4, <1>5, <1>6, <1>7 DEF UnifiedInv

\* The part of the seed that a proof needs is safe as well.
LEMMA ShrinkUCKeeps ==
  ASSUME UnifiedInv, Unified!ShrinkUC
  PROVE  UnifiedInv'
<1> USE DEF Unified!ShrinkUC, Unified!mapVars, Unified!resultVars, Unified!cacheVars
<1>1. /\ seed \in SUBSET Gate /\ Safe(seed) /\ proof \in CachedProof
      /\ \A F \in Found : ~(F \subseteq seed)
  BY DEF UnifiedInv, UnifiedTypes, SeedRight
<1>2. seed' \in SUBSET seed /\ Safe(seed')
  <2>1. CASE seed' = seed
    BY <1>1, <2>1
  <2>2. CASE seed' \in SUBSET seed /\ Unified!Proves(proof, seed')
    BY <1>1, <2>2, ProofMeansSafe
  <2> QED
    BY <2>1, <2>2
<1>3. /\ Found' = Found /\ Unexplored' = Unexplored
      /\ MapRight' /\ CheckMapRight' /\ BoundRight'
      /\ UpOnly' = UpOnly /\ Unified!shouldCheckSafety' = Unified!shouldCheckSafety
  BY MapsKept
<1>4. UnifiedTypes'
  BY <1>1, <1>2 DEF UnifiedInv, UnifiedTypes, CacheTypes
<1>5. UncheckedRight'
  BY <1>3 DEF UnifiedInv, UncheckedRight
<1>6. SeedRight'
  <2>1. Safe(seed)'
    BY <1>2 DEF Safe, Refutes
  <2>2. \A F \in Found' : ~(F \subseteq seed')
    BY <1>1, <1>2, <1>3
  <2> QED
    BY <1>3, <2>1, <2>2 DEF UnifiedInv, SeedRight
<1>7. CachesDistinct' = CachesDistinct
  BY DEF CachesDistinct
<1> QED
  BY <1>3, <1>4, <1>5, <1>6, <1>7 DEF UnifiedInv

\* What one round of shrink's loop needs to keep.
LEMMA ShrinkRoundKeeps ==
  ASSUME UnifiedInv, pc = "shrink", pc' = "shrink",
         UNCHANGED <<opts, Unified!mapVars, Unified!resultVars, lowerBound, mode, proof>>,
         NEW g \in todo, todo' = todo \ {g},
         \/ seed' = seed /\ ~Safe(seed \ {g})
         \/ seed' = seed \ {g} /\ Safe(seed \ {g}),
         CacheTypes', ~opts.clever_issafe => CachesDistinct'
  PROVE  UnifiedInv'
<1> USE DEF Unified!mapVars, Unified!resultVars
<1>1. /\ Found' = Found /\ Unexplored' = Unexplored
      /\ MapRight' /\ CheckMapRight' /\ BoundRight'
      /\ UpOnly' = UpOnly /\ Unified!shouldCheckSafety' = Unified!shouldCheckSafety
  BY MapsKept
<1>2. /\ seed \in SUBSET Gate /\ Safe(seed) /\ todo \subseteq seed
      /\ \A h \in seed \ todo : ~Safe(seed \ {h})
      /\ \A F \in Found : ~(F \subseteq seed)
  BY DEF UnifiedInv, UnifiedTypes, SeedRight
<1>3. seed' \in SUBSET seed /\ Safe(seed') /\ todo' \subseteq seed'
  BY <1>2
<1>4. ASSUME NEW h \in seed' \ todo'
      PROVE  ~Safe(seed' \ {h})
  <2>1. CASE h = g
    BY <1>4, <2>1
  <2>2. CASE h # g
    <3>1. ~Safe(seed \ {h}) /\ seed' \ {h} \subseteq seed \ {h}
      BY <1>2, <1>3, <1>4, <2>2
    <3> QED
      BY <3>1, SafeMonotone
  <2> QED
    BY <2>1, <2>2
<1>5. UnifiedTypes'
  BY <1>2, <1>3 DEF UnifiedInv, UnifiedTypes
<1>6. UncheckedRight'
  BY <1>1 DEF UnifiedInv, UncheckedRight
<1>7. SeedRight'
  <2>1. Safe(seed)' /\ \A h \in seed' \ todo' : ~Safe(seed \ {h})'
    BY <1>3, <1>4 DEF Safe, Refutes
  <2>2. \A F \in Found' : ~(F \subseteq seed')
    BY <1>1, <1>2, <1>3
  <2> QED
    BY <1>1, <1>3, <2>1, <2>2 DEF SeedRight
<1> QED
  BY <1>1, <1>5, <1>6, <1>7 DEF UnifiedInv

\* The gate that the second map keeps is needed.
LEMMA KnownUnsafeIsUnsafe ==
  ASSUME UnifiedInv, pc = "shrink", NEW S \in SUBSET seed, Unified!KnownUnsafe(S)
  PROVE  ~Safe(S)
<1>1. S \in SUBSET Gate /\ \A F \in Found : ~(F \subseteq S)
  BY DEF UnifiedInv, UnifiedTypes, SeedRight
<1>2. \E cls \in checkMap : ~SatisfiesClause(S, cls)
  BY UnifiedMaps DEF Unified!KnownUnsafe, Unified!checkSeed
<1> QED
  BY <1>1, <1>2 DEF UnifiedInv, CheckMapRight

LEMMA ShrinkKeepsByMapKeeps ==
  ASSUME UnifiedInv, Unified!ShrinkKeepsByMap
  PROVE  UnifiedInv'
<1> USE DEF Unified!ShrinkKeepsByMap, Unified!cacheVars
<1>1. PICK g \in Unified!NextInSeed : Unified!KnownUnsafe(seed \ {g}) /\ todo' = todo \ {g}
  OBVIOUS
<1>2. g \in todo
  BY DEF Unified!NextInSeed
<1>3. ~Safe(seed \ {g})
  BY <1>1, KnownUnsafeIsUnsafe
<1>4. CacheTypes' /\ (~opts.clever_issafe => CachesDistinct')
  BY DEF UnifiedInv, UnifiedTypes, CacheTypes, CachesDistinct
<1> QED
  BY <1>1, <1>2, <1>3, <1>4, ShrinkRoundKeeps

LEMMA ShrinkStepKeeps ==
  ASSUME UnifiedInv, Unified!ShrinkStep
  PROVE  UnifiedInv'
<1> USE DEF Unified!ShrinkStep
<1>0. PICK g \in Unified!NextInSeed :
        /\ \E reply \in Unified!isSafe(seed \ {g}, TRUE) :
             /\ seed' = IF reply.safe THEN seed \ {g} ELSE seed
             /\ Unified!SetCaches(reply)
        /\ todo' = todo \ {g}
  OBVIOUS
<1>1. PICK reply \in Unified!isSafe(seed \ {g}, TRUE) :
        /\ seed' = IF reply.safe THEN seed \ {g} ELSE seed
        /\ Unified!SetCaches(reply)
  BY <1>0
<1>2. g \in todo
  BY DEF Unified!NextInSeed
<1>3. seed \ {g} \in SUBSET Gate /\ Unified!shouldCheckSafety
  BY DEF UnifiedInv, UnifiedTypes, UncheckedRight
<1>4. /\ CacheTypes' /\ (~opts.clever_issafe => CachesDistinct')
      /\ reply.safe <=> Safe(seed \ {g})
  BY <1>1, <1>3, Answered
<1> QED
  BY <1>0, <1>1, <1>2, <1>4, ShrinkRoundKeeps

\* What is left of the seed is a core that was not found before.
LEMMA ShrunkIsCore ==
  ASSUME UnifiedInv, pc = "shrink", todo = {}
  PROVE  seed \in MIVC /\ seed \notin Found /\ ~UpOnly
<1>1. /\ seed \in SUBSET Gate /\ Safe(seed) /\ \A g \in seed : ~Safe(seed \ {g})
      /\ \A F \in Found : ~(F \subseteq seed)
      /\ ~UpOnly
  BY DEF UnifiedInv, UnifiedTypes, SeedRight, UncheckedRight
<1> QED
  BY <1>1, CoreIff

LEMMA ShrinkDoneKeeps ==
  ASSUME UnifiedInv, Unified!ShrinkDone
  PROVE  UnifiedInv' /\ seed \in MIVC /\ seed \notin Found
<1> USE DEF Unified!ShrinkDone, Unified!cacheVars
<1>1. seed \in MIVC /\ seed \notin Found /\ ~UpOnly
  BY ShrunkIsCore
<1>2. CacheTypes' /\ (~opts.clever_issafe => CachesDistinct')
  BY DEF UnifiedInv, UnifiedTypes, CacheTypes, CachesDistinct
<1> QED
  BY <1>1, <1>2, FinishSafeKeeps

\* A correction set leaves an unsafe set.
LEMMA GrowByMCSKeeps ==
  ASSUME UnifiedInv, Unified!GrowByMCS
  PROVE  UnifiedInv'
<1> USE DEF Unified!GrowByMCS, Unified!cacheVars
<1>1. PICK C \in Unified!NextCorrectionSets(Gate \ seed) : Unified!FinishUnsafe(Gate \ C)
  BY UnifiedNotions
<1>2. C \in SUBSET Gate /\ Corrects(C)
  BY UnifiedMaps DEF Unified!NextCorrectionSets, Unified!Smallest
<1>3. CacheTypes' /\ (~opts.clever_issafe => CachesDistinct')
  BY <1>1
  DEF UnifiedInv, UnifiedTypes, CacheTypes, CachesDistinct, Unified!FinishUnsafe
<1> QED
  BY <1>1, <1>2, <1>3, FinishUnsafeKeeps DEF Corrects

LEMMA GrowStepKeeps ==
  ASSUME UnifiedInv, Unified!GrowStep
  PROVE  UnifiedInv'
<1> USE DEF Unified!GrowStep, Unified!mapVars, Unified!resultVars, Unified!cacheVars
<1>1. PICK g \in Unified!NextToGrow :
        /\ IF Unified!KnownUnsafe(seed \union {g})
           THEN UNCHANGED <<seed, Unified!cacheVars>>
           ELSE \E reply \in Unified!isSafe(seed \union {g}, FALSE) :
                  /\ seed' = IF reply.safe THEN seed ELSE seed \union {g}
                  /\ Unified!SetCaches(reply)
        /\ todo' = todo \ {g}
  OBVIOUS
<1>2. /\ seed \in SUBSET Gate /\ g \in Gate /\ ~Safe(seed) /\ Unified!shouldCheckSafety
      /\ CacheTypes
  BY DEF UnifiedInv, UnifiedTypes, SeedRight, UncheckedRight, Unified!NextToGrow
<1>3. /\ seed' \in SUBSET Gate /\ ~Safe(seed')
      /\ CacheTypes' /\ (~opts.clever_issafe => CachesDistinct')
  <2>1. CASE UNCHANGED <<seed, cexes, proofs>>
    BY <1>2, <2>1 DEF UnifiedInv, CacheTypes, CachesDistinct
  <2>2. ASSUME NEW reply \in Unified!isSafe(seed \union {g}, FALSE),
               seed' = IF reply.safe THEN seed ELSE seed \union {g},
               Unified!SetCaches(reply)
        PROVE  /\ seed' \in SUBSET Gate /\ ~Safe(seed')
               /\ CacheTypes' /\ (~opts.clever_issafe => CachesDistinct')
    <3>1. seed \union {g} \in SUBSET Gate
      BY <1>2
    <3>2. /\ CacheTypes' /\ (~opts.clever_issafe => CachesDistinct')
          /\ reply.safe <=> Safe(seed \union {g})
      BY <1>2, <2>2, <3>1, Answered
    <3> QED
      BY <1>2, <2>2, <3>1, <3>2
  <2> QED
    BY <1>1, <2>1, <2>2
<1>4. /\ Found' = Found /\ Unexplored' = Unexplored
      /\ MapRight' /\ CheckMapRight' /\ BoundRight'
      /\ UpOnly' = UpOnly /\ Unified!shouldCheckSafety' = Unified!shouldCheckSafety
  BY MapsKept
<1>5. UnifiedTypes'
  BY <1>3 DEF UnifiedInv, UnifiedTypes
<1>6. UncheckedRight'
  BY <1>4 DEF UnifiedInv, UncheckedRight
<1>7. SeedRight'
  BY <1>3 DEF SeedRight, Safe, Refutes
<1> QED
  BY <1>3, <1>4, <1>5, <1>6, <1>7 DEF UnifiedInv

LEMMA GrowDoneKeeps ==
  ASSUME UnifiedInv, Unified!GrowDone
  PROVE  UnifiedInv'
<1> USE DEF Unified!GrowDone, Unified!cacheVars
<1>1. seed \in SUBSET Gate /\ ~Safe(seed)
  BY DEF UnifiedInv, UnifiedTypes, SeedRight
<1>2. CacheTypes' /\ (~opts.clever_issafe => CachesDistinct')
  BY DEF UnifiedInv, UnifiedTypes, CacheTypes, CachesDistinct
<1> QED
  BY <1>1, <1>2, FinishUnsafeKeeps

LEMMA UnifiedNextInv ==
  ASSUME UnifiedInv, Unified!Next
  PROVE  UnifiedInv'
BY FindMCSesUpfrontKeeps, NextSeedKeeps, MapExhaustedKeeps, SafeMinimalSeedKeeps,
   SafeSeedKeeps, UnsafeMaximalSeedKeeps, UnsafeSeedKeeps, ShrinkUCKeeps,
   ShrinkKeepsByMapKeeps, ShrinkStepKeeps, ShrinkDoneKeeps, GrowByMCSKeeps, GrowStepKeeps,
   GrowDoneKeeps
DEF Unified!Next

\* When nothing changes, the invariant stays.
LEMMA UnifiedStutter ==
  ASSUME UnifiedInv, UNCHANGED <<opts, mivcs, minimum, todo, pc, map, smallest, seed, unifiedVars>>
  PROVE  UnifiedInv'
<1> USE DEF unifiedVars
<1>1. Found' = Found /\ Unexplored' = Unexplored /\ UpOnly' = UpOnly
  BY DEF Found, Unexplored, UpOnly
<1>2. UnifiedTypes' /\ CachesDistinct' = CachesDistinct
  BY DEF UnifiedInv, UnifiedTypes, CacheTypes, CachesDistinct
<1>3. MapRight' /\ CheckMapRight' /\ BoundRight'
  BY <1>1 DEF UnifiedInv, MapRight, CheckMapRight, BoundRight
<1>4. UncheckedRight'
  BY <1>1 DEF UnifiedInv, UncheckedRight, Unified!shouldCheckSafety
<1>5. SeedRight'
  <2>1. Unified!Proves(proof, seed)' = Unified!Proves(proof, seed)
    BY DEF Unified!Proves, Unified!Inductive
  <2> QED
    BY <1>1, <2>1 DEF UnifiedInv, SeedRight, Safe, Refutes
<1> QED
  BY <1>1, <1>2, <1>3, <1>4, <1>5 DEF UnifiedInv

--------------------------------------------------------------------------------
(* MARCOIVCFinder, IVCBFFinder and IVCUCBFFinder.                             *)

LEMMA SeedNotions ==
  /\ Seeds!Gate = Gate
  /\ \A S : Seeds!Safe(S) <=> Safe(S)
  /\ Seeds!Unexplored = Unexplored
  /\ \A F : Seeds!Largest(F) = Largest(F)
  /\ \A S : Seeds!BlockUpClause(S) = BlockUpClause(S)
  /\ \A S : Seeds!BlockDownClause(Gate, S) = BlockDownClause(Gate, S)
<1>1. Seeds!Gate = Gate
  BY DEF Seeds!Gate, Gate
<1>2. \A S : Seeds!Safe(S) <=> Safe(S)
  BY DEF Seeds!Safe, Safe, Seeds!Refutes, Refutes
<1>3. Seeds!Unexplored = Unexplored
  <2>1. \A S, cls : Seeds!SatisfiesClause(S, cls) <=> SatisfiesClause(S, cls)
    BY DEF Seeds!SatisfiesClause, SatisfiesClause
  <2> QED
    BY <1>1, <2>1 DEF Seeds!Unexplored, Unexplored, Seeds!Solutions, Solutions
<1>4. \A F : Seeds!Largest(F) = Largest(F)
  <2>1. \A S : Seeds!Cardinality(S) = Cardinality(S)
    BY DEF Seeds!Cardinality, Cardinality
  <2> QED
    BY <2>1 DEF Seeds!Largest, Largest
<1>5. \A S : /\ Seeds!BlockUpClause(S) = BlockUpClause(S)
             /\ Seeds!BlockDownClause(Gate, S) = BlockDownClause(Gate, S)
  BY DEF Seeds!BlockUpClause, BlockUpClause, Seeds!BlockDownClause, BlockDownClause
<1> QED
  BY <1>1, <1>2, <1>3, <1>4, <1>5

Marco == opts.finder = "marcoivc"

\* The seeds that the hints leave.
Hinted == Solutions(Gate, Seeds!ExploreHints(opts))

SeedTypes ==
  /\ opts \in SeedOptions
  /\ seed \in SUBSET Gate
  /\ todo \in SUBSET Gate
  /\ pc \in {"whole", "unexplored", "blockDown", "core", "shrink", "done"}

\* IVCBFFinder and IVCUCBFFinder report one core in the end.
ResultsRight ==
  /\ Marco => MapRight
  /\ ~Marco => mivcs \in Seq(MIVC) /\ (pc # "done" => mivcs = <<>>)
  /\ ~Marco \/ pc # "done" => minimum = {}
  /\ Marco /\ pc = "done" => Unexplored = {}

\* As long as the empty seed is unexplored, no unsafe seed has been blocked.
EmptySeedRight ==
  Marco /\ {} \in Unexplored =>
    \A S \in Hinted : (\A F \in Found : ~(F \subseteq S)) => S \in Unexplored

SeedsInv ==
  /\ SeedTypes
  /\ ResultsRight
  /\ EmptySeedRight
  /\ pc \in {"unexplored", "blockDown"} => Marco
  /\ pc = "whole" => ~Marco
  /\ pc = "blockDown" => ~Safe(seed) /\ seed \in Largest(Unexplored)
  /\ pc \in {"core", "shrink"} => Safe(seed) /\ (Marco => \A F \in Found : ~(F \subseteq seed))
  /\ pc = "shrink" => /\ todo \subseteq seed
                      /\ \A g \in seed \ todo : ~Safe(seed \ {g})

\* MARCOIVCFinder's hints are right when the outputs that they do not except feed no
\* gates.
HintsFit ==
  \A o \in SeedOptions :
    o.finder = "marcoivc" /\ (o.basic_hints \/ o.complex_hints)
      => \A g \in Outputs : Fanout[g] = {}

\* The empty seed comes last if some other seed that is allowed is not safe.
UnsafeSeedsExist ==
  \A o \in SeedOptions :
    o.finder = "marcoivc"
      => \E S \in Solutions(Gate, Seeds!ExploreHints(o)) : S # {} /\ ~Safe(S)

LEMMA ExploreHintsSound ==
  ASSUME HintsFit, NEW o \in SeedOptions, o.finder = "marcoivc",
         NEW M \in MIVC, NEW cls \in Seeds!ExploreHints(o)
  PROVE  SatisfiesClause(M, cls)
<1>1. PICK g \in Gate :
        /\ cls = CollapseClause(g, Fanout[g])
        /\ Fanout[g] # {} /\ (o.basic_hints \/ o.complex_hints)
  <2>1. PICK g \in Gate :
          /\ cls = Seeds!CollapseClause(g, Fanout[g])
          /\ \/ Seeds!Cardinality(Fanout[g]) = 1 /\ o.basic_hints
             \/ Fanout[g] # {} /\ o.complex_hints
    BY SeedNotions DEF Seeds!ExploreHints
  <2>2. Seeds!CollapseClause(g, Fanout[g]) = CollapseClause(g, Fanout[g])
    BY DEF Seeds!CollapseClause, CollapseClause
  <2>3. Seeds!Cardinality(Fanout[g]) = Cardinality(Fanout[g])
    BY DEF Seeds!Cardinality, Cardinality
  <2>4. Cardinality(Fanout[g]) = 1 => Fanout[g] # {}
    BY FS_EmptySet
  <2> QED
    BY <2>1, <2>2, <2>3, <2>4
<1> SUFFICES ASSUME g \in M PROVE M \intersect Fanout[g] # {}
  BY <1>1, CollapseClauseIff
<1>2. g \notin Outputs
  BY <1>1 DEF HintsFit
<1>3. M \in IVCs /\ g \in M \ Outputs /\ ~Safe(M \ {g})
  BY <1>2, CoreFacts DEF MIVC
<1> QED
  BY <1>3, ConeOfInfluence

LEMMA SeedsInitInv ==
  ASSUME HintsFit, Seeds!Init
  PROVE  SeedsInv
<1> USE DEF Seeds!Init
<1>1. Found = {} /\ mivcs \in Seq(MIVC)
  BY DEF Found
<1>2. Marco => Unexplored = Hinted
  BY DEF Marco, Hinted, Unexplored
<1>3. Marco => MapRight
  <2>1. ASSUME NEW M \in MIVC, Marco
        PROVE  M \in Hinted
    BY <2>1, ExploreHintsSound, CoreFacts DEF Hinted, Solutions, Marco
  <2> QED
    BY <1>1, <1>2, <2>1 DEF MapRight
<1>4. pc \in {"whole", "unexplored"} /\ (pc = "unexplored" <=> Marco)
  BY DEF Marco
<1> QED
  BY <1>1, <1>2, <1>3, <1>4 DEF SeedsInv, SeedTypes, ResultsRight, EmptySeedRight

\* Steps that work on a seed leave the map and the results.
LEMMA SeedMapKept ==
  ASSUME SeedsInv, pc # "done", pc' # "done",
         UNCHANGED <<opts, map, mivcs, smallest, minimum>>
  PROVE  /\ Found' = Found /\ Unexplored' = Unexplored /\ Hinted' = Hinted /\ Marco' = Marco
         /\ ResultsRight' /\ EmptySeedRight'
<1>1. Found' = Found /\ Unexplored' = Unexplored /\ Hinted' = Hinted /\ Marco' = Marco
  BY DEF Found, Unexplored, Hinted, Marco, Seeds!ExploreHints
<1>2. MapRight' = MapRight
  BY <1>1 DEF MapRight
<1> QED
  BY <1>1, <1>2 DEF SeedsInv, ResultsRight, EmptySeedRight

\* Shrinking begins with a safe set that contains nothing found.
LEMMA EnterShrinkKeeps ==
  ASSUME SeedsInv, pc \in {"whole", "unexplored"},
         UNCHANGED <<opts, map, mivcs, smallest, minimum>>,
         NEW S \in SUBSET Gate, Safe(S), Marco => \A F \in Found : ~(F \subseteq S),
         Seeds!EnterShrink(S)
  PROVE  SeedsInv'
<1> USE DEF Seeds!EnterShrink
<1>1. pc' \in {"core", "shrink"}
  OBVIOUS
<1>2. /\ Found' = Found /\ Unexplored' = Unexplored /\ Hinted' = Hinted /\ Marco' = Marco
      /\ ResultsRight' /\ EmptySeedRight'
  BY <1>1, SeedMapKept
<1>3. Safe(seed)' /\ seed' = S /\ todo' = S
  BY DEF Safe, Refutes
<1> QED
  BY <1>1, <1>2, <1>3 DEF SeedsInv, SeedTypes

LEMMA ShrinkWholeKeeps ==
  ASSUME SeedsInv, Seeds!ShrinkWhole
  PROVE  SeedsInv'
<1> USE DEF Seeds!ShrinkWhole
<1>1. ~Marco /\ Seeds!EnterShrink(Gate) /\ Gate \in SUBSET Gate /\ Safe(Gate)
  BY SeedNotions, ExtremesSafety DEF SeedsInv
<1> QED
  BY <1>1, EnterShrinkKeeps

LEMMA SeedIsShrunkKeeps ==
  ASSUME SeedsInv, Seeds!SafeSeed
  PROVE  SeedsInv'
<1> USE DEF Seeds!SafeSeed
<1>1. PICK S \in Largest(Unexplored) : Safe(S) /\ Seeds!EnterShrink(S)
  BY SeedNotions
<1>2. S \in Unexplored /\ S \in SUBSET Gate
  BY DEF Largest, Unexplored, Solutions
<1>3. Marco => \A F \in Found : ~(F \subseteq S)
  BY <1>2 DEF SeedsInv, ResultsRight, MapRight
<1> QED
  BY <1>1, <1>2, <1>3, EnterShrinkKeeps

LEMMA SeedIsBlockedKeeps ==
  ASSUME SeedsInv, Seeds!UnsafeSeed
  PROVE  SeedsInv'
<1> USE DEF Seeds!UnsafeSeed
<1>1. seed' \in Largest(Unexplored) /\ ~Safe(seed')
  BY SeedNotions
<1>2. seed' \in SUBSET Gate
  BY <1>1 DEF Largest, Unexplored, Solutions
<1>3. /\ Found' = Found /\ Unexplored' = Unexplored /\ Hinted' = Hinted /\ Marco' = Marco
      /\ ResultsRight' /\ EmptySeedRight'
  BY SeedMapKept
<1>4. ~Safe(seed)' /\ (seed \in Largest(Unexplored))'
  BY <1>1, <1>3 DEF Safe, Refutes, Largest
<1> QED
  BY <1>2, <1>3, <1>4 DEF SeedsInv, SeedTypes

LEMMA BlockDownKeeps ==
  ASSUME SeedsInv, Seeds!blockDown
  PROVE  SeedsInv'
<1> USE DEF Seeds!blockDown
<1>1. Marco /\ MapRight /\ ~Safe(seed) /\ seed \in SUBSET Gate /\ seed \in Largest(Unexplored)
  BY DEF SeedsInv, SeedTypes, ResultsRight
<1>2. map' = map \union {BlockDownClause(Gate, seed)} /\ UNCHANGED <<mivcs, smallest>>
  BY SeedNotions
<1>3. MapRight' /\ Unexplored' \subseteq Unexplored /\ Found' = Found
  <2> DEFINE new == {BlockDownClause(Gate, seed)}
  <2>1. \A cls \in new : \E T \in SUBSET Gate : ~Safe(T) /\ cls = BlockDownClause(Gate, T)
    BY <1>1
  <2> HIDE DEF new, Seeds!blockDown
  <2>2. MapRight /\ map' = map \union new /\ UNCHANGED <<mivcs, smallest>>
    BY <1>1, <1>2 DEF new
  <2> QED
    BY <2>1, <2>2, BlockedDown
<1>4. {} \notin Unexplored'
  <2>1. ~SatisfiesClause({}, BlockDownClause(Gate, seed))
    BY <1>1, BlockDownClauseIff
  <2>2. BlockDownClause(Gate, seed) \in map'
    BY <1>2
  <2> QED
    BY <2>1, <2>2 DEF Unexplored, Solutions
<1>5. SeedTypes'
  BY DEF SeedsInv, SeedTypes
<1>6. Marco' /\ ResultsRight'
  BY <1>1, <1>3 DEF SeedsInv, ResultsRight, Marco
<1> QED
  BY <1>4, <1>5, <1>6 DEF SeedsInv, EmptySeedRight

LEMMA SeedsExhaustedKeeps ==
  ASSUME SeedsInv, Seeds!MapExhausted
  PROVE  SeedsInv'
<1> USE DEF Seeds!MapExhausted
<1>1. Marco /\ MapRight /\ Unexplored = {}
  BY SeedNotions DEF SeedsInv, ResultsRight
<1>2. Found' = Found /\ Unexplored' = Unexplored /\ Marco'
  BY <1>1 DEF Found, Unexplored, Marco
<1>3. MapRight' /\ ResultsRight'
  BY <1>1, <1>2 DEF MapRight, ResultsRight
<1>4. SeedTypes'
  BY DEF SeedsInv, SeedTypes
<1> QED
  BY <1>1, <1>2, <1>3, <1>4 DEF SeedsInv, EmptySeedRight

\* The core that the solver returns is safe.
LEMMA SeedCoreKeeps ==
  ASSUME SeedsInv, Seeds!ShrinkUC
  PROVE  SeedsInv'
<1> USE DEF Seeds!ShrinkUC
<1>1. seed \in SUBSET Gate /\ Safe(seed) /\ (Marco => \A F \in Found : ~(F \subseteq seed))
  BY DEF SeedsInv, SeedTypes
<1>2. seed' \in SUBSET seed /\ Safe(seed')
  BY <1>1, SeedNotions
<1>3. /\ Found' = Found /\ Unexplored' = Unexplored /\ Hinted' = Hinted /\ Marco' = Marco
      /\ ResultsRight' /\ EmptySeedRight'
  BY SeedMapKept
<1>4. Safe(seed)' /\ (Marco' => \A F \in Found' : ~(F \subseteq seed'))
  BY <1>1, <1>2, <1>3 DEF Safe, Refutes
<1>5. SeedTypes'
  BY <1>1, <1>2 DEF SeedsInv, SeedTypes
<1> QED
  BY <1>3, <1>4, <1>5 DEF SeedsInv

LEMMA SeedShrinkKeeps ==
  ASSUME SeedsInv, Seeds!ShrinkStep
  PROVE  SeedsInv'
<1> USE DEF Seeds!ShrinkStep
<1>1. PICK g \in todo :
        /\ \/ seed' = seed /\ ~Safe(seed \ {g})
           \/ seed' = seed \ {g} /\ Safe(seed \ {g})
        /\ todo' = todo \ {g}
  BY SeedNotions
<1>2. /\ seed \in SUBSET Gate /\ Safe(seed) /\ todo \subseteq seed
      /\ \A h \in seed \ todo : ~Safe(seed \ {h})
      /\ (Marco => \A F \in Found : ~(F \subseteq seed))
  BY DEF SeedsInv, SeedTypes
<1>3. seed' \in SUBSET seed /\ Safe(seed') /\ todo' \subseteq seed'
  BY <1>1, <1>2
<1>4. ASSUME NEW h \in seed' \ todo'
      PROVE  ~Safe(seed' \ {h})
  <2>1. CASE h = g
    BY <1>1, <1>4, <2>1
  <2>2. CASE h # g
    <3>1. ~Safe(seed \ {h}) /\ seed' \ {h} \subseteq seed \ {h}
      BY <1>1, <1>2, <1>3, <1>4, <2>2
    <3> QED
      BY <3>1, SafeMonotone
  <2> QED
    BY <2>1, <2>2
<1>5. /\ Found' = Found /\ Unexplored' = Unexplored /\ Hinted' = Hinted /\ Marco' = Marco
      /\ ResultsRight' /\ EmptySeedRight'
  BY SeedMapKept
<1>6. Safe(seed)' /\ \A h \in seed' \ todo' : ~Safe(seed \ {h})'
  BY <1>3, <1>4 DEF Safe, Refutes
<1>7. Marco' => \A F \in Found' : ~(F \subseteq seed')
  BY <1>2, <1>3, <1>5
<1>8. SeedTypes'
  BY <1>2, <1>3 DEF SeedsInv, SeedTypes
<1> QED
  BY <1>3, <1>5, <1>6, <1>7, <1>8 DEF SeedsInv

\* What is left of the seed is a core, and a new one.
LEMMA SeedIsCore ==
  ASSUME SeedsInv, pc = "shrink", todo = {}
  PROVE  seed \in MIVC /\ (Marco => seed \notin Found)
<1>1. /\ seed \in SUBSET Gate /\ Safe(seed) /\ \A g \in seed : ~Safe(seed \ {g})
      /\ Marco => \A F \in Found : ~(F \subseteq seed)
  BY DEF SeedsInv, SeedTypes
<1> QED
  BY <1>1, CoreIff

LEMMA ReportAndBlockKeeps ==
  ASSUME SeedsInv, Seeds!ReportAndBlock
  PROVE  SeedsInv'
<1> USE DEF Seeds!ReportAndBlock
<1>1. Marco /\ MapRight /\ seed \in MIVC /\ seed \notin Found
  BY SeedIsCore DEF SeedsInv, ResultsRight, Marco
<1>2. /\ map' = map \union {BlockUpClause(seed)}
      /\ smallest' = IF smallest = {} \/ Cardinality(seed) < Cardinality(smallest)
                     THEN seed ELSE smallest
  <2>1. \A S : Seeds!Cardinality(S) = Cardinality(S)
    BY DEF Seeds!Cardinality, Cardinality
  <2> QED
    BY <2>1, SeedNotions
<1>3. MapRight' /\ Unexplored' \subseteq Unexplored /\ Found' = Found \union {seed}
  BY <1>1, <1>2, BlockedUp
<1>4. Hinted' = Hinted /\ Marco'
  BY <1>1 DEF Hinted, Seeds!ExploreHints, Marco
<1>5. EmptySeedRight'
  <2>1. \A S \in Unexplored : ~(seed \subseteq S) => S \in Unexplored'
    BY <1>2, BlockUpClauseIff DEF Unexplored, Solutions
  <2> QED
    BY <1>1, <1>3, <1>4, <2>1 DEF SeedsInv, EmptySeedRight
<1>6. SeedTypes'
  BY DEF SeedsInv, SeedTypes
<1> QED
  BY <1>3, <1>4, <1>5, <1>6 DEF SeedsInv, ResultsRight

LEMMA ReportKeeps ==
  ASSUME SeedsInv, Seeds!Report
  PROVE  SeedsInv'
<1> USE DEF Seeds!Report
<1>1. ~Marco /\ ~Marco' /\ seed \in MIVC /\ mivcs = <<>>
  BY SeedIsCore DEF SeedsInv, ResultsRight, Marco
<1>2. mivcs' \in Seq(MIVC) /\ minimum' = {}
  BY <1>1 DEF SeedsInv, ResultsRight
<1>3. SeedTypes'
  BY DEF SeedsInv, SeedTypes
<1> QED
  BY <1>1, <1>2, <1>3 DEF SeedsInv, ResultsRight, EmptySeedRight

LEMMA SeedsNextInv ==
  ASSUME SeedsInv, Seeds!Next
  PROVE  SeedsInv'
BY ShrinkWholeKeeps, SeedIsShrunkKeeps, SeedIsBlockedKeeps, BlockDownKeeps,
   SeedsExhaustedKeeps, SeedCoreKeeps, SeedShrinkKeeps, ReportAndBlockKeeps, ReportKeeps
DEF Seeds!Next

LEMMA SeedsStutter ==
  ASSUME SeedsInv, UNCHANGED <<opts, mivcs, minimum, todo, pc, map, smallest, seed>>
  PROVE  SeedsInv'
<1>1. Found' = Found /\ Unexplored' = Unexplored /\ Hinted' = Hinted /\ Marco' = Marco
  BY DEF Found, Unexplored, Hinted, Marco, Seeds!ExploreHints
<1>2. MapRight' = MapRight
  BY <1>1 DEF MapRight
<1>3. ResultsRight' /\ EmptySeedRight'
  BY <1>1, <1>2 DEF SeedsInv, ResultsRight, EmptySeedRight
<1> QED
  BY <1>1, <1>3 DEF SeedsInv, SeedTypes, Safe, Refutes, Largest

\* A seed to be blocked is not empty.
LEMMA SeedsAreNotEmpty ==
  ASSUME UnsafeSeedsExist, SeedsInv
  PROVE  Seeds!SeedNotEmpty
<1>1. ASSUME pc = "blockDown", seed = {}
      PROVE  FALSE
  <2>1. Marco /\ MapRight /\ {} \in Largest(Unexplored)
    BY <1>1 DEF SeedsInv, ResultsRight
  <2>2. PICK S \in Hinted : S # {} /\ ~Safe(S)
    BY <2>1 DEF UnsafeSeedsExist, Hinted, Marco, SeedsInv, SeedTypes
  <2>3. S \in SUBSET Gate /\ \A F \in Found : ~(F \subseteq S)
    <3>1. \A F \in Found : Safe(F)
      BY <2>1, FoundAreCores, CoreFacts
    <3> QED
      BY <2>2, <3>1, SafeMonotone DEF Hinted, Solutions
  <2>4. S \in Unexplored
    BY <2>1, <2>2, <2>3 DEF SeedsInv, EmptySeedRight, Largest
  <2>5. Cardinality(S) <= Cardinality({})
    BY <2>1, <2>4 DEF Largest
  <2>6. {} = S
    BY <2>3, <2>5, GateFinite, Sizes
  <2> QED
    BY <2>2, <2>6
<1>2. ASSUME pc = "shrink", seed = {}
      PROVE  FALSE
  BY <1>2, ExtremesSafety DEF SeedsInv
<1> QED
  BY <1>1, <1>2 DEF Seeds!SeedNotEmpty

--------------------------------------------------------------------------------
(* CAIVCFinder.                                                               *)

LEMMA HittingNotions ==
  /\ Hitting!Gate = Gate
  /\ \A S : Hitting!Safe(S) <=> Safe(S)
  /\ \A m : Hitting!Solutions(Gate, m) = Solutions(Gate, m)
  /\ \A F : Hitting!Smallest(F) = Smallest(F)
  /\ \A S : Hitting!BlockUpClause(S) = BlockUpClause(S)
  /\ \A S : Hitting!Cardinality(S) = Cardinality(S)
<1>1. Hitting!Gate = Gate
  BY DEF Hitting!Gate, Gate
<1>2. \A S : Hitting!Safe(S) <=> Safe(S)
  BY DEF Hitting!Safe, Safe, Hitting!Refutes, Refutes
<1>3. \A m : Hitting!Solutions(Gate, m) = Solutions(Gate, m)
  <2>1. \A S, cls : Hitting!SatisfiesClause(S, cls) <=> SatisfiesClause(S, cls)
    BY DEF Hitting!SatisfiesClause, SatisfiesClause
  <2> QED
    BY <2>1 DEF Hitting!Solutions, Solutions
<1>4. \A S : Hitting!Cardinality(S) = Cardinality(S)
  BY DEF Hitting!Cardinality, Cardinality
<1>5. \A F : Hitting!Smallest(F) = Smallest(F)
  BY <1>4 DEF Hitting!Smallest, Smallest
<1>6. \A S : Hitting!BlockUpClause(S) = BlockUpClause(S)
  BY DEF Hitting!BlockUpClause, BlockUpClause
<1> QED
  BY <1>1, <1>2, <1>3, <1>4, <1>5, <1>6

\* What a debugger finds is a correction set, and not one that is blocked.
LEMMA DebuggerSound ==
  ASSUME NEW blocked, NEW gates \in SUBSET Gate, NEW n, NEW K,
         NEW C \in Hitting!DebugSolutions(blocked, gates, n, K)
  PROVE  /\ C \in SUBSET gates /\ Corrects(C) /\ C # {} /\ Cardinality(C) <= n
         /\ \A B \in blocked : ~(B \subseteq C)
<1>1. /\ C \in SUBSET gates /\ Cardinality(C) <= n
      /\ \E x \in Counterexamples : x.cut \subseteq C
      /\ \A B \in blocked : ~(B \subseteq C)
  BY HittingNotions DEF Hitting!DebugSolutions
<1>2. PICK x \in Counterexamples : x.cut \subseteq C
  BY <1>1
<1>3. x.cut # {} /\ Refutes(x, Gate \ C)
  BY <1>2, CounterexamplesAssumption DEF Refutes
<1> QED
  BY <1>1, <1>2, <1>3 DEF Corrects, Safe

\* A debugger of unlimited depth finds every one that is not blocked.
LEMMA DebuggerComplete ==
  ASSUME NEW blocked, NEW gates \in SUBSET Gate, NEW n, NEW C \in SUBSET gates,
         Corrects(C), Cardinality(C) <= n, \A B \in blocked : ~(B \subseteq C)
  PROVE  C \in Hitting!DebugSolutions(blocked, gates, n, Hitting!AllDepths)
<1>1. PICK x \in Counterexamples : Refutes(x, Gate \ C)
  BY DEF Corrects, Safe
<1>2. x.cut \subseteq C
  BY <1>1, CounterexamplesAssumption DEF Refutes
<1>3. x.depth \in Hitting!AllDepths
  BY DEF Hitting!AllDepths
<1> QED
  BY <1>2, <1>3, HittingNotions DEF Hitting!DebugSolutions

\* The loops over the cardinalities find a solution of some cardinality.
LEMMA ExactLoop ==
  ASSUME NEW G \in SUBSET Gate
  PROVE  /\ \A C \in Hitting!ExactOverGates(G) : C \in SUBSET G /\ Corrects(C)
         /\ (\E n \in 2 .. Cardinality(G) : Hitting!ExactSolutions(G, n) # {})
              => Hitting!ExactOverGates(G) # {}
<1> DEFINE N == { n \in 2 .. Cardinality(G) : Hitting!ExactSolutions(G, n) # {} }
<1>1. Cardinality(G) \in Nat /\ Hitting!Cardinality(G) = Cardinality(G)
  BY GateFinite, Sizes, HittingNotions
<1>2. Hitting!ExactOverGates(G)
        = UNION { Hitting!ExactSolutions(G, n) : n \in { m \in 2 .. Cardinality(G) :
                    /\ Hitting!ExactSolutions(G, m) # {}
                    /\ \A l \in 2 .. m - 1 : Hitting!ExactSolutions(G, l) = {} } }
  BY <1>1 DEF Hitting!ExactOverGates, Hitting!Least
<1>3. ASSUME N # {}
      PROVE  Hitting!ExactOverGates(G) # {}
  <2>1. N \in SUBSET Nat
    BY <1>1
  <2>2. PICK m \in N : \A n \in N : m <= n
    <3> HIDE DEF N
    <3> QED
      BY <2>1, <1>3, LeastNatural
  <2>3. \A l \in 2 .. m - 1 : Hitting!ExactSolutions(G, l) = {}
    BY <1>1, <2>2
  <2>4. PICK C : C \in Hitting!ExactSolutions(G, m)
    OBVIOUS
  <2> HIDE DEF Hitting!ExactSolutions
  <2>5. C \in Hitting!ExactOverGates(G)
    BY <1>2, <2>2, <2>3, <2>4
  <2> QED
    BY <2>5
<1>4. ASSUME NEW C \in Hitting!ExactOverGates(G)
      PROVE  C \in SUBSET G /\ Corrects(C)
  <2>1. PICK n : C \in Hitting!ExactSolutions(G, n)
    BY <1>2
  <2> QED
    BY <2>1, DebuggerSound DEF Hitting!ExactSolutions
<1> QED
  BY <1>1, <1>3, <1>4

LEMMA FallbackLoop ==
  ASSUME NEW G \in SUBSET Gate
  PROVE  /\ \A C \in Hitting!IC3OverGates(G) : C \in SUBSET G /\ Corrects(C)
         /\ (\E n \in 1 .. Cardinality(G) : Hitting!IC3Solutions(G, n) # {})
              => Hitting!IC3OverGates(G) # {}
<1> DEFINE N == { n \in 1 .. Cardinality(G) : Hitting!IC3Solutions(G, n) # {} }
<1>1. Cardinality(G) \in Nat /\ Hitting!Cardinality(G) = Cardinality(G)
  BY GateFinite, Sizes, HittingNotions
<1>2. Hitting!IC3OverGates(G)
        = UNION { Hitting!IC3Solutions(G, n) : n \in { m \in 1 .. Cardinality(G) :
                    /\ Hitting!IC3Solutions(G, m) # {}
                    /\ \A l \in 1 .. m - 1 : Hitting!IC3Solutions(G, l) = {} } }
  BY <1>1 DEF Hitting!IC3OverGates, Hitting!Least
<1>3. ASSUME N # {}
      PROVE  Hitting!IC3OverGates(G) # {}
  <2>1. N \in SUBSET Nat
    BY <1>1
  <2>2. PICK m \in N : \A n \in N : m <= n
    <3> HIDE DEF N
    <3> QED
      BY <2>1, <1>3, LeastNatural
  <2>3. \A l \in 1 .. m - 1 : Hitting!IC3Solutions(G, l) = {}
    BY <1>1, <2>2
  <2>4. PICK C : C \in Hitting!IC3Solutions(G, m)
    OBVIOUS
  <2>5. C \in Hitting!IC3OverGates(G)
    BY <1>2, <2>2, <2>3, <2>4
  <2> QED
    BY <2>5
<1>4. ASSUME NEW C \in Hitting!IC3OverGates(G)
      PROVE  C \in SUBSET G /\ Corrects(C)
  <2>1. PICK n : C \in Hitting!IC3Solutions(G, n)
    BY <1>2
  <2> QED
    BY <2>1, DebuggerSound DEF Hitting!IC3Solutions
<1> QED
  BY <1>1, <1>3, <1>4

LEMMA BMCLoop ==
  ASSUME NEW G \in SUBSET Gate, NEW C \in Hitting!BMCOverGates(G)
  PROVE  C \in SUBSET G /\ Corrects(C)
<1>1. PICK n : C \in Hitting!BMCSolutions(G, n)
  BY DEF Hitting!BMCOverGates, Hitting!Least
<1> DEFINE K == 0 .. KMax
<1>2. C \in Hitting!DebugSolutions(bmcBlocked, G, n, K)
  BY <1>1 DEF Hitting!BMCSolutions
<1> HIDE DEF K
<1> QED
  BY <1>2, DebuggerSound

Hit(C) == [neg |-> {}, pos |-> C]

Candidates == Solutions(Gate, hitting)

\* The loops that find the correction sets of a candidate with MCSFinder.
ExactUsed == ~opts.ar \/ opts.mcs = "exact"

HittingTypes ==
  /\ opts \in HittingOptions
  /\ cardinality \in Nat \ {0}
  /\ mivcs \in Seq(MIVC)
  /\ necessary \in SUBSET Gate /\ candidate \in SUBSET Gate /\ todo \in SUBSET Gate
  /\ exactBlocked \in SUBSET SUBSET Gate /\ ic3Blocked \in SUBSET SUBSET Gate
  /\ pc \in {"upfront", "candidate", "grow", "simple", "approx", "exact", "done"}

\* The solver is asked for a hitting set of correction sets, apart from the gates
\* that are necessary, and not for one of the cores found.
ClausesRight ==
  /\ \A g \in necessary : Corrects({g})
  /\ \A cls \in hitting :
       \/ \E C \in SUBSET Gate : C \intersect necessary = {} /\ Corrects(C) /\ cls = Hit(C)
       \/ \E F \in Found : cls = BlockUpClause(F \ necessary)
  /\ \A F \in Found : BlockUpClause(F \ necessary) \in hitting

\* Each core was a smallest candidate, and the first one is a minimum.
CoresRight ==
  /\ \A F \in Found, T \in Candidates : Cardinality(F \ necessary) <= Cardinality(T)
  /\ IF Found = {} THEN minimum = {} ELSE minimum \in Found \intersect SmallestIVC

SinglesKnown ==
  \A g \in Gate : Corrects({g}) => g \in necessary /\ {g} \in exactBlocked

\* Every correction set that the finders leave out is known: they have found the
\* sets of one gate before any other, and the others are clauses.
BlockedRight ==
  /\ ExactUsed =>
       /\ cardinality = 1 => hitting = {} /\ pc = "upfront"
       /\ cardinality # 1 => SinglesKnown
       /\ \A B \in exactBlocked : \/ \E g \in necessary : B = {g}
                                  \/ Hit(B) \in hitting
  /\ \A B \in ic3Blocked : Hit(B) \in hitting

UpfrontRight == pc = "upfront" => mivcs = <<>> /\ (opts.ar => hitting = {})

AllCorrected ==
  ~opts.ar /\ pc = "candidate" =>
    \A C \in SUBSET Gate : Corrects(C) => \E B \in exactBlocked : B \subseteq C

\* A candidate is refined because it is unsafe, although it hits all that is known.
UnsafeRight ==
  /\ pc \in {"grow", "simple", "approx", "exact"} =>
       opts.ar /\ pc = opts.mcs /\ ~Safe(candidate) /\ necessary \subseteq candidate
  /\ pc \in {"approx", "exact"} =>
       \A cls \in hitting : cls.neg = {} => cls.pos \intersect candidate # {}

HittingInv ==
  /\ HittingTypes /\ ClausesRight /\ CoresRight /\ BlockedRight /\ UpfrontRight
  /\ AllCorrected /\ UnsafeRight
  /\ pc = "done" => Candidates = {}

\* A safe set has every gate without which the model is unsafe.
LEMMA SafeHasNecessary ==
  ASSUME ClausesRight, necessary \in SUBSET Gate, NEW S \in SUBSET Gate, Safe(S)
  PROVE  necessary \subseteq S
<1> SUFFICES ASSUME NEW g \in necessary, g \notin S PROVE FALSE
  OBVIOUS
<1>1. S \subseteq Gate \ {g} /\ ~Safe(Gate \ {g})
  BY DEF ClausesRight, Corrects
<1> QED
  BY <1>1, SafeMonotone

LEMMA SafeHits ==
  ASSUME NEW S \in SUBSET Gate, Safe(S), NEW C \in SUBSET Gate, Corrects(C)
  PROVE  S \intersect C # {}
<1> SUFFICES ASSUME S \intersect C = {} PROVE FALSE
  OBVIOUS
<1>1. S \subseteq Gate \ C
  OBVIOUS
<1> QED
  BY <1>1, SafeMonotone DEF Corrects

\* A core still to be found is a candidate, and is not excluded.
LEMMA NewCoreIsCandidate ==
  ASSUME HittingInv, NEW M \in MIVC, M \notin Found
  PROVE  M \ necessary \in Candidates
<1>1. M \in SUBSET Gate /\ Safe(M) /\ necessary \subseteq M
  BY CoreFacts, SafeHasNecessary DEF HittingInv, HittingTypes
<1>2. ASSUME NEW cls \in hitting
      PROVE  SatisfiesClause(M \ necessary, cls)
  <2>1. CASE \E C \in SUBSET Gate : C \intersect necessary = {} /\ Corrects(C) /\ cls = Hit(C)
    <3>1. PICK C \in SUBSET Gate : C \intersect necessary = {} /\ Corrects(C) /\ cls = Hit(C)
      BY <2>1
    <3>2. C \intersect (M \ necessary) # {}
      BY <1>1, <3>1, SafeHits
    <3> QED
      BY <3>1, <3>2 DEF SatisfiesClause, Hit
  <2>2. CASE \E F \in Found : cls = BlockUpClause(F \ necessary)
    <3>1. PICK F \in Found : cls = BlockUpClause(F \ necessary)
      BY <2>2
    <3>2. F \in MIVC
      BY DEF HittingInv, HittingTypes, Found
    <3>3. F \ necessary \subseteq M \ necessary => F = M
      BY <1>1, <3>2, CoreFacts, CoresIncomparable
    <3> QED
      BY <3>1, <3>3, BlockUpClauseIff
  <2> QED
    BY <2>1, <2>2 DEF HittingInv, ClausesRight
<1> QED
  BY <1>1, <1>2 DEF Candidates, Solutions

\* A smallest candidate has none of the necessary gates: it would do without them.
LEMMA SmallestIsApart ==
  ASSUME HittingInv, NEW H \in Smallest(Candidates)
  PROVE  H \in SUBSET Gate /\ H \intersect necessary = {}
<1>1. H \in SUBSET Gate /\ \A cls \in hitting : SatisfiesClause(H, cls)
  BY DEF Smallest, Candidates, Solutions
<1>2. ASSUME NEW cls \in hitting
      PROVE  SatisfiesClause(H \ necessary, cls)
  <2>1. SatisfiesClause(H, cls)
    BY <1>1
  <2>2. CASE \E C \in SUBSET Gate : C \intersect necessary = {} /\ Corrects(C) /\ cls = Hit(C)
    BY <2>1, <2>2 DEF SatisfiesClause, Hit
  <2>3. CASE \E F \in Found : cls = BlockUpClause(F \ necessary)
    BY <2>1, <2>3, BlockUpClauseIff
  <2> QED
    BY <2>2, <2>3 DEF HittingInv, ClausesRight
<1>3. H \ necessary \in Candidates /\ H \ necessary \in SUBSET H
  BY <1>1, <1>2 DEF Candidates, Solutions
<1>4. Cardinality(H) <= Cardinality(H \ necessary)
  BY <1>3 DEF Smallest
<1>5. H = H \ necessary
  BY <1>1, <1>3, <1>4, GateFinite, Sizes
<1> QED
  BY <1>1, <1>5

LEMMA SizeApart ==
  ASSUME NEW N \in SUBSET Gate, NEW S \in SUBSET Gate, N \subseteq S
  PROVE  /\ Cardinality(S) = Cardinality(N) + Cardinality(S \ N)
         /\ Cardinality(N) \in Nat /\ Cardinality(S \ N) \in Nat
<1>1. IsFiniteSet(S) /\ IsFiniteSet(N)
  BY GateFinite, FS_Subset
<1>2. S \intersect N = N
  OBVIOUS
<1>3. IsFiniteSet(S \ N) /\ Cardinality(S \ N) = Cardinality(S) - Cardinality(N)
  BY <1>1, <1>2, FS_Difference
<1>4. Cardinality(S) \in Nat /\ Cardinality(N) \in Nat /\ Cardinality(S \ N) \in Nat
  BY <1>1, <1>3, FS_CardinalityType
<1> QED
  BY <1>3, <1>4

\* What remains of a smallest candidate that is safe is a new core, no smaller than
\* any found before.
LEMMA SafeCandidateIsCore ==
  ASSUME HittingInv, NEW H \in Smallest(Candidates), Safe(necessary \union H)
  PROVE  LET S == necessary \union H
         IN  /\ S \in MIVC \ Found /\ S \ necessary = H
             /\ \A F \in Found : Cardinality(F) <= Cardinality(S)
             /\ Found = {} => S \in SmallestIVC
<1> DEFINE S == necessary \union H
<1>1. /\ necessary \in SUBSET Gate /\ H \in SUBSET Gate /\ H \intersect necessary = {}
      /\ S \in SUBSET Gate /\ S \ necessary = H
  BY SmallestIsApart DEF HittingInv, HittingTypes
<1>2. PICK M \in MIVC : M \subseteq S
  BY <1>1, CoreBelow
<1>3. M \in SUBSET Gate /\ necessary \subseteq M
  BY <1>2, CoreFacts, SafeHasNecessary DEF HittingInv, HittingTypes
<1>4. M \notin Found
  <2> SUFFICES ASSUME M \in Found PROVE FALSE
    OBVIOUS
  <2>1. BlockUpClause(M \ necessary) \in hitting
    BY DEF HittingInv, ClausesRight
  <2>2. SatisfiesClause(H, BlockUpClause(M \ necessary))
    BY <2>1 DEF Smallest, Candidates, Solutions
  <2> QED
    BY <2>2, <1>1, <1>2, BlockUpClauseIff
<1>5. ASSUME NEW N \in MIVC, N \notin Found
      PROVE  Cardinality(H) <= Cardinality(N \ necessary)
  BY <1>5, NewCoreIsCandidate DEF Smallest
<1>6. M = S
  <2>1. M \ necessary \in SUBSET H /\ Cardinality(H) <= Cardinality(M \ necessary)
    BY <1>1, <1>2, <1>4, <1>5
  <2>2. H = M \ necessary
    BY <1>1, <2>1, GateFinite, Sizes
  <2> QED
    BY <1>1, <1>3, <2>2
<1>7. /\ Cardinality(S) = Cardinality(necessary) + Cardinality(H)
      /\ Cardinality(necessary) \in Nat /\ Cardinality(H) \in Nat
  BY <1>1, SizeApart
<1>8. ASSUME NEW N \in MIVC
      PROVE  /\ Cardinality(N) = Cardinality(necessary) + Cardinality(N \ necessary)
             /\ Cardinality(N \ necessary) \in Nat
  <2>1. N \in SUBSET Gate /\ necessary \subseteq N
    BY CoreFacts, SafeHasNecessary DEF HittingInv, HittingTypes
  <2> QED
    BY <1>1, <2>1, SizeApart
<1>9. ASSUME NEW F \in Found
      PROVE  Cardinality(F) <= Cardinality(S)
  <2>1. F \in MIVC /\ H \in Candidates
    BY DEF HittingInv, HittingTypes, Found, Smallest
  <2>2. Cardinality(F \ necessary) <= Cardinality(H)
    BY <2>1 DEF HittingInv, CoresRight
  <2> QED
    BY <2>1, <2>2, <1>7, <1>8
<1>10. ASSUME Found = {}
       PROVE  S \in SmallestIVC
  <2>1. ASSUME NEW N \in MIVC
        PROVE  Cardinality(S) <= Cardinality(N)
    <3>1. Cardinality(H) <= Cardinality(N \ necessary)
      BY <1>5, <1>10
    <3>2. /\ Cardinality(N) = Cardinality(necessary) + Cardinality(N \ necessary)
          /\ Cardinality(N \ necessary) \in Nat
      BY <1>8
    <3> HIDE DEF S
    <3> QED
      BY <1>7, <3>1, <3>2
  <2> QED
    BY <1>2, <1>6, <2>1, SmallestCore
<1> QED
  BY <1>1, <1>2, <1>4, <1>6, <1>9, <1>10

\* In the naive variant every smallest candidate is safe: it hits all correction sets.
LEMMA NaiveCandidateIsSafe ==
  ASSUME HittingInv, ~opts.ar, pc = "candidate", NEW H \in Smallest(Candidates)
  PROVE  Safe(necessary \union H)
<1> DEFINE S == necessary \union H
<1> SUFFICES ASSUME ~Safe(S) PROVE FALSE
  OBVIOUS
<1>1. H \in SUBSET Gate /\ S \in SUBSET Gate /\ \A cls \in hitting : SatisfiesClause(H, cls)
  BY DEF Smallest, Candidates, Solutions, HittingInv, HittingTypes
<1>2. Gate \ S \in SUBSET Gate /\ Corrects(Gate \ S)
  BY <1>1, UnsafeIff
<1>3. PICK B \in exactBlocked : B \subseteq Gate \ S
  BY <1>2 DEF HittingInv, AllCorrected
<1>4. (\E g \in necessary : B = {g}) \/ Hit(B) \in hitting
  BY DEF HittingInv, BlockedRight, ExactUsed
<1>5. CASE Hit(B) \in hitting
  <2>1. SatisfiesClause(H, Hit(B))
    BY <1>1, <1>5
  <2> QED
    BY <1>3, <2>1 DEF SatisfiesClause, Hit
<1> QED
  BY <1>3, <1>4, <1>5

LEMMA HittingOptionsMean ==
  ASSUME opts \in HittingOptions
  PROVE  /\ opts.mcs \in {"grow", "simple", "approx", "exact"} /\ opts.ar \in BOOLEAN
         /\ opts.upfront_nmax \in Nat
         /\ opts.ar /\ opts.mcs = "exact" => opts.upfront_nmax = 1 /\ ~opts.approx_mcs
BY OptionsAssumption, SupportedAssumption DEF Hitting!Setting, Hitting!Supported

LEMMA SingleGate ==
  ASSUME NEW C \in SUBSET Gate
  PROVE  /\ Cardinality(C) = 1 <=> \E g \in C : C = {g}
         /\ C # {} => Cardinality(C) \in Nat \ {0}
<1>1. IsFiniteSet(C)
  BY GateFinite, FS_Subset
<1>2. Cardinality(C) = 1 <=> \E g : C = {g}
  BY <1>1, FS_Singleton
<1>3. C # {} => Cardinality(C) \in Nat \ {0}
  BY <1>1, FS_EmptySet, FS_CardinalityType
<1> QED
  BY <1>2, <1>3

LEMMA HittingInitInv ==
  ASSUME Hitting!Init
  PROVE  HittingInv
<1> USE DEF Hitting!Init
<1>1. Found = {} /\ mivcs \in Seq(MIVC)
  BY DEF Found
<1>2. HittingTypes
  BY <1>1 DEF HittingTypes
<1> QED
  BY <1>1, <1>2
  DEF HittingInv, ClausesRight, CoresRight, BlockedRight, UpfrontRight, AllCorrected,
      UnsafeRight

\* The necessary gates of the sets that are found before any candidate.
LEMMA NoteNecessaryIs ==
  ASSUME NEW C \in SUBSET Gate, Corrects(C), Hitting!NoteNecessary(C),
         necessary \in SUBSET Gate, \A g \in necessary : Corrects({g})
  PROVE  /\ necessary' \in SUBSET Gate /\ necessary \subseteq necessary'
         /\ \A g \in necessary' : Corrects({g})
         /\ Cardinality(C) = 1 => \E g \in necessary' : C = {g}
         /\ Cardinality(C) # 1 => necessary' = necessary
BY HittingNotions, SingleGate DEF Hitting!NoteNecessary

LEMMA FindUpfrontKeeps ==
  ASSUME HittingInv, Hitting!FindUpfront
  PROVE  HittingInv'
<1>1. /\ pc = "upfront" /\ opts.ar /\ cardinality <= opts.upfront_nmax
      /\ mivcs = <<>> /\ hitting = {} /\ Found = {} /\ minimum = {}
  BY DEF Hitting!FindUpfront, Hitting!InUpfrontLoop, HittingInv, UpfrontRight, Found,
         CoresRight
<1>2. PICK C \in SUBSET Gate :
        /\ Corrects(C) /\ C # {} /\ Hitting!NoteNecessary(C)
        /\ UNCHANGED ic3Blocked
        /\ \/ opts.approx_mcs /\ UNCHANGED exactBlocked
           \/ exactBlocked' = exactBlocked \union {C} /\ Cardinality(C) <= cardinality
  <2>1. CASE opts.approx_mcs
    <3>1. PICK C \in Hitting!BMCSolutions(Gate, cardinality) :
            Hitting!NoteNecessary(C) /\ UNCHANGED <<exactBlocked, ic3Blocked>>
      BY <1>1, <2>1, HittingNotions DEF Hitting!FindUpfront
    <3>2. C \in SUBSET Gate /\ Corrects(C) /\ C # {}
      BY DebuggerSound DEF Hitting!BMCSolutions
    <3> QED
      BY <2>1, <3>1, <3>2
  <2>2. CASE ~opts.approx_mcs
    <3>1. PICK C \in Hitting!ExactSolutions(Gate, cardinality) :
            /\ exactBlocked' = exactBlocked \union {C}
            /\ Hitting!NoteNecessary(C) /\ UNCHANGED ic3Blocked
      BY <1>1, <2>2, HittingNotions DEF Hitting!FindUpfront
    <3>2. C \in SUBSET Gate /\ Corrects(C) /\ C # {} /\ Cardinality(C) <= cardinality
      BY DebuggerSound DEF Hitting!ExactSolutions
    <3> QED
      BY <3>1, <3>2
  <2> QED
    BY <2>1, <2>2
<1>3. UNCHANGED <<opts, hitting, cardinality, mivcs, minimum, candidate, todo, pc>>
  BY DEF Hitting!FindUpfront, Hitting!resultVars
<1>4. /\ necessary' \in SUBSET Gate /\ necessary \subseteq necessary'
      /\ \A g \in necessary' : Corrects({g})
      /\ Cardinality(C) = 1 => \E g \in necessary' : C = {g}
  BY <1>2, NoteNecessaryIs DEF HittingInv, HittingTypes, ClausesRight
<1>5. Found' = {} /\ hitting' = {}
  BY <1>1, <1>3 DEF Found
<1>6. ClausesRight' /\ CoresRight' /\ UpfrontRight'
  BY <1>1, <1>3, <1>4, <1>5
  DEF ClausesRight, Corrects, Safe, Refutes, CoresRight, UpfrontRight
<1>7. BlockedRight'
  <2>1. ASSUME ExactUsed
        PROVE  cardinality = 1 /\ Cardinality(C) = 1 /\ exactBlocked' = exactBlocked \union {C}
    BY <1>1, <1>2, <2>1, HittingOptionsMean, SingleGate
    DEF ExactUsed, HittingInv, HittingTypes
  <2> QED
    BY <1>1, <1>2, <1>3, <1>4, <1>5, <2>1 DEF BlockedRight, ExactUsed, HittingInv
<1>8. HittingTypes'
  BY <1>2, <1>3, <1>4 DEF HittingInv, HittingTypes
<1> QED
  BY <1>1, <1>3, <1>6, <1>7, <1>8 DEF HittingInv, AllCorrected, UnsafeRight

LEMMA FindNaiveKeeps ==
  ASSUME HittingInv, Hitting!FindNaive
  PROVE  HittingInv'
<1>1. /\ pc = "upfront" /\ ~opts.ar /\ ExactUsed
      /\ mivcs = <<>> /\ Found = {} /\ minimum = {}
  BY
  DEF Hitting!FindNaive, Hitting!InUpfrontLoop, HittingInv, UpfrontRight, Found,
      CoresRight,
         ExactUsed
<1>2. PICK C \in Hitting!ExactSolutions(Gate, cardinality) :
        /\ exactBlocked' = exactBlocked \union {C}
        /\ Hitting!NoteNecessary(C)
        /\ hitting' = IF Cardinality(C) = 1 THEN hitting ELSE hitting \union {Hit(C)}
  BY HittingNotions DEF Hitting!FindNaive, Hit
<1>3. /\ C \in SUBSET Gate /\ Corrects(C) /\ C # {} /\ Cardinality(C) <= cardinality
      /\ \A B \in exactBlocked : ~(B \subseteq C)
  BY DebuggerSound DEF Hitting!ExactSolutions
<1>4. UNCHANGED <<opts, ic3Blocked, cardinality, mivcs, minimum, candidate, todo, pc>>
  BY DEF Hitting!FindNaive, Hitting!resultVars
<1>5. /\ necessary' \in SUBSET Gate /\ necessary \subseteq necessary'
      /\ \A g \in necessary' : Corrects({g})
      /\ Cardinality(C) = 1 => \E g \in necessary' : C = {g}
      /\ Cardinality(C) # 1 => necessary' = necessary
  BY <1>2, <1>3, NoteNecessaryIs DEF HittingInv, HittingTypes, ClausesRight
<1>6. Found' = {}
  BY <1>1, <1>4 DEF Found
<1>7. /\ cardinality = 1 => hitting = {} /\ Cardinality(C) = 1
      /\ cardinality # 1 => SinglesKnown /\ Cardinality(C) # 1 /\ C \intersect necessary = {}
  <2>1. cardinality = 1 => hitting = {} /\ Cardinality(C) = 1
    BY <1>1, <1>3, SingleGate DEF HittingInv, BlockedRight
  <2>2. ASSUME cardinality # 1
        PROVE  SinglesKnown /\ \A g \in Gate : Corrects({g}) => g \notin C
    BY <1>1, <1>3, <2>2 DEF HittingInv, BlockedRight, SinglesKnown
  <2>3. ASSUME cardinality # 1
        PROVE  Cardinality(C) # 1 /\ C \intersect necessary = {}
    <3>1. \A g \in C : C # {g}
      BY <1>3, <2>2, <2>3
    <3>2. necessary \in SUBSET Gate /\ \A g \in necessary : Corrects({g})
      BY DEF HittingInv, HittingTypes, ClausesRight
    <3> QED
      BY <1>3, <2>2, <2>3, <3>1, <3>2, SingleGate
  <2> QED
    BY <2>1, <2>2, <2>3
<1>8. ClausesRight'
  <2>1. CASE cardinality = 1
    BY <1>1, <1>2, <1>5, <1>6, <1>7, <2>1 DEF ClausesRight, Corrects, Safe, Refutes
  <2>2. CASE cardinality # 1
    <3>1. necessary' = necessary /\ hitting' = hitting \union {Hit(C)}
      BY <1>2, <1>5, <1>7, <2>2
    <3> QED
      BY <1>1, <1>3, <1>6, <1>7, <2>2, <3>1
      DEF HittingInv, ClausesRight, Corrects, Safe, Refutes, Hit
  <2> QED
    BY <2>1, <2>2
<1>9. BlockedRight'
  <2>1. ExactUsed' /\ hitting \subseteq hitting'
    BY <1>1, <1>2, <1>4 DEF ExactUsed
  <2>2. \A B \in exactBlocked' : (\E g \in necessary' : B = {g}) \/ Hit(B) \in hitting'
    BY <1>1, <1>2, <1>5, <2>1 DEF HittingInv, BlockedRight
  <2>3. cardinality' = 1 => hitting' = {} /\ pc' = "upfront"
    BY <1>1, <1>2, <1>4, <1>7
  <2>4. cardinality' # 1 => SinglesKnown'
    BY <1>2, <1>4, <1>5, <1>7 DEF SinglesKnown, Corrects, Safe, Refutes
  <2>5. \A B \in ic3Blocked' : Hit(B) \in hitting'
    BY <1>4, <2>1 DEF HittingInv, BlockedRight
  <2>6. \A B : Hit(B)' = Hit(B)
    BY DEF Hit
  <2> QED
    BY <2>1, <2>2, <2>3, <2>4, <2>5, <2>6 DEF BlockedRight
<1>10. HittingTypes'
  BY <1>2, <1>3, <1>4, <1>5 DEF HittingInv, HittingTypes
<1> QED
  BY <1>1, <1>4, <1>6, <1>8, <1>9, <1>10
  DEF HittingInv, CoresRight, UpfrontRight, AllCorrected, UnsafeRight

LEMMA NextCardinalityKeeps ==
  ASSUME HittingInv, Hitting!NextCardinality
  PROVE  HittingInv'
<1>1. /\ pc = "upfront" /\ pc' \in {"upfront", "candidate"} /\ cardinality' = cardinality + 1
      /\ opts.ar \/ Hitting!moreCorrectionSets => pc' = "upfront"
      /\ mivcs = <<>> /\ (opts.ar => hitting = {})
  BY DEF Hitting!NextCardinality, Hitting!InUpfrontLoop, HittingInv, UpfrontRight
<1>2. UNCHANGED <<opts, hitting, necessary, exactBlocked, ic3Blocked, mivcs, minimum, candidate,
                  todo>>
  BY DEF Hitting!NextCardinality, Hitting!finderVars, Hitting!resultVars
<1>3. Found' = Found /\ Candidates' = Candidates
  BY <1>2 DEF Found, Candidates
<1>4. HittingTypes'
  BY <1>1, <1>2 DEF HittingInv, HittingTypes
<1>5. ClausesRight' /\ CoresRight'
  BY <1>2, <1>3 DEF HittingInv, ClausesRight, CoresRight, Corrects, Safe, Refutes
<1>6. ExactUsed => SinglesKnown
  <2> SUFFICES ASSUME ExactUsed, cardinality = 1, NEW g \in Gate, Corrects({g})
               PROVE  g \in necessary /\ {g} \in exactBlocked
    BY DEF HittingInv, BlockedRight, SinglesKnown
  <2>1. Hitting!ExactSolutions(Gate, 1) = {}
    BY HittingOptionsMean, HittingNotions
    DEF Hitting!NextCardinality, ExactUsed, HittingInv, HittingTypes
  <2>2. Cardinality({g}) = 1
    BY SingleGate
  <2>3. PICK B \in exactBlocked : B \subseteq {g}
    <3>1. {g} \in SUBSET Gate /\ Cardinality({g}) <= 1
      BY <2>2
    <3>2. {g} \notin Hitting!DebugSolutions(exactBlocked, Gate, 1, Hitting!AllDepths)
      BY <2>1 DEF Hitting!ExactSolutions
    <3> QED
      BY <3>1, <3>2, DebuggerComplete
  <2>4. PICK h \in necessary : B = {h}
    BY DEF HittingInv, BlockedRight
  <2> QED
    BY <2>3, <2>4
<1>7. BlockedRight'
  <2>1. SinglesKnown => SinglesKnown'
    BY <1>2 DEF SinglesKnown, Corrects, Safe, Refutes
  <2>2. cardinality' # 1
    BY <1>1 DEF HittingInv, HittingTypes
  <2>3. ExactUsed' = ExactUsed /\ \A B : Hit(B)' = Hit(B)
    BY <1>2 DEF ExactUsed, Hit
  <2> QED
    BY <1>2, <1>6, <2>1, <2>2, <2>3 DEF HittingInv, BlockedRight
<1>8. AllCorrected'
  <2> SUFFICES ASSUME ~opts.ar, pc' = "candidate", NEW C \in SUBSET Gate, Corrects(C)
               PROVE  \E B \in exactBlocked : B \subseteq C
    BY <1>2 DEF AllCorrected, Corrects, Safe, Refutes
  <2>1. Hitting!ExactSolutions(Gate, NumGates) = {}
    BY <1>1, HittingNotions DEF Hitting!moreCorrectionSets
  <2>2. Cardinality(C) <= NumGates
    <3>1. Cardinality(Gate) = NumGates
      BY GatesAssumption, FS_Interval DEF Gate
    <3> QED
      BY <3>1, GateFinite, Sizes
  <2> QED
    BY <2>1, <2>2, DebuggerComplete DEF Hitting!ExactSolutions
<1>9. UpfrontRight' /\ UnsafeRight'
  BY <1>1, <1>2 DEF UpfrontRight, UnsafeRight
<1> QED
  BY <1>1, <1>4, <1>5, <1>7, <1>8, <1>9 DEF HittingInv

LEMMA UpfrontDoneKeeps ==
  ASSUME HittingInv, Hitting!UpfrontDone
  PROVE  HittingInv'
<1>1. pc = "upfront" /\ pc' = "candidate" /\ opts.ar /\ ~(cardinality <= opts.upfront_nmax)
  BY DEF Hitting!UpfrontDone, Hitting!InUpfrontLoop
<1>2. UNCHANGED <<opts, hitting, necessary, exactBlocked, ic3Blocked, cardinality, mivcs,
                  minimum, candidate, todo>>
  BY DEF Hitting!UpfrontDone, Hitting!finderVars, Hitting!resultVars
<1>3. Found' = Found /\ Candidates' = Candidates
  BY <1>2 DEF Found, Candidates
<1>4. HittingTypes'
  BY <1>1, <1>2 DEF HittingInv, HittingTypes
<1>5. ClausesRight' /\ CoresRight'
  BY <1>2, <1>3 DEF HittingInv, ClausesRight, CoresRight, Corrects, Safe, Refutes
<1>6. BlockedRight'
  <2>1. ExactUsed => cardinality # 1
    BY <1>1, HittingOptionsMean DEF ExactUsed, HittingInv, HittingTypes
  <2>2. SinglesKnown => SinglesKnown'
    BY <1>2 DEF SinglesKnown, Corrects, Safe, Refutes
  <2>3. ExactUsed' = ExactUsed /\ \A B : Hit(B)' = Hit(B)
    BY <1>2 DEF ExactUsed, Hit
  <2> QED
    BY <1>2, <2>1, <2>2, <2>3 DEF HittingInv, BlockedRight
<1> QED
  BY <1>1, <1>2, <1>4, <1>5, <1>6
  DEF HittingInv, UpfrontRight, AllCorrected, UnsafeRight

\* A safe candidate is recorded, and it and what contains it are blocked.
LEMMA RecordKeeps ==
  ASSUME HittingInv, pc = "candidate", NEW S, S \in Hitting!Candidates, Safe(S),
         Hitting!Record(S),
         UNCHANGED <<opts, necessary, exactBlocked, ic3Blocked, cardinality, candidate, todo, pc>>
  PROVE  /\ HittingInv' /\ S \in MIVC \ Found /\ Found' = Found \union {S}
         /\ \A F \in Found : Cardinality(F) <= Cardinality(S)
         /\ Found = {} => S \in SmallestIVC
<1>1. PICK H \in Smallest(Candidates) : S = necessary \union H
  BY HittingNotions DEF Hitting!Candidates, Hitting!HittingSets, Candidates
<1>2. /\ S \in MIVC \ Found /\ S \ necessary = H
      /\ Found = {} => S \in SmallestIVC
      /\ \A F \in Found : Cardinality(F) <= Cardinality(S)
  BY <1>1, SafeCandidateIsCore
<1>3. /\ mivcs' = Append(mivcs, S)
      /\ minimum' = IF minimum = {} THEN S ELSE minimum
      /\ hitting' = hitting \union {BlockUpClause(H)}
  BY <1>2, HittingNotions DEF Hitting!Record, Hitting!BlockMIVC
<1>4. mivcs' \in Seq(MIVC) /\ Found' = Found \union {S}
  BY <1>2, <1>3, RangeAppend DEF HittingInv, HittingTypes, Found
<1>5. Candidates' \subseteq Candidates
  BY <1>3 DEF Candidates, Solutions
<1>6. ClausesRight'
  <2>1. \A F \in Found' : BlockUpClause(F \ necessary) \in hitting'
    BY <1>2, <1>3, <1>4 DEF HittingInv, ClausesRight
  <2>2. ASSUME NEW cls \in hitting'
        PROVE  \/ \E C \in SUBSET Gate :
                    C \intersect necessary = {} /\ Corrects(C) /\ cls = Hit(C)
               \/ \E F \in Found' : cls = BlockUpClause(F \ necessary)
    BY <1>2, <1>3, <1>4 DEF HittingInv, ClausesRight
  <2>3. \A C : (Corrects(C)' <=> Corrects(C)) /\ Hit(C)' = Hit(C)
    BY DEF Corrects, Safe, Refutes, Hit
  <2>4. \A g \in necessary : Corrects({g})
    BY DEF HittingInv, ClausesRight
  <2> QED
    BY <2>1, <2>2, <2>3, <2>4 DEF ClausesRight
<1>7. CoresRight'
  <2>1. \A F \in Found', T \in Candidates' : Cardinality(F \ necessary) <= Cardinality(T)
    BY <1>1, <1>2, <1>4, <1>5 DEF HittingInv, CoresRight, Smallest
  <2>2. minimum' \in Found' \intersect SmallestIVC
    <3>1. \A F \in Found : F # {}
      BY CoreFacts DEF HittingInv, HittingTypes, Found
    <3> QED
      BY <1>2, <1>3, <1>4, <3>1 DEF HittingInv, CoresRight
  <2> QED
    BY <1>4, <2>1, <2>2 DEF CoresRight
<1>8. BlockedRight'
  <2>1. SinglesKnown => SinglesKnown'
    BY DEF SinglesKnown, Corrects, Safe, Refutes
  <2>2. ExactUsed' = ExactUsed /\ \A B : Hit(B)' = Hit(B)
    BY DEF ExactUsed, Hit
  <2> QED
    BY <1>3, <2>1, <2>2 DEF HittingInv, BlockedRight
<1>9. HittingTypes'
  BY <1>4 DEF HittingInv, HittingTypes
<1>10. AllCorrected'
  BY DEF HittingInv, AllCorrected, Corrects, Safe, Refutes
<1> QED
  BY <1>2, <1>4, <1>6, <1>7, <1>8, <1>9, <1>10
  DEF HittingInv, UpfrontRight, UnsafeRight

\* The core is new and no smaller than those found before; the first is a minimum.
GoodRecord(S) ==
  /\ Hitting!Record(S) /\ Found' = Found \union {S}
  /\ \A F \in Found : Cardinality(F) <= Cardinality(S)
  /\ Found = {} => S \in SmallestIVC

LEMMA NaiveCandidateKeeps ==
  ASSUME HittingInv, Hitting!NaiveCandidate
  PROVE  /\ HittingInv'
         /\ \E S \in MIVC \ Found : GoodRecord(S)
<1>1. /\ pc = "candidate" /\ ~opts.ar
      /\ UNCHANGED <<opts, necessary, exactBlocked, ic3Blocked, cardinality, candidate, todo, pc>>
  BY DEF Hitting!NaiveCandidate, Hitting!finderVars
<1>2. PICK S \in Hitting!Candidates : Hitting!Record(S)
  BY DEF Hitting!NaiveCandidate
<1>3. Safe(S)
  BY <1>1, NaiveCandidateIsSafe, HittingNotions
  DEF Hitting!Candidates, Hitting!HittingSets, Candidates
<1> QED
  BY <1>1, <1>2, <1>3, RecordKeeps DEF GoodRecord

LEMMA SafeCandidateKeeps ==
  ASSUME HittingInv, Hitting!SafeCandidate
  PROVE  /\ HittingInv'
         /\ \E S \in MIVC \ Found : GoodRecord(S)
<1>1. /\ pc = "candidate"
      /\ UNCHANGED <<opts, necessary, exactBlocked, ic3Blocked, cardinality, candidate, todo, pc>>
  BY DEF Hitting!SafeCandidate, Hitting!finderVars
<1>2. PICK S \in Hitting!Candidates : Safe(S) /\ Hitting!Record(S)
  BY HittingNotions DEF Hitting!SafeCandidate
<1> QED
  BY <1>1, <1>2, RecordKeeps DEF GoodRecord

LEMMA UnsafeCandidateKeeps ==
  ASSUME HittingInv, Hitting!UnsafeCandidate
  PROVE  HittingInv'
<1>1. pc = "candidate" /\ opts.ar /\ pc' = opts.mcs
  BY DEF Hitting!UnsafeCandidate
<1>2. UNCHANGED <<opts, hitting, necessary, exactBlocked, ic3Blocked, cardinality, mivcs, minimum>>
  BY DEF Hitting!UnsafeCandidate, Hitting!finderVars, Hitting!resultVars
<1>3. PICK H \in Smallest(Candidates) :
        ~Safe(necessary \union H) /\ candidate' = necessary \union H
  BY HittingNotions
  DEF Hitting!UnsafeCandidate, Hitting!Candidates, Hitting!HittingSets, Candidates
<1>4. H \in SUBSET Gate /\ \A cls \in hitting : SatisfiesClause(H, cls)
  BY DEF Smallest, Candidates, Solutions
<1>5. candidate' \in SUBSET Gate /\ todo' \in SUBSET Gate
  <2>1. candidate' \in SUBSET Gate
    BY <1>3, <1>4 DEF HittingInv, HittingTypes
  <2>2. todo' \in SUBSET Gate
    BY HittingNotions DEF Hitting!UnsafeCandidate
  <2> QED
    BY <2>1, <2>2
<1>6. pc' \in {"grow", "simple", "approx", "exact"}
  BY <1>1, HittingOptionsMean DEF HittingInv, HittingTypes
<1>7. HittingTypes'
  BY <1>2, <1>5, <1>6 DEF HittingInv, HittingTypes
<1>8. Found' = Found /\ Candidates' = Candidates
  BY <1>2 DEF Found, Candidates
<1>9. ClausesRight' /\ CoresRight'
  BY <1>2, <1>8 DEF HittingInv, ClausesRight, CoresRight, Corrects, Safe, Refutes
<1>10. BlockedRight'
  <2>1. SinglesKnown => SinglesKnown'
    BY <1>2 DEF SinglesKnown, Corrects, Safe, Refutes
  <2>2. ExactUsed' = ExactUsed /\ \A B : Hit(B)' = Hit(B)
    BY <1>2 DEF ExactUsed, Hit
  <2> QED
    BY <1>1, <1>2, <2>1, <2>2 DEF HittingInv, BlockedRight
<1>11. UnsafeRight'
  <2>1. opts.ar' /\ pc' = opts.mcs' /\ ~Safe(candidate)' /\ (necessary \subseteq candidate)'
    BY <1>1, <1>2, <1>3 DEF Safe, Refutes
  <2>2. \A cls \in hitting' : cls.neg = {} => cls.pos \intersect candidate' # {}
    BY <1>2, <1>3, <1>4 DEF SatisfiesClause
  <2> QED
    BY <2>1, <2>2 DEF UnsafeRight
<1> QED
  BY <1>1, <1>2, <1>6, <1>7, <1>9, <1>10, <1>11
  DEF HittingInv, UpfrontRight, AllCorrected

LEMMA NoCandidateKeeps ==
  ASSUME HittingInv, Hitting!NoCandidate
  PROVE  HittingInv'
<1>1. pc = "candidate" /\ pc' = "done" /\ Smallest(Candidates) = {}
  BY HittingNotions DEF Hitting!NoCandidate, Hitting!HittingSets, Candidates
<1>2. UNCHANGED <<opts, hitting, necessary, exactBlocked, ic3Blocked, cardinality, mivcs,
                  minimum, candidate, todo>>
  BY DEF Hitting!NoCandidate, Hitting!finderVars, Hitting!resultVars
<1>3. Candidates = {}
  <2>1. Candidates \in SUBSET SUBSET Gate
    BY DEF Candidates, Solutions
  <2> QED
    BY <1>1, <2>1, GateFinite, SmallestExists
<1>4. Found' = Found /\ Candidates' = Candidates
  BY <1>2 DEF Found, Candidates
<1>5. HittingTypes'
  BY <1>1, <1>2 DEF HittingInv, HittingTypes
<1>6. ClausesRight' /\ CoresRight'
  BY <1>2, <1>4 DEF HittingInv, ClausesRight, CoresRight, Corrects, Safe, Refutes
<1>7. BlockedRight'
  <2>1. SinglesKnown => SinglesKnown'
    BY <1>2 DEF SinglesKnown, Corrects, Safe, Refutes
  <2>2. ExactUsed' = ExactUsed /\ \A B : Hit(B)' = Hit(B)
    BY <1>2 DEF ExactUsed, Hit
  <2> QED
    BY <1>1, <1>2, <2>1, <2>2 DEF HittingInv, BlockedRight
<1> QED
  BY <1>1, <1>3, <1>4, <1>5, <1>6, <1>7
  DEF HittingInv, UpfrontRight, AllCorrected, UnsafeRight

\* A correction set outside of an unsafe candidate becomes a clause.
LEMMA RefineKeeps ==
  ASSUME HittingInv, pc \in {"grow", "simple", "approx", "exact"},
         NEW C \in SUBSET (Gate \ candidate), Corrects(C), Hitting!Refine(C),
         exactBlocked' \in {exactBlocked, exactBlocked \union {C}},
         ic3Blocked' \in {ic3Blocked, ic3Blocked \union {C}}
  PROVE  HittingInv'
<1>1. /\ hitting' = hitting \union {Hit(C)} /\ candidate' = {} /\ pc' = "candidate"
      /\ UNCHANGED <<opts, necessary, cardinality, mivcs, minimum, todo>>
  BY DEF Hitting!Refine, Hitting!resultVars, Hit
<1>2. opts.ar /\ C \in SUBSET Gate /\ C \intersect necessary = {}
  BY DEF HittingInv, UnsafeRight
<1>3. Found' = Found /\ Candidates' \subseteq Candidates
  BY <1>1 DEF Found, Candidates, Solutions
<1>4. HittingTypes'
  BY <1>1, <1>2 DEF HittingInv, HittingTypes
<1>5. ClausesRight'
  <2>1. \A D : (Corrects(D)' <=> Corrects(D)) /\ Hit(D)' = Hit(D)
    BY DEF Corrects, Safe, Refutes, Hit
  <2>2. /\ \A g \in necessary : Corrects({g})
        /\ \A F \in Found : BlockUpClause(F \ necessary) \in hitting'
    BY <1>1 DEF HittingInv, ClausesRight
  <2>3. ASSUME NEW cls \in hitting'
        PROVE  \/ \E D \in SUBSET Gate :
                    D \intersect necessary = {} /\ Corrects(D) /\ cls = Hit(D)
               \/ \E F \in Found : cls = BlockUpClause(F \ necessary)
    BY <1>1, <1>2 DEF HittingInv, ClausesRight
  <2> QED
    BY <1>1, <1>3, <2>1, <2>2, <2>3 DEF ClausesRight
<1>6. CoresRight'
  BY <1>1, <1>3 DEF HittingInv, CoresRight
<1>7. BlockedRight'
  <2>1. SinglesKnown => SinglesKnown'
    BY <1>1 DEF SinglesKnown, Corrects, Safe, Refutes
  <2>2. ExactUsed' = ExactUsed /\ \A B : Hit(B)' = Hit(B)
    BY <1>1 DEF ExactUsed, Hit
  <2> QED
    BY <1>1, <2>1, <2>2 DEF HittingInv, BlockedRight
<1> QED
  BY <1>1, <1>2, <1>4, <1>5, <1>6, <1>7
  DEF HittingInv, UpfrontRight, AllCorrected, UnsafeRight

\* The gates outside of an unsafe candidate are a correction set.
LEMMA OutsideCorrects ==
  ASSUME HittingInv, pc \in {"grow", "simple", "approx", "exact"}
  PROVE  /\ Hitting!Outside = Gate \ candidate
         /\ Gate \ candidate \in SUBSET Gate /\ Corrects(Gate \ candidate)
BY UnsafeIff, HittingNotions
DEF HittingInv, HittingTypes, UnsafeRight, Hitting!Outside

LEMMA RefineSimpleKeeps ==
  ASSUME HittingInv, Hitting!RefineSimple
  PROVE  HittingInv'
<1>1. /\ pc = "simple" /\ Hitting!Refine(Hitting!Outside)
      /\ exactBlocked' = exactBlocked /\ ic3Blocked' = ic3Blocked
  BY DEF Hitting!RefineSimple, Hitting!finderVars
<1> QED
  BY <1>1, OutsideCorrects, RefineKeeps

LEMMA RefineExactKeeps ==
  ASSUME HittingInv, Hitting!RefineExact
  PROVE  HittingInv'
<1>1. pc = "exact" /\ ic3Blocked' = ic3Blocked
  BY DEF Hitting!RefineExact
<1>2. PICK C \in Hitting!ExactOverGates(Hitting!Outside) :
        exactBlocked' = exactBlocked \union {C} /\ Hitting!Refine(C)
  BY DEF Hitting!RefineExact
<1>3. C \in SUBSET (Gate \ candidate) /\ Corrects(C)
  BY <1>1, <1>2, OutsideCorrects, ExactLoop
<1> QED
  BY <1>1, <1>2, <1>3, RefineKeeps

LEMMA RefineApproxKeeps ==
  ASSUME HittingInv, Hitting!RefineApprox
  PROVE  HittingInv'
<1>1. pc = "approx" /\ exactBlocked' = exactBlocked /\ ic3Blocked' = ic3Blocked
  BY DEF Hitting!RefineApprox
<1>2. PICK C \in Hitting!BMCOverGates(Hitting!Outside) : Hitting!Refine(C)
  BY DEF Hitting!RefineApprox
<1>3. C \in SUBSET (Gate \ candidate) /\ Corrects(C)
  BY <1>1, <1>2, OutsideCorrects, BMCLoop
<1> QED
  BY <1>1, <1>2, <1>3, RefineKeeps

LEMMA RefineFallbackKeeps ==
  ASSUME HittingInv, Hitting!RefineFallback
  PROVE  HittingInv'
<1>1. pc = "approx" /\ exactBlocked' = exactBlocked
  BY DEF Hitting!RefineFallback
<1>2. PICK C \in Hitting!IC3OverGates(Hitting!Outside) :
        ic3Blocked' = ic3Blocked \union {C} /\ Hitting!Refine(C)
  BY DEF Hitting!RefineFallback
<1>3. C \in SUBSET (Gate \ candidate) /\ Corrects(C)
  BY <1>1, <1>2, OutsideCorrects, FallbackLoop
<1> QED
  BY <1>1, <1>2, <1>3, RefineKeeps

LEMMA RefineGrownKeeps ==
  ASSUME HittingInv, Hitting!RefineGrown
  PROVE  HittingInv'
<1>1. /\ pc = "grow" /\ Hitting!Refine(Hitting!Outside)
      /\ exactBlocked' = exactBlocked /\ ic3Blocked' = ic3Blocked
  BY DEF Hitting!RefineGrown, Hitting!finderVars
<1> QED
  BY <1>1, OutsideCorrects, RefineKeeps

\* A gate that leaves the candidate unsafe is added to it.
LEMMA CandidateGrowsKeeps ==
  ASSUME HittingInv, Hitting!GrowStep
  PROVE  HittingInv'
<1>1. /\ pc = "grow"
      /\ UNCHANGED <<opts, hitting, necessary, exactBlocked, ic3Blocked, cardinality, mivcs,
                     minimum, pc>>
  BY DEF Hitting!GrowStep, Hitting!finderVars, Hitting!resultVars
<1>2. PICK g \in todo :
        /\ candidate' = IF Safe(candidate \union {g}) THEN candidate ELSE candidate \union {g}
        /\ todo' = todo \ {g}
  BY HittingNotions DEF Hitting!GrowStep
<1>3. candidate' \in SUBSET Gate /\ ~Safe(candidate') /\ candidate \subseteq candidate'
  BY <1>1, <1>2 DEF HittingInv, HittingTypes, UnsafeRight
<1>4. HittingTypes'
  BY <1>1, <1>2, <1>3 DEF HittingInv, HittingTypes
<1>5. Found' = Found /\ Candidates' = Candidates
  BY <1>1 DEF Found, Candidates
<1>6. ClausesRight' /\ CoresRight'
  BY <1>1, <1>5 DEF HittingInv, ClausesRight, CoresRight, Corrects, Safe, Refutes
<1>7. BlockedRight'
  <2>1. SinglesKnown => SinglesKnown'
    BY <1>1 DEF SinglesKnown, Corrects, Safe, Refutes
  <2>2. ExactUsed' = ExactUsed /\ \A B : Hit(B)' = Hit(B)
    BY <1>1 DEF ExactUsed, Hit
  <2> QED
    BY <1>1, <2>1, <2>2 DEF HittingInv, BlockedRight
<1>8. UnsafeRight'
  BY <1>1, <1>3 DEF HittingInv, UnsafeRight, Safe, Refutes
<1> QED
  BY <1>1, <1>4, <1>6, <1>7, <1>8 DEF HittingInv, UpfrontRight, AllCorrected

LEMMA HittingNextInv ==
  ASSUME HittingInv, Hitting!Next
  PROVE  HittingInv'
BY FindUpfrontKeeps, FindNaiveKeeps, NextCardinalityKeeps, UpfrontDoneKeeps,
   NaiveCandidateKeeps, SafeCandidateKeeps, UnsafeCandidateKeeps, NoCandidateKeeps,
   RefineSimpleKeeps, RefineExactKeeps, RefineApproxKeeps, RefineFallbackKeeps,
   CandidateGrowsKeeps, RefineGrownKeeps
DEF Hitting!Next

LEMMA HittingStutter ==
  ASSUME HittingInv,
         UNCHANGED <<opts, hitting, necessary, exactBlocked, ic3Blocked, cardinality, mivcs,
                     minimum, candidate, todo, pc>>
  PROVE  HittingInv'
<1>1. Found' = Found /\ Candidates' = Candidates /\ ExactUsed' = ExactUsed
  BY DEF Found, Candidates, ExactUsed
<1>2. \A S : (Safe(S)' <=> Safe(S)) /\ (Corrects(S)' <=> Corrects(S)) /\ Hit(S)' = Hit(S)
  BY DEF Safe, Refutes, Corrects, Hit
<1>3. ClausesRight' /\ CoresRight' /\ AllCorrected'
  BY <1>1, <1>2 DEF HittingInv, ClausesRight, CoresRight, AllCorrected
<1>4. BlockedRight'
  <2>1. SinglesKnown' = SinglesKnown
    BY <1>2 DEF SinglesKnown
  <2> QED
    BY <1>1, <1>2, <2>1 DEF HittingInv, BlockedRight
<1>5. HittingTypes' /\ UpfrontRight'
  BY DEF HittingInv, HittingTypes, UpfrontRight
<1>6. UnsafeRight'
  BY DEF HittingInv, UnsafeRight, Safe, Refutes
<1> QED
  BY <1>1, <1>3, <1>4, <1>5, <1>6 DEF HittingInv

\* The assertions on what a search for a correction set finds.
LEMMA CorrectionSetsFound ==
  ASSUME HittingInv
  PROVE  Hitting!CorrectionSetFound
<1> DEFINE Out == Gate \ candidate
<1>1. ASSUME pc = "exact"
      PROVE  Hitting!ExactOverGates(Hitting!Outside) # {}
  <2>1. /\ Hitting!Outside = Out /\ Out \in SUBSET Gate /\ Corrects(Out)
        /\ opts.ar /\ opts.mcs = "exact" /\ necessary \subseteq candidate
        /\ \A cls \in hitting : cls.neg = {} => cls.pos \intersect candidate # {}
    BY <1>1, OutsideCorrects DEF HittingInv, UnsafeRight
  <2>2. SinglesKnown /\ \A B \in exactBlocked : (\E g \in necessary : B = {g}) \/ Hit(B) \in hitting
    BY <1>1, <2>1 DEF HittingInv, BlockedRight, ExactUsed
  <2>3. \A B \in exactBlocked : ~(B \subseteq Out)
    BY <2>1, <2>2 DEF Hit
  <2>4. Cardinality(Out) \in Nat /\ Cardinality(Out) >= 2
    <3>1. Out # {}
      BY <2>1, ExtremesSafety DEF Corrects
    <3>2. \A g \in Out : Out # {g}
      BY <2>1, <2>2 DEF SinglesKnown
    <3> HIDE DEF Out
    <3>3. Cardinality(Out) \in Nat \ {0} /\ Cardinality(Out) # 1
      BY <2>1, <3>1, <3>2, SingleGate
    <3> QED
      BY <3>3
  <2> HIDE DEF Out
  <2>5. Out \in Hitting!ExactSolutions(Out, Cardinality(Out))
    <3>1. Out \in SUBSET Out /\ Cardinality(Out) <= Cardinality(Out)
      BY <2>4
    <3> QED
      BY <2>1, <2>3, <3>1, DebuggerComplete DEF Hitting!ExactSolutions
  <2>6. Cardinality(Out) \in 2 .. Cardinality(Out)
    BY <2>4
  <2> QED
    BY <2>1, <2>5, <2>6, ExactLoop
<1>2. ASSUME pc = "approx"
      PROVE  Hitting!IC3OverGates(Hitting!Outside) # {}
  <2>1. /\ Hitting!Outside = Out /\ Out \in SUBSET Gate /\ Corrects(Out)
        /\ \A cls \in hitting : cls.neg = {} => cls.pos \intersect candidate # {}
    BY <1>2, OutsideCorrects DEF HittingInv, UnsafeRight
  <2>2. \A B \in ic3Blocked : ~(B \subseteq Out)
    BY <2>1 DEF HittingInv, BlockedRight, Hit
  <2>3. Cardinality(Out) \in Nat \ {0}
    <3>1. Out # {}
      BY <2>1, ExtremesSafety DEF Corrects
    <3> QED
      BY <2>1, <3>1, SingleGate
  <2> HIDE DEF Out
  <2>4. Out \in Hitting!IC3Solutions(Out, Cardinality(Out))
    <3>1. Out \in SUBSET Out /\ Cardinality(Out) <= Cardinality(Out)
      BY <2>3
    <3> QED
      BY <2>1, <2>2, <3>1, DebuggerComplete DEF Hitting!IC3Solutions
  <2>5. Cardinality(Out) \in 1 .. Cardinality(Out)
    BY <2>3
  <2> QED
    BY <2>1, <2>4, <2>5, FallbackLoop
<1> QED
  BY <1>1, <1>2 DEF Hitting!CorrectionSetFound

LEMMA NecessaryAreApart ==
  ASSUME HittingInv
  PROVE  Hitting!NecessaryNotSelected
BY SmallestIsApart, HittingNotions
DEF Hitting!NecessaryNotSelected, Hitting!HittingSets, Candidates

--------------------------------------------------------------------------------
(* The three of them.                                                         *)

\* The invariant of the finder that runs.
Inv ==
  /\ algorithm \in {"seeds", "hitting", "unified"}
  /\ algorithm = "unified" => UnifiedInv
  /\ algorithm = "hitting" => HittingInv
  /\ algorithm = "seeds" /\ HintsFit => SeedsInv

LEMMA InitInv == Init => Inv
BY UnifiedInitInv, HittingInitInv, SeedsInitInv DEF Init, Inv

LEMMA NextInv ==
  ASSUME Inv, [Next]_vars
  PROVE  Inv'
<1>1. CASE SeedStep
  BY <1>1, SeedsNextInv DEF SeedStep, Inv, HintsFit
<1>2. CASE HittingStep
  BY <1>2, HittingNextInv DEF HittingStep, Inv
<1>3. CASE UnifiedStep
  BY <1>3, UnifiedNextInv DEF UnifiedStep, Inv
<1>4. CASE UNCHANGED vars
  <2>1. /\ UNCHANGED <<algorithm, opts, mivcs, minimum, todo, pc, map, smallest, seed>>
        /\ UNCHANGED unifiedVars
        /\ UNCHANGED <<hitting, necessary, exactBlocked, ic3Blocked, cardinality, candidate>>
    BY <1>4 DEF vars, seedVars, hittingVars
  <2> QED
    BY <2>1, UnifiedStutter, HittingStutter, SeedsStutter DEF Inv
<1> QED
  BY <1>1, <1>2, <1>3, <1>4 DEF Next

\* Every finder keeps its invariant, with any setting of its options that it is
\* meant for; MARCOIVCFinder does so if its hints fit the model.
THEOREM Invariance == Spec => []Inv
<1>1. Init => Inv
  BY InitInv
<1>2. Inv /\ [Next]_vars => Inv'
  BY NextInv
<1> QED
  BY <1>1, <1>2, PTL DEF Spec

\* UnifiedIVCFinder's caches hold no entry twice, although entries move to the front
\* and a full cache drops its oldest (unified_ivc.cpp:596, 626, 646, 684).
THEOREM CachesStayDistinct == Spec => []CacheEntriesDistinct
<1>1. Inv => CacheEntriesDistinct
  BY
  DEF Inv, UnifiedInv, CachesDistinct, CacheEntriesDistinct,
      Unified!CacheEntriesDistinct
<1> QED
  BY <1>1, Invariance, PTL

\* The proof with which UnifiedIVCFinder shrinks a seed proves it, also when it was
\* cached for another (unified_ivc.cpp:295).
THEOREM SeedsAreProved == Spec => []ProofOfSeed
<1>1. Inv => ProofOfSeed
  BY UnifiedNotions
  DEF Inv, UnifiedInv, SeedRight, CachedProof, ProofOfSeed, Unified!ProofOfSeed
<1> QED
  BY <1>1, Invariance, PTL

\* m_mivc_lb exceeds nothing that is still to be found.
LEMMA BoundHolds ==
  ASSUME UnifiedInv
  PROVE  Unified!LowerBoundSound
<1>1. \A T : Unified!Cardinality(T) = Cardinality(T)
  BY DEF Unified!Cardinality, Cardinality
<1>2. lowerBound \in Nat /\ \A S \in Unexplored : lowerBound <= Cardinality(S)
  BY DEF UnifiedInv, UnifiedTypes, BoundRight
<1>3. ASSUME NEW M \in MIVC \ Found
      PROVE  Cardinality(M) >= lowerBound
  <2>1. M \in Unexplored /\ Cardinality(M) \in Nat
    BY CoreFacts, GateFinite, Sizes DEF UnifiedInv, MapRight
  <2> QED
    BY <1>2, <2>1
<1>4. ASSUME pc \in {"check", "core", "shrink"}
      PROVE  Cardinality(seed) >= lowerBound
  <2>1. seed \in SUBSET Gate /\ Cardinality(seed) \in Nat
    BY GateFinite, Sizes DEF UnifiedInv, UnifiedTypes
  <2>2. CASE pc = "check"
    BY <1>2, <2>1, <2>2 DEF UnifiedInv, SeedRight
  <2>3. CASE pc \in {"core", "shrink"}
    <3>1. Safe(seed) /\ \A F \in Found : ~(F \subseteq seed)
      BY <2>3 DEF UnifiedInv, SeedRight
    <3>2. PICK M \in MIVC : M \subseteq seed /\ M \in Unexplored
      BY <2>1, <3>1, SafeSeedIsNew DEF UnifiedInv
    <3>3. lowerBound <= Cardinality(M) /\ Cardinality(M) <= Cardinality(seed)
          /\ Cardinality(M) \in Nat
      BY <1>2, <2>1, <3>2, GateFinite, Sizes
    <3> QED
      BY <1>2, <2>1, <3>3
  <2> QED
    BY <1>4, <2>2, <2>3
<1> QED
  BY <1>1, <1>3, <1>4, UnifiedNotions, UnifiedSame DEF Unified!LowerBoundSound

\* The assertions on what the searches find hold (caivc.cpp:261, 287 and 388,
\* unified_ivc.cpp:231 and 267).
THEOREM SearchesFind == Spec => []AssertionsHold
<1>1. Inv => AssertionsHold
  BY CorrectionSetsFound, NecessaryAreApart, BoundHolds DEF Inv, AssertionsHold
<1> QED
  BY <1>1, Invariance, PTL

\* What marco_ivc.cpp:254 asserts holds of the models in which some other seed that
\* the hints allow is unsafe: blocking that one down excludes the empty seed with it.
THEOREM EmptySeedIsExcluded ==
  ASSUME HintsFit, UnsafeSeedsExist
  PROVE  Spec => []BlockedSeedNotEmpty
<1>1. Inv => BlockedSeedNotEmpty
  BY SeedsAreNotEmpty DEF Inv, BlockedSeedNotEmpty
<1> QED
  BY <1>1, Invariance, PTL

--------------------------------------------------------------------------------
(* What they report.                                                          *)

LEMMA RecordAppends ==
  ASSUME HittingInv, NEW S \in MIVC \ Found, GoodRecord(S)
  PROVE  /\ mivcs' = Append(mivcs, S)
         /\ minimum' = IF Found = {} THEN S ELSE minimum
         /\ Len(mivcs') = Len(mivcs) + 1 /\ Len(mivcs) \in Nat /\ mivcs'[Len(mivcs')] = S
         /\ \A i \in DOMAIN mivcs : mivcs'[i] = mivcs[i]
<1>1. mivcs \in Seq(MIVC) /\ (minimum = {} <=> Found = {})
  <2>1. \A F \in Found : F # {}
    BY CoreFacts DEF HittingInv, HittingTypes, Found
  <2> QED
    BY <2>1 DEF HittingInv, HittingTypes, CoresRight
<1>2. /\ mivcs' = Append(mivcs, S)
      /\ minimum' = IF minimum = {} THEN S ELSE minimum
  BY DEF GoodRecord, Hitting!Record
<1> QED
  BY <1>1, <1>2

\* What a step of CAIVCFinder may do to its results.
LEMMA HittingResults ==
  ASSUME HittingInv, Hitting!Next
  PROVE  \/ \E S \in MIVC \ Found : GoodRecord(S) /\ pc' = pc /\ pc # "done"
         \/ UNCHANGED <<mivcs, minimum>> /\ pc # "done" /\ pc' # "done"
         \/ UNCHANGED <<hitting, mivcs, minimum>> /\ pc # "done" /\ pc' = "done"
<1> USE DEF Hitting!resultVars
<1>1. CASE Hitting!FindUpfront \/ Hitting!FindNaive
  BY <1>1 DEF Hitting!FindUpfront, Hitting!FindNaive, Hitting!InUpfrontLoop
<1>2. CASE Hitting!NextCardinality \/ Hitting!UpfrontDone
  BY <1>2 DEF Hitting!NextCardinality, Hitting!UpfrontDone, Hitting!InUpfrontLoop
<1>3. CASE Hitting!NaiveCandidate
  BY <1>3, NaiveCandidateKeeps DEF Hitting!NaiveCandidate
<1>4. CASE Hitting!SafeCandidate
  BY <1>4, SafeCandidateKeeps DEF Hitting!SafeCandidate
<1>5. CASE Hitting!UnsafeCandidate
  BY <1>5 DEF Hitting!UnsafeCandidate
<1>6. CASE Hitting!NoCandidate
  BY <1>6 DEF Hitting!NoCandidate
<1>7. CASE Hitting!RefineSimple \/ Hitting!RefineExact
  BY <1>7 DEF Hitting!RefineSimple, Hitting!RefineExact, Hitting!Refine
<1>8. CASE Hitting!RefineApprox \/ Hitting!RefineFallback
  BY <1>8 DEF Hitting!RefineApprox, Hitting!RefineFallback, Hitting!Refine
<1>9. CASE Hitting!GrowStep \/ Hitting!RefineGrown
  BY <1>9 DEF Hitting!GrowStep, Hitting!RefineGrown, Hitting!Refine
<1> QED
  BY <1>1, <1>2, <1>3, <1>4, <1>5, <1>6, <1>7, <1>8, <1>9 DEF Hitting!Next

\* CAIVCFinder reports the cores in order of their size: the candidates are smallest
\* hitting sets, and more sets to hit make no hitting set smaller (caivc.cpp:377).
THEOREM ReportedBySize == Spec => InOrderOfSize
<1>1. ASSUME Inv, [Next]_vars
      PROVE  [algorithm = "hitting" =>
                \A i \in DOMAIN mivcs : i < Len(mivcs') =>
                  Cardinality(mivcs'[i]) <= Cardinality(mivcs'[Len(mivcs')])]_mivcs
  <2> SUFFICES ASSUME algorithm = "hitting", mivcs' # mivcs, NEW i \in DOMAIN mivcs
               PROVE  Cardinality(mivcs'[i]) <= Cardinality(mivcs'[Len(mivcs')])
    OBVIOUS
  <2>1. HittingInv /\ Hitting!Next
    BY <1>1 DEF Inv, Next, SeedStep, HittingStep, UnifiedStep, vars
  <2>2. PICK S \in MIVC \ Found : GoodRecord(S)
    BY <2>1, HittingResults
  <2>3. mivcs'[Len(mivcs')] = S /\ mivcs'[i] = mivcs[i]
    BY <2>1, <2>2, RecordAppends
  <2>4. mivcs[i] \in Found
    BY DEF Found
  <2> QED
    BY <2>2, <2>3, <2>4 DEF GoodRecord
<1> QED
  BY <1>1, Invariance, PTL DEF Spec, InOrderOfSize

\* What a step of UnifiedIVCFinder may do to its results.
LEMMA UnifiedResults ==
  ASSUME UnifiedInv, Unified!Next
  PROVE  \/ \E S \in MIVC \ Found :
              /\ Unified!FinishSafe(S) /\ Found' = Found \union {S}
              /\ UpOnly => Cardinality(S) = lowerBound
              /\ pc \notin {"upfront", "done"}
         \/ UNCHANGED <<opts, mivcs, minimum>> /\ pc # "done" /\ pc' # "done"
         \/ Unified!MapExhausted
<1> USE DEF Unified!resultVars, Unified!NextIteration
<1>1. CASE Unified!FindMCSesUpfront \/ Unified!NextSeed
  BY <1>1 DEF Unified!FindMCSesUpfront, Unified!NextSeed
<1>2. CASE Unified!MapExhausted
  BY <1>2
<1>3. CASE Unified!SafeMinimalSeed
  <2>1. /\ seed \in MIVC \ Found /\ Unified!FinishSafe(seed) /\ pc = "check"
        /\ Cardinality(seed) = lowerBound
    BY <1>3, SafeMinimalSeedKeeps DEF Unified!SafeMinimalSeed, UnifiedInv, SeedRight
  <2>2. Found' = Found \union {seed}
    BY <2>1, RangeAppend
    DEF Unified!FinishSafe, Unified!RecordMIVC, Found, UnifiedInv, MapRight
  <2> QED
    BY <2>1, <2>2
<1>4. CASE Unified!SafeSeed \/ Unified!UnsafeSeed
  BY <1>4 DEF Unified!SafeSeed, Unified!UnsafeSeed
<1>5. CASE Unified!UnsafeMaximalSeed
  BY <1>5 DEF Unified!UnsafeMaximalSeed, Unified!FinishUnsafe
<1>6. CASE Unified!ShrinkUC
  BY <1>6 DEF Unified!ShrinkUC
<1>7. CASE Unified!ShrinkKeepsByMap
  BY <1>7 DEF Unified!ShrinkKeepsByMap
<1>8. CASE Unified!ShrinkStep
  BY <1>8 DEF Unified!ShrinkStep
<1>9. CASE Unified!ShrinkDone
  <2>1. /\ seed \in MIVC \ Found /\ Unified!FinishSafe(seed) /\ pc = "shrink" /\ ~UpOnly
    BY <1>9, ShrunkIsCore DEF Unified!ShrinkDone
  <2>2. Found' = Found \union {seed}
    BY <2>1, RangeAppend
    DEF Unified!FinishSafe, Unified!RecordMIVC, Found, UnifiedInv, MapRight
  <2> QED
    BY <2>1, <2>2
<1>10. CASE Unified!GrowByMCS
  BY <1>10 DEF Unified!GrowByMCS, Unified!FinishUnsafe
<1>11. CASE Unified!GrowStep
  BY <1>11 DEF Unified!GrowStep
<1>12. CASE Unified!GrowDone
  BY <1>12 DEF Unified!GrowDone, Unified!FinishUnsafe
<1> QED
  BY <1>1, <1>2, <1>3, <1>4, <1>5, <1>6, <1>7, <1>8, <1>9, <1>10, <1>11, <1>12
  DEF Unified!Next

\* What a step of a finder that shrinks seeds may do to its results.
LEMMA SeedResults ==
  ASSUME SeedsInv, Seeds!Next
  PROVE  \/ /\ pc = "shrink" /\ todo = {} /\ UNCHANGED <<opts, minimum>>
            /\ mivcs' = Append(mivcs, seed)
            /\ pc' = IF Marco THEN "unexplored" ELSE "done"
         \/ UNCHANGED <<opts, mivcs, minimum>> /\ pc # "done" /\ pc' # "done"
         \/ Seeds!MapExhausted
<1>1. CASE Seeds!ShrinkWhole \/ Seeds!SafeSeed
  BY <1>1 DEF Seeds!ShrinkWhole, Seeds!SafeSeed, Seeds!EnterShrink
<1>2. CASE Seeds!UnsafeSeed
  BY <1>2 DEF Seeds!UnsafeSeed
<1>3. CASE Seeds!blockDown
  BY <1>3 DEF Seeds!blockDown
<1>4. CASE Seeds!MapExhausted
  BY <1>4
<1>5. CASE Seeds!ShrinkUC
  BY <1>5 DEF Seeds!ShrinkUC
<1>6. CASE Seeds!ShrinkStep
  BY <1>6 DEF Seeds!ShrinkStep
<1>7. CASE Seeds!ReportAndBlock
  BY <1>7 DEF Seeds!ReportAndBlock, Marco
<1>8. CASE Seeds!Report
  BY <1>8 DEF Seeds!Report, Marco
<1> QED
  BY <1>1, <1>2, <1>3, <1>4, <1>5, <1>6, <1>7, <1>8 DEF Seeds!Next

\* The announcement and the return that the refinement mapping speaks of.
Announced == IF algorithm = "unified" THEN Unified!Promised ELSE minimum
Returned == pc = "done" /\ (algorithm = "seeds" => Marco)

LEMMA QuietStep ==
  ASSUME UNCHANGED mivcs, Announced' = Announced, Returned' = Returned
  PROVE  UNCHANGED Enumeration!vars
BY DEF Enumeration!vars, Announced, Returned, Marco

LEMMA ReportStep ==
  ASSUME ~Returned, ~Returned', NEW S \in MIVC \ Found, mivcs' = Append(mivcs, S),
         \/ Announced' = Announced
         \/ Announced = {} /\ Announced' \in (Found \union {S}) \intersect SmallestIVC
  PROVE  Enumeration!Next
<1>1. Enumeration!Reported = Found
  BY DEF Enumeration!Reported, Found
<1> QED
  BY <1>1
  DEF Enumeration!Next, Enumeration!Report, Enumeration!Announcement, Announced,
              Returned, Marco

LEMMA ReturnStep ==
  ASSUME ~Returned, Returned', UNCHANGED mivcs, MIVC \subseteq Found, Announced' # {},
         \/ Announced' = Announced
         \/ Announced = {} /\ Announced' \in Found \intersect SmallestIVC
  PROVE  Enumeration!Next
<1>1. Enumeration!Reported = Found
  BY DEF Enumeration!Reported, Found
<1> QED
  BY <1>1
  DEF Enumeration!Next, Enumeration!Return, Enumeration!Announcement, Announced,
              Returned, Marco

LEMMA HittingSimulates ==
  ASSUME algorithm = "hitting", algorithm' = "hitting", HittingInv, HittingInv', Hitting!Next
  PROVE  [Enumeration!Next]_Enumeration!vars
<1>1. Announced = minimum /\ Announced' = minimum'
  BY DEF Announced
<1>2. Returned = (pc = "done") /\ Returned' = (pc' = "done")
  BY DEF Returned
<1>3. CASE \E S \in MIVC \ Found : GoodRecord(S) /\ pc' = pc /\ pc # "done"
  <2>1. PICK S \in MIVC \ Found : GoodRecord(S) /\ pc' = pc /\ pc # "done"
    BY <1>3
  <2>2. mivcs' = Append(mivcs, S) /\ minimum' = IF Found = {} THEN S ELSE minimum
    BY <2>1, RecordAppends
  <2>3. Found = {} => minimum = {} /\ S \in SmallestIVC
    BY <2>1 DEF HittingInv, CoresRight, GoodRecord
  <2> QED
    BY <1>1, <1>2, <2>1, <2>2, <2>3, ReportStep
<1>4. CASE UNCHANGED <<mivcs, minimum>> /\ pc # "done" /\ pc' # "done"
  BY <1>1, <1>2, <1>4, QuietStep
<1>5. CASE UNCHANGED <<hitting, mivcs, minimum>> /\ pc # "done" /\ pc' = "done"
  <2>1. Candidates = {}
    BY <1>5 DEF HittingInv, Candidates
  <2>2. MIVC \subseteq Found
    BY <2>1, NewCoreIsCandidate
  <2>3. PICK M \in MIVC : M \subseteq Gate
    BY CoreBelow, ExtremesSafety
  <2>4. minimum \in Found /\ minimum # {}
    BY <2>2, <2>3, CoreFacts DEF HittingInv, HittingTypes, CoresRight, Found
  <2> QED
    BY <1>1, <1>2, <1>5, <2>2, <2>4, ReturnStep
<1> QED
  BY <1>3, <1>4, <1>5, HittingResults

LEMMA SeedsSimulate ==
  ASSUME algorithm = "seeds", algorithm' = "seeds", SeedsInv, Seeds!Next
  PROVE  [Enumeration!Next]_Enumeration!vars
<1>1. Announced = minimum /\ Announced' = minimum'
  BY DEF Announced
<1>2. Returned = (pc = "done" /\ Marco) /\ Returned' = (pc' = "done" /\ Marco')
  BY DEF Returned
<1>3. ASSUME pc = "shrink", todo = {}, UNCHANGED <<opts, minimum>>,
             mivcs' = Append(mivcs, seed), pc' = IF Marco THEN "unexplored" ELSE "done"
      PROVE  Enumeration!Next
  <2>1. seed \in MIVC /\ Marco' = Marco
    BY <1>3, SeedIsCore DEF Marco
  <2>2. seed \notin Found
    <3>1. ~Marco => Found = {}
      BY <1>3 DEF SeedsInv, ResultsRight, Found
    <3> QED
      BY <1>3, <3>1, SeedIsCore
  <2> QED
    BY <1>1, <1>2, <1>3, <2>1, <2>2, ReportStep
<1>4. CASE UNCHANGED <<opts, mivcs, minimum>> /\ pc # "done" /\ pc' # "done"
  BY <1>1, <1>2, <1>4, QuietStep
<1>5. CASE Seeds!MapExhausted
  <2>1. /\ pc = "unexplored" /\ Seeds!Unexplored = {} /\ minimum' = smallest /\ pc' = "done"
        /\ UNCHANGED <<opts, mivcs>>
    BY <1>5 DEF Seeds!MapExhausted
  <2>2. Marco /\ MapRight /\ Unexplored = {} /\ minimum = {}
    BY <2>1, SeedNotions DEF SeedsInv, ResultsRight
  <2>3. Marco'
    BY <2>1, <2>2 DEF Marco
  <2>4. Found = MIVC /\ smallest \in Found \intersect SmallestIVC /\ smallest # {}
    BY <2>2, AllFound
  <2> QED
    BY <1>1, <1>2, <2>1, <2>2, <2>3, <2>4, ReturnStep
<1> QED
  BY <1>3, <1>4, <1>5, SeedResults

\* Without zigzag a core of the size of the bound is a minimum when it comes first.
LEMMA UnifiedReports ==
  ASSUME algorithm = "unified", algorithm' = "unified", UnifiedInv,
         NEW S \in MIVC \ Found, Unified!FinishSafe(S), pc \notin {"upfront", "done"},
         UpOnly => Cardinality(S) = lowerBound
  PROVE  Enumeration!Next
<1>1. /\ mivcs' = Append(mivcs, S) /\ pc' = "unexplored" /\ UNCHANGED opts
      /\ minimum' = IF minimum = {} /\ Cardinality(S) = lowerBound THEN S ELSE minimum
  <2>1. \A T : Unified!Cardinality(T) = Cardinality(T)
    BY DEF Unified!Cardinality, Cardinality
  <2> QED
    BY <2>1 DEF Unified!FinishSafe, Unified!RecordMIVC, Unified!NextIteration
<1>2. ~Returned /\ ~Returned'
  BY <1>1 DEF Returned
<1>3. CASE Unified!ZigZag
  <2>1. Announced = {} /\ Announced' = {}
    BY <1>1, <1>3 DEF Announced, Unified!Promised, Unified!ZigZag
  <2> QED
    BY <1>1, <1>2, <2>1, ReportStep
<1>4. CASE ~Unified!ZigZag
  <2>1. Announced = minimum /\ Announced' = minimum'
    BY <1>1, <1>4 DEF Announced, Unified!Promised, Unified!ZigZag
  <2>2. ASSUME minimum' # minimum
        PROVE  minimum = {} /\ minimum' = S /\ S \in SmallestIVC
    <3>1. minimum = {} /\ minimum' = S /\ Cardinality(S) = lowerBound
      BY <1>1, <2>2
    <3>2. Cardinality(S) # 0
      BY CoreFacts, GateFinite, FS_Subset, FS_EmptySet
    <3>3. UpOnly
      BY <1>4, <3>1, <3>2
      DEF UnifiedInv, UnifiedTypes, BoundRight, UpOnly, Unified!ZigZag
    <3>4. Found = {}
      BY <3>1, <3>3 DEF UnifiedInv, BoundRight
    <3>5. \A M \in MIVC : Cardinality(S) <= Cardinality(M)
      BY <3>1, <3>4 DEF UnifiedInv, MapRight, BoundRight
    <3> QED
      BY <3>1, <3>5, SmallestCore
  <2> QED
    BY <1>1, <1>2, <2>1, <2>2, ReportStep
<1> QED
  BY <1>3, <1>4

LEMMA UnifiedSimulates ==
  ASSUME algorithm = "unified", algorithm' = "unified", UnifiedInv, Unified!Next
  PROVE  [Enumeration!Next]_Enumeration!vars
<1>1. CASE \E S \in MIVC \ Found :
             /\ Unified!FinishSafe(S) /\ Found' = Found \union {S}
             /\ UpOnly => Cardinality(S) = lowerBound
             /\ pc \notin {"upfront", "done"}
  BY <1>1, UnifiedReports
<1>2. CASE UNCHANGED <<opts, mivcs, minimum>> /\ pc # "done" /\ pc' # "done"
  <2>1. Announced' = Announced /\ Returned' = Returned
    BY <1>2 DEF Announced, Returned, Unified!Promised, Unified!ZigZag
  <2> QED
    BY <1>2, <2>1, QuietStep
<1>3. CASE Unified!MapExhausted
  <2>1. /\ pc = "unexplored" /\ pc' = "done" /\ Unexplored = {}
        /\ minimum' = IF minimum = {} THEN smallest ELSE minimum
        /\ UNCHANGED <<opts, mivcs, smallest>>
    BY <1>3, UnifiedSame DEF Unified!MapExhausted
  <2>2. Found = MIVC /\ smallest \in Found \intersect SmallestIVC /\ smallest # {}
    BY <2>1, AllFound DEF UnifiedInv
  <2>3. ~Returned /\ Returned'
    BY <2>1 DEF Returned
  <2>4. CASE Unified!ZigZag
    <3>1. Announced = {} /\ Announced' = smallest
      BY <2>1, <2>4 DEF Announced, Unified!Promised, Unified!ZigZag
    <3> QED
      BY <2>1, <2>2, <2>3, <3>1, ReturnStep
  <2>5. CASE ~Unified!ZigZag
    <3>1. Announced = minimum /\ Announced' = minimum'
      BY <2>1, <2>5 DEF Announced, Unified!Promised, Unified!ZigZag
    <3> QED
      BY <2>1, <2>2, <2>3, <3>1, ReturnStep
  <2> QED
    BY <2>4, <2>5
<1> QED
  BY <1>1, <1>2, <1>3, UnifiedResults

LEMMA InitSimulates ==
  ASSUME Init
  PROVE  Enumeration!Init
<1>1. mivcs = <<>> /\ minimum = {} /\ pc # "done"
  BY DEF Init, Seeds!Init, Hitting!Init, Unified!Init
<1>2. Announced = {} /\ Returned = FALSE
  BY <1>1 DEF Announced, Returned, Unified!Promised
<1> QED
  BY <1>1, <1>2 DEF Enumeration!Init, Announced, Returned, Marco

\* Each of the three finders implements the complete enumeration that is promised to
\* its caller, as far as it announces a minimum; MARCOIVCFinder does if its hints fit
\* the model (marco_ivc.cpp:271).
THEOREM Refinement ==
  ASSUME HintsFit
  PROVE  Spec => ImplementsEnumeration
<1>1. Init => Enumeration!Init
  BY InitSimulates
<1>2. ASSUME Inv, Inv', [Next]_vars
      PROVE  [Enumeration!Next]_Enumeration!vars
  <2>1. CASE SeedStep
    BY <2>1, <1>2, SeedsSimulate DEF SeedStep, Inv
  <2>2. CASE HittingStep
    BY <2>2, <1>2, HittingSimulates DEF HittingStep, Inv
  <2>3. CASE UnifiedStep
    BY <2>3, <1>2, UnifiedSimulates DEF UnifiedStep, Inv
  <2>4. CASE UNCHANGED vars
    <3>1. UNCHANGED <<algorithm, opts, mivcs, minimum, smallest, pc>>
      BY <2>4 DEF vars, seedVars
    <3>2. Announced' = Announced /\ Returned' = Returned
      BY <3>1 DEF Announced, Returned, Marco, Unified!Promised, Unified!ZigZag
    <3> QED
      BY <3>1, <3>2, QuietStep
  <2> QED
    BY <1>2, <2>1, <2>2, <2>3, <2>4 DEF Next
<1> QED
  BY <1>1, <1>2, Invariance, PTL DEF Spec, ImplementsEnumeration, Enumeration!Spec

================================================================================
