-------------------------- MODULE CorrectionSetsProofs --------------------------
(******************************************************************************)
(* The correction set finders, on every model, with every bound and after     *)
(* every sequence of calls: what they remember as searched is, the debuggers  *)
(* have blocked all that is known, and each call returns what it promises.    *)
(******************************************************************************)
EXTENDS CorrectionSets, SharedTheorems, SequenceTheorems

--------------------------------------------------------------------------------
(* Solutions of a debugger.                                                   *)

LEMMA GateFinite == IsFiniteSet(Gate) /\ Cardinality(Gate) = NumGates
<1>1. IsFiniteSet(Gate) /\ Cardinality(Gate) = NumGates - 1 - 0 + 1
  BY GatesAssumption, FS_Interval DEF Gate
<1> QED
  BY <1>1, GatesAssumption

LEMMA GateSets ==
  ASSUME NEW S \in SUBSET Gate
  PROVE  /\ IsFiniteSet(S)
         /\ Cardinality(S) \in Nat
         /\ Cardinality(S) <= NumGates
         /\ \A T \in SUBSET S : /\ Cardinality(T) \in Nat
                                /\ Cardinality(T) <= Cardinality(S)
                                /\ Cardinality(S) <= Cardinality(T) => S = T
<1>1. /\ Cardinality(Gate) \in Nat
      /\ \A T \in SUBSET Gate : Cardinality(T) <= Cardinality(Gate)
  BY GateFinite, Sizes
<1>2. /\ IsFiniteSet(S)
      /\ Cardinality(S) \in Nat
      /\ \A T \in SUBSET S : /\ Cardinality(T) \in Nat
                             /\ Cardinality(T) <= Cardinality(S)
                             /\ Cardinality(S) <= Cardinality(T) => S = T
  BY GateFinite, Sizes
<1> QED
  BY <1>1, <1>2, GateFinite

\* More blocked sets, fewer gates, smaller sizes and fewer depths leave fewer.
LEMMA FewerSolutions ==
  ASSUME NEW A, NEW B, A \subseteq B, NEW G \in SUBSET Gate, NEW H \in SUBSET G,
         NEW n \in Int, NEW m \in Int, m <= n, NEW K, NEW J, J \subseteq K
  PROVE  DebugSolutions(B, H, m, J) \subseteq DebugSolutions(A, G, n, K)
<1> SUFFICES ASSUME NEW C \in DebugSolutions(B, H, m, J)
             PROVE  C \in DebugSolutions(A, G, n, K)
  OBVIOUS
<1>1. C \in SUBSET Gate /\ C \in SUBSET G /\ Cardinality(C) <= m
  BY DEF DebugSolutions
<1>2. Cardinality(C) <= n
  BY <1>1, GateSets
<1> QED
  BY <1>1, <1>2 DEF DebugSolutions

\* Sizes that no set can have are no bounds.
LEMMA LargeSizes ==
  ASSUME NEW B, NEW G \in SUBSET Gate, NEW K, NEW n \in Int, Cardinality(G) <= n,
         NEW m \in Int, Cardinality(G) <= m
  PROVE  DebugSolutions(B, G, n, K) = DebugSolutions(B, G, m, K)
<1>1. \A C \in SUBSET G : Cardinality(C) <= n /\ Cardinality(C) <= m
  BY GateSets
<1> QED
  BY <1>1 DEF DebugSolutions

\* The empty set corrects nothing.
LEMMA NoEmptySolution ==
  ASSUME NEW B, NEW G \in SUBSET Gate, NEW K
  PROVE  DebugSolutions(B, G, 0, K) = {}
<1> SUFFICES ASSUME NEW C \in DebugSolutions(B, G, 0, K) PROVE FALSE
  OBVIOUS
<1>1. C \in SUBSET Gate /\ Cardinality(C) <= 0
  BY DEF DebugSolutions
<1>2. C = {}
  <2>1. Cardinality({}) = 0
    BY FS_EmptySet
  <2> QED
    BY <1>1, <2>1, GateSets
<1>3. PICK x \in Counterexamples : x.cut \subseteq C
  BY DEF DebugSolutions
<1> QED
  BY <1>2, <1>3, CounterexamplesAssumption

\* A solution corrects the model, and sets that do are solutions unless blocked.
LEMMA SolutionsCorrect ==
  ASSUME NEW C \in SUBSET Gate
  PROVE  Corrects(C) <=> \E x \in Counterexamples : x.depth \in AnyDepth /\ x.cut \subseteq C
<1>1. \A x \in Counterexamples : Refutes(x, Gate \ C) <=> x.cut \subseteq C
  BY CounterexamplesAssumption DEF Refutes
<1> QED
  BY <1>1 DEF Corrects, Safe, AnyDepth

\* A solution is minimal if no smaller one is left.
LEMMA SolutionsAreMinimal ==
  ASSUME NEW B, NEW G \in SUBSET Gate, NEW n \in Nat, NEW K, K \subseteq AnyDepth,
         NEW C \in DebugSolutions(B, G, n, K), DebugSolutions(B, G, n - 1, AnyDepth) = {}
  PROVE  C \in MCS
<1>1. C \in SUBSET Gate /\ C \in SUBSET G /\ Cardinality(C) <= n
  BY DEF DebugSolutions
<1>2. Corrects(C)
  BY <1>1, SolutionsCorrect DEF DebugSolutions
<1>3. ASSUME NEW g \in C, Corrects(C \ {g})
      PROVE  FALSE
  <2>1. C \ {g} \in SUBSET Gate /\ Cardinality(C \ {g}) < Cardinality(C)
    BY <1>1, GateSets
  <2>2. Cardinality(C \ {g}) <= n - 1
    BY <1>1, <2>1, GateSets
  <2>3. C \ {g} \in DebugSolutions(B, G, n - 1, AnyDepth)
    BY <1>1, <1>3, <2>1, <2>2, SolutionsCorrect DEF DebugSolutions
  <2> QED
    BY <2>3
<1> QED
  BY <1>1, <1>2, <1>3 DEF MCS

--------------------------------------------------------------------------------
(* The inductive invariant.                                                   *)

Kinds == {"none", "next", "all", "among", "batch", "more", "block"}

BMCDebuggers ==
  [cardinality : 0 .. CardinalityInf, capacity : Nat,
   blocked : SUBSET SUBSET Gate, clauses : SUBSET SUBSET Gate]
IC3Debuggers == [cardinality : 0 .. CardinalityInf, blocked : SUBSET SUBSET Gate]

TypeOK ==
  /\ opts \in Configurations
  /\ bmc \in BMCDebuggers
  /\ ic3 \in IC3Debuggers
  /\ m_cardinality \in 1 .. NumGates + 1
  /\ m_exhausted \subseteq Nat \X Nat
  /\ m_k_max \in Nat /\ m_k_min \in Nat
  /\ call \in [kind : Kinds, gates : SUBSET Gate, n : 0 .. CardinalityInf,
               before : SUBSET SUBSET Gate]
  /\ results \in Seq(SUBSET Gate)
  /\ answer \in BOOLEAN
  /\ cardinality \in Nat /\ k \in Nat /\ lastSoln \in Nat
  /\ pc \in {"ready", "find", "more", "giveUp", "check", "fallback"}

\* What each kind of call is for, and where it can be.
CallRight ==
  /\ call.kind # "among" => call.gates = Gate
  /\ call.kind = "among" => call.n = CardinalityInf
  /\ pc = "find" => /\ call.kind \in {"next", "all", "among", "batch"}
                    /\ Basic => call.kind # "batch"
  /\ pc = "giveUp" => ~Basic /\ call.kind = "batch" /\ cardinality <= MaxCardinality
  /\ pc = "check" => ~Basic /\ call.kind = "among" /\ cardinality <= MaxCardinality
  /\ pc = "fallback" => ~Basic /\ call.kind = "among"
  /\ pc = "more" =>
       \/ call.kind = "more"
       \/ Basic /\ call.kind \in {"next", "all", "among"} /\ cardinality <= call.n
       \/ ~Basic /\ call.kind = "among" /\ cardinality <= Cardinality(call.gates)
  /\ pc \in {"find", "check", "giveUp", "fallback"} => cardinality >= 1
  /\ pc = "more" /\ call.kind # "more" => cardinality >= 1

\* What the search of a call has done with: all depths of the sizes before, in a
\* search with BMC also those depths of this size that were tried.  Among gates
\* there is something to find.
SearchRight ==
  /\ (pc = "find" /\ Basic) \/ pc = "fallback"
       => Left(call.gates, cardinality - 1, AnyDepth) = {}
  /\ pc = "more" /\ call.kind # "more" => Left(call.gates, cardinality, AnyDepth) = {}
  /\ Basic /\ call.kind = "among" /\ pc # "ready"
       => Left(call.gates, NumGates, AnyDepth) # {}
  /\ pc = "find" /\ ~Basic /\ call.kind \in {"next", "all"} =>
       /\ Left(call.gates, cardinality - 1, 0 .. m_k_max) = {}
       /\ Left(call.gates, cardinality, { d \in 0 .. m_k_max : d < k }) = {}

Inv == /\ TypeOK /\ CallRight /\ SearchRight
       /\ DebuggersAgree /\ SearchedIsDone /\ AnswersRight

--------------------------------------------------------------------------------
(* Facts about the operators of the finders.                                  *)

LEMMA OptionsMean ==
  ASSUME TypeOK
  PROVE  /\ opts.hybrid_kmax \in Nat
         /\ opts.mcs_bmc_nmax \in Nat /\ opts.mcs_bmc_nmax >= 1
         /\ opts.mcs_bmc_kmin \in Nat /\ opts.mcs_bmc_kmax \in Nat
         /\ opts.mcs_bmc_kmin <= opts.mcs_bmc_kmax
BY ConfigurationsAssumption DEF TypeOK

\* Among the gates of a call there are no more than all gates.
LEMMA CallMeans ==
  ASSUME TypeOK
  PROVE  /\ call.gates \in SUBSET Gate /\ call.n \in Nat /\ call.n <= CardinalityInf
         /\ Cardinality(call.gates) \in Nat /\ Cardinality(call.gates) <= NumGates
         /\ NumGates \in Nat /\ CardinalityInf \in Nat /\ NumGates + 1 < CardinalityInf
<1>1. call.gates \in SUBSET Gate
  BY DEF TypeOK
<1> QED
  BY <1>1, GateSets, GatesAssumption, SizesAssumption DEF TypeOK

LEMMA MaxCardinalityIs ==
  ASSUME TypeOK, ~Basic
  PROVE  /\ MaxCardinality \in Nat
         /\ MaxCardinality <= call.n
         /\ MaxCardinality <= Cardinality(call.gates)
         /\ MaxCardinality <= NumGates
BY CallMeans, OptionsMean DEF MaxCardinality, Least

\* What is known after a step that starts a call, or finds a set.
LEMMA KnownAtStart ==
  ASSUME NEW kind, NEW gates, NEW n, StartCall(kind, gates, n)
  PROVE  Known' = Known
<1>1. call'.before = Known /\ results' = <<>>
  BY DEF StartCall
<1>2. { results'[i] : i \in DOMAIN results' } = {}
  BY <1>1
<1> QED
  BY <1>1, <1>2 DEF Known

LEMMA KnownWithOneMore ==
  ASSUME TypeOK, NEW C \in SUBSET Gate, results' = Append(results, C), call' = call
  PROVE  Known' = Known \union {C} /\ results' \in Seq(SUBSET Gate)
<1>1. results \in Seq(SUBSET Gate)
  BY DEF TypeOK
<1>2. results' \in Seq(SUBSET Gate)
  BY <1>1
<1>3. { results'[i] : i \in DOMAIN results' } = { results[i] : i \in DOMAIN results } \union {C}
  BY <1>1, RangeAppend
<1> QED
  BY <1>2, <1>3 DEF Known

LEMMA KnownIsKept ==
  ASSUME UNCHANGED <<call, results>>
  PROVE  Known' = Known
BY DEF Known

LEMMA KnownType == TypeOK => Known \in SUBSET SUBSET Gate
<1> SUFFICES ASSUME TypeOK PROVE Known \in SUBSET SUBSET Gate
  OBVIOUS
<1>1. \A i \in DOMAIN results : results[i] \in SUBSET Gate
  BY DEF TypeOK
<1> QED
  BY <1>1 DEF Known, TypeOK

\* A debugger that is set to a size, or to none if no set can have more gates.
Sized(d, n) == /\ d.blocked = Known
               /\ \/ d.cardinality = n /\ n < CardinalityInf
                  \/ d.cardinality = CardinalityInf /\ n >= NumGates

LEMMA BMCSizedIs ==
  ASSUME TypeOK, DebuggersAgree, NEW n \in Nat
  PROVE  /\ Sized(BMCSized(n), n)
         /\ BMCSized(n) \in BMCDebuggers
         /\ BMCSized(n).clauses = Known
         /\ BMCSized(n).cardinality < CardinalityInf
              => BMCSized(n).cardinality < BMCSized(n).capacity
<1>1. /\ bmc \in BMCDebuggers
      /\ bmc.blocked = Known /\ bmc.clauses = Known
      /\ bmc.cardinality < CardinalityInf => bmc.cardinality < bmc.capacity
  BY DEF TypeOK, DebuggersAgree
<1>2. CASE n >= NumGates
  BY <1>1, <1>2, CallMeans DEF BMCSized, Sized, BMCDebuggers
<1>3. CASE ~(n >= NumGates)
  <2>1. n \in 0 .. CardinalityInf /\ n < CardinalityInf /\ n + 1 \in Nat
    BY <1>3, CallMeans
  <2>2. BMCSized(n) = WithCardinality(bmc, n)
    BY <1>3 DEF BMCSized
  <2>3. CASE bmc.cardinality < n \/ bmc.cardinality = CardinalityInf
    <3>1. BMCSized(n)
            = [bmc EXCEPT !.cardinality = n, !.capacity = n + 1, !.blocked = bmc.clauses]
      BY <2>2, <2>3 DEF WithCardinality
    <3>2. /\ BMCSized(n).cardinality = n /\ BMCSized(n).capacity = n + 1
          /\ BMCSized(n).blocked = Known /\ BMCSized(n).clauses = Known
      BY <1>1, <3>1 DEF BMCDebuggers
    <3>3. BMCSized(n) \in BMCDebuggers
      BY <1>1, <2>1, <3>1 DEF BMCDebuggers
    <3> QED
      BY <2>1, <3>2, <3>3 DEF Sized
  <2>4. CASE ~(bmc.cardinality < n \/ bmc.cardinality = CardinalityInf)
    <3>1. BMCSized(n) = [bmc EXCEPT !.cardinality = n]
      BY <2>2, <2>4 DEF WithCardinality
    <3> QED
      BY <1>1, <2>1, <2>4, <3>1, CallMeans DEF Sized, BMCDebuggers
  <2> QED
    BY <2>3, <2>4
<1> QED
  BY <1>2, <1>3

LEMMA IC3SizedIs ==
  ASSUME TypeOK, DebuggersAgree, NEW n \in Nat
  PROVE  /\ Sized(IC3Sized(n), n)
         /\ IC3Sized(n) \in IC3Debuggers
<1>1. ic3 \in IC3Debuggers
      /\ ic3.blocked = Known
  BY DEF TypeOK, DebuggersAgree
<1>2. CASE n >= NumGates
  BY <1>1, <1>2, CallMeans DEF IC3Sized, Sized, IC3Debuggers
<1>3. CASE ~(n >= NumGates)
  <2>1. n \in 0 .. CardinalityInf /\ n < CardinalityInf
    BY <1>3, CallMeans
  <2> QED
    BY <1>1, <1>3, <2>1 DEF IC3Sized, Sized, IC3Debuggers
<1> QED
  BY <1>2, <1>3

\* Its solutions are those that are left, of that size.
LEMMA SizedSolutions ==
  ASSUME TypeOK, NEW d, NEW n \in Nat, Sized(d, n), NEW G \in SUBSET Gate, NEW K
  PROVE  DebugSolutions(d.blocked, G, d.cardinality, K) = Left(G, n, K)
<1>1. CASE d.cardinality = n
  BY <1>1 DEF Sized, Left
<1>2. CASE d.cardinality = CardinalityInf /\ n >= NumGates
  <2>1. Cardinality(G) <= n /\ Cardinality(G) <= CardinalityInf /\ CardinalityInf \in Int
    BY <1>2, GateSets, CallMeans
  <2>2. DebugSolutions(Known, G, CardinalityInf, K) = DebugSolutions(Known, G, n, K)
    BY <2>1, LargeSizes
  <2> QED
    BY <1>2, <2>2 DEF Sized, Left
<1> QED
  BY <1>1, <1>2 DEF Sized

LEMMA IC3AnswersAre ==
  ASSUME TypeOK, NEW d, NEW n \in Nat, Sized(d, n), NEW G \in SUBSET Gate
  PROVE  IC3Answers(d, G) = Left(G, n, AnyDepth)
BY SizedSolutions DEF IC3Answers

LEMMA BMCAnswersAre ==
  ASSUME TypeOK, NEW d, NEW n \in Nat, Sized(d, n), NEW G \in SUBSET Gate, NEW K
  PROVE  BMCAnswers(d, G, K) \subseteq Left(G, n, AnyDepth)
<1> SUFFICES ASSUME NEW C \in BMCAnswers(d, G, K) PROVE C \in Left(G, n, AnyDepth)
  OBVIOUS
<1>1. PICK i \in K : C \in AnswersAt(d, G, i)
  BY DEF BMCAnswers
<1>2. C \in Left(G, n, {i})
  BY <1>1, SizedSolutions DEF AnswersAt
<1> QED
  BY <1>2 DEF Left, DebugSolutions, AnyDepth

\* What HybridDebugger does not find with BMC it finds with IC3.
LEMMA HybridAnswersAre ==
  ASSUME TypeOK, NEW b, NEW i, NEW n \in Nat, Sized(b, n), Sized(i, n),
         NEW G \in SUBSET Gate
  PROVE  /\ HybridAnswers(b, i, G) \subseteq Left(G, n, AnyDepth)
         /\ HybridAnswers(b, i, G) = {} => Left(G, n, AnyDepth) = {}
BY IC3AnswersAre, BMCAnswersAre DEF HybridAnswers

\* What is left in a step that may block sets, and for a smaller search.
LEMMA LessIsLeft ==
  ASSUME Known \subseteq Known', NEW G \in SUBSET Gate, NEW H \in SUBSET G,
         NEW n \in Int, NEW m \in Int, m <= n, NEW K, NEW J, J \subseteq K,
         Left(G, n, K) = {}
  PROVE  DebugSolutions(Known', H, m, J) = {} /\ Left(H, m, J) = {}
BY FewerSolutions DEF Left

LEMMA NoneAmong ==
  ASSUME NEW G \in SUBSET Gate, NEW n, NEW K, Left(Gate, n, K) = {}
  PROVE  DebugSolutions(Known, G, n, K) = {}
BY DEF Left, DebugSolutions

LEMMA ExhaustedStays ==
  ASSUME TypeOK, SearchedIsDone, Known \subseteq Known', NEW p \in m_exhausted
  PROVE  Left(Gate, p[2], {p[1]})' = {}
<1>1. p \in Nat \X Nat
  BY DEF TypeOK
<1> DEFINE n == p[2]
           D == {p[1]}
<1>2. n \in Int
  BY <1>1
<1>3. Left(Gate, n, D) = {}
  BY DEF SearchedIsDone
<1> HIDE DEF n, D
<1>4. DebugSolutions(Known', Gate, n, D) = {}
  BY <1>2, <1>3, LessIsLeft
<1> USE DEF n, D
<1>5. DebugSolutions(Known', Gate, p[2], {p[1]}) = {}
  BY <1>4
<1> QED
  BY <1>5 DEF Left

LEMMA SearchedStaysDone ==
  ASSUME TypeOK, SearchedIsDone, Known \subseteq Known',
         UNCHANGED <<m_cardinality, m_exhausted>>
  PROVE  SearchedIsDone'
<1>1. Left(Gate, m_cardinality - 1, AnyDepth)' = {}
  <2>1. m_cardinality - 1 \in Int /\ Left(Gate, m_cardinality - 1, AnyDepth) = {}
    BY CallMeans DEF SearchedIsDone, TypeOK
  <2>2. DebugSolutions(Known', Gate, m_cardinality - 1, AnyDepth) = {}
    BY <2>1, LessIsLeft
  <2> QED
    BY <2>2 DEF Left
<1>2. \A p \in m_exhausted' : Left(Gate, p[2], {p[1]})' = {}
  BY ExhaustedStays
<1> QED
  BY <1>1, <1>2 DEF SearchedIsDone

\* A set that is found among the gates of the call.
LEMMA FoundWithOneMore ==
  ASSUME TypeOK, FoundIsLeft, UNCHANGED <<opts, call>>,
         NEW n \in Nat, n <= call.n, NEW K, K \subseteq AnyDepth,
         NEW C \in Left(call.gates, n, K), results' = Append(results, C),
         Basic => Left(call.gates, n - 1, AnyDepth) = {}
  PROVE  FoundIsLeft' /\ C \in SUBSET Gate /\ Known' = Known \union {C}
<1>1. C \in SUBSET Gate /\ C \subseteq call.gates /\ Cardinality(C) <= n
  BY CallMeans DEF Left, DebugSolutions
<1>2. Cardinality(C) <= call.n
  BY <1>1, GateSets, CallMeans
<1>3. Corrects(C) /\ \A B \in call.before : ~(B \subseteq C)
  BY <1>1, SolutionsCorrect DEF Left, DebugSolutions, Known
<1>4. Basic => C \in MCS
  BY SolutionsAreMinimal, CallMeans DEF Left
<1>5. \A i \in DOMAIN results' :
        \/ results'[i] = C
        \/ i \in DOMAIN results /\ results'[i] = results[i]
  BY <1>1, RangeAppend DEF TypeOK
<1> QED
  BY <1>1, <1>2, <1>3, <1>4, <1>5, KnownWithOneMore DEF FoundIsLeft, Basic

\* Nothing is left of size 0, or without a depth.
LEMMA NothingLeftAtFirst ==
  ASSUME NEW B, NEW G \in SUBSET Gate, NEW n, NEW K
  PROVE  DebugSolutions(B, G, 0, K) = {} /\ DebugSolutions(B, G, n, {}) = {}
<1>1. DebugSolutions(B, G, n, {}) = {}
  BY DEF DebugSolutions
<1> QED
  BY <1>1, NoEmptySolution

--------------------------------------------------------------------------------
(* The steps of the client.                                                   *)

LEMMA CallStarts ==
  ASSUME Inv, NEW kind, NEW gates, NEW n, StartCall(kind, gates, n)
  PROVE  /\ Known' = Known /\ Basic' = Basic
         /\ pc = "ready"
         /\ call' = [kind |-> kind, gates |-> gates, n |-> n, before |-> Known]
         /\ results' = <<>> /\ results' \in Seq(SUBSET Gate)
         /\ k' = 0 /\ lastSoln' = 0
         /\ UNCHANGED <<opts, bmc, ic3, m_cardinality, m_exhausted, m_k_max, m_k_min, answer>>
         /\ SearchedIsDone' /\ FoundIsLeft'
<1>1. /\ pc = "ready"
      /\ call' = [kind |-> kind, gates |-> gates, n |-> n, before |-> Known]
      /\ results' = <<>> /\ results' \in Seq(SUBSET Gate)
      /\ k' = 0 /\ lastSoln' = 0
      /\ UNCHANGED <<opts, bmc, ic3, m_cardinality, m_exhausted, m_k_max, m_k_min, answer>>
  BY DEF StartCall, debuggers, memory
<1>2. Known' = Known
  BY KnownAtStart
<1>3. Basic' = Basic
  BY <1>1 DEF Basic
<1>4. SearchedIsDone'
  BY <1>1, <1>2, SearchedStaysDone DEF Inv
<1>5. FoundIsLeft'
  BY <1>1 DEF FoundIsLeft
<1> QED
  BY <1>1, <1>2, <1>3, <1>4, <1>5

LEMMA CallStartsRight ==
  ASSUME Inv, NEW kind \in Kinds, NEW gates \in SUBSET Gate, NEW n \in 0 .. CardinalityInf,
         StartCall(kind, gates, n),
         cardinality' \in Nat, pc' \in {"find", "more"},
         pc' = "find" => cardinality' \in 1 .. NumGates + 1
  PROVE  TypeOK' /\ DebuggersAgree' /\ SearchedIsDone' /\ AnswersRight'
<1>1. /\ Known' = Known
      /\ call' = [kind |-> kind, gates |-> gates, n |-> n, before |-> Known]
      /\ results' \in Seq(SUBSET Gate)
      /\ k' = 0 /\ lastSoln' = 0
      /\ UNCHANGED <<opts, bmc, ic3, m_cardinality, m_exhausted, m_k_max, m_k_min, answer>>
      /\ SearchedIsDone' /\ FoundIsLeft'
  BY CallStarts
<1>2. Known \in SUBSET SUBSET Gate
  BY KnownType DEF Inv
<1>3. TypeOK'
  BY <1>1, <1>2 DEF Inv, TypeOK
<1>4. DebuggersAgree'
  <2>1. DebuggersAgree
    BY DEF Inv
  <2>2. pc' \in {"find", "fallback"} => cardinality' <= NumGates + 1
    BY CallMeans DEF Inv
  <2> QED
    BY <1>1, <2>1, <2>2 DEF DebuggersAgree
<1>5. AnswersRight'
  BY <1>1 DEF AnswersRight
<1> QED
  BY <1>1, <1>3, <1>4, <1>5

LEMMA CallNextAmongKeeps == Inv /\ CallNextAmong => Inv'
<1> SUFFICES ASSUME Inv, CallNextAmong PROVE Inv'
  OBVIOUS
<1>1. PICK gates \in SUBSET Gate :
        /\ Basic => Left(gates, NumGates, AnyDepth) # {}
        /\ StartCall("among", gates, CardinalityInf)
        /\ cardinality' = 1
        /\ pc' = "find"
  BY DEF CallNextAmong
<1>2. /\ Known' = Known /\ Basic' = Basic
      /\ call' = [kind |-> "among", gates |-> gates, n |-> CardinalityInf, before |-> Known]
  BY <1>1, CallStarts
<1>3. TypeOK' /\ DebuggersAgree' /\ SearchedIsDone' /\ AnswersRight'
  <2>1. CardinalityInf \in 0 .. CardinalityInf /\ 1 \in 1 .. NumGates + 1
    BY CallMeans DEF Inv
  <2>2. "among" \in Kinds
    BY DEF Kinds
  <2> QED
    BY <1>1, <2>1, <2>2, CallStartsRight
<1>4. CallRight'
  BY <1>1, <1>2 DEF CallRight
<1>5. SearchRight'
  <2>1. DebugSolutions(Known, gates, 0, AnyDepth) = {}
    BY NothingLeftAtFirst
  <2> QED
    BY <1>1, <1>2, <2>1 DEF SearchRight, Left
<1> QED
  BY <1>3, <1>4, <1>5 DEF Inv

LEMMA CallNextKeeps == Inv /\ CallNext => Inv'
<1> SUFFICES ASSUME Inv, CallNext PROVE Inv'
  OBVIOUS
<1>1. PICK kind \in {"next", "all"}, n \in AskedSizes :
        /\ StartCall(kind, Gate, n)
        /\ cardinality' = IF Basic THEN m_cardinality ELSE 1
        /\ pc' = "find"
  BY DEF CallNext
<1>2. /\ Known' = Known /\ Basic' = Basic /\ k' = 0
      /\ UNCHANGED <<m_cardinality, m_k_max>>
      /\ call' = [kind |-> kind, gates |-> Gate, n |-> n, before |-> Known]
      /\ SearchedIsDone'
  BY <1>1, CallStarts
<1>3. m_cardinality \in 1 .. NumGates + 1 /\ cardinality' \in 1 .. NumGates + 1
  BY <1>1, CallMeans DEF Inv, TypeOK
<1>4. TypeOK' /\ DebuggersAgree' /\ AnswersRight'
  <2>1. n \in 0 .. CardinalityInf /\ kind \in Kinds
    BY SizesAssumption DEF Kinds
  <2> QED
    BY <1>1, <1>3, <2>1, CallStartsRight
<1>5. CallRight'
  BY <1>1, <1>2, <1>3 DEF CallRight
<1>6. SearchRight'
  <2>1. CASE Basic
    BY <1>1, <1>2, <2>1 DEF SearchRight, SearchedIsDone, Left
  <2>2. CASE ~Basic
    <3>1. { d \in 0 .. m_k_max : d < 0 } = {} /\ cardinality' - 1 = 0
      BY <1>1, <2>2
    <3>2. /\ DebugSolutions(Known, Gate, 0, 0 .. m_k_max) = {}
          /\ DebugSolutions(Known, Gate, cardinality', {}) = {}
      BY NothingLeftAtFirst
    <3> QED
      BY <1>1, <1>2, <2>2, <3>1, <3>2 DEF SearchRight, Left
  <2> QED
    BY <2>1, <2>2
<1> QED
  BY <1>2, <1>4, <1>5, <1>6 DEF Inv

LEMMA CallBatchKeeps == Inv /\ CallBatch => Inv'
<1> SUFFICES ASSUME Inv, CallBatch PROVE Inv'
  OBVIOUS
<1>1. PICK n \in AskedSizes : 
        ~Basic /\ StartCall("batch", Gate, n) /\ cardinality' = 1 /\ pc' = "find"
  BY DEF CallBatch
<1>2. /\ Basic' = Basic
      /\ call' = [kind |-> "batch", gates |-> Gate, n |-> n, before |-> Known]
  BY <1>1, CallStarts
<1>3. TypeOK' /\ DebuggersAgree' /\ SearchedIsDone' /\ AnswersRight'
  <2>1. n \in 0 .. CardinalityInf /\ "batch" \in Kinds /\ 1 \in 1 .. NumGates + 1
    BY SizesAssumption, CallMeans DEF Kinds, Inv
  <2> QED
    BY <1>1, <2>1, CallStartsRight
<1>4. CallRight' /\ SearchRight'
  BY <1>1, <1>2 DEF CallRight, SearchRight
<1> QED
  BY <1>3, <1>4 DEF Inv

LEMMA CallMoreKeeps == Inv /\ CallMore => Inv'
<1> SUFFICES ASSUME Inv, CallMore PROVE Inv'
  OBVIOUS
<1>1. PICK n \in AskedSizes :
        StartCall("more", Gate, n) /\ pc' = "more" /\ cardinality' = cardinality
  BY DEF CallMore
<1>2. call' = [kind |-> "more", gates |-> Gate, n |-> n, before |-> Known]
  BY <1>1, CallStarts
<1>3. TypeOK' /\ DebuggersAgree' /\ SearchedIsDone' /\ AnswersRight'
  <2>1. n \in 0 .. CardinalityInf /\ "more" \in Kinds /\ cardinality' \in Nat
    BY <1>1, SizesAssumption DEF Kinds, Inv, TypeOK
  <2> QED
    BY <1>1, <2>1, CallStartsRight
<1>4. CallRight' /\ SearchRight'
  BY <1>1, <1>2 DEF CallRight, SearchRight
<1> QED
  BY <1>3, <1>4 DEF Inv

LEMMA CallBlockKeeps == Inv /\ CallBlock => Inv'
<1> SUFFICES ASSUME Inv, CallBlock PROVE Inv'
  OBVIOUS
<1>1. PICK C \in MCS :
        /\ pc = "ready"
        /\ call' = [kind |-> "block", gates |-> Gate, n |-> 0, before |-> Known \union {C}]
        /\ results' = <<>>
        /\ bmc' = BMCBlocks(C)
        /\ ic3' = Blocks(ic3, C)
        /\ UNCHANGED <<opts, m_cardinality, m_exhausted, m_k_max, m_k_min, answer,
                       cardinality, k, lastSoln, pc>>
  BY DEF CallBlock, memory, position
<1>2. C \in SUBSET Gate /\ Known \in SUBSET SUBSET Gate
  BY KnownType DEF MCS, Inv
<1>3. Known' = Known \union {C}
  <2>1. { results'[i] : i \in DOMAIN results' } = {} /\ call'.before = Known \union {C}
    BY <1>1
  <2> QED
    BY <2>1 DEF Known
<1>4. /\ bmc' = [bmc EXCEPT !.blocked = @ \union {C}, !.clauses = @ \union {C}]
      /\ ic3' = [ic3 EXCEPT !.blocked = @ \union {C}]
  BY <1>1 DEF BMCBlocks, Blocks, Inv, TypeOK, BMCDebuggers
<1>5. TypeOK'
  <2>1. /\ bmc' \in BMCDebuggers
        /\ ic3' \in IC3Debuggers
    BY <1>2, <1>4 DEF Inv, TypeOK, BMCDebuggers, IC3Debuggers
  <2>2. "block" \in Kinds /\ 0 \in 0 .. CardinalityInf /\ <<>> \in Seq(SUBSET Gate)
    BY CallMeans DEF Kinds, Inv
  <2>3. call' \in [kind : Kinds, gates : SUBSET Gate, n : 0 .. CardinalityInf,
                   before : SUBSET SUBSET Gate]
    BY <1>1, <1>2, <2>2
  <2> QED
    BY <1>1, <2>1, <2>2, <2>3 DEF Inv, TypeOK
<1>6. DebuggersAgree'
  BY <1>1, <1>3, <1>4 DEF DebuggersAgree, Inv, TypeOK, BMCDebuggers, IC3Debuggers
<1>7. SearchedIsDone'
  BY <1>1, <1>3, SearchedStaysDone DEF Inv
<1>8. CallRight' /\ SearchRight' /\ AnswersRight'
  BY <1>1 DEF CallRight, SearchRight, AnswersRight, FoundIsLeft
<1> QED
  BY <1>5, <1>6, <1>7, <1>8 DEF Inv

--------------------------------------------------------------------------------
(* A search that finds a set.                                                 *)

LEMMA SolutionBlocked ==
  ASSUME Inv, UNCHANGED <<opts, call>>,
         NEW b \in BMCDebuggers, b.blocked = Known, b.clauses = Known,
         b.cardinality < CardinalityInf => b.cardinality < b.capacity,
         NEW i \in IC3Debuggers, i.blocked = Known,
         NEW n \in Nat, n <= call.n, NEW C \in Left(call.gates, n, AnyDepth),
         Basic => Left(call.gates, n - 1, AnyDepth) = {},
         BlockSolution(b, i, C)
  PROVE  /\ bmc' \in BMCDebuggers /\ ic3' \in IC3Debuggers
         /\ bmc'.blocked = Known' /\ bmc'.clauses = Known' /\ ic3'.blocked = Known'
         /\ bmc'.cardinality < CardinalityInf => bmc'.cardinality < bmc'.capacity
         /\ Known \subseteq Known'
         /\ results' \in Seq(SUBSET Gate) /\ results' # <<>>
         /\ FoundIsLeft'
<1>1. /\ results' = Append(results, C)
      /\ bmc' = [b EXCEPT !.blocked = @ \union {C}, !.clauses = @ \union {C}]
      /\ ic3' = [i EXCEPT !.blocked = @ \union {C}]
  BY DEF BlockSolution, Blocks, BMCDebuggers
<1>2. FoundIsLeft' /\ C \in SUBSET Gate /\ Known' = Known \union {C}
  <2>1. TypeOK /\ FoundIsLeft
    BY DEF Inv, AnswersRight
  <2> QED
    BY <1>1, <2>1, FoundWithOneMore
<1>3. results' \in Seq(SUBSET Gate) /\ results' # <<>>
  BY <1>1, <1>2, KnownWithOneMore DEF Inv, TypeOK
<1>4. /\ bmc' \in BMCDebuggers /\ ic3' \in IC3Debuggers
      /\ bmc'.blocked = Known \union {C} /\ bmc'.clauses = Known \union {C}
      /\ ic3'.blocked = Known \union {C}
      /\ bmc'.cardinality = b.cardinality /\ bmc'.capacity = b.capacity
  BY <1>1, <1>2 DEF BMCDebuggers, IC3Debuggers
<1> QED
  BY <1>2, <1>3, <1>4

--------------------------------------------------------------------------------
(* The steps of BasicMCSFinder.                                               *)

\* The search has not come past the number of gates.
LEMMA SearchInBounds ==
  ASSUME Inv, pc = "find"
  PROVE  cardinality \in Nat /\ cardinality >= 1 /\ cardinality <= NumGates + 1
BY DEF Inv, TypeOK, CallRight, DebuggersAgree

LEMMA BasicFindKeeps == Inv /\ BasicFind => Inv'
<1> SUFFICES ASSUME Inv, BasicFind PROVE Inv'
  OBVIOUS
<1> DEFINE b == BMCSized(cardinality)
           i == IC3Sized(cardinality)
           answers == HybridAnswers(b, i, call.gates)
<1>1. /\ pc = "find" /\ Basic /\ cardinality <= call.n
      /\ m_cardinality' = IF call.kind = "among" THEN m_cardinality ELSE cardinality
      /\ UNCHANGED <<opts, m_exhausted, m_k_max, m_k_min, calls, call>>
  BY DEF BasicFind
<1>2. /\ TypeOK /\ DebuggersAgree /\ SearchedIsDone /\ CallRight
      /\ cardinality \in Nat /\ cardinality >= 1 /\ cardinality <= NumGates + 1
      /\ call.kind \in {"next", "all", "among"}
      /\ call.kind # "among" => call.gates = Gate
      /\ call.gates \in SUBSET Gate
  BY <1>1, SearchInBounds, CallMeans DEF Inv, CallRight
<1>3. /\ Sized(b, cardinality) /\ b \in BMCDebuggers /\ b.clauses = Known
      /\ b.cardinality < CardinalityInf => b.cardinality < b.capacity
      /\ Sized(i, cardinality) /\ i \in IC3Debuggers
  BY <1>2, BMCSizedIs, IC3SizedIs
<1>4. b.blocked = Known /\ i.blocked = Known
  BY <1>3 DEF Sized
<1>5. Left(call.gates, cardinality - 1, AnyDepth) = {}
  BY <1>1 DEF Inv, SearchRight
<1>6. /\ answers \subseteq Left(call.gates, cardinality, AnyDepth)
      /\ answers = {} => Left(call.gates, cardinality, AnyDepth) = {}
  BY <1>2, <1>3, HybridAnswersAre
<1>7. Basic' /\ m_cardinality' \in 1 .. NumGates + 1
  BY <1>1, <1>2, CallMeans DEF Basic, TypeOK
<1>8. ASSUME Known \subseteq Known' PROVE SearchedIsDone'
  <2>1. CASE call.kind = "among"
    BY <1>1, <1>2, <1>8, <2>1, SearchedStaysDone
  <2>2. CASE call.kind # "among"
    <3>1. m_cardinality' = cardinality /\ call.gates = Gate
      BY <1>1, <1>2, <2>2
    <3>2. DebugSolutions(Known', Gate, cardinality - 1, AnyDepth) = {}
      BY <1>2, <1>5, <1>8, <3>1, LessIsLeft
    <3>3. Left(Gate, m_cardinality - 1, AnyDepth)' = {}
      BY <3>1, <3>2 DEF Left
    <3>4. ASSUME NEW p \in m_exhausted' PROVE Left(Gate, p[2], {p[1]})' = {}
      BY <1>1, <1>2, <1>8, <3>4, ExhaustedStays
    <3> QED
      BY <3>3, <3>4 DEF SearchedIsDone
  <2> QED
    BY <2>1, <2>2
<1>9. ASSUME NEW C \in answers, BlockSolution(b, i, C), FoundOne
      PROVE  Inv'
  <2>1. /\ bmc' \in BMCDebuggers /\ ic3' \in IC3Debuggers
        /\ bmc'.blocked = Known' /\ bmc'.clauses = Known' /\ ic3'.blocked = Known'
        /\ bmc'.cardinality < CardinalityInf => bmc'.cardinality < bmc'.capacity
        /\ Known \subseteq Known'
        /\ results' \in Seq(SUBSET Gate) /\ results' # <<>>
        /\ FoundIsLeft'
    <3>1. C \in Left(call.gates, cardinality, AnyDepth)
      BY <1>6, <1>9
    <3> HIDE DEF b, i, answers
    <3> QED
      BY <1>1, <1>2, <1>3, <1>4, <1>5, <1>9, <3>1, SolutionBlocked
  <2>2. SearchedIsDone'
    BY <1>8, <2>1
  <2>3. CASE call.kind = "all"
    <3>1. /\ cardinality' = cardinality /\ k' = 0
          /\ UNCHANGED <<lastSoln, answer, pc>>
      BY <1>1, <1>7, <1>9, <2>3 DEF FoundOne
    <3>2. TypeOK'
      BY <1>1, <1>2, <1>7, <2>1, <3>1 DEF TypeOK
    <3>3. DebuggersAgree'
      BY <1>1, <1>2, <2>1, <3>1 DEF DebuggersAgree
    <3>4. CallRight'
      BY <1>1, <1>2, <1>7, <2>3, <3>1 DEF CallRight
    <3>5. SearchRight'
      <4>1. DebugSolutions(Known', call.gates, cardinality - 1, AnyDepth) = {}
        BY <1>2, <1>5, <2>1, LessIsLeft
      <4> QED
        BY <1>1, <1>7, <2>3, <3>1, <4>1 DEF SearchRight, Left
    <3>6. AnswersRight'
      BY <1>1, <2>1, <3>1 DEF AnswersRight
    <3> QED
      BY <2>2, <3>2, <3>3, <3>4, <3>5, <3>6 DEF Inv
  <2>4. CASE call.kind # "all"
    <3>1. answer' = TRUE /\ pc' = "ready" /\ UNCHANGED <<cardinality, k, lastSoln>>
      BY <1>9, <2>4 DEF FoundOne, Return, position
    <3>2. TypeOK'
      BY <1>1, <1>2, <1>7, <2>1, <3>1 DEF TypeOK
    <3>3. DebuggersAgree'
      BY <1>1, <1>2, <2>1, <3>1 DEF DebuggersAgree
    <3>4. CallRight' /\ SearchRight'
      BY <1>1, <1>2, <1>7, <3>1 DEF CallRight, SearchRight
    <3>5. AnswersRight'
      BY <1>1, <1>2, <2>1, <3>1 DEF AnswersRight
    <3> QED
      BY <2>2, <3>2, <3>3, <3>4, <3>5 DEF Inv
  <2> QED
    BY <2>3, <2>4
<1>10. ASSUME answers = {}, bmc' = b, ic3' = i, pc' = "more",
              UNCHANGED <<results, answer, position>>
       PROVE  Inv'
  <2>1. Known' = Known /\ UNCHANGED <<cardinality, k, lastSoln>>
    BY <1>1, <1>10, KnownIsKept DEF position
  <2>2. SearchedIsDone'
    BY <1>8, <2>1
  <2>3. TypeOK'
    BY <1>1, <1>2, <1>3, <1>7, <1>10, <2>1 DEF TypeOK
  <2>4. DebuggersAgree'
    BY <1>1, <1>2, <1>3, <1>4, <1>10, <2>1 DEF DebuggersAgree
  <2>5. CallRight'
    BY <1>1, <1>2, <1>7, <1>10, <2>1 DEF CallRight
  <2>6. SearchRight'
    <3>1. DebugSolutions(Known, call.gates, cardinality, AnyDepth) = {}
      BY <1>6, <1>10 DEF Left
    <3>2. call.kind = "among" => Left(call.gates, NumGates, AnyDepth) # {}
      BY <1>1 DEF Inv, SearchRight
    <3> QED
      BY <1>1, <1>7, <1>10, <2>1, <3>1, <3>2 DEF SearchRight, Left
  <2>7. AnswersRight'
    BY <1>1, <1>7, <1>10 DEF Inv, AnswersRight, FoundIsLeft
  <2> QED
    BY <2>2, <2>3, <2>4, <2>5, <2>6, <2>7 DEF Inv
<1> QED
  BY <1>9, <1>10 DEF BasicFind

LEMMA BasicEndKeeps == Inv /\ BasicEnd => Inv'
<1> SUFFICES ASSUME Inv, BasicEnd PROVE Inv'
  OBVIOUS
<1>1. /\ pc = "find" /\ Basic /\ cardinality > call.n
      /\ answer' = FALSE /\ pc' = "ready"
      /\ UNCHANGED <<opts, bmc, ic3, m_cardinality, m_exhausted, m_k_max, m_k_min, call,
                     results, cardinality, k, lastSoln>>
  BY DEF BasicEnd, Return, position, debuggers, memory
<1>2. Basic' /\ Known' = Known
  BY <1>1, KnownIsKept DEF Basic
<1>3. TypeOK' /\ CallRight' /\ SearchRight'
  BY <1>1, <1>2 DEF Inv, TypeOK, CallRight, SearchRight
<1>4. DebuggersAgree' /\ SearchedIsDone'
  BY <1>1, <1>2, SearchedStaysDone DEF Inv, DebuggersAgree
<1>5. DebugSolutions(Known, call.gates, call.n, AnyDepth) = {}
  <2>1. Left(call.gates, cardinality - 1, AnyDepth) = {}
    BY <1>1 DEF Inv, SearchRight
  <2>2. cardinality - 1 \in Int /\ call.n \in Int /\ call.n <= cardinality - 1
    BY <1>1, SearchInBounds, CallMeans DEF Inv
  <2> QED
    BY <2>1, <2>2, CallMeans, LessIsLeft, <1>2 DEF Inv
<1>6. AnswersRight'
  <2>1. FoundIsLeft' /\ call.kind \in {"next", "all", "among"}
    BY <1>1, <1>2 DEF Inv, AnswersRight, FoundIsLeft, CallRight
  <2>2. Left(call.gates, call.n, BMCDepths)' = {}
    BY <1>1, <1>2, <1>5 DEF Left, BMCDepths
  <2> QED
    BY <1>1, <1>2, <2>1, <2>2 DEF AnswersRight
<1> QED
  BY <1>3, <1>4, <1>6 DEF Inv

LEMMA BasicMoreKeeps == Inv /\ BasicMore => Inv'
<1> SUFFICES ASSUME Inv, BasicMore PROVE Inv'
  OBVIOUS
<1> DEFINE more == HybridAnswers(bmc', ic3', Gate) # {}
<1>1. /\ pc = "more" /\ Basic
      /\ bmc' = BMCSized(call.n) /\ ic3' = IC3Sized(call.n)
      /\ UNCHANGED <<opts, m_cardinality, m_exhausted, m_k_max, m_k_min, call, results>>
  BY DEF BasicMore, memory
<1>2. TypeOK /\ DebuggersAgree /\ CallRight /\ call.n \in Nat /\ Basic' /\ Known' = Known
  BY <1>1, KnownIsKept, CallMeans DEF Inv, Basic
<1>3. /\ Sized(bmc', call.n) /\ bmc' \in BMCDebuggers /\ bmc'.clauses = Known
      /\ bmc'.cardinality < CardinalityInf => bmc'.cardinality < bmc'.capacity
      /\ Sized(ic3', call.n) /\ ic3' \in IC3Debuggers
  BY <1>1, <1>2, BMCSizedIs, IC3SizedIs
<1>4. bmc'.blocked = Known /\ ic3'.blocked = Known
  BY <1>3 DEF Sized
<1>5. more <=> Left(Gate, call.n, AnyDepth) # {}
  BY <1>2, <1>3, HybridAnswersAre
<1>6. SearchedIsDone' /\ FoundIsLeft'
  BY <1>1, <1>2, SearchedStaysDone DEF Inv, AnswersRight, FoundIsLeft
<1>7. CASE call.kind = "more" \/ ~more
  <2>1. answer' = more /\ pc' = "ready" /\ UNCHANGED <<cardinality, k, lastSoln>>
    BY <1>7 DEF BasicMore, Return, position
  <2>2. TypeOK'
    BY <1>1, <1>2, <1>3, <2>1 DEF TypeOK
  <2>3. DebuggersAgree'
    BY <1>1, <1>2, <1>3, <1>4, <2>1 DEF DebuggersAgree
  <2>4. CallRight' /\ SearchRight'
    BY <1>1, <1>2, <2>1 DEF CallRight, SearchRight
  <2>5. ~answer' => DebugSolutions(Known, call.gates, call.n, AnyDepth) = {}
    <3>1. SUFFICES ASSUME ~answer'
                   PROVE  DebugSolutions(Known, call.gates, call.n, AnyDepth) = {}
      OBVIOUS
    <3>2. Left(Gate, call.n, AnyDepth) = {}
      BY <1>5, <2>1, <3>1
    <3>3. call.gates \in SUBSET Gate
      BY <1>2, CallMeans
    <3> QED
      BY <3>2, <3>3, NoneAmong
  <2>6. ~answer' => Left(call.gates, call.n, BMCDepths)' = {}
    BY <1>1, <1>2, <2>5 DEF Left, BMCDepths
  <2>7. answer' <=> Left(Gate, call.n, AnyDepth)' # {}
    BY <1>1, <1>2, <1>5, <2>1 DEF Left
  <2>8. answer' => call.kind = "more"
    BY <1>7, <2>1
  <2>9. AnswersRight'
    BY <1>1, <1>2, <1>6, <2>1, <2>6, <2>7, <2>8 DEF AnswersRight
  <2> QED
    BY <1>6, <2>2, <2>3, <2>4, <2>9 DEF Inv
<1>8. CASE ~(call.kind = "more" \/ ~more)
  <2>1. cardinality' = cardinality + 1 /\ pc' = "find" /\ UNCHANGED <<answer, k, lastSoln>>
    BY <1>8 DEF BasicMore
  <2>2. /\ call.kind \in {"next", "all", "among"} /\ cardinality \in Nat /\ cardinality >= 1
        /\ call.gates \in SUBSET Gate
        /\ call.kind # "among" => call.gates = Gate
    BY <1>1, <1>2, <1>8, CallMeans DEF CallRight, TypeOK
  <2>3. Left(call.gates, cardinality, AnyDepth) = {}
    BY <1>1, <1>8 DEF Inv, SearchRight
  <2>4. cardinality < NumGates
    <3>1. SUFFICES ASSUME NumGates <= cardinality PROVE FALSE
      BY <2>2, CallMeans DEF Inv
    <3>2. Left(call.gates, NumGates, AnyDepth) = {}
      <4>1. /\ NumGates \in Int /\ cardinality \in Int /\ Known \subseteq Known'
            /\ call.gates \in SUBSET Gate
        BY <1>2, <2>2, GatesAssumption
      <4> QED
        BY <2>3, <3>1, <4>1, LessIsLeft
    <3>3. call.kind # "among"
      BY <1>1, <3>2 DEF Inv, SearchRight
    <3>4. Cardinality(Gate) <= cardinality /\ Cardinality(Gate) <= NumGates
      BY <3>1, GateFinite, CallMeans, <1>2
    <3>5. PICK C \in Left(Gate, call.n, AnyDepth) : TRUE
      BY <1>5, <1>8
    <3>6. C \in SUBSET Gate /\ Cardinality(C) <= NumGates
      BY <3>5, GateSets DEF Left, DebugSolutions
    <3>7. C \in Left(Gate, NumGates, AnyDepth)
      BY <3>5, <3>6 DEF Left, DebugSolutions
    <3> QED
      BY <2>2, <3>2, <3>3, <3>7
  <2>5. TypeOK'
    BY <1>1, <1>2, <1>3, <2>1 DEF TypeOK
  <2>6. DebuggersAgree'
    BY <1>1, <1>2, <1>3, <1>4, <2>1, <2>2, <2>4, CallMeans DEF DebuggersAgree
  <2>7. CallRight'
    BY <1>1, <1>2, <2>1, <2>2 DEF CallRight
  <2>8. SearchRight'
    <3>1. cardinality' - 1 = cardinality
      BY <2>1, <2>2
    <3> QED
      BY <1>1, <1>2, <2>1, <2>3, <3>1 DEF Inv, SearchRight, Left
  <2>9. AnswersRight'
    BY <1>6, <2>1 DEF AnswersRight
  <2> QED
    BY <1>6, <2>5, <2>6, <2>7, <2>8, <2>9 DEF Inv
<1> QED
  BY <1>7, <1>8

--------------------------------------------------------------------------------
(* The steps of BMCCorrectionSetFinder.                                       *)

\* Solutions of one depth are solutions.
LEMMA OfAnyDepth ==
  ASSUME NEW G, NEW n, NEW K
  PROVE  Left(G, n, K) \subseteq Left(G, n, AnyDepth)
BY DEF Left, DebugSolutions, AnyDepth

\* Depths that have been done with add up.
LEMMA DepthsTogether ==
  ASSUME NEW B, NEW G, NEW n, NEW K, NEW J, NEW D, D \subseteq K \union J,
         DebugSolutions(B, G, n, K) = {}, DebugSolutions(B, G, n, J) = {}
  PROVE  DebugSolutions(B, G, n, D) = {}
BY DEF DebugSolutions

\* The loops of the finder leave everything but what they are about.
LEMMA FindAtKeeps == Inv /\ FindAt => Inv'
<1> SUFFICES ASSUME Inv, FindAt PROVE Inv'
  OBVIOUS
<1> DEFINE skip == IsExhausted(k, cardinality)
           b == IF skip THEN bmc ELSE BMCSized(cardinality)
           answers == IF skip THEN {} ELSE AnswersAt(b, call.gates, k)
<1>1. /\ pc = "find" /\ ~Basic /\ cardinality <= MaxCardinality /\ k <= m_k_max
      /\ UNCHANGED <<opts, m_cardinality, m_k_max, calls, call>>
  BY DEF FindAt, InRange
<1>2. /\ TypeOK /\ DebuggersAgree /\ SearchedIsDone /\ CallRight
      /\ cardinality \in Nat /\ cardinality >= 1 /\ cardinality <= NumGates + 1
      /\ k \in Nat /\ m_k_max \in Nat /\ m_k_min \in Nat
      /\ call.kind \in {"next", "all", "among", "batch"}
      /\ call.kind # "among" => call.gates = Gate
      /\ call.gates \in SUBSET Gate /\ call.n \in Nat
      /\ NumGates \in Nat
  BY <1>1, SearchInBounds, CallMeans DEF Inv, CallRight, TypeOK
<1>3. /\ b \in BMCDebuggers /\ b.clauses = Known /\ b.blocked = Known
      /\ b.cardinality < CardinalityInf => b.cardinality < b.capacity
      /\ ~skip => Sized(b, cardinality)
  <2>1. CASE skip
    BY <1>2, <2>1 DEF TypeOK, DebuggersAgree
  <2>2. CASE ~skip
    BY <1>2, <2>2, BMCSizedIs DEF Sized
  <2> QED
    BY <2>1, <2>2
<1>4. /\ ~skip => answers = Left(call.gates, cardinality, {k})
      /\ answers \subseteq Left(call.gates, cardinality, AnyDepth)
  <2>1. ~skip => answers = Left(call.gates, cardinality, {k})
    BY <1>2, <1>3, SizedSolutions DEF AnswersAt
  <2> QED
    BY <2>1, OfAnyDepth
<1>5. ~Basic' /\ MaxCardinality' = MaxCardinality
  BY <1>1 DEF Basic, MaxCardinality, Least
<1>6. ASSUME NEW C \in answers, BlockSolution(b, ic3, C), UNCHANGED m_exhausted
      PROVE  /\ bmc' \in BMCDebuggers /\ ic3' \in IC3Debuggers
             /\ bmc'.blocked = Known' /\ bmc'.clauses = Known' /\ ic3'.blocked = Known'
             /\ bmc'.cardinality < CardinalityInf => bmc'.cardinality < bmc'.capacity
             /\ results' \in Seq(SUBSET Gate) /\ results' # <<>>
             /\ FoundIsLeft' /\ SearchedIsDone'
  <2>1. ic3 \in IC3Debuggers /\ ic3.blocked = Known
    BY <1>2 DEF TypeOK, DebuggersAgree
  <2>2. C \in Left(call.gates, cardinality, AnyDepth) /\ cardinality <= call.n
    BY <1>1, <1>2, <1>4, <1>6, MaxCardinalityIs
  <2> HIDE DEF b, answers
  <2>3. /\ bmc' \in BMCDebuggers /\ ic3' \in IC3Debuggers
        /\ bmc'.blocked = Known' /\ bmc'.clauses = Known' /\ ic3'.blocked = Known'
        /\ bmc'.cardinality < CardinalityInf => bmc'.cardinality < bmc'.capacity
        /\ Known \subseteq Known'
        /\ results' \in Seq(SUBSET Gate) /\ results' # <<>>
        /\ FoundIsLeft'
    BY <1>1, <1>2, <1>3, <1>6, <2>1, <2>2, SolutionBlocked
  <2> QED
    BY <1>1, <1>2, <1>6, <2>3, SearchedStaysDone
<1>7. ASSUME NEW C \in answers, BlockSolution(b, ic3, C), UNCHANGED m_exhausted,
             call.kind = "batch",
             lastSoln' = k, m_k_min' = Greatest(m_k_min, k), pc' = "giveUp",
             UNCHANGED <<answer, cardinality, k>>
      PROVE  Inv'
  <2>1. m_k_min' \in Nat /\ m_k_min' <= m_k_max
    BY <1>1, <1>2, <1>7 DEF Greatest, DebuggersAgree
  <2>2. TypeOK'
    BY <1>1, <1>2, <1>6, <1>7, <2>1 DEF TypeOK
  <2>3. DebuggersAgree'
    BY <1>1, <1>6, <1>7, <2>1 DEF DebuggersAgree
  <2>4. CallRight' /\ SearchRight' /\ AnswersRight'
    BY <1>1, <1>2, <1>5, <1>6, <1>7 DEF CallRight, SearchRight, AnswersRight
  <2> QED
    BY <1>6, <1>7, <2>2, <2>3, <2>4 DEF Inv
<1>8. ASSUME NEW C \in answers, BlockSolution(b, ic3, C), UNCHANGED m_exhausted,
             call.kind # "batch", FoundOne, UNCHANGED m_k_min
      PROVE  Inv'
  <2>1. CASE call.kind = "all"
    <3>1. cardinality' = 1 /\ k' = 0 /\ UNCHANGED <<lastSoln, answer, pc>>
      BY <1>1, <1>8, <2>1 DEF FoundOne
    <3>2. TypeOK'
      BY <1>1, <1>2, <1>6, <1>8, <3>1 DEF TypeOK
    <3>3. DebuggersAgree'
      BY <1>1, <1>2, <1>6, <1>8, <3>1 DEF DebuggersAgree
    <3>4. CallRight' /\ AnswersRight'
      BY <1>1, <1>2, <1>5, <1>6, <1>8, <2>1, <3>1 DEF CallRight, AnswersRight
    <3>5. SearchRight'
      <4>1. { d \in 0 .. m_k_max : d < 0 } = {} /\ cardinality' - 1 = 0
        BY <3>1
      <4>2. /\ DebugSolutions(Known', call.gates, 0, 0 .. m_k_max) = {}
            /\ DebugSolutions(Known', call.gates, cardinality', {}) = {}
        BY <1>2, NothingLeftAtFirst
      <4> QED
        BY <1>1, <1>5, <2>1, <3>1, <4>1, <4>2 DEF SearchRight, Left
    <3> QED
      BY <1>6, <1>8, <3>2, <3>3, <3>4, <3>5 DEF Inv
  <2>2. CASE call.kind # "all"
    <3>1. answer' = TRUE /\ pc' = "ready" /\ UNCHANGED <<cardinality, k, lastSoln>>
      BY <1>8, <2>2 DEF FoundOne, Return, position
    <3>2. TypeOK'
      BY <1>1, <1>2, <1>6, <1>8, <3>1 DEF TypeOK
    <3>3. DebuggersAgree'
      BY <1>1, <1>2, <1>6, <1>8, <3>1 DEF DebuggersAgree
    <3>4. CallRight' /\ SearchRight' /\ AnswersRight'
      BY <1>1, <1>2, <1>5, <1>6, <1>8, <2>2, <3>1
      DEF CallRight, SearchRight, AnswersRight
    <3> QED
      BY <1>6, <1>8, <3>2, <3>3, <3>4 DEF Inv
  <2> QED
    BY <2>1, <2>2
<1>9. ASSUME answers = {}, bmc' = b,
             m_exhausted' = m_exhausted \union Exhausts(k, cardinality),
             pc' = CASE call.kind = "batch" -> "giveUp"
                     [] call.kind = "among" /\ opts.try_to_exhaust -> "check"
                     [] OTHER -> "find",
             k' = IF pc' = "check" THEN k ELSE k + 1,
             UNCHANGED <<ic3, results, answer, cardinality, lastSoln, m_k_min>>
      PROVE  Inv'
  <2>1. /\ Known' = Known
        /\ pc' \in {"giveUp", "check", "find"} /\ k' \in Nat
        /\ pc' = "giveUp" => call.kind = "batch"
        /\ pc' = "check" => call.kind = "among"
        /\ pc' = "find" => call.kind # "batch" /\ k' = k + 1
    BY <1>1, <1>2, <1>9, KnownIsKept
  <2>2. call.kind # "among" => Left(Gate, cardinality, {k}) = {}
    <3>1. CASE skip
      <4>1. Left(Gate, <<k, cardinality>>[2], {<<k, cardinality>>[1]}) = {}
        BY <1>2, <3>1 DEF SearchedIsDone, IsExhausted
      <4> QED
        BY <4>1
    <3>2. CASE ~skip
      BY <1>2, <1>4, <1>9, <3>2
    <3> QED
      BY <3>1, <3>2
  <2>3. m_exhausted' \subseteq Nat \X Nat
    BY <1>2, <1>9 DEF Exhausts, TypeOK
  <2>4. SearchedIsDone'
    <3>1. Left(Gate, m_cardinality - 1, AnyDepth)' = {}
      BY <1>1, <1>2, <2>1 DEF SearchedIsDone, Left
    <3>2. ASSUME NEW p \in m_exhausted' PROVE Left(Gate, p[2], {p[1]})' = {}
      <4>1. CASE p \in m_exhausted
        BY <1>2, <2>1, <4>1 DEF SearchedIsDone, Left
      <4>2. CASE p \notin m_exhausted
        <5>1. p = <<k, cardinality>> /\ call.kind # "among"
          BY <1>9, <3>2, <4>2 DEF Exhausts
        <5>2. p[1] = k /\ p[2] = cardinality
          BY <5>1
        <5> QED
          BY <2>1, <2>2, <5>1, <5>2 DEF Left
      <4> QED
        BY <4>1, <4>2
    <3> QED
      BY <3>1, <3>2 DEF SearchedIsDone
  <2>5. TypeOK'
    BY <1>1, <1>2, <1>3, <1>9, <2>1, <2>3 DEF TypeOK
  <2>6. DebuggersAgree'
    <3>1. ic3.blocked = Known /\ m_k_min <= m_k_max
      BY <1>2 DEF DebuggersAgree
    <3> QED
      BY <1>1, <1>2, <1>3, <1>9, <2>1, <3>1 DEF DebuggersAgree
  <2>7. CallRight'
    BY <1>1, <1>2, <1>5, <1>9, <2>1 DEF CallRight
  <2>8. SearchRight'
    <3>1. ASSUME pc' = "find", call.kind \in {"next", "all"}
          PROVE  /\ DebugSolutions(Known, call.gates, cardinality - 1, 0 .. m_k_max) = {}
                 /\ DebugSolutions(Known, call.gates, cardinality,
                                   { d \in 0 .. m_k_max : d < k' }) = {}
      <4>1. /\ Left(call.gates, cardinality - 1, 0 .. m_k_max) = {}
            /\ Left(call.gates, cardinality, { d \in 0 .. m_k_max : d < k }) = {}
        BY <1>1, <3>1 DEF Inv, SearchRight
      <4>2. { d \in 0 .. m_k_max : d < k' } \subseteq { d \in 0 .. m_k_max : d < k } \union {k}
        BY <1>2, <2>1, <3>1
      <4>3. DebugSolutions(Known, call.gates, cardinality, {k}) = {}
        BY <1>2, <2>2, <3>1 DEF Left
      <4> QED
        BY <4>1, <4>2, <4>3, DepthsTogether DEF Left
    <3>2. pc' # "fallback" /\ pc' # "more"
      BY <2>1
    <3> QED
      BY <1>1, <1>5, <1>9, <2>1, <3>1, <3>2 DEF SearchRight, Left
  <2>9. AnswersRight'
    <3>1. FoundIsLeft'
      BY <1>1, <1>5, <1>9 DEF Inv, AnswersRight, FoundIsLeft
    <3> QED
      BY <2>1, <3>1 DEF AnswersRight
  <2> QED
    BY <2>4, <2>5, <2>6, <2>7, <2>8, <2>9 DEF Inv
<1> QED
  BY <1>7, <1>8, <1>9 DEF FindAt

LEMMA CheckAtKeeps == Inv /\ CheckAt => Inv'
<1> SUFFICES ASSUME Inv, CheckAt PROVE Inv'
  OBVIOUS
<1> DEFINE skip == IsExhausted(k, cardinality)
<1>1. /\ pc = "check" /\ pc' = "find" /\ k' = k + 1
      /\ bmc' = IF skip THEN bmc ELSE BMCSized(cardinality)
      /\ m_exhausted' = IF skip \/ AnswersAt(bmc', Gate, k) = {}
                        THEN m_exhausted \union {<<k, cardinality>>}
                        ELSE m_exhausted
      /\ UNCHANGED <<opts, ic3, m_cardinality, m_k_max, m_k_min, calls, call, results,
                     answer, cardinality, lastSoln>>
  BY DEF CheckAt
<1>2. /\ TypeOK /\ DebuggersAgree /\ SearchedIsDone /\ CallRight
      /\ cardinality \in Nat /\ cardinality >= 1 /\ cardinality <= NumGates + 1
      /\ k \in Nat /\ ~Basic /\ call.kind = "among"
  <2>1. ~Basic /\ call.kind = "among" /\ cardinality <= MaxCardinality
    BY <1>1 DEF Inv, CallRight
  <2> QED
    BY <1>1, <2>1, MaxCardinalityIs, CallMeans DEF Inv, CallRight, TypeOK
<1>3. ~Basic' /\ Known' = Known
  BY <1>1, <1>2, KnownIsKept DEF Basic
<1>4. /\ bmc' \in BMCDebuggers /\ bmc'.clauses = Known /\ bmc'.blocked = Known
      /\ bmc'.cardinality < CardinalityInf => bmc'.cardinality < bmc'.capacity
      /\ ~skip => Sized(bmc', cardinality)
  <2>1. CASE skip
    BY <1>1, <1>2, <2>1 DEF TypeOK, DebuggersAgree
  <2>2. CASE ~skip
    BY <1>1, <1>2, <2>2, BMCSizedIs DEF Sized
  <2> QED
    BY <2>1, <2>2
<1>5. ASSUME NEW p \in m_exhausted' PROVE Left(Gate, p[2], {p[1]}) = {}
  <2>1. CASE p \in m_exhausted
    BY <1>2, <2>1 DEF SearchedIsDone
  <2>2. CASE p \notin m_exhausted
    <3>1. p = <<k, cardinality>> /\ (skip \/ AnswersAt(bmc', Gate, k) = {})
      BY <1>1, <1>5, <2>2
    <3>2. ~skip
      BY <2>2, <3>1 DEF IsExhausted
    <3>3. Left(Gate, cardinality, {k}) = {}
      BY <1>2, <1>4, <3>1, <3>2, SizedSolutions DEF AnswersAt
    <3>4. p[1] = k /\ p[2] = cardinality
      BY <3>1
    <3> QED
      BY <3>3, <3>4
  <2> QED
    BY <2>1, <2>2
<1>6. SearchedIsDone'
  BY <1>1, <1>2, <1>3, <1>5 DEF SearchedIsDone, Left
<1>7. TypeOK'
  BY <1>1, <1>2, <1>4 DEF TypeOK
<1>8. DebuggersAgree'
  BY <1>1, <1>2, <1>3, <1>4 DEF DebuggersAgree
<1>9. CallRight' /\ SearchRight'
  BY <1>1, <1>2, <1>3 DEF CallRight, SearchRight
<1>10. AnswersRight'
  BY <1>1, <1>3 DEF Inv, AnswersRight, FoundIsLeft
<1> QED
  BY <1>6, <1>7, <1>8, <1>9, <1>10 DEF Inv

LEMMA GiveUpKeeps == Inv /\ GiveUp => Inv'
<1> SUFFICES ASSUME Inv, GiveUp PROVE Inv'
  OBVIOUS
<1>1. /\ pc = "giveUp" /\ pc' = "find"
      /\ \/ /\ k >= m_k_min /\ m_k_max' = k
            /\ cardinality' = cardinality + 1 /\ k' = 0 /\ lastSoln' = 0
         \/ UNCHANGED <<m_k_max, cardinality, k, lastSoln>>
      /\ UNCHANGED <<opts, bmc, ic3, m_cardinality, m_exhausted, m_k_min, call, results, answer>>
  BY DEF GiveUp, position, debuggers
<1>2. /\ cardinality \in Nat /\ cardinality >= 1 /\ cardinality <= NumGates
      /\ k \in Nat /\ m_k_max \in Nat /\ m_k_min \in Nat
      /\ ~Basic /\ call.kind = "batch" /\ NumGates \in Nat
  <2>1. ~Basic /\ call.kind = "batch" /\ cardinality <= MaxCardinality
    BY <1>1 DEF Inv, CallRight
  <2> QED
    BY <1>1, <2>1, MaxCardinalityIs, CallMeans DEF Inv, CallRight, TypeOK
<1>3. ~Basic' /\ Known' = Known
  BY <1>1, <1>2, KnownIsKept DEF Basic
<1>4. TypeOK'
  BY <1>1, <1>2 DEF Inv, TypeOK
<1>5. DebuggersAgree' /\ SearchedIsDone'
  BY <1>1, <1>2, <1>3, SearchedStaysDone DEF Inv, DebuggersAgree
<1>6. CallRight' /\ SearchRight'
  BY <1>1, <1>2, <1>3 DEF Inv, CallRight, SearchRight
<1>7. AnswersRight'
  BY <1>1, <1>3 DEF Inv, AnswersRight, FoundIsLeft
<1> QED
  BY <1>4, <1>5, <1>6, <1>7 DEF Inv

LEMMA NextCardinalityKeeps == Inv /\ NextCardinality => Inv'
<1> SUFFICES ASSUME Inv, NextCardinality PROVE Inv'
  OBVIOUS
<1>1. /\ pc = "find" /\ pc' = "find" /\ ~Basic
      /\ cardinality <= MaxCardinality /\ k > m_k_max
      /\ cardinality' = cardinality + 1 /\ k' = 0 /\ lastSoln' = 0
      /\ UNCHANGED <<opts, bmc, ic3, m_cardinality, m_exhausted, m_k_max, m_k_min, call,
                     results, answer>>
  BY DEF NextCardinality, debuggers, memory
<1>2. /\ cardinality \in Nat /\ cardinality >= 1 /\ cardinality <= NumGates
      /\ k \in Nat /\ m_k_max \in Nat /\ NumGates \in Nat
  BY <1>1, SearchInBounds, MaxCardinalityIs, CallMeans DEF Inv, TypeOK
<1>3. ~Basic' /\ Known' = Known
  BY <1>1, KnownIsKept DEF Basic
<1>4. TypeOK'
  BY <1>1, <1>2 DEF Inv, TypeOK
<1>5. DebuggersAgree' /\ SearchedIsDone'
  BY <1>1, <1>2, <1>3, SearchedStaysDone DEF Inv, DebuggersAgree
<1>6. CallRight'
  BY <1>1, <1>2, <1>3 DEF Inv, CallRight
<1>7. SearchRight'
  <2>1. ASSUME call.kind \in {"next", "all"}
        PROVE  /\ DebugSolutions(Known, call.gates, cardinality, 0 .. m_k_max) = {}
               /\ DebugSolutions(Known, call.gates, cardinality',
                                 { d \in 0 .. m_k_max : d < 0 }) = {}
    <3>1. Left(call.gates, cardinality, { d \in 0 .. m_k_max : d < k }) = {}
      BY <1>1, <2>1 DEF Inv, SearchRight
    <3>2. { d \in 0 .. m_k_max : d < k } = 0 .. m_k_max
      BY <1>1, <1>2
    <3>3. { d \in 0 .. m_k_max : d < 0 } = {}
      OBVIOUS
    <3> QED
      BY <3>1, <3>2, <3>3, NothingLeftAtFirst, CallMeans DEF Left, Inv
  <2>2. cardinality' - 1 = cardinality
    BY <1>1, <1>2
  <2> QED
    BY <1>1, <1>3, <2>1, <2>2 DEF SearchRight, Left
<1>8. AnswersRight'
  BY <1>1, <1>3 DEF Inv, AnswersRight, FoundIsLeft
<1> QED
  BY <1>4, <1>5, <1>6, <1>7, <1>8 DEF Inv

LEMMA BMCEndKeeps == Inv /\ BMCEnd => Inv'
<1> SUFFICES ASSUME Inv, BMCEnd PROVE Inv'
  OBVIOUS
<1>1. /\ pc = "find" /\ ~Basic /\ cardinality > MaxCardinality
      /\ UNCHANGED <<opts, bmc, ic3, m_cardinality, m_exhausted, m_k_max, m_k_min, call, results>>
  BY DEF BMCEnd, debuggers, memory
<1>2. ~Basic' /\ Known' = Known /\ MaxCardinality' = MaxCardinality
  BY <1>1, KnownIsKept DEF Basic, MaxCardinality, Least
<1>3. SearchedIsDone' /\ FoundIsLeft'
  BY <1>1, <1>2, SearchedStaysDone DEF Inv, AnswersRight, FoundIsLeft
<1>4. /\ call.kind \in {"next", "all", "among", "batch"} /\ call.gates \in SUBSET Gate
      /\ NumGates \in Nat /\ cardinality \in Nat /\ cardinality >= 1
      /\ MaxCardinality \in Nat
  BY <1>1, CallMeans, SearchInBounds, MaxCardinalityIs DEF Inv, CallRight
<1>5. CASE call.kind = "among"
  <2>1. cardinality' = 1 /\ pc' = "fallback" /\ UNCHANGED <<answer, k, lastSoln>>
    BY <1>5 DEF BMCEnd
  <2>2. TypeOK' /\ CallRight'
    BY <1>1, <1>2, <1>5, <2>1 DEF Inv, TypeOK, CallRight
  <2>3. DebuggersAgree'
    BY <1>1, <1>2, <1>4, <2>1 DEF Inv, DebuggersAgree
  <2>4. SearchRight'
    <3>1. DebugSolutions(Known, call.gates, 0, AnyDepth) = {}
      BY <1>4, NothingLeftAtFirst
    <3> QED
      BY <1>1, <1>2, <2>1, <3>1 DEF SearchRight, Left
  <2>5. AnswersRight'
    BY <1>3, <2>1 DEF AnswersRight
  <2> QED
    BY <1>3, <2>2, <2>3, <2>4, <2>5 DEF Inv
<1>6. CASE call.kind # "among"
  <2>1. answer' = FALSE /\ pc' = "ready" /\ UNCHANGED <<cardinality, k, lastSoln>>
    BY <1>6 DEF BMCEnd, Return, position
  <2>2. TypeOK' /\ CallRight' /\ SearchRight'
    BY <1>1, <1>2, <1>6, <2>1 DEF Inv, TypeOK, CallRight, SearchRight
  <2>3. DebuggersAgree'
    BY <1>1, <1>2, <2>1 DEF Inv, DebuggersAgree
  <2>4. ASSUME call.kind \in {"next", "all"}
        PROVE  DebugSolutions(Known', call.gates, MaxCardinality, 0 .. m_k_max) = {}
    <3>1. Left(call.gates, cardinality - 1, 0 .. m_k_max) = {}
      BY <1>1, <2>4 DEF Inv, SearchRight
    <3>2. /\ cardinality - 1 \in Int /\ MaxCardinality \in Int
          /\ MaxCardinality <= cardinality - 1 /\ Known \subseteq Known'
      BY <1>1, <1>2, <1>4
    <3> QED
      BY <1>4, <3>1, <3>2, LessIsLeft
  <2>5. ASSUME call.kind \in {"next", "all"}
        PROVE  Left(call.gates, BMCSizes, BMCDepths)' = {}
    BY <1>1, <1>2, <2>4, <2>5 DEF Left, BMCSizes, BMCDepths
  <2>6. AnswersRight'
    BY <1>1, <1>2, <1>3, <1>4, <1>6, <2>1, <2>5 DEF AnswersRight
  <2> QED
    BY <1>3, <2>2, <2>3, <2>6 DEF Inv
<1> QED
  BY <1>5, <1>6

LEMMA FallbackKeeps == Inv /\ Fallback => Inv'
<1> SUFFICES ASSUME Inv, Fallback PROVE Inv'
  OBVIOUS
<1> DEFINE i == [ic3 EXCEPT !.cardinality = cardinality]
           answers == IC3Answers(i, call.gates)
<1>1. /\ pc = "fallback" /\ cardinality <= Least(call.n, Cardinality(call.gates))
      /\ UNCHANGED <<opts, m_cardinality, m_exhausted, m_k_max, m_k_min, call>>
  BY DEF Fallback, memory
<1>2. /\ TypeOK /\ DebuggersAgree /\ SearchedIsDone /\ CallRight
      /\ cardinality \in Nat /\ cardinality >= 1 /\ cardinality <= call.n
      /\ cardinality <= Cardinality(call.gates) /\ cardinality < CardinalityInf
      /\ call.gates \in SUBSET Gate /\ call.n \in Nat
      /\ ~Basic /\ call.kind = "among"
  BY <1>1, CallMeans DEF Inv, CallRight, Least, TypeOK
<1>3. ~Basic'
  BY <1>1, <1>2 DEF Basic
<1>4. /\ i \in IC3Debuggers /\ i.blocked = Known /\ Sized(i, cardinality)
      /\ bmc \in BMCDebuggers /\ bmc.clauses = Known /\ bmc.blocked = Known
      /\ bmc.cardinality < CardinalityInf => bmc.cardinality < bmc.capacity
  <2>1. ic3 \in IC3Debuggers /\ ic3.blocked = Known
    BY <1>2 DEF TypeOK, DebuggersAgree
  <2>2. cardinality \in 0 .. CardinalityInf
    BY <1>2, CallMeans
  <2>3. i \in IC3Debuggers /\ i.blocked = Known /\ i.cardinality = cardinality
    BY <2>1, <2>2 DEF IC3Debuggers
  <2> QED
    BY <1>2, <2>3 DEF Sized, TypeOK, DebuggersAgree
<1>5. answers = Left(call.gates, cardinality, AnyDepth)
  BY <1>2, <1>4, IC3AnswersAre
<1>6. ASSUME NEW C \in answers, BlockSolution(bmc, i, C), Return(TRUE)
      PROVE  Inv'
  <2>1. /\ bmc' \in BMCDebuggers /\ ic3' \in IC3Debuggers
        /\ bmc'.blocked = Known' /\ bmc'.clauses = Known' /\ ic3'.blocked = Known'
        /\ bmc'.cardinality < CardinalityInf => bmc'.cardinality < bmc'.capacity
        /\ Known \subseteq Known'
        /\ results' \in Seq(SUBSET Gate) /\ results' # <<>>
        /\ FoundIsLeft'
    <3>1. C \in Left(call.gates, cardinality, AnyDepth)
      BY <1>5, <1>6
    <3> HIDE DEF i, answers
    <3> QED
      BY <1>1, <1>2, <1>4, <1>6, <3>1, SolutionBlocked
  <2>2. answer' = TRUE /\ pc' = "ready" /\ UNCHANGED <<cardinality, k, lastSoln>>
    BY <1>6 DEF Return, position
  <2>3. TypeOK'
    BY <1>1, <1>2, <2>1, <2>2 DEF TypeOK
  <2>4. DebuggersAgree' /\ SearchedIsDone'
    BY <1>1, <1>2, <2>1, <2>2, SearchedStaysDone DEF DebuggersAgree
  <2>5. CallRight' /\ SearchRight'
    BY <1>1, <1>2, <1>3, <2>2 DEF CallRight, SearchRight
  <2>6. AnswersRight'
    BY <1>1, <1>2, <2>1, <2>2 DEF AnswersRight
  <2> QED
    BY <2>3, <2>4, <2>5, <2>6 DEF Inv
<1>7. ASSUME answers = {}, ic3' = i, pc' = "more", UNCHANGED <<bmc, results, answer, position>>
      PROVE  Inv'
  <2>1. Known' = Known /\ UNCHANGED <<cardinality, k, lastSoln>>
    BY <1>1, <1>7, KnownIsKept DEF position
  <2>2. TypeOK'
    BY <1>1, <1>2, <1>4, <1>7, <2>1 DEF TypeOK
  <2>3. DebuggersAgree' /\ SearchedIsDone'
    BY <1>1, <1>2, <1>4, <1>7, <2>1, SearchedStaysDone DEF DebuggersAgree
  <2>4. CallRight'
    BY <1>1, <1>2, <1>3, <1>7, <2>1 DEF CallRight
  <2>5. SearchRight'
    BY <1>1, <1>3, <1>5, <1>7, <2>1 DEF SearchRight, Left
  <2>6. AnswersRight'
    BY <1>1, <1>3, <1>7 DEF Inv, AnswersRight, FoundIsLeft
  <2> QED
    BY <2>2, <2>3, <2>4, <2>5, <2>6 DEF Inv
<1> QED
  BY <1>6, <1>7 DEF Fallback

LEMMA FallbackEndKeeps == Inv /\ FallbackEnd => Inv'
<1> SUFFICES ASSUME Inv, FallbackEnd PROVE Inv'
  OBVIOUS
<1>1. /\ pc = "fallback" /\ cardinality > Least(call.n, Cardinality(call.gates))
      /\ answer' = FALSE /\ pc' = "ready"
      /\ UNCHANGED <<opts, bmc, ic3, m_cardinality, m_exhausted, m_k_max, m_k_min, call,
                     results, cardinality, k, lastSoln>>
  BY DEF FallbackEnd, Return, position, debuggers, memory
<1>2. /\ ~Basic /\ ~Basic' /\ Known' = Known
      /\ call.kind = "among" /\ call.n = CardinalityInf
  BY <1>1, KnownIsKept DEF Basic, Inv, CallRight
<1>3. TypeOK' /\ CallRight' /\ SearchRight'
  BY <1>1, <1>2 DEF Inv, TypeOK, CallRight, SearchRight
<1>4. DebuggersAgree' /\ SearchedIsDone'
  BY <1>1, <1>2, SearchedStaysDone DEF Inv, DebuggersAgree
<1>5. DebugSolutions(Known, call.gates, call.n, AnyDepth) = {}
  <2>1. Left(call.gates, cardinality - 1, AnyDepth) = {}
    BY <1>1 DEF Inv, SearchRight
  <2>2. /\ cardinality - 1 \in Int /\ call.n \in Int /\ call.gates \in SUBSET Gate
        /\ Cardinality(call.gates) <= call.n /\ Cardinality(call.gates) <= cardinality - 1
    BY <1>1, <1>2, CallMeans DEF Inv, TypeOK, Least
  <2>3. DebugSolutions(Known, call.gates, cardinality - 1, AnyDepth)
          = DebugSolutions(Known, call.gates, call.n, AnyDepth)
    BY <2>2, LargeSizes
  <2> QED
    BY <2>1, <2>3 DEF Left
<1>6. AnswersRight'
  <2>1. FoundIsLeft'
    BY <1>1, <1>2 DEF Inv, AnswersRight, FoundIsLeft
  <2>2. Left(call.gates, BMCSizes, BMCDepths)' = {}
    BY <1>1, <1>2, <1>5 DEF Left, BMCSizes, BMCDepths
  <2> QED
    BY <1>1, <1>2, <2>1, <2>2 DEF AnswersRight
<1> QED
  BY <1>3, <1>4, <1>6 DEF Inv

LEMMA BMCMoreKeeps == Inv /\ BMCMore => Inv'
<1> SUFFICES ASSUME Inv, BMCMore PROVE Inv'
  OBVIOUS
<1> DEFINE byBMC == BMCAnswers(bmc', Gate, 0 .. m_k_max) # {}
           more == byBMC \/ IC3Answers(ic3', Gate) # {}
<1>1. /\ pc = "more" /\ ~Basic
      /\ bmc' = BMCSized(call.n)
      /\ ic3' = IF byBMC THEN ic3 ELSE IC3Sized(call.n)
      /\ UNCHANGED <<opts, m_cardinality, m_exhausted, m_k_max, m_k_min, call, results>>
  BY DEF BMCMore, memory
<1>2. TypeOK /\ DebuggersAgree /\ CallRight /\ call.n \in Nat /\ ~Basic' /\ Known' = Known
  BY <1>1, KnownIsKept, CallMeans DEF Inv, Basic
<1>3. /\ Sized(bmc', call.n) /\ bmc' \in BMCDebuggers /\ bmc'.clauses = Known
      /\ bmc'.cardinality < CardinalityInf => bmc'.cardinality < bmc'.capacity
      /\ ic3' \in IC3Debuggers /\ ic3'.blocked = Known
      /\ ~byBMC => Sized(ic3', call.n)
  <2>1. /\ Sized(bmc', call.n) /\ bmc' \in BMCDebuggers /\ bmc'.clauses = Known
        /\ bmc'.cardinality < CardinalityInf => bmc'.cardinality < bmc'.capacity
    BY <1>1, <1>2, BMCSizedIs
  <2> HIDE DEF byBMC
  <2>2. CASE byBMC
    BY <1>1, <1>2, <2>1, <2>2 DEF TypeOK, DebuggersAgree
  <2>3. CASE ~byBMC
    BY <1>1, <1>2, <2>1, <2>3, IC3SizedIs DEF Sized
  <2> QED
    BY <2>2, <2>3
<1>4. bmc'.blocked = Known
  BY <1>3 DEF Sized
<1>5. more <=> Left(Gate, call.n, AnyDepth) # {}
  <2>1. byBMC => Left(Gate, call.n, AnyDepth) # {}
    BY <1>2, <1>3, BMCAnswersAre
  <2>2. ~byBMC => IC3Answers(ic3', Gate) = Left(Gate, call.n, AnyDepth)
    BY <1>2, <1>3, IC3AnswersAre
  <2> QED
    BY <2>1, <2>2
<1> HIDE DEF byBMC
<1>6. SearchedIsDone' /\ FoundIsLeft'
  BY <1>1, <1>2, SearchedStaysDone DEF Inv, AnswersRight, FoundIsLeft
<1>7. CASE call.kind = "more" \/ ~more
  <2>1. answer' = more /\ pc' = "ready" /\ UNCHANGED <<cardinality, k, lastSoln>>
    BY <1>7 DEF BMCMore, Return, position, byBMC
  <2>2. TypeOK'
    BY <1>1, <1>2, <1>3, <2>1 DEF TypeOK, byBMC
  <2>3. DebuggersAgree'
    BY <1>1, <1>2, <1>3, <1>4, <2>1 DEF DebuggersAgree
  <2>4. CallRight' /\ SearchRight'
    BY <1>1, <1>2, <2>1 DEF CallRight, SearchRight
  <2>5. ~answer' => DebugSolutions(Known, call.gates, call.n, AnyDepth) = {}
    <3>1. SUFFICES ASSUME ~answer'
                   PROVE  DebugSolutions(Known, call.gates, call.n, AnyDepth) = {}
      OBVIOUS
    <3>2. Left(Gate, call.n, AnyDepth) = {}
      BY <1>5, <2>1, <3>1
    <3>3. call.gates \in SUBSET Gate
      BY <1>2, CallMeans
    <3> QED
      BY <3>2, <3>3, NoneAmong
  <2>6. ~answer' /\ call.kind = "among" => Left(call.gates, BMCSizes, BMCDepths)' = {}
    BY <1>1, <1>2, <2>5 DEF Left, BMCSizes, BMCDepths
  <2>7. answer' <=> Left(Gate, call.n, AnyDepth)' # {}
    BY <1>1, <1>2, <1>5, <2>1 DEF Left
  <2>8. /\ answer' => call.kind = "more"
        /\ call.kind \in {"more", "among"}
    BY <1>1, <1>2, <1>7, <2>1 DEF CallRight
  <2>9. AnswersRight'
    BY <1>1, <1>2, <1>6, <2>1, <2>6, <2>7, <2>8 DEF AnswersRight
  <2> QED
    BY <1>6, <2>2, <2>3, <2>4, <2>9 DEF Inv
<1>8. CASE ~(call.kind = "more" \/ ~more)
  <2>1. /\ cardinality' = cardinality + 1 /\ pc' = "fallback"
        /\ UNCHANGED <<answer, k, lastSoln>>
    BY <1>8 DEF BMCMore, byBMC
  <2>2. /\ call.kind = "among" /\ cardinality \in Nat /\ cardinality >= 1
        /\ cardinality <= Cardinality(call.gates) /\ cardinality <= NumGates
        /\ NumGates \in Nat
    BY <1>1, <1>2, <1>8, CallMeans DEF CallRight, TypeOK
  <2>3. Left(call.gates, cardinality, AnyDepth) = {}
    BY <1>1, <1>8 DEF Inv, SearchRight
  <2>4. TypeOK'
    BY <1>1, <1>2, <1>3, <2>1 DEF TypeOK
  <2>5. DebuggersAgree'
    BY <1>1, <1>2, <1>3, <1>4, <2>1, <2>2 DEF DebuggersAgree
  <2>6. CallRight'
    BY <1>1, <1>2, <2>1, <2>2 DEF CallRight
  <2>7. SearchRight'
    <3>1. cardinality' - 1 = cardinality
      BY <2>1, <2>2
    <3> QED
      BY <1>1, <1>2, <2>1, <2>3, <3>1 DEF Inv, SearchRight, Left
  <2>8. AnswersRight'
    BY <1>6, <2>1 DEF AnswersRight
  <2> QED
    BY <1>6, <2>4, <2>5, <2>6, <2>7, <2>8 DEF Inv
<1> QED
  BY <1>7, <1>8

--------------------------------------------------------------------------------
(* The theorems.                                                              *)

LEMMA InitIsRight == Init => Inv
<1> SUFFICES ASSUME Init PROVE Inv
  OBVIOUS
<1>1. opts \in Configurations /\ opts.mcs_bmc_kmin \in Nat /\ opts.mcs_bmc_kmax \in Nat
      /\ opts.mcs_bmc_kmin <= opts.mcs_bmc_kmax
  BY ConfigurationsAssumption DEF Init
<1>2. NumGates \in Nat /\ CardinalityInf \in Nat
  BY GatesAssumption, SizesAssumption
<1>3. Known = {}
  <2>1. call.before = {} /\ { results[i] : i \in DOMAIN results } = {}
    BY DEF Init
  <2> QED
    BY <2>1 DEF Known
<1>4. TypeOK
  <2>1. bmc \in BMCDebuggers /\ ic3 \in IC3Debuggers
    BY <1>2 DEF Init, BMCDebuggers, IC3Debuggers, NewBMC, NewIC3
  <2>2. call \in [kind : Kinds, gates : SUBSET Gate, n : 0 .. CardinalityInf,
                  before : SUBSET SUBSET Gate]
    BY <1>2 DEF Init, Kinds
  <2>3. results \in Seq(SUBSET Gate) /\ m_exhausted \subseteq Nat \X Nat
    BY DEF Init
  <2>4. m_cardinality \in 1 .. NumGates + 1 /\ m_k_max \in Nat /\ m_k_min \in Nat
    BY <1>1, <1>2 DEF Init
  <2>5. /\ opts \in Configurations
        /\ answer \in BOOLEAN
        /\ cardinality \in Nat /\ k \in Nat /\ lastSoln \in Nat
        /\ pc \in {"ready", "find", "more", "giveUp", "check", "fallback"}
    BY DEF Init
  <2> HIDE DEF Init
  <2> QED
    BY <2>1, <2>2, <2>3, <2>4, <2>5 DEF TypeOK
<1>5. DebuggersAgree
  BY <1>1, <1>2, <1>3 DEF Init, DebuggersAgree, NewBMC, NewIC3
<1>6. SearchedIsDone
  <2>1. m_cardinality - 1 = 0 /\ m_exhausted = {}
    BY DEF Init
  <2>2. DebugSolutions(Known, Gate, 0, AnyDepth) = {}
    BY NothingLeftAtFirst
  <2> QED
    BY <2>1, <2>2 DEF SearchedIsDone, Left
<1>7. CallRight /\ SearchRight /\ AnswersRight
  BY DEF Init, CallRight, SearchRight, AnswersRight, FoundIsLeft
<1> QED
  BY <1>4, <1>5, <1>6, <1>7 DEF Inv

\* Every step keeps the invariant.
LEMMA StepKeeps == Inv /\ [Next]_vars => Inv'
<1> SUFFICES ASSUME Inv, [Next]_vars PROVE Inv'
  OBVIOUS
<1>1. CASE Next
  BY <1>1, CallNextAmongKeeps, CallNextKeeps, CallBatchKeeps, CallMoreKeeps,
     CallBlockKeeps,
     BasicFindKeeps, BasicEndKeeps, BasicMoreKeeps, FindAtKeeps, CheckAtKeeps, GiveUpKeeps,
     NextCardinalityKeeps, BMCEndKeeps, FallbackKeeps, FallbackEndKeeps, BMCMoreKeeps
     DEF Next
<1>2. CASE UNCHANGED vars
  <2>1. UNCHANGED <<opts, bmc, ic3, m_cardinality, m_exhausted, m_k_max, m_k_min, call,
                    results, answer, cardinality, k, lastSoln, pc>>
    BY <1>2 DEF vars, debuggers, memory, position
  <2>2. Known' = Known /\ Basic' = Basic /\ MaxCardinality' = MaxCardinality
    BY <2>1, KnownIsKept DEF Basic, MaxCardinality, Least
  <2>3. TypeOK' /\ CallRight'
    BY <2>1, <2>2 DEF Inv, TypeOK, CallRight
  <2>4. SearchRight' /\ SearchedIsDone'
    BY <2>1, <2>2 DEF Inv, SearchRight, SearchedIsDone, Left
  <2>5. DebuggersAgree'
    BY <2>1, <2>2 DEF Inv, DebuggersAgree
  <2>6. AnswersRight'
    BY <2>1, <2>2 DEF Inv, AnswersRight, FoundIsLeft, Left, BMCSizes, BMCDepths
  <2> QED
    BY <2>3, <2>4, <2>5, <2>6 DEF Inv
<1> QED
  BY <1>1, <1>2

\* The invariant of the correction set finders: where a call can be, and what its
\* loops have done with.
THEOREM Invariance == Spec => []Inv
<1> QED
  BY InitIsRight, StepKeeps, PTL DEF Spec

\* Both debuggers have blocked all that is known although one of them is cleared,
\* its cardinality is one it was built for, and the loops over the sizes end at
\* the number of gates (setCardinality, blockSolution and the loops of the finders).
THEOREM BlockedIsKnown == Spec => []DebuggersAgree
<1>1. Inv => DebuggersAgree
  BY DEF Inv
<1> QED
  BY <1>1, Invariance, PTL

\* What m_cardinality and m_exhausted remember as searched has no set left.
THEOREM MemoryIsRight == Spec => []SearchedIsDone
<1>1. Inv => SearchedIsDone
  BY DEF Inv
<1> QED
  BY <1>1, Invariance, PTL

\* Each call finds sets that correct the model and were not blocked, minimal ones
\* in BasicMCSFinder, and a call that finds none has left none.
THEOREM CallsAnswerRight == Spec => []AnswersRight
<1>1. Inv => AnswersRight
  BY DEF Inv
<1> QED
  BY <1>1, Invariance, PTL

================================================================================
