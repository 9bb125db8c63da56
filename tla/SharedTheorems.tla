---------------------------- MODULE SharedTheorems -----------------------------
(******************************************************************************)
(* Facts that the proofs about several components rest on: natural numbers    *)
(* and sets, maps of subsets, lists of found sets, and consecution.  (The     *)
(* proofs about components other than minimizers do not use the last, nor its *)
(* constants.)                                                                *)
(******************************************************************************)
EXTENDS Consecution, ClauseMap, Sequences, FiniteSetTheorems, WellFoundedInduction, TLAPS

--------------------------------------------------------------------------------
(* Induction and recursion on the natural numbers. *)

\* A set of natural numbers has a least element.
LEMMA LeastNatural ==
  ASSUME NEW N \in SUBSET Nat, N # {}
  PROVE  \E m \in N : \A n \in N : m <= n
<1> DEFINE Below(n) == 1 .. n
           F == { Below(n) : n \in N }
           R == StrictSubsetOrdering(Nat)
<1>1. F \subseteq FiniteSubsetsOf(Nat)
  <2> SUFFICES ASSUME NEW n \in N PROVE Below(n) \in FiniteSubsetsOf(Nat)
    OBVIOUS
  <2>1. IsFiniteSet(Below(n))
    BY FS_Interval
  <2>2. Below(n) \in SUBSET Nat
    OBVIOUS
  <2> QED
    BY <2>1, <2>2 DEF FiniteSubsetsOf
<1>2. PICK X \in F : \A Y \in F : <<Y, X>> \notin R
  <2> HIDE DEF R, F
  <2>1. F # {}
    BY DEF F
  <2>2. IsWellFoundedOn(R, FiniteSubsetsOf(Nat))
    BY FS_StrictSubsetOrderingWellFounded DEF R
  <2> QED
    BY <1>1, <2>1, <2>2, WFMin
<1>3. PICK m \in N : X = Below(m)
  OBVIOUS
<1>4. ASSUME NEW n \in N, ~(m <= n)
      PROVE  FALSE
  <2>1. Below(n) \subseteq Below(m) /\ m \in Below(m) /\ m \notin Below(n)
    BY <1>4
  <2>2. <<Below(n), X>> \in R
    BY <1>3, <2>1 DEF StrictSubsetOrdering
  <2> QED
    BY <1>2, <2>2
<1> QED
  BY <1>4

\* A set with 0 and the number after each of its elements has every number.
LEMMA NaturalInduction ==
  ASSUME NEW N, 0 \in N, \A n \in Nat : n \in N => n + 1 \in N
  PROVE  Nat \subseteq N
<1> DEFINE M == Nat \ N
<1> SUFFICES ASSUME M # {} PROVE FALSE
  OBVIOUS
<1>1. PICK m \in M : \A n \in M : m <= n
  <2> HIDE DEF M
  <2>1. M \in SUBSET Nat
    BY DEF M
  <2> QED
    BY <2>1, LeastNatural
<1>2. m # 0 /\ m - 1 \in Nat /\ m - 1 \notin M
  BY <1>1
<1> QED
  BY <1>1, <1>2

\* The functions defined by recursion on the natural numbers.
Recursive(S, a, f) ==
  { R \in [Nat -> S] : R[0] = a /\ \A n \in Nat : R[n + 1] = f[<<n, R[n]>>] }

\* There is one.
LEMMA RecursiveExists ==
  ASSUME NEW S, NEW a \in S, NEW f \in [Nat \X S -> S]
  PROVE  Recursive(S, a, f) # {}
<1> DEFINE Upto(m) ==
      { h \in [0 .. m -> S] : h[0] = a /\ \A n \in 1 .. m : h[n] = f[<<n - 1, h[n - 1]>>] }
<1>1. ASSUME NEW m \in Nat, NEW p \in Nat, NEW g \in Upto(m), NEW h \in Upto(p), m <= p
      PROVE  \A n \in 0 .. m : g[n] = h[n]
  <2> DEFINE N == { n \in Nat : n <= m => g[n] = h[n] }
  <2>1. 0 \in N
    OBVIOUS
  <2>2. ASSUME NEW n \in Nat, n \in N, n + 1 <= m
        PROVE  g[n + 1] = h[n + 1]
    <3>1. n + 1 \in 1 .. m /\ n + 1 \in 1 .. p /\ (n + 1) - 1 = n
      BY <1>1, <2>2
    <3>2. g[n + 1] = f[<<n, g[n]>>] /\ h[n + 1] = f[<<n, h[n]>>]
      BY <3>1
    <3> QED
      BY <2>2, <3>2
  <2>3. Nat \subseteq N
    <3>1. \A n \in Nat : n \in N => n + 1 \in N
      BY <2>2
    <3> HIDE DEF N
    <3> QED
      BY <2>1, <3>1, NaturalInduction
  <2> QED
    BY <1>1, <2>3
<1>2. \A m \in Nat : Upto(m) # {}
  <2> DEFINE N == { m \in Nat : Upto(m) # {} }
  <2>1. 0 \in N
    <3>1. [n \in 0 .. 0 |-> a] \in Upto(0)
      OBVIOUS
    <3> QED
      BY <3>1
  <2>2. ASSUME NEW m \in Nat, NEW h \in Upto(m)
        PROVE  m + 1 \in N
    <3> DEFINE g == [n \in 0 .. m + 1 |-> IF n = m + 1 THEN f[<<m, h[m]>>] ELSE h[n]]
    <3>1. h[m] \in S
      OBVIOUS
    <3>2. g \in [0 .. m + 1 -> S]
      BY <3>1
    <3>3. g[0] = a
      OBVIOUS
    <3>4. ASSUME NEW n \in 1 .. m + 1
          PROVE  g[n] = f[<<n - 1, g[n - 1]>>]
      <4>1. n - 1 \in 0 .. m /\ n - 1 # m + 1
        OBVIOUS
      <4>2. g[n - 1] = h[n - 1]
        BY <4>1
      <4>3. CASE n = m + 1
        <5>1. n - 1 = m /\ n \in 0 .. m + 1
          BY <4>3
        <5>2. g[n] = f[<<m, h[m]>>]
          BY <4>3, <5>1
        <5> HIDE DEF g
        <5> QED
          BY <4>2, <5>1, <5>2
      <4>4. CASE n # m + 1
        <5>1. n \in 1 .. m
          BY <4>4
        <5> QED
          BY <4>2, <5>1
      <4> QED
        BY <4>3, <4>4
    <3>5. g \in Upto(m + 1)
      BY <3>2, <3>3, <3>4
    <3> HIDE DEF Upto, g
    <3>6. m + 1 \in Nat /\ Upto(m + 1) # {}
      BY <3>5
    <3> QED
      BY <3>6
  <2>3. Nat \subseteq N
    <3>1. \A m \in Nat : m \in N => m + 1 \in N
      BY <2>2
    <3> HIDE DEF N
    <3> QED
      BY <2>1, <3>1, NaturalInduction
  <2> QED
    BY <2>3
<1> DEFINE F(m) == CHOOSE h : h \in Upto(m)
           R == [n \in Nat |-> F(n)[n]]
<1>3. \A m \in Nat : F(m) \in Upto(m)
  BY <1>2
<1>4. R \in [Nat -> S]
  <2> SUFFICES ASSUME NEW n \in Nat PROVE F(n)[n] \in S
    OBVIOUS
  <2> HIDE DEF F
  <2> QED
    BY <1>3
<1>5. R[0] = a
  <2> HIDE DEF F
  <2> QED
    BY <1>3
<1>6. ASSUME NEW n \in Nat
      PROVE  R[n + 1] = f[<<n, R[n]>>]
  <2> HIDE DEF F
  <2>1. n + 1 \in Nat /\ n + 1 \in 1 .. n + 1 /\ n \in 0 .. n /\ n <= n + 1 /\ (n + 1) - 1 = n
    OBVIOUS
  <2>2. F(n + 1)[n + 1] = f[<<n, F(n + 1)[n]>>]
    BY <1>3, <2>1
  <2>3. F(n + 1)[n] = F(n)[n]
    <3> HIDE DEF Upto
    <3> QED
      BY <1>1, <1>3, <2>1
  <2> QED
    BY <2>1, <2>2, <2>3
<1>7. R \in Recursive(S, a, f)
  <2> HIDE DEF R
  <2> QED
    BY <1>4, <1>5, <1>6 DEF Recursive
<1> HIDE DEF R
<1> QED
  BY <1>7

--------------------------------------------------------------------------------
(* Maps: what adding a clause excludes, and that a set of subsets of a finite *)
(* universe has a smallest element.                                           *)

\* Subsets of a finite universe have a number of elements, and a proper subset
\* has fewer.
LEMMA Sizes ==
  ASSUME NEW U, IsFiniteSet(U), NEW S \in SUBSET U
  PROVE  /\ IsFiniteSet(S)
         /\ Cardinality(S) \in Nat
         /\ \A T \in SUBSET S :
              /\ Cardinality(T) \in Nat
              /\ Cardinality(T) <= Cardinality(S)
              /\ Cardinality(S) <= Cardinality(T) => S = T
<1>1. IsFiniteSet(S)
  BY FS_Subset
<1>2. Cardinality(S) \in Nat
  BY <1>1, FS_CardinalityType
<1>3. ASSUME NEW T \in SUBSET S
      PROVE  /\ Cardinality(T) \in Nat
             /\ Cardinality(T) <= Cardinality(S)
             /\ Cardinality(S) <= Cardinality(T) => S = T
  <2>1. Cardinality(T) \in Nat
    BY <1>1, FS_Subset, FS_CardinalityType
  <2>2. Cardinality(T) <= Cardinality(S) /\ (Cardinality(S) = Cardinality(T) => S = T)
    BY <1>1, FS_Subset
  <2> QED
    BY <1>2, <2>1, <2>2
<1> QED
  BY <1>1, <1>2, <1>3

\* A set of subsets of a finite universe has a smallest element.
LEMMA SmallestExists ==
  ASSUME NEW U, IsFiniteSet(U), NEW F \in SUBSET SUBSET U, F # {}
  PROVE  Smallest(F) # {}
<1> DEFINE N == { Cardinality(S) : S \in F }
<1>1. N \in SUBSET Nat /\ N # {}
  BY Sizes
<1>2. PICK m \in N : \A n \in N : m <= n
  <2> HIDE DEF N
  <2> QED
    BY <1>1, LeastNatural
<1>3. PICK S \in F : Cardinality(S) = m
  OBVIOUS
<1>4. \A T \in F : Cardinality(S) <= Cardinality(T)
  BY <1>2, <1>3
<1> QED
  BY <1>3, <1>4 DEF Smallest

\* A clause that is added excludes the solutions that do not satisfy it.
LEMMA AddClauseSolutions ==
  ASSUME NEW U, NEW map, NEW cls
  PROVE  Solutions(U, map \union {cls})
           = { S \in Solutions(U, map) : SatisfiesClause(S, cls) }
BY DEF Solutions

\* What the clauses of the enumeration exclude.
LEMMA SelectClauseIff ==
  ASSUME NEW x, NEW S
  PROVE  SatisfiesClause(S, SelectClause(x)) <=> x \in S
BY DEF SatisfiesClause, SelectClause

LEMMA BlockUpClauseIff ==
  ASSUME NEW M, NEW S
  PROVE  SatisfiesClause(S, BlockUpClause(M)) <=> ~(M \subseteq S)
BY DEF SatisfiesClause, BlockUpClause

LEMMA BlockDownClauseIff ==
  ASSUME NEW U, NEW M, NEW S \in SUBSET U
  PROVE  SatisfiesClause(S, BlockDownClause(U, M)) <=> ~(S \subseteq M)
BY DEF SatisfiesClause, BlockDownClause

LEMMA CollapseClauseIff ==
  ASSUME NEW c, NEW K, NEW S
  PROVE  SatisfiesClause(S, CollapseClause(c, K)) <=> (c \in S => S \intersect K # {})
BY DEF SatisfiesClause, CollapseClause

--------------------------------------------------------------------------------
(* The list of the sets found. *)

\* Appending a set adds it to the ones found.
LEMMA RangeAppend ==
  ASSUME NEW T, NEW s \in Seq(T), NEW x \in T
  PROVE  /\ Append(s, x) \in Seq(T)
         /\ { Append(s, x)[i] : i \in DOMAIN Append(s, x) }
              = { s[i] : i \in DOMAIN s } \union {x}
         /\ \A i \in DOMAIN Append(s, x) :
              IF i \in DOMAIN s THEN Append(s, x)[i] = s[i] ELSE Append(s, x)[i] = x
         /\ \A i, j \in DOMAIN Append(s, x) :
              i \notin DOMAIN s /\ j \notin DOMAIN s => i = j
<1>1. Append(s, x) \in Seq(T) /\ Len(s) \in Nat /\ DOMAIN s = 1 .. Len(s)
  OBVIOUS
<1>2. DOMAIN Append(s, x) = 1 .. Len(s) + 1
  OBVIOUS
<1>3. \A i \in 1 .. Len(s) : Append(s, x)[i] = s[i]
  OBVIOUS
<1>4. Append(s, x)[Len(s) + 1] = x
  OBVIOUS
<1>5. { Append(s, x)[i] : i \in DOMAIN Append(s, x) } = { s[i] : i \in DOMAIN s } \union {x}
  <2>1. ASSUME NEW i \in DOMAIN Append(s, x)
        PROVE  Append(s, x)[i] \in { s[k] : k \in DOMAIN s } \union {x}
    <3>1. CASE i \in 1 .. Len(s)
      BY <3>1, <1>1, <1>3
    <3>2. CASE i = Len(s) + 1
      BY <3>2, <1>4
    <3> QED
      BY <3>1, <3>2, <1>1, <1>2
  <2>2. ASSUME NEW i \in DOMAIN s
        PROVE  s[i] \in { Append(s, x)[k] : k \in DOMAIN Append(s, x) }
    <3>1. i \in DOMAIN Append(s, x) /\ Append(s, x)[i] = s[i]
      BY <1>1, <1>2, <1>3
    <3> QED
      BY <3>1
  <2>3. x \in { Append(s, x)[k] : k \in DOMAIN Append(s, x) }
    <3>1. Len(s) + 1 \in DOMAIN Append(s, x)
      BY <1>1, <1>2
    <3> QED
      BY <3>1, <1>4
  <2> QED
    BY <2>1, <2>2, <2>3
<1>6. \A i \in DOMAIN Append(s, x) :
        IF i \in DOMAIN s THEN Append(s, x)[i] = s[i] ELSE Append(s, x)[i] = x
  BY <1>1, <1>2, <1>3, <1>4
<1>7. \A i, j \in DOMAIN Append(s, x) : i \notin DOMAIN s /\ j \notin DOMAIN s => i = j
  BY <1>1, <1>2
<1> QED
  BY <1>1, <1>5, <1>6, <1>7

--------------------------------------------------------------------------------
(* Consecution: support is monotone in the frame, inductive sets are closed   *)
(* under union, and so each set of clauses has a largest inductive subset;    *)
(* what makes a safe inductive subset a minimal one; and that collapse        *)
(* clauses hold of all of them.                                               *)

\* A larger frame has fewer counterexamples, so it supports at least as much.
LEMMA SolveMonotone ==
  ASSUME NEW A, NEW B, A \subseteq B, NEW c, Solve(A, c)
  PROVE  Solve(B, c)
BY DEF Solve, Counterexample

\* The union of any inductive sets is inductive.
LEMMA InductiveUnion ==
  ASSUME NEW F, \A T \in F : IsInductive(T)
  PROVE  IsInductive(UNION F)
<1> SUFFICES ASSUME NEW c \in UNION F PROVE Solve(UNION F, c)
  BY DEF IsInductive
<1>1. PICK T \in F : c \in T
  OBVIOUS
<1>2. Solve(T, c)
  BY <1>1 DEF IsInductive
<1> QED
  BY <1>1, <1>2, SolveMonotone

\* LargestInductive(S) is what its name says (the set findSafeMIS computes).
LEMMA LargestInductiveIs ==
  ASSUME NEW S
  PROVE  /\ LargestInductive(S) \subseteq S
         /\ IsInductive(LargestInductive(S))
         /\ \A T : T \subseteq S /\ IsInductive(T) => T \subseteq LargestInductive(S)
<1>1. LargestInductive(S) \subseteq S
  BY DEF LargestInductive, InductiveSubsets
<1>2. IsInductive(LargestInductive(S))
  <2>1. \A T \in InductiveSubsets(S) : IsInductive(T)
    BY DEF InductiveSubsets
  <2>2. LargestInductive(S) = UNION InductiveSubsets(S)
    BY DEF LargestInductive, InductiveSubsets
  <2> QED
    BY <2>1, <2>2, InductiveUnion
<1>3. ASSUME NEW T, T \subseteq S, IsInductive(T)
      PROVE  T \subseteq LargestInductive(S)
  <2>1. T \in InductiveSubsets(S)
    BY <1>3 DEF InductiveSubsets
  <2> QED
    BY <1>3, <2>1 DEF LargestInductive
<1> QED
  BY <1>1, <1>2, <1>3

\* findSIS succeeds on exactly the sets with a safe inductive subset, and then
\* leaves one of these.
LEMMA ContainsSISIff ==
  ASSUME NEW S
  PROVE  /\ ContainsSIS(S) <=> \E T : T \subseteq S /\ IsSIS(T)
         /\ ContainsSIS(S) => IsSIS(LargestInductive(S))
<1>1. ContainsSIS(S) => IsSIS(LargestInductive(S))
  BY LargestInductiveIs DEF ContainsSIS, IsSIS
<1>2. ASSUME NEW T, T \subseteq S, IsSIS(T)
      PROVE  ContainsSIS(S)
  BY <1>2, LargestInductiveIs DEF ContainsSIS, IsSIS
<1> QED
  BY <1>1, <1>2, LargestInductiveIs

\* What contains a safe inductive subset still does when clauses are added.
LEMMA ContainsSISMonotone ==
  ASSUME NEW A, NEW B, A \subseteq B, ContainsSIS(A)
  PROVE  ContainsSIS(B)
<1>1. PICK T : T \subseteq A /\ IsSIS(T)
  BY ContainsSISIff
<1> QED
  BY <1>1, ContainsSISIff

--------------------------------------------------------------------------------
(* Facts about proofs, seeds and collapse sets.                               *)

LEMMA ClauseIDFinite == IsFiniteSet(ClauseID)
BY ProofAssumption, FS_Interval DEF ClauseID

LEMMA SISSubset ==
  ASSUME NEW S
  PROVE  S \in SIS <=> S \subseteq ClauseID /\ IsSIS(S)
BY DEF SIS

LEMMA MSISIsSIS == MSIS \subseteq SIS
BY DEF MSIS

\* A safe inductive subset is minimal when nothing can be left out but the
\* property.
LEMMA MinimalIfIrreducible ==
  ASSUME NEW S \in SUBSET ClauseID, IsSIS(S),
         \A c \in S \ {Property} : ~ContainsSIS(S \ {c})
  PROVE  S \in MSIS
<1> SUFFICES ASSUME NEW T \in SIS, T \subseteq S, T # S
             PROVE  FALSE
  BY SISSubset DEF MSIS
<1>1. PICK c \in S : c \notin T
  OBVIOUS
<1>2. c # Property
  BY <1>1, SISSubset DEF IsSIS
<1>3. T \subseteq S \ {c} /\ IsSIS(T)
  BY <1>1, SISSubset
<1> QED
  BY <1>2, <1>3, ContainsSISIff

\* A collapse clause holds of every inductive set.
LEMMA CollapseClauseSound ==
  ASSUME NEW S \in SUBSET ClauseID, IsInductive(S), NEW c, NEW K \in CollapseSets(c)
  PROVE  SatisfiesClause(S, CollapseClause(c, K))
<1> SUFFICES ASSUME c \in S PROVE S \intersect K # {}
  BY CollapseClauseIff
<1>1. PICK t \in Counterexample({}, c) : K = ClauseID \ t.pre
  BY DEF CollapseSets
<1>2. t \notin Counterexample(S, c)
  BY DEF IsInductive, Solve
<1>3. ~(S \subseteq t.pre)
  BY <1>1, <1>2 DEF Counterexample
<1> QED
  BY <1>1, <1>3

\* An unsupported clause of a set that meets all collapse sets blocked so far
\* has another one left.
LEMMA CollapseSetIsLeft ==
  ASSUME NEW S \in SUBSET ClauseID, NEW c \in Unsupported(S),
         NEW blocked, \A L \in blocked : S \intersect L # {}
  PROVE  NextCollapseSets(c, blocked) # {}
<1> DEFINE left == { K \in CollapseSets(c) : \A L \in blocked : ~(L \subseteq K) }
<1>1. PICK t : t \in Counterexample(S, c)
  BY DEF Unsupported, Solve
<1>2. t \in Counterexample({}, c) /\ S \subseteq t.pre
  BY <1>1 DEF Counterexample
<1>3. ClauseID \ t.pre \in left
  BY <1>2 DEF CollapseSets
<1>4. left \in SUBSET SUBSET ClauseID
  BY DEF CollapseSets
<1>5. Smallest(left) # {}
  <2> HIDE DEF left
  <2> QED
    BY <1>3, <1>4, ClauseIDFinite, SmallestExists
<1>6. NextCollapseSets(c, blocked) = Smallest(left)
  BY DEF NextCollapseSets, Smallest
<1> QED
  BY <1>5, <1>6

\* A found proof of least size is a smallest one when all that is unexplored is at
\* least as large.
LEMMA SmallestFoundIsSmallest ==
  ASSUME NEW found \in SUBSET SIS, NEW unexplored \in SUBSET SUBSET ClauseID,
         \A S \in SIS : S \in unexplored \/ \E M \in found : M \subseteq S,
         NEW p \in found, \A M \in found : Cardinality(p) <= Cardinality(M),
         \A S \in unexplored : Cardinality(p) <= Cardinality(S)
  PROVE  p \in SmallestSIS
<1> SUFFICES ASSUME NEW S \in SIS PROVE Cardinality(p) <= Cardinality(S)
  BY DEF SmallestSIS
<1>1. CASE S \in unexplored
  BY <1>1
<1>2. ASSUME NEW M \in found, M \subseteq S
      PROVE  Cardinality(p) <= Cardinality(S)
  <2>1. S \in SUBSET ClauseID /\ M \in SUBSET S /\ p \in SUBSET ClauseID
    BY <1>2, SISSubset
  <2>2. Cardinality(M) \in Nat /\ Cardinality(S) \in Nat /\ Cardinality(p) \in Nat
        /\ Cardinality(M) <= Cardinality(S)
    BY <2>1, ClauseIDFinite, Sizes
  <2> QED
    BY <1>2, <2>2
<1> QED
  BY <1>1, <1>2

================================================================================
