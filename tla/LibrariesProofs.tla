---------------------------- MODULE LibrariesProofs ----------------------------
(******************************************************************************)
(* The search of module CDCL is right for every script of calls, every choice *)
(* of decisions and every policy of restarts and of reducing the database:    *)
(* what it answers is true of the clauses and the assumptions it was given,   *)
(* and its steps are those of the specification of a SAT solver that the      *)
(* program relies on (SATSolver).                                             *)
(*                                                                            *)
(* The invariant, SearchInv, says why.  The trail is right: its levels grow   *)
(* with it, and each of its literals is implied by its reason from earlier    *)
(* ones.  Every clause kept follows from the formula, and of two watched      *)
(* literals a false one that was propagated has a true literal in the clause, *)
(* of no higher level.  No clause added is lost: each contains a clause kept, *)
(* or has a literal true at level 0.  The levels of the assumptions come      *)
(* first.                                                                     *)
(******************************************************************************)
EXTENDS Libraries, SharedTheorems, SequenceTheorems

--------------------------------------------------------------------------------
(* The inductive invariant of a search. *)

Nonzero == Int \ {0}

\* A literal holds of the set of the true variables; a set of such sets satisfies.
Holds(l, M) == IF l > 0 THEN l \in M ELSE -l \notin M

\* A clause that every assignment satisfies which satisfies formula F.
Follows(F, C) ==
  \A M : (\A x \in F : \E l \in x[2] : Holds(l, M)) => \E l \in C : Holds(l, M)

\* The literals on a trail are of distinct variables, and their variables have data.
TrailType(t, lim, data) ==
  /\ t \in Seq(Nonzero)
  /\ lim \in Seq(Nat)
  /\ data \in [DOMAIN data -> [level : Nat, reason : SUBSET Nonzero]]
  /\ DOMAIN data = { Search!VarOf(t[i]) : i \in 1 .. Len(t) }
  /\ \A i, j \in 1 .. Len(t) : Search!VarOf(t[i]) = Search!VarOf(t[j]) => i = j

\* trail_lim[j - 1] is how many literals have a level below j.
LevelsRight(t, lim, data) ==
  /\ \A i \in 1 .. Len(t) :
       /\ data[Search!VarOf(t[i])].level <= Len(lim)
       /\ \A j \in 1 .. Len(lim) : lim[j] < i <=> j <= data[Search!VarOf(t[i])].level
  /\ \A j \in 1 .. Len(lim) : lim[j] <= Len(t) /\ \A k \in j .. Len(lim) : lim[j] <= lim[k]

\* A reason follows from the formula, and implies its literal from earlier ones; the
\* first literal of a level may have none; what has level 0 follows.
Justified(F, t, data, i) ==
  /\ data[Search!VarOf(t[i])].reason # {} =>
       /\ t[i] \in data[Search!VarOf(t[i])].reason
       /\ Follows(F, data[Search!VarOf(t[i])].reason)
       /\ \A l \in data[Search!VarOf(t[i])].reason \ {t[i]} : \E j \in 1 .. i - 1 : t[j] = -l
  /\ data[Search!VarOf(t[i])].reason = {} /\ data[Search!VarOf(t[i])].level > 0 =>
       \A j \in 1 .. i - 1 : data[Search!VarOf(t[j])].level < data[Search!VarOf(t[i])].level
  /\ data[Search!VarOf(t[i])].level = 0 => Follows(F, {t[i]})

ImpliedFromTrail(F, t, data) == \A i \in 1 .. Len(t) : Justified(F, t, data, i)

TrailRight(F, t, lim, data) ==
  TrailType(t, lim, data) /\ LevelsRight(t, lim, data) /\ ImpliedFromTrail(F, t, data)

OnTrail(t, l) == \E i \in 1 .. Len(t) : t[i] = l

\* Two literals of each clause are watched; clauses follow from the formula.
ClausesRight ==
  /\ DOMAIN watch = clauses \union learnts
  /\ \A c \in DOMAIN watch :
       /\ c \in SUBSET Nonzero
       /\ IsFiniteSet(c)
       /\ Follows(formula, c)
       /\ \E a, b \in c : a # b /\ watch[c] = {a, b}

\* What the visits of the clauses that watch a literal are for: when a watched
\* literal is false, another literal of the clause is true, and was no later than it,
\* so that it stays true as long as the first stays false.
WatchesRight(W, t, data, q, P) ==
  \A c \in DOMAIN W : \A w \in W[c] : \A i \in 1 .. q :
    t[i] = -w /\ ~(i = q /\ c \in P) =>
      \E l \in c : OnTrail(t, l) /\ data[Search!VarOf(l)].level <= data[Search!VarOf(w)].level

WatchedRight == WatchesRight(watch, trail, vardata, qhead, pending)

QueueRight ==
  /\ qhead \in 0 .. Len(trail)
  /\ \A j \in 1 .. Search!decisionLevel : trailLim[j] <= qhead
  /\ pending # {} => qhead > 0 /\ \A j \in 1 .. Search!decisionLevel : trailLim[j] < qhead
  /\ \A c \in pending : c \in DOMAIN watch /\ -trail[qhead] \in watch[c]

\* Each clause added has a literal true at level 0, is a tautology, or contains one of
\* the clauses kept; a contradiction follows once it was found.
FormulaKept ==
  /\ \A x \in formula :
       /\ x[1] = 0
       /\ x[2] \in SUBSET Nonzero
       /\ \A l \in x[2] : Search!VarOf(l) \in created
       /\ \/ ~ok
          \/ \E l \in x[2] : -l \in x[2]
          \/ \E l \in x[2] : OnTrail(trail, l) /\ Search!Level(l) = 0
          \/ \E c \in clauses : c \subseteq x[2]
  /\ ~ok => Follows(formula, {})

\* An assumption is true from the level on that is its own, and decisions up to there
\* are assumptions.
AssumptionsOn(A, t, lim, data) ==
  /\ \A j \in 1 .. Len(A) : j <= Len(lim) =>
       OnTrail(t, A[j]) /\ data[Search!VarOf(A[j])].level <= j
  /\ \A i \in 1 .. Len(t) :
       /\ data[Search!VarOf(t[i])].reason = {}
       /\ data[Search!VarOf(t[i])].level \in 1 .. Len(A)
       => t[i] = A[data[Search!VarOf(t[i])].level]

AssumptionsRight == AssumptionsOn(assumptions, trail, trailLim, vardata)

FiniteCall == { x \in SearchCall : x.op = "add" => IsFiniteSet(x.lits) }

SearchInv ==
  /\ pc \in {"idle", "adding", "searching"}
  /\ created \in SUBSET (Nat \ {0})
  /\ assumptions \in Seq(Nonzero)
  /\ calls \in Seq(FiniteCall)
  /\ TrailRight(formula, trail, trailLim, vardata)
  /\ ClausesRight
  /\ QueueRight
  /\ ok => WatchedRight
  /\ FormulaKept
  /\ pc # "searching" => trailLim = <<>>
  /\ pc = "searching" => AssumptionsRight
  /\ pc = "idle" => pending = {}
  /\ pc = "adding" => ok

--------------------------------------------------------------------------------
(* Literals and what follows from a formula. *)

\* Two literals have the same variable when they are equal or opposite.
LEMMA VarsEqual ==
  ASSUME NEW k \in Nonzero, NEW l \in Nonzero
  PROVE  /\ -k \in Nonzero /\ -(-k) = k /\ -k # k
         /\ Search!VarOf(k) \in Nat \ {0}
         /\ Search!VarOf(-k) = Search!VarOf(k)
         /\ Search!VarOf(k) = Search!VarOf(l) <=> k = l \/ k = -l
         /\ k = -l <=> -k = l
<1>1. k \in Int /\ l \in Int /\ k # 0 /\ l # 0
  BY DEF Nonzero
<1>2. -k \in Nonzero /\ -(-k) = k /\ -k # k /\ (k = -l <=> -k = l)
  BY <1>1 DEF Nonzero
<1>3. Search!VarOf(k) = (IF k < 0 THEN -k ELSE k) /\ Search!VarOf(l) = IF l < 0 THEN -l ELSE l
  BY DEF Search!VarOf
<1>4. Search!VarOf(-k) = IF -k < 0 THEN -(-k) ELSE -k
  BY DEF Search!VarOf
<1>5. Search!VarOf(k) \in Nat \ {0} /\ Search!VarOf(-k) = Search!VarOf(k)
  BY <1>1, <1>3, <1>4
<1>6. Search!VarOf(k) = Search!VarOf(l) <=> k = l \/ k = -l
  BY <1>1, <1>3
<1> QED
  BY <1>2, <1>5, <1>6, SMTT(30)

\* An assignment satisfies a literal or its negation, not both.
LEMMA HoldsNegation ==
  ASSUME NEW l \in Nonzero, NEW M
  PROVE  Holds(-l, M) <=> ~Holds(l, M)
BY DEF Holds, Nonzero

\* What follows from a formula follows from a larger one.
LEMMA FollowsMonotone ==
  ASSUME NEW F, NEW G, F \subseteq G, NEW C, Follows(F, C)
  PROVE  Follows(G, C)
BY DEF Follows

\* A trail that is right for a formula is right for a larger one (addClause).
LEMMA TrailMonotone ==
  ASSUME NEW F, NEW G, F \subseteq G, NEW t, NEW lim, NEW data,
         TrailRight(F, t, lim, data)
  PROVE  TrailRight(G, t, lim, data)
<1>1. \A i \in 1 .. Len(t) : Justified(F, t, data, i) => Justified(G, t, data, i)
  <2>1. \A C : Follows(F, C) => Follows(G, C)
    BY FollowsMonotone
  <2> QED
    BY <2>1 DEF Justified
<1> QED
  BY <1>1 DEF TrailRight, ImpliedFromTrail

--------------------------------------------------------------------------------
(* The trail grows and shrinks. *)

\* uncheckedEnqueue: a literal of an unassigned variable.
LEMMA EnqueueTrail ==
  ASSUME NEW F, NEW t, NEW lim, NEW data, TrailRight(F, t, lim, data),
         NEW lit \in Nonzero, Search!VarOf(lit) \notin DOMAIN data,
         NEW from \in SUBSET Nonzero,
         from # {} =>
           /\ lit \in from
           /\ Follows(F, from)
           /\ \A l \in from \ {lit} : \E j \in 1 .. Len(t) : t[j] = -l,
         from = {} /\ Len(lim) > 0 =>
           \A j \in 1 .. Len(t) : data[Search!VarOf(t[j])].level < Len(lim),
         Len(lim) = 0 => Follows(F, {lit}),
         NEW u, u = Append(t, lit),
         NEW d, d \in [DOMAIN d -> [level : Nat, reason : SUBSET Nonzero]],
         DOMAIN d = DOMAIN data \union {Search!VarOf(lit)},
         d[Search!VarOf(lit)].level = Len(lim) /\ d[Search!VarOf(lit)].reason = from,
         \A v \in DOMAIN data : d[v] = data[v]
  PROVE  TrailRight(F, u, lim, d)
<1>1. TrailType(t, lim, data) /\ LevelsRight(t, lim, data) /\ ImpliedFromTrail(F, t, data)
  BY DEF TrailRight
<1>2. /\ t \in Seq(Nonzero) /\ lim \in Seq(Nat) /\ Len(t) \in Nat /\ Len(lim) \in Nat
      /\ u \in Seq(Nonzero) /\ Len(u) = Len(t) + 1
      /\ u[Len(t) + 1] = lit
      /\ \A i \in 1 .. Len(t) : i \in 1 .. Len(u) /\ i # Len(t) + 1 /\ u[i] = t[i]
  BY <1>1 DEF TrailType
<1>3. \A i \in 1 .. Len(t) : Search!VarOf(t[i]) \in DOMAIN data /\ Search!VarOf(t[i]) # Search!VarOf(lit)
  BY <1>1 DEF TrailType
<1>4. /\ d[Search!VarOf(lit)].level = Len(lim) /\ d[Search!VarOf(lit)].reason = from
      /\ \A v \in DOMAIN data : d[v] = data[v]
      /\ DOMAIN d = DOMAIN data \union {Search!VarOf(lit)}
  OBVIOUS
<1>5. \A i \in 1 .. Len(u) : i \in 1 .. Len(t) \/ i = Len(t) + 1
  BY <1>2
<1>6. \A i \in 1 .. Len(t) : d[Search!VarOf(u[i])] = data[Search!VarOf(t[i])]
  BY <1>2, <1>3, <1>4
<1>7. TrailType(u, lim, d)
  <2>1. d \in [DOMAIN d -> [level : Nat, reason : SUBSET Nonzero]]
    OBVIOUS
  <2>2. DOMAIN d = { Search!VarOf(u[i]) : i \in 1 .. Len(u) }
    <3>1. DOMAIN data = { Search!VarOf(t[i]) : i \in 1 .. Len(t) }
      BY <1>1 DEF TrailType
    <3>2. \A i \in 1 .. Len(u) : Search!VarOf(u[i]) \in DOMAIN d
      BY <1>2, <1>3, <1>4, <1>5
    <3>3. \A v \in DOMAIN d : \E i \in 1 .. Len(u) : v = Search!VarOf(u[i])
      <4>1. Len(t) + 1 \in 1 .. Len(u)
        BY <1>2
      <4> QED
        BY <1>2, <1>4, <3>1, <4>1, SMTT(30)
    <3> QED
      BY <3>2, <3>3, SMTT(30)
  <2>3. \A i, j \in 1 .. Len(u) : Search!VarOf(u[i]) = Search!VarOf(u[j]) => i = j
    <3>1. \A i, j \in 1 .. Len(t) : Search!VarOf(t[i]) = Search!VarOf(t[j]) => i = j
      BY <1>1 DEF TrailType
    <3> QED
      BY <1>2, <1>3, <1>5, <3>1
  <2> QED
    BY <1>2, <2>1, <2>2, <2>3 DEF TrailType
<1>8. LevelsRight(u, lim, d)
  <2>1. ASSUME NEW i \in 1 .. Len(u)
        PROVE  /\ d[Search!VarOf(u[i])].level <= Len(lim)
               /\ \A j \in 1 .. Len(lim) : lim[j] < i <=> j <= d[Search!VarOf(u[i])].level
    <3>1. CASE i \in 1 .. Len(t)
      BY <3>1, <1>1, <1>6 DEF LevelsRight
    <3>2. CASE i = Len(t) + 1
      <4>1. \A j \in 1 .. Len(lim) : lim[j] \in Nat /\ lim[j] <= Len(t)
        BY <1>1, <1>2 DEF LevelsRight
      <4> QED
        BY <3>2, <1>2, <1>4, <4>1
    <3> QED
      BY <3>1, <3>2, <1>5
  <2>2. \A j \in 1 .. Len(lim) : lim[j] <= Len(u) /\ \A k \in j .. Len(lim) : lim[j] <= lim[k]
    <3>1. \A j \in 1 .. Len(lim) : lim[j] \in Nat
      BY <1>2
    <3> QED
      BY <1>1, <1>2, <3>1 DEF LevelsRight
  <2> QED
    BY <2>1, <2>2 DEF LevelsRight
<1>9. ImpliedFromTrail(F, u, d)
  <2> SUFFICES ASSUME NEW i \in 1 .. Len(u) PROVE Justified(F, u, d, i)
    BY DEF ImpliedFromTrail
  <2>1. CASE i \in 1 .. Len(t)
    <3>1. \A j \in 1 .. i - 1 : j \in 1 .. Len(t)
      BY <2>1, <1>2
    <3>2. Justified(F, t, data, i)
      BY <2>1, <1>1 DEF ImpliedFromTrail
    <3>3. u[i] = t[i] /\ d[Search!VarOf(u[i])] = data[Search!VarOf(t[i])]
      BY <2>1, <1>2, <1>6
    <3>4. \A j \in 1 .. i - 1 : u[j] = t[j] /\ d[Search!VarOf(u[j])] = data[Search!VarOf(t[j])]
      BY <3>1, <1>2, <1>6
    <3> QED
      BY <3>2, <3>3, <3>4, SMTT(30) DEF Justified
  <2>2. CASE i = Len(t) + 1
    <3>1. 1 .. i - 1 = 1 .. Len(t) /\ u[i] = lit
      BY <2>2, <1>2
    <3>2. \A j \in 1 .. i - 1 : u[j] = t[j] /\ d[Search!VarOf(u[j])] = data[Search!VarOf(t[j])]
      BY <3>1, <1>2, <1>6
    <3> QED
      BY <3>1, <3>2, <1>4, SMTT(30) DEF Justified
  <2> QED
    BY <2>1, <2>2, <1>5
<1> QED
  BY <1>7, <1>8, <1>9 DEF TrailRight

\* newDecisionLevel.
LEMMA NewLevelTrail ==
  ASSUME NEW F, NEW t, NEW lim, NEW data, TrailRight(F, t, lim, data)
  PROVE  TrailRight(F, t, Append(lim, Len(t)), data)
<1> DEFINE m == Append(lim, Len(t))
<1>1. TrailType(t, lim, data) /\ LevelsRight(t, lim, data) /\ ImpliedFromTrail(F, t, data)
  BY DEF TrailRight
<1>2. /\ t \in Seq(Nonzero) /\ lim \in Seq(Nat) /\ Len(t) \in Nat /\ Len(lim) \in Nat
      /\ m \in Seq(Nat) /\ Len(m) = Len(lim) + 1
      /\ m[Len(lim) + 1] = Len(t)
      /\ \A i \in 1 .. Len(lim) : m[i] = lim[i] /\ lim[i] \in Nat
  BY <1>1 DEF TrailType
<1> HIDE DEF m
<1>3. \A j \in 1 .. Len(m) : j \in 1 .. Len(lim) \/ j = Len(lim) + 1
  BY <1>2
<1>4. \A i \in 1 .. Len(t) : data[Search!VarOf(t[i])].level \in Nat
  BY <1>1 DEF TrailType
<1>5. TrailType(t, m, data)
  BY <1>1, <1>2 DEF TrailType
<1>6. LevelsRight(t, m, data)
  <2>1. ASSUME NEW i \in 1 .. Len(t)
        PROVE  /\ data[Search!VarOf(t[i])].level <= Len(m)
               /\ \A j \in 1 .. Len(m) : m[j] < i <=> j <= data[Search!VarOf(t[i])].level
    <3>1. /\ data[Search!VarOf(t[i])].level <= Len(lim) /\ data[Search!VarOf(t[i])].level \in Nat
          /\ \A j \in 1 .. Len(lim) : lim[j] < i <=> j <= data[Search!VarOf(t[i])].level
      BY <1>1, <1>4 DEF LevelsRight
    <3>2. ASSUME NEW j \in 1 .. Len(m)
          PROVE  m[j] < i <=> j <= data[Search!VarOf(t[i])].level
      <4>1. CASE j \in 1 .. Len(lim)
        BY <4>1, <3>1, <1>2
      <4>2. CASE j = Len(lim) + 1
        BY <4>2, <3>1, <1>2
      <4> QED
        BY <4>1, <4>2, <1>3
    <3> QED
      BY <3>1, <3>2, <1>2
  <2>2. ASSUME NEW j \in 1 .. Len(m)
        PROVE  m[j] <= Len(t) /\ \A k \in j .. Len(m) : m[j] <= m[k]
    <3>1. CASE j = Len(lim) + 1
      BY <3>1, <1>2
    <3>2. CASE j \in 1 .. Len(lim)
      <4>1. m[j] = lim[j] /\ lim[j] <= Len(t) /\ \A k \in j .. Len(lim) : lim[j] <= lim[k]
        BY <3>2, <1>1, <1>2 DEF LevelsRight
      <4>2. \A k \in j .. Len(m) : (k \in j .. Len(lim) /\ m[k] = lim[k]) \/ m[k] = Len(t)
        <5> SUFFICES ASSUME NEW k \in j .. Len(m)
                     PROVE  (k \in j .. Len(lim) /\ m[k] = lim[k]) \/ m[k] = Len(t)
          OBVIOUS
        <5>1. k \in j .. Len(lim) \/ k = Len(lim) + 1
          <6>1. Len(lim) \in Nat /\ Len(m) = Len(lim) + 1 /\ j \in Nat /\ k \in Int
            BY <3>2, <1>2
          <6> QED
            BY <6>1
        <5> QED
          BY <5>1, <3>2, <1>2, SMTT(30)
      <4> QED
        BY <4>1, <4>2
    <3> QED
      BY <3>1, <3>2, <1>3
  <2> QED
    BY <2>1, <2>2 DEF LevelsRight
<1> QED
  BY <1>1, <1>5, <1>6 DEF TrailRight, m

\* cancelUntil.
LEMMA CancelTrail ==
  ASSUME NEW F, NEW t, NEW lim, NEW data, TrailRight(F, t, lim, data),
         NEW level \in 0 .. Len(lim)
  PROVE  TrailRight(F, IF level < Len(lim) THEN SubSeq(t, 1, lim[level + 1]) ELSE t,
                    SubSeq(lim, 1, level),
                    [v \in { x \in DOMAIN data : data[x].level <= level } |-> data[v]])
<1> DEFINE u == IF level < Len(lim) THEN SubSeq(t, 1, lim[level + 1]) ELSE t
           m == SubSeq(lim, 1, level)
           d == [v \in { x \in DOMAIN data : data[x].level <= level } |-> data[v]]
<1>1. TrailType(t, lim, data) /\ LevelsRight(t, lim, data) /\ ImpliedFromTrail(F, t, data)
  BY DEF TrailRight
<1>2. /\ t \in Seq(Nonzero) /\ lim \in Seq(Nat) /\ Len(t) \in Nat /\ Len(lim) \in Nat
      /\ \A j \in 1 .. Len(lim) : lim[j] \in Nat /\ lim[j] <= Len(t)
  BY <1>1 DEF TrailType, LevelsRight
<1>3. /\ m \in Seq(Nat) /\ Len(m) = level
      /\ \A j \in 1 .. level : j \in 1 .. Len(lim) /\ m[j] = lim[j]
  BY <1>2
<1>4. /\ u \in Seq(Nonzero) /\ Len(u) \in Nat /\ Len(u) <= Len(t)
      /\ \A i \in 1 .. Len(u) : i \in 1 .. Len(t) /\ u[i] = t[i]
      /\ level < Len(lim) => Len(u) = lim[level + 1]
      /\ level = Len(lim) => u = t
  BY <1>2
<1>5. \A i \in 1 .. Len(t) : Search!VarOf(t[i]) \in DOMAIN data /\ data[Search!VarOf(t[i])].level \in Nat
  BY <1>1 DEF TrailType
<1>6. \A i \in 1 .. Len(t) : data[Search!VarOf(t[i])].level <= level <=> i <= Len(u)
  <2> HIDE DEF u
  <2>1. CASE level < Len(lim)
    <3>1. level + 1 \in 1 .. Len(lim)
      BY <2>1, <1>2
    <3>2. \A i \in 1 .. Len(t) : lim[level + 1] < i <=> level + 1 <= data[Search!VarOf(t[i])].level
      BY <1>1, <3>1 DEF LevelsRight
    <3> QED
      BY <2>1, <3>1, <3>2, <1>2, <1>4, <1>5
  <2>2. CASE level = Len(lim)
    BY <2>2, <1>1, <1>2, <1>4, <1>5 DEF LevelsRight
  <2> QED
    BY <2>1, <2>2, <1>2
<1> HIDE DEF u, m
<1>7. /\ \A i \in 1 .. Len(u) : Search!VarOf(u[i]) \in DOMAIN d /\ d[Search!VarOf(u[i])] = data[Search!VarOf(t[i])]
      /\ DOMAIN d \subseteq DOMAIN data /\ \A v \in DOMAIN d : d[v] = data[v] /\ d[v].level <= level
  BY <1>4, <1>5, <1>6
<1>8. d \in [DOMAIN d -> [level : Nat, reason : SUBSET Nonzero]]
  BY <1>1 DEF TrailType
<1> HIDE DEF d
<1>9. TrailType(u, m, d)
  <2>1. DOMAIN data = { Search!VarOf(t[i]) : i \in 1 .. Len(t) }
    BY <1>1 DEF TrailType
  <2>2. \A v \in DOMAIN d : \E i \in 1 .. Len(u) : v = Search!VarOf(u[i])
    <3> SUFFICES ASSUME NEW v \in DOMAIN d PROVE \E i \in 1 .. Len(u) : v = Search!VarOf(u[i])
      OBVIOUS
    <3>1. PICK i \in 1 .. Len(t) : v = Search!VarOf(t[i])
      BY <1>7, <2>1
    <3>2. i \in 1 .. Len(u)
      BY <3>1, <1>4, <1>6, <1>7
    <3> QED
      BY <3>1, <3>2, <1>4
  <2>3. DOMAIN d = { Search!VarOf(u[i]) : i \in 1 .. Len(u) }
    BY <1>7, <2>2
  <2>4. \A i, j \in 1 .. Len(u) : Search!VarOf(u[i]) = Search!VarOf(u[j]) => i = j
    BY <1>1, <1>4 DEF TrailType
  <2> QED
    BY <1>3, <1>4, <1>8, <2>3, <2>4 DEF TrailType
<1>10. LevelsRight(u, m, d)
  <2>1. ASSUME NEW i \in 1 .. Len(u)
        PROVE  /\ d[Search!VarOf(u[i])].level <= Len(m)
               /\ \A j \in 1 .. Len(m) : m[j] < i <=> j <= d[Search!VarOf(u[i])].level
    BY <1>1, <1>3, <1>4, <1>6, <1>7 DEF LevelsRight
  <2>2. ASSUME NEW j \in 1 .. Len(m)
        PROVE  m[j] <= Len(u) /\ \A k \in j .. Len(m) : m[j] <= m[k]
    <3>1. j \in 1 .. Len(lim) /\ m[j] = lim[j] /\ j <= level
      BY <1>3
    <3>2. \A k \in j .. Len(lim) : lim[j] <= lim[k]
      BY <3>1, <1>1 DEF LevelsRight
    <3>3. m[j] <= Len(u)
      <4>1. CASE level < Len(lim)
        <5>1. level + 1 \in j .. Len(lim)
          BY <4>1, <3>1, <1>2
        <5> QED
          BY <4>1, <5>1, <3>1, <3>2, <1>4
      <4>2. CASE level = Len(lim)
        BY <4>2, <3>1, <1>2, <1>4
      <4> QED
        BY <4>1, <4>2, <1>2
    <3>4. \A k \in j .. Len(m) : k \in j .. Len(lim) /\ m[k] = lim[k]
      BY <1>2, <1>3
    <3> QED
      BY <3>1, <3>2, <3>3, <3>4
  <2> QED
    BY <2>1, <2>2 DEF LevelsRight
<1>11. ImpliedFromTrail(F, u, d)
  <2> SUFFICES ASSUME NEW i \in 1 .. Len(u) PROVE Justified(F, u, d, i)
    BY DEF ImpliedFromTrail
  <2>1. \A j \in 1 .. i - 1 : j \in 1 .. Len(u)
    BY <1>4
  <2>2. Justified(F, t, data, i)
    BY <1>1, <1>4 DEF ImpliedFromTrail
  <2>3. u[i] = t[i] /\ d[Search!VarOf(u[i])] = data[Search!VarOf(t[i])]
    BY <1>4, <1>7
  <2>4. \A j \in 1 .. i - 1 : u[j] = t[j] /\ d[Search!VarOf(u[j])] = data[Search!VarOf(t[j])]
    BY <2>1, <1>4, <1>7
  <2> QED
    BY <2>2, <2>3, <2>4 DEF Justified
<1> QED
  BY <1>9, <1>10, <1>11 DEF TrailRight, u, m, d

--------------------------------------------------------------------------------
(* Recursion up to a number. *)

\* The functions defined by recursion from 0 up to m.
Recursion(m, S, a, g) ==
  { t \in [0 .. m -> S] : t[0] = a /\ \A n \in 1 .. m : t[n] = g[<<n, t[n - 1]>>] }

\* There is one.
LEMMA RecursiveUpto ==
  ASSUME NEW m \in Nat, NEW S, NEW a \in S, NEW g \in [(1 .. m) \X S -> S]
  PROVE  Recursion(m, S, a, g) # {}
<1> DEFINE f == [x \in Nat \X S |-> IF x[1] < m THEN g[<<x[1] + 1, x[2]>>] ELSE x[2]]
<1>1. f \in [Nat \X S -> S]
  <2> SUFFICES ASSUME NEW n \in Nat, NEW X \in S
               PROVE  (IF n < m THEN g[<<n + 1, X>>] ELSE X) \in S
    OBVIOUS
  <2>1. n < m => <<n + 1, X>> \in (1 .. m) \X S
    OBVIOUS
  <2> QED
    BY <2>1
<1>2. \A n \in Nat, X \in S : n < m => f[<<n, X>>] = g[<<n + 1, X>>]
  OBVIOUS
<1> HIDE DEF f
<1>3. PICK R : R \in Recursive(S, a, f)
  <2>1. Recursive(S, a, f) # {}
    BY <1>1, RecursiveExists
  <2> QED
    BY <2>1
<1>4. R \in [Nat -> S] /\ R[0] = a /\ \A n \in Nat : R[n + 1] = f[<<n, R[n]>>]
  BY <1>3 DEF Recursive
<1> DEFINE t == [n \in 0 .. m |-> R[n]]
<1>5. t \in [0 .. m -> S] /\ t[0] = a
  BY <1>4
<1>6. ASSUME NEW n \in 1 .. m
      PROVE  t[n] = g[<<n, t[n - 1]>>]
  <2>1. n - 1 \in Nat /\ n - 1 < m /\ (n - 1) + 1 = n /\ n - 1 \in 0 .. m /\ n \in 0 .. m
    OBVIOUS
  <2>2. R[n] = f[<<n - 1, R[n - 1]>>]
    BY <1>4, <2>1
  <2>3. R[n] = g[<<n, R[n - 1]>>]
    BY <1>2, <1>4, <2>1, <2>2
  <2> QED
    BY <2>1, <2>3
<1>7. t \in Recursion(m, S, a, g)
  <2> HIDE DEF t
  <2> QED
    BY <1>5, <1>6 DEF Recursion
<1> QED
  BY <1>7

\* A set with 0 and the number after each of its elements below m has all up to m.
LEMMA InductionUpto ==
  ASSUME NEW m \in Nat, NEW N, 0 \in N, \A n \in 1 .. m : n - 1 \in N => n \in N
  PROVE  0 .. m \subseteq N
<1> DEFINE K == { n \in Nat : n <= m => n \in N }
<1>1. 0 \in K
  OBVIOUS
<1>2. \A n \in Nat : n \in K => n + 1 \in K
  <2> SUFFICES ASSUME NEW n \in Nat, n \in K, n + 1 <= m PROVE n + 1 \in N
    OBVIOUS
  <2>1. n + 1 \in 1 .. m /\ (n + 1) - 1 = n /\ n \in N
    OBVIOUS
  <2> QED
    BY <2>1
<1>3. Nat \subseteq K
  <2> HIDE DEF K
  <2> QED
    BY <1>1, <1>2, NaturalInduction
<1> QED
  BY <1>3

--------------------------------------------------------------------------------
(* Small sets. *)

\* How many elements a finite set has tells whether it is a singleton.
LEMMA SmallSets ==
  ASSUME NEW S, IsFiniteSet(S)
  PROVE  /\ Search!Cardinality(S) = Cardinality(S)
         /\ Cardinality(S) \in Nat
         /\ Cardinality(S) > 1 => \A x \in S : \E y \in S : y # x
         /\ S # {} /\ ~(Cardinality(S) > 1) => \E u : S = {u}
         /\ Cardinality(S) = 1 => \E u : S = {u}
         /\ \A x, y \in S : x # y => Cardinality(S) > 1
<1>1. Cardinality(S) \in Nat /\ Search!Cardinality(S) = Cardinality(S)
  BY FS_CardinalityType DEF Search!Cardinality, Cardinality
<1>2. ASSUME NEW x, S = {x}
      PROVE  Cardinality(S) = 1
  BY <1>2, FS_Singleton
<1>3. Cardinality(S) = 0 <=> S = {}
  BY FS_EmptySet
<1>4. ASSUME NEW x \in S, NEW y \in S, x # y
      PROVE  Cardinality(S) > 1
  <2>1. {x} \in SUBSET S /\ {x} # S /\ Cardinality({x}) = 1
    BY <1>4, FS_Singleton
  <2>2. Cardinality({x}) <= Cardinality(S) /\ Cardinality({x}) # Cardinality(S)
    BY <2>1, FS_Subset
  <2> QED
    BY <1>1, <2>1, <2>2
<1>5. ASSUME S # {}, ~(Cardinality(S) > 1)
      PROVE  \E u : S = {u}
  <2>1. PICK u \in S : TRUE
    BY <1>5
  <2>2. \A y \in S : y = u
    BY <1>4, <1>5
  <2> QED
    BY <2>2
<1>6. ASSUME Cardinality(S) > 1, NEW x \in S
      PROVE  \E y \in S : y # x
  <2> SUFFICES ASSUME \A y \in S : y = x PROVE FALSE
    OBVIOUS
  <2>1. S = {x}
    OBVIOUS
  <2> QED
    BY <1>2, <1>6, <2>1
<1>7. Cardinality(S) = 1 => \E u : S = {u}
  <2>1. Cardinality(S) = 1 => S # {} /\ ~(Cardinality(S) > 1)
    BY <1>3
  <2> QED
    BY <1>5, <2>1
<1> QED
  BY <1>1, <1>4, <1>5, <1>6, <1>7

--------------------------------------------------------------------------------
(* The assigned literals. *)

\* The negations of the first n literals of the trail.
FalseUpto(n) == { -trail[i] : i \in 1 .. n }

TheTrail == TrailRight(formula, trail, trailLim, vardata)

\* What holds of a right trail: no literal is both true and false, and the levels
\* do not fall along it.
LEMMA TrailFacts ==
  ASSUME TheTrail
  PROVE  /\ trail \in Seq(Nonzero) /\ Len(trail) \in Nat
         /\ trailLim \in Seq(Nat) /\ Len(trailLim) \in Nat /\ Search!decisionLevel = Len(trailLim)
         /\ \A l : Search!True(l) <=> \E i \in 1 .. Len(trail) : trail[i] = l
         /\ \A l \in Nonzero : Search!False(l) <=> l \in FalseUpto(Len(trail))
         /\ \A l \in Nonzero : ~(Search!True(l) /\ Search!False(l))
         /\ \A l \in Nonzero : Search!VarOf(l) \in DOMAIN vardata <=> Search!True(l) \/ Search!False(l)
         /\ \A l \in Nonzero : Search!Level(-l) = Search!Level(l) /\ Search!Reason(-l) = Search!Reason(l)
         /\ \A i \in 1 .. Len(trail) :
              /\ trail[i] \in Nonzero
              /\ Search!Level(trail[i]) \in 0 .. Len(trailLim)
              /\ Search!Reason(trail[i]) \in SUBSET Nonzero
              /\ \A k \in i .. Len(trail) : Search!Level(trail[i]) <= Search!Level(trail[k])
<1>1. /\ TrailType(trail, trailLim, vardata)
      /\ LevelsRight(trail, trailLim, vardata)
  BY DEF TheTrail, TrailRight
<1>2. /\ trail \in Seq(Nonzero) /\ Len(trail) \in Nat /\ DOMAIN trail = 1 .. Len(trail)
      /\ trailLim \in Seq(Nat) /\ Len(trailLim) \in Nat /\ Search!decisionLevel = Len(trailLim)
      /\ \A i \in 1 .. Len(trail) : trail[i] \in Nonzero
  BY <1>1 DEF TrailType, Search!decisionLevel
<1>3. \A l : Search!True(l) <=> \E i \in 1 .. Len(trail) : trail[i] = l
  BY <1>2 DEF Search!True, Search!Range
<1>4. \A l \in Nonzero : Search!False(l) <=> l \in FalseUpto(Len(trail))
  <2> SUFFICES ASSUME NEW l \in Nonzero
               PROVE  Search!False(l) <=> \E i \in 1 .. Len(trail) : l = -trail[i]
    BY DEF FalseUpto
  <2>1. Search!False(l) <=> \E i \in 1 .. Len(trail) : trail[i] = -l
    BY <1>2 DEF Search!False, Search!Range
  <2>2. \A i \in 1 .. Len(trail) : trail[i] = -l <=> l = -trail[i]
    BY <1>2, VarsEqual
  <2> QED
    BY <2>1, <2>2
<1>5. \A l \in Nonzero : Search!False(l) <=> \E i \in 1 .. Len(trail) : trail[i] = -l
  BY <1>2 DEF Search!False, Search!Range
<1>6. \A l \in Nonzero : Search!VarOf(l) \in DOMAIN vardata <=> Search!True(l) \/ Search!False(l)
  <2> SUFFICES ASSUME NEW l \in Nonzero
               PROVE  Search!VarOf(l) \in DOMAIN vardata <=> Search!True(l) \/ Search!False(l)
    OBVIOUS
  <2>1. Search!VarOf(l) \in DOMAIN vardata <=> \E i \in 1 .. Len(trail) : Search!VarOf(l) = Search!VarOf(trail[i])
    BY <1>1 DEF TrailType
  <2>2. \A i \in 1 .. Len(trail) : Search!VarOf(l) = Search!VarOf(trail[i]) <=> trail[i] = l \/ trail[i] = -l
    <3> SUFFICES ASSUME NEW i \in 1 .. Len(trail)
                 PROVE  Search!VarOf(l) = Search!VarOf(trail[i]) <=> trail[i] = l \/ trail[i] = -l
      OBVIOUS
    <3>1. trail[i] \in Nonzero
      BY <1>2
    <3> QED
      BY <3>1, VarsEqual
  <2> QED
    BY <2>1, <2>2, <1>3, <1>5
<1>7. \A l \in Nonzero : ~(Search!True(l) /\ Search!False(l))
  <2> SUFFICES ASSUME NEW l \in Nonzero, Search!True(l), Search!False(l) PROVE FALSE
    OBVIOUS
  <2>1. PICK i \in 1 .. Len(trail) : trail[i] = l
    BY <1>3
  <2>2. PICK j \in 1 .. Len(trail) : trail[j] = -l
    BY <1>5
  <2>3. Search!VarOf(trail[i]) = Search!VarOf(trail[j]) /\ l # -l
    BY <2>1, <2>2, VarsEqual
  <2>4. i = j
    BY <1>1, <2>3 DEF TrailType
  <2> QED
    BY <2>1, <2>2, <2>3, <2>4
<1>8. \A l \in Nonzero : Search!Level(-l) = Search!Level(l) /\ Search!Reason(-l) = Search!Reason(l)
  BY VarsEqual DEF Search!Level, Search!Reason
<1>9. ASSUME NEW i \in 1 .. Len(trail)
      PROVE  /\ Search!Level(trail[i]) \in 0 .. Len(trailLim)
             /\ Search!Reason(trail[i]) \in SUBSET Nonzero
  <2>1. Search!VarOf(trail[i]) \in DOMAIN vardata
    BY <1>1 DEF TrailType
  <2>2. vardata[Search!VarOf(trail[i])] \in [level : Nat, reason : SUBSET Nonzero]
    BY <2>1, <1>1 DEF TrailType
  <2>3. vardata[Search!VarOf(trail[i])].level <= Len(trailLim)
    BY <1>1 DEF LevelsRight
  <2> QED
    BY <2>2, <2>3, <1>2 DEF Search!Level, Search!Reason
<1>10. ASSUME NEW i \in 1 .. Len(trail), NEW k \in i .. Len(trail)
       PROVE  Search!Level(trail[i]) <= Search!Level(trail[k])
  <2>1. k \in 1 .. Len(trail)
    BY <1>2
  <2>2. Search!Level(trail[i]) \in 0 .. Len(trailLim) /\ Search!Level(trail[k]) \in 0 .. Len(trailLim)
    BY <1>9, <2>1
  <2>3. \A j \in 1 .. Len(trailLim) : /\ trailLim[j] < i <=> j <= Search!Level(trail[i])
                                      /\ trailLim[j] < k <=> j <= Search!Level(trail[k])
                                      /\ trailLim[j] \in Nat
    BY <1>1, <1>2, <2>1 DEF LevelsRight, Search!Level
  <2>4. CASE Search!Level(trail[i]) = 0
    BY <2>4, <2>2
  <2>5. CASE Search!Level(trail[i]) # 0
    <3>1. Search!Level(trail[i]) \in 1 .. Len(trailLim)
      BY <2>2, <2>5
    <3>2. trailLim[Search!Level(trail[i])] < i /\ trailLim[Search!Level(trail[i])] \in Nat
      BY <2>2, <2>3, <3>1
    <3>3. trailLim[Search!Level(trail[i])] < k
      BY <3>2
    <3> QED
      BY <2>3, <3>1, <3>3
  <2> QED
    BY <2>4, <2>5
<1> QED
  BY <1>2, <1>3, <1>4, <1>6, <1>7, <1>8, <1>9, <1>10

--------------------------------------------------------------------------------
(* Conflict analysis. *)

Satisfies(M) == \A x \in formula : \E l \in x[2] : Holds(l, M)

\* Following from the formula, in the words of the proofs about analyze.
LEMMA FollowsIs ==
  ASSUME NEW C
  PROVE  Follows(formula, C) <=> \A M : Satisfies(M) => \E l \in C : Holds(l, M)
BY DEF Follows, Satisfies

\* The literals made false by the first n of the trail.
LEMMA FalseLiterals ==
  ASSUME TheTrail, NEW n \in 0 .. Len(trail)
  PROVE  /\ FalseUpto(n) \in SUBSET Nonzero
         /\ FalseUpto(n) \subseteq FalseUpto(Len(trail))
         /\ IsFiniteSet(FalseUpto(n))
         /\ \A l \in FalseUpto(n) : Search!Level(l) \in 0 .. Len(trailLim)
         /\ \A l \in FalseUpto(n) : -l \in Nonzero /\ -(-l) = l
<1>1. \A i \in 1 .. n : i \in 1 .. Len(trail)
  BY TrailFacts
<1>2. \A i \in 1 .. n : /\ trail[i] \in Nonzero /\ -trail[i] \in Nonzero /\ -(-trail[i]) = trail[i]
                        /\ Search!Level(-trail[i]) \in 0 .. Len(trailLim)
  BY <1>1, TrailFacts, VarsEqual
<1>3. IsFiniteSet(FalseUpto(n))
  <2> DEFINE f == [i \in 1 .. n |-> -trail[i]]
  <2>1. f \in Surjection(1 .. n, FalseUpto(n))
    BY DEF Surjection, FalseUpto
  <2>2. IsFiniteSet(1 .. n)
    BY FS_Interval
  <2> HIDE DEF f
  <2> QED
    BY <2>1, <2>2, FS_Surjection
<1> QED
  BY <1>1, <1>2, <1>3 DEF FalseUpto

\* Literals of level 0 are left out of clauses that are learnt.
LEMMA AboveRootIs ==
  ASSUME TheTrail, NEW C \in SUBSET FalseUpto(Len(trail))
  PROVE  /\ Search!AboveRoot(C) \subseteq C
         /\ \A l \in Search!AboveRoot(C) : Search!Level(l) \in 1 .. Len(trailLim)
         /\ \A M : Satisfies(M) => \A l \in C : Holds(l, M) => l \in Search!AboveRoot(C)
<1>1. \A l \in C : Search!Level(l) \in 0 .. Len(trailLim) /\ l \in Nonzero
  BY TrailFacts, FalseLiterals
<1>2. ASSUME NEW M, Satisfies(M), NEW l \in C, Search!Level(l) = 0
      PROVE  ~Holds(l, M)
  <2>1. PICK i \in 1 .. Len(trail) : l = -trail[i]
    BY DEF FalseUpto
  <2>2. trail[i] \in Nonzero /\ Search!Level(trail[i]) = 0
    BY <1>2, <2>1, TrailFacts
  <2>3. Follows(formula, {trail[i]})
    BY <2>2 DEF TheTrail, TrailRight, ImpliedFromTrail, Justified, Search!Level
  <2>4. Holds(trail[i], M)
    BY <1>2, <2>3, FollowsIs
  <2> QED
    BY <2>1, <2>2, <2>4, HoldsNegation
<1> QED
  BY <1>1, <1>2 DEF Search!AboveRoot

\* What the reason of a literal says: it is implied by literals before it.
LEMMA CausesAre ==
  ASSUME TheTrail, NEW i \in 1 .. Len(trail)
  PROVE  /\ Search!Causes(-trail[i]) \subseteq FalseUpto(i - 1)
         /\ \A l \in Search!Causes(-trail[i]) : Search!Level(l) \in 1 .. Len(trailLim)
         /\ Search!Reason(-trail[i]) = {} => Search!Causes(-trail[i]) = {}
         /\ Search!Reason(-trail[i]) # {} =>
              \A M : Satisfies(M) =>
                Holds(trail[i], M) \/ \E l \in Search!Causes(-trail[i]) : Holds(l, M)
<1> DEFINE R == Search!Reason(trail[i])
<1>1. /\ trail[i] \in Nonzero /\ -(-trail[i]) = trail[i]
      /\ Search!Reason(-trail[i]) = R /\ R \in SUBSET Nonzero
      /\ i - 1 \in 0 .. Len(trail)
  BY TrailFacts, VarsEqual
<1>2. R # {} => /\ trail[i] \in R
                /\ Follows(formula, R)
                /\ \A l \in R \ {trail[i]} : \E j \in 1 .. i - 1 : trail[j] = -l
  BY DEF TheTrail, TrailRight, ImpliedFromTrail, Justified, Search!Reason
<1>3. Search!Causes(-trail[i]) = Search!AboveRoot(R \ {trail[i]})
  BY <1>1 DEF Search!Causes
<1> HIDE DEF R
<1>4. R \ {trail[i]} \subseteq FalseUpto(i - 1)
  <2> SUFFICES ASSUME NEW l \in R \ {trail[i]} PROVE l \in FalseUpto(i - 1)
    OBVIOUS
  <2>1. PICK j \in 1 .. i - 1 : trail[j] = -l
    BY <1>2
  <2>2. l = -trail[j]
    BY <1>1, <2>1, VarsEqual
  <2> QED
    BY <2>2 DEF FalseUpto
<1>5. R \ {trail[i]} \in SUBSET FalseUpto(Len(trail))
  BY <1>1, <1>4, FalseLiterals
<1>6. /\ Search!AboveRoot(R \ {trail[i]}) \subseteq R \ {trail[i]}
      /\ \A l \in Search!AboveRoot(R \ {trail[i]}) : Search!Level(l) \in 1 .. Len(trailLim)
      /\ \A M : Satisfies(M) =>
           \A l \in R \ {trail[i]} : Holds(l, M) => l \in Search!AboveRoot(R \ {trail[i]})
  BY <1>5, AboveRootIs
<1>7. ASSUME R # {}, NEW M, Satisfies(M)
      PROVE  Holds(trail[i], M) \/ \E l \in Search!Causes(-trail[i]) : Holds(l, M)
  <2>1. PICK l \in R : Holds(l, M)
    BY <1>2, <1>7, FollowsIs
  <2> QED
    BY <1>3, <1>6, <1>7, <2>1
<1> QED
  BY <1>1, <1>3, <1>4, <1>6, <1>7

\* A clause of false literals that follows, with one of the current level at least,
\* and no others of that level after the first n literals of the trail.
Cut(C, n) ==
  /\ C \subseteq FalseUpto(Len(trail))
  /\ \A l \in C : Search!Level(l) \in 1 .. Len(trailLim)
  /\ Follows(formula, C)
  /\ Search!OfLevel(C) # {}
  /\ Cardinality(Search!OfLevel(C)) > 1 => Search!OfLevel(C) \subseteq FalseUpto(n)

ResolvedAt(n, C) ==
  IF Search!Cardinality(Search!OfLevel(C)) > 1 /\ -trail[n] \in C
  THEN (C \ {-trail[n]}) \union Search!Causes(-trail[n]) ELSE C

\* The literals of the current level in a clause of false literals.
LEMMA OfLevelFinite ==
  ASSUME TheTrail, NEW C \in SUBSET FalseUpto(Len(trail))
  PROVE  /\ IsFiniteSet(Search!OfLevel(C))
         /\ \A l : l \in Search!OfLevel(C) <=> l \in C /\ Search!Level(l) = Len(trailLim)
<1>1. IsFiniteSet(FalseUpto(Len(trail))) /\ Search!OfLevel(C) \subseteq FalseUpto(Len(trail))
  BY TrailFacts, FalseLiterals DEF Search!OfLevel
<1>2. IsFiniteSet(Search!OfLevel(C))
  BY <1>1, FS_Subset
<1> QED
  BY <1>2, TrailFacts DEF Search!OfLevel

\* One round of the loop of analyze, which goes down the trail, keeps what is learnt.
LEMMA ResolveStep ==
  ASSUME TheTrail, NEW n \in 1 .. Len(trail), NEW C, Cut(C, n)
  PROVE  Cut(ResolvedAt(n, C), n - 1)
<1> DEFINE l == -trail[n]
           D == (C \ {l}) \union Search!Causes(l)
<1>1. /\ C \in SUBSET FalseUpto(Len(trail))
      /\ \A x \in C : Search!Level(x) \in 1 .. Len(trailLim)
      /\ Follows(formula, C)
      /\ Search!OfLevel(C) # {}
      /\ Cardinality(Search!OfLevel(C)) > 1 => Search!OfLevel(C) \subseteq FalseUpto(n)
  BY DEF Cut
<1>2. /\ IsFiniteSet(Search!OfLevel(C))
      /\ \A x : x \in Search!OfLevel(C) <=> x \in C /\ Search!Level(x) = Len(trailLim)
      /\ Search!Cardinality(Search!OfLevel(C)) = Cardinality(Search!OfLevel(C))
  BY <1>1, OfLevelFinite, SmallSets
<1>3. \A x \in FalseUpto(n) : x = l \/ x \in FalseUpto(n - 1)
  <2> SUFFICES ASSUME NEW x \in FalseUpto(n) PROVE x = l \/ x \in FalseUpto(n - 1)
    OBVIOUS
  <2>1. PICK i \in 1 .. n : x = -trail[i]
    BY DEF FalseUpto
  <2>2. i = n \/ i \in 1 .. n - 1
    OBVIOUS
  <2> QED
    BY <2>1, <2>2 DEF FalseUpto
<1>4. CASE ~(Search!Cardinality(Search!OfLevel(C)) > 1)
  BY <1>1, <1>2, <1>4 DEF Cut, ResolvedAt
<1>5. CASE Search!Cardinality(Search!OfLevel(C)) > 1 /\ l \notin C
  <2>1. Search!OfLevel(C) \subseteq FalseUpto(n - 1)
    BY <1>1, <1>2, <1>3, <1>5
  <2> QED
    BY <1>1, <1>5, <2>1 DEF Cut, ResolvedAt
<1>6. CASE Search!Cardinality(Search!OfLevel(C)) > 1 /\ l \in C
  <2>0. n \in 1 .. Len(trail) /\ n \in Nat /\ l \in Nonzero /\ -l = trail[n]
        /\ trail[n] \in Nonzero /\ Search!Level(l) = Search!Level(trail[n]) /\ Search!Reason(l) = Search!Reason(trail[n])
    BY TrailFacts, VarsEqual
  <2>1. PICK k \in Search!OfLevel(C) : k # l
    <3>1. CASE l \in Search!OfLevel(C)
      BY <3>1, <1>2, <1>6, SmallSets
    <3>2. CASE l \notin Search!OfLevel(C)
      BY <3>2, <1>1
    <3> QED
      BY <3>1, <3>2
  <2>2. k \in C /\ Search!Level(k) = Len(trailLim) /\ k \in FalseUpto(n - 1)
    BY <1>1, <1>2, <1>3, <1>6, <2>1
  <2>3. PICK j \in 1 .. n - 1 : k = -trail[j]
    BY <2>2 DEF FalseUpto
  <2>4. j \in 1 .. Len(trail) /\ n \in j .. Len(trail) /\ Search!Level(trail[j]) = Len(trailLim)
    BY <2>2, <2>3, TrailFacts
  <2>5. Search!Level(trail[n]) = Len(trailLim)
    <3>1. Search!Level(trail[j]) <= Search!Level(trail[n]) /\ Search!Level(trail[n]) \in 0 .. Len(trailLim)
      BY <2>4, TrailFacts
    <3>2. Len(trailLim) \in Nat
      BY TrailFacts
    <3> QED
      BY <2>4, <3>1, <3>2
  <2>6. Search!Reason(l) # {}
    <3> SUFFICES ASSUME Search!Reason(trail[n]) = {} PROVE FALSE
      BY <2>0
    <3>1. Search!Level(trail[n]) > 0
      BY <1>1, <1>6, <2>0, TrailFacts
    <3>2. Search!Level(trail[j]) < Search!Level(trail[n])
      <4>1. Justified(formula, trail, vardata, n)
        BY DEF TheTrail, TrailRight, ImpliedFromTrail
      <4> QED
        BY <3>1, <2>3, <4>1 DEF Justified, Search!Level, Search!Reason
    <3> QED
      BY <2>4, <2>5, <3>2, TrailFacts
  <2>7. /\ Search!Causes(l) \subseteq FalseUpto(n - 1)
        /\ \A x \in Search!Causes(l) : Search!Level(x) \in 1 .. Len(trailLim)
        /\ \A M : Satisfies(M) => Holds(trail[n], M) \/ \E x \in Search!Causes(l) : Holds(x, M)
    BY <2>6, CausesAre
  <2>8. FalseUpto(n - 1) \subseteq FalseUpto(Len(trail))
    BY <2>0 DEF FalseUpto
  <2> HIDE DEF l
  <2>9. D \subseteq FalseUpto(Len(trail)) /\ \A x \in D : Search!Level(x) \in 1 .. Len(trailLim)
    BY <1>1, <2>7, <2>8
  <2>10. Follows(formula, D)
    <3> SUFFICES ASSUME NEW M, Satisfies(M) PROVE \E x \in D : Holds(x, M)
      BY FollowsIs
    <3>1. PICK x \in C : Holds(x, M)
      BY <1>1, FollowsIs
    <3>2. CASE x # l
      BY <3>1, <3>2
    <3>3. CASE x = l
      <4>1. ~Holds(trail[n], M)
        BY <3>1, <3>3, <2>0, HoldsNegation
      <4> QED
        BY <2>7, <4>1
    <3> QED
      BY <3>2, <3>3
  <2>11. k \in Search!OfLevel(D)
    BY <2>1, <2>2, <2>9, OfLevelFinite
  <2>12. Search!OfLevel(D) \subseteq FalseUpto(n - 1)
    <3> SUFFICES ASSUME NEW x \in Search!OfLevel(D) PROVE x \in FalseUpto(n - 1)
      OBVIOUS
    <3>1. x \in D /\ Search!Level(x) = Len(trailLim)
      BY <2>9, OfLevelFinite
    <3>2. CASE x \in Search!Causes(l)
      BY <2>7, <3>2
    <3>3. CASE x \in C \ {l}
      <4>1. x \in Search!OfLevel(C)
        BY <1>2, <3>1, <3>3
      <4> QED
        BY <1>1, <1>2, <1>3, <1>6, <3>3, <4>1
    <3> QED
      BY <3>1, <3>2, <3>3
  <2>13. ResolvedAt(n, C) = D
    BY <1>6 DEF ResolvedAt, l
  <2> HIDE DEF D
  <2> QED
    BY <2>9, <2>10, <2>11, <2>12, <2>13 DEF Cut
<1> QED
  BY <1>4, <1>5, <1>6

\* analyze stops at the first unique implication point.
LEMMA FirstUIPIs ==
  ASSUME TheTrail, NEW confl \in SUBSET FalseUpto(Len(trail)),
         Follows(formula, confl),
         NEW k \in confl, Search!Level(k) = Len(trailLim), Len(trailLim) > 0
  PROVE  /\ Search!FirstUIP(confl) \in SUBSET FalseUpto(Len(trail))
         /\ Follows(formula, Search!FirstUIP(confl))
         /\ \A l \in Search!FirstUIP(confl) : Search!Level(l) \in 1 .. Len(trailLim)
         /\ \E u : Search!OfLevel(Search!FirstUIP(confl)) = {u}
<1> DEFINE N == Len(trail)
           S == SUBSET FalseUpto(N)
           a == Search!AboveRoot(confl)
           Is(t) == t = [n \in 0 .. N |->
                           IF n = 0 THEN a ELSE ResolvedAt(N + 1 - n, t[n - 1])]
           g == [x \in (1 .. N) \X S |-> ResolvedAt(N + 1 - x[1], x[2])]
           T == CHOOSE t : Is(t)
<1>1. Search!FirstUIP(confl) = T[N]
  BY DEF Search!FirstUIP, ResolvedAt
<1>2. N \in Nat
  BY TrailFacts
<1>3. Cut(a, N)
  <2>1. /\ a \in SUBSET FalseUpto(N)
        /\ \A l \in a : Search!Level(l) \in 1 .. Len(trailLim)
        /\ \A M : Satisfies(M) => \A l \in confl : Holds(l, M) => l \in a
    BY AboveRootIs
  <2>2. Follows(formula, a)
    <3> SUFFICES ASSUME NEW M, Satisfies(M) PROVE \E l \in a : Holds(l, M)
      BY FollowsIs
    <3>1. PICK l \in confl : Holds(l, M)
      BY FollowsIs
    <3> QED
      BY <2>1, <3>1
  <2>3. k \in a
    BY DEF Search!AboveRoot
  <2>4. k \in Search!OfLevel(a)
    BY <2>1, <2>3, OfLevelFinite
  <2>5. Search!OfLevel(a) \subseteq FalseUpto(N)
    BY <2>1 DEF Search!OfLevel
  <2> QED
    BY <2>1, <2>2, <2>4, <2>5 DEF Cut
<1> HIDE DEF a
<1>4. ASSUME NEW n \in 1 .. N, NEW X \in S
      PROVE  ResolvedAt(N + 1 - n, X) \in S
  <2>1. N + 1 - n \in 1 .. Len(trail) /\ (N + 1 - n) - 1 \in 0 .. Len(trail)
    BY <1>2
  <2>2. Search!Causes(-trail[N + 1 - n]) \subseteq FalseUpto((N + 1 - n) - 1)
    BY <2>1, CausesAre
  <2>3. FalseUpto((N + 1 - n) - 1) \subseteq FalseUpto(N)
    BY <2>1, FalseLiterals
  <2> QED
    BY <2>2, <2>3 DEF ResolvedAt
<1>5. \E t : Is(t)
  <2>1. g \in [(1 .. N) \X S -> S]
    <3> HIDE DEF S
    <3> QED
      BY <1>4
  <2>2. a \in S
    BY <1>3 DEF Cut
  <2>3. \A n \in 1 .. N, X \in S : g[<<n, X>>] = ResolvedAt(N + 1 - n, X)
    OBVIOUS
  <2> HIDE DEF g, S
  <2>4. PICK t \in Recursion(N, S, a, g) : TRUE
    <3>1. Recursion(N, S, a, g) # {}
      BY <1>2, <2>1, <2>2, RecursiveUpto
    <3> QED
      BY <3>1
  <2>7. t \in [0 .. N -> S] /\ t[0] = a /\ \A n \in 1 .. N : t[n] = g[<<n, t[n - 1]>>]
    BY <2>4 DEF Recursion
  <2>5. ASSUME NEW n \in 0 .. N
        PROVE  t[n] = IF n = 0 THEN a ELSE ResolvedAt(N + 1 - n, t[n - 1])
    <3>1. CASE n = 0
      BY <2>7, <3>1
    <3>2. CASE n # 0
      <4>1. n \in 1 .. N /\ n - 1 \in 0 .. N
        BY <1>2, <3>2
      <4>2. t[n - 1] \in S /\ t[n] = g[<<n, t[n - 1]>>]
        BY <2>7, <4>1
      <4> QED
        BY <2>3, <3>2, <4>1, <4>2
    <3> QED
      BY <3>1, <3>2
  <2>6. Is(t)
    BY <2>7, <2>5
  <2> HIDE DEF Is
  <2> QED
    BY <2>6
<1>6. Is(T)
  <2> HIDE DEF Is
  <2> QED
    BY <1>5
<1> HIDE DEF T
<1>7. T[0] = a /\ \A n \in 1 .. N : T[n] = ResolvedAt(N + 1 - n, T[n - 1])
  <2>1. 0 \in 0 .. N /\ \A n \in 1 .. N : n \in 0 .. N /\ n # 0
    BY <1>2
  <2> QED
    BY <1>6, <2>1
<1> DEFINE K == { n \in 0 .. N : Cut(T[n], N - n) }
<1>8. 0 \in K
  BY <1>2, <1>3, <1>7
<1>9. ASSUME NEW n \in 1 .. N, n - 1 \in K
      PROVE  n \in K
  <2>1. N + 1 - n \in 1 .. Len(trail) /\ N - (n - 1) = N + 1 - n /\ (N + 1 - n) - 1 = N - n
        /\ n \in 0 .. N
    BY <1>2
  <2>2. Cut(T[n - 1], N + 1 - n)
    BY <1>9, <2>1
  <2>3. Cut(ResolvedAt(N + 1 - n, T[n - 1]), N - n)
    <3>1. Cut(ResolvedAt(N + 1 - n, T[n - 1]), (N + 1 - n) - 1)
      BY <2>1, <2>2, ResolveStep
    <3> QED
      BY <2>1, <3>1
  <2> QED
    BY <1>7, <2>1, <2>3
<1>10. Cut(T[N], 0)
  <2>1. 0 .. N \subseteq K
    <3> HIDE DEF K
    <3> QED
      BY <1>2, <1>8, <1>9, InductionUpto
  <2>2. N \in K /\ N - N = 0
    BY <1>2, <2>1
  <2> QED
    BY <2>2
<1>11. FalseUpto(0) = {}
  BY DEF FalseUpto
<1>12. \E u : Search!OfLevel(T[N]) = {u}
  <2>1. T[N] \in SUBSET FalseUpto(Len(trail)) /\ Search!OfLevel(T[N]) # {}
        /\ (Cardinality(Search!OfLevel(T[N])) > 1 => Search!OfLevel(T[N]) \subseteq {})
    BY <1>10, <1>11 DEF Cut
  <2>2. IsFiniteSet(Search!OfLevel(T[N]))
    BY <2>1, OfLevelFinite
  <2> QED
    BY <2>1, <2>2, SmallSets
<1> QED
  BY <1>1, <1>10, <1>12 DEF Cut

\* litRedundant: each literal left out is implied by causes that are redundant too or stay.
LEMMA RedundantAre ==
  ASSUME TheTrail, NEW C
  PROVE  \A l \in Search!litRedundant(C) :
           \E i \in 1 .. Len(trail) :
             /\ l = -trail[i]
             /\ Search!Reason(l) # {}
             /\ Search!Causes(l) \subseteq C \union Search!litRedundant(C)
<1> DEFINE N == Len(trail)
           S == SUBSET FalseUpto(N)
           Next1(n, R) == IF Search!Reason(-trail[n]) # Search!NoReason /\ Search!Causes(-trail[n]) \subseteq C \union R
                          THEN R \union {-trail[n]} ELSE R
           Is(t) == t = [n \in 0 .. N |-> IF n = 0 THEN {} ELSE Next1(n, t[n - 1])]
           g == [x \in (1 .. N) \X S |-> Next1(x[1], x[2])]
           T == CHOOSE t : Is(t)
<1>1. Search!litRedundant(C) = T[N]
  BY DEF Search!litRedundant
<1>2. N \in Nat
  BY TrailFacts
<1>3. ASSUME NEW n \in 1 .. N, NEW X \in S
      PROVE  Next1(n, X) \in S
  <2>1. -trail[n] \in FalseUpto(N)
    BY DEF FalseUpto
  <2> QED
    BY <2>1
<1>4. \E t : Is(t)
  <2>1. g \in [(1 .. N) \X S -> S]
    <3> HIDE DEF S, Next1
    <3> QED
      BY <1>3
  <2>2. {} \in S
    OBVIOUS
  <2> HIDE DEF Next1
  <2>3. \A n \in 1 .. N, X \in S : g[<<n, X>>] = Next1(n, X)
    OBVIOUS
  <2> HIDE DEF g, S
  <2>4. PICK t \in Recursion(N, S, {}, g) : TRUE
    <3>1. Recursion(N, S, {}, g) # {}
      BY <1>2, <2>1, <2>2, RecursiveUpto
    <3> QED
      BY <3>1
  <2>7. t \in [0 .. N -> S] /\ t[0] = {} /\ \A n \in 1 .. N : t[n] = g[<<n, t[n - 1]>>]
    BY <2>4 DEF Recursion
  <2>5. ASSUME NEW n \in 0 .. N
        PROVE  t[n] = IF n = 0 THEN {} ELSE Next1(n, t[n - 1])
    <3>1. CASE n = 0
      BY <2>7, <3>1
    <3>2. CASE n # 0
      <4>1. n \in 1 .. N /\ n - 1 \in 0 .. N
        BY <1>2, <3>2
      <4>2. t[n - 1] \in S /\ t[n] = g[<<n, t[n - 1]>>]
        BY <2>7, <4>1
      <4> QED
        BY <2>3, <3>2, <4>1, <4>2
    <3> QED
      BY <3>1, <3>2
  <2>6. Is(t)
    BY <2>7, <2>5
  <2> HIDE DEF Is
  <2> QED
    BY <2>6
<1>5. Is(T)
  <2> HIDE DEF Is
  <2> QED
    BY <1>4
<1> HIDE DEF T
<1>6. T[0] = {} /\ \A n \in 1 .. N : T[n] = Next1(n, T[n - 1])
  <2>1. 0 \in 0 .. N /\ \A n \in 1 .. N : n \in 0 .. N /\ n # 0
    BY <1>2
  <2> HIDE DEF Next1
  <2> QED
    BY <1>5, <2>1
<1> DEFINE Fine(R) ==
             \A l \in R : \E i \in 1 .. N :
               l = -trail[i] /\ Search!Reason(l) # {} /\ Search!Causes(l) \subseteq C \union R
           K == { n \in 0 .. N : Fine(T[n]) }
<1>7. 0 \in K
  BY <1>2, <1>6
<1>8. ASSUME NEW n \in 1 .. N, n - 1 \in K
      PROVE  n \in K
  <2>1. Fine(T[n - 1]) /\ T[n] = Next1(n, T[n - 1])
    BY <1>6, <1>8
  <2>2. Fine(T[n])
    <3>1. CASE T[n] = T[n - 1]
      BY <2>1, <3>1
    <3>2. CASE T[n] # T[n - 1]
      <4>1. T[n] = T[n - 1] \union {-trail[n]} /\ Search!Reason(-trail[n]) # {}
            /\ Search!Causes(-trail[n]) \subseteq C \union T[n - 1]
        BY <2>1, <3>2 DEF Search!NoReason
      <4> QED
        BY <2>1, <4>1
    <3> QED
      BY <3>1, <3>2
  <2> QED
    BY <1>2, <2>2
<1>9. N \in K
  <2>1. 0 .. N \subseteq K
    <3> HIDE DEF K
    <3> QED
      BY <1>2, <1>7, <1>8, InductionUpto
  <2> QED
    BY <1>2, <2>1
<1> QED
  BY <1>1, <1>9

\* A clause stays implied when redundant literals are left out.
LEMMA ShortFollows ==
  ASSUME TheTrail, NEW C \in SUBSET FalseUpto(Len(trail)), Follows(formula, C), NEW u \in C
  PROVE  Follows(formula, {u} \union (C \ Search!litRedundant(C)))
<1> DEFINE N == Len(trail)
           Rd == Search!litRedundant(C)
           short == {u} \union (C \ Rd)
<1> SUFFICES ASSUME NEW M, Satisfies(M), \A l \in short : ~Holds(l, M) PROVE FALSE
  BY FollowsIs
<1> DEFINE K == { n \in 0 .. N : \A i \in 1 .. n :
                    -trail[i] \in C \union Rd => ~Holds(-trail[i], M) }
<1>1. N \in Nat
  BY TrailFacts
<1>2. 0 \in K
  BY <1>1
<1>3. ASSUME NEW n \in 1 .. N, n - 1 \in K
      PROVE  n \in K
  <2>1. n \in 0 .. N /\ \A i \in 1 .. n : i = n \/ i \in 1 .. n - 1
    OBVIOUS
  <2> SUFFICES ASSUME -trail[n] \in C \union Rd PROVE ~Holds(-trail[n], M)
    BY <1>3, <2>1
  <2>2. CASE -trail[n] \in C \ Rd
    BY <2>2
  <2>3. CASE -trail[n] \in Rd
    <3>1. Search!Reason(-trail[n]) # {} /\ Search!Causes(-trail[n]) \subseteq C \union Rd
      BY <2>3, RedundantAre
    <3>2. /\ Search!Causes(-trail[n]) \subseteq FalseUpto(n - 1)
          /\ Holds(trail[n], M) \/ \E l \in Search!Causes(-trail[n]) : Holds(l, M)
      BY <3>1, CausesAre
    <3>3. \A l \in Search!Causes(-trail[n]) : ~Holds(l, M)
      <4> SUFFICES ASSUME NEW l \in Search!Causes(-trail[n]) PROVE ~Holds(l, M)
        OBVIOUS
      <4>1. PICK j \in 1 .. n - 1 : l = -trail[j]
        BY <3>2 DEF FalseUpto
      <4> QED
        BY <1>3, <3>1, <4>1
    <3> QED
      BY <3>2, <3>3, HoldsNegation, TrailFacts
  <2> QED
    BY <2>2, <2>3
<1>4. 0 .. N \subseteq K
  <2> HIDE DEF K
  <2> QED
    BY <1>1, <1>2, <1>3, InductionUpto
<1>5. N \in K
  BY <1>1, <1>4
<1>6. PICK l \in C : Holds(l, M)
  BY FollowsIs
<1>7. PICK i \in 1 .. N : l = -trail[i]
  BY DEF FalseUpto
<1> QED
  BY <1>5, <1>6, <1>7

\* What a conflict teaches: a clause of false literals, one of them of this level.
LEMMA AnalyzeIs ==
  ASSUME TheTrail, ClausesRight,
         NEW confl \in SUBSET FalseUpto(Len(trail)), Follows(formula, confl),
         NEW k \in confl, Search!Level(k) = Len(trailLim), Len(trailLim) > 0
  PROVE  \E u, C :
           /\ Search!analyze(confl) = <<u, C>>
           /\ C \in SUBSET FalseUpto(Len(trail))
           /\ u \in C
           /\ Search!Level(u) = Len(trailLim)
           /\ \A l \in C \ {u} : Search!Level(l) \in 1 .. Len(trailLim) - 1
           /\ Follows(formula, C)
<1> DEFINE cut == Search!FirstUIP(confl)
           uip == CHOOSE l \in cut : Search!Level(l) = Search!decisionLevel
           short == {uip} \union (cut \ Search!litRedundant(cut))
           less == Search!minimisationWithBinaryResolution(short, uip)
           C == IF backend = "glucose" THEN less ELSE short
<1>1. Search!analyze(confl) = <<uip, C>>
  BY DEF Search!analyze
<1>2. /\ cut \in SUBSET FalseUpto(Len(trail))
      /\ Follows(formula, cut)
      /\ \A l \in cut : Search!Level(l) \in 1 .. Len(trailLim)
      /\ \E v : Search!OfLevel(cut) = {v}
  BY FirstUIPIs
<1> HIDE DEF cut
<1>3. PICK v : Search!OfLevel(cut) = {v}
  BY <1>2
<1>4. v \in cut /\ Search!Level(v) = Len(trailLim)
      /\ \A l \in cut : Search!Level(l) = Len(trailLim) => l = v
  BY <1>2, <1>3, OfLevelFinite
<1>5. Search!decisionLevel = Len(trailLim) /\ Len(trailLim) \in Nat
  BY TrailFacts
<1>6. uip = v
  BY <1>4, <1>5
<1> HIDE DEF uip
<1>7. short \in SUBSET cut /\ uip \in short
  BY <1>4, <1>6
<1>8. Follows(formula, short)
  BY <1>2, <1>4, <1>6, ShortFollows
<1>9. C \in SUBSET short /\ uip \in C
  <2>1. less \in SUBSET short /\ uip \in less
    BY <1>7 DEF Search!minimisationWithBinaryResolution
  <2> QED
    BY <1>7, <2>1
<1>10. Follows(formula, C)
  <2>1. CASE backend # "glucose"
    BY <2>1, <1>8
  <2>2. CASE backend = "glucose"
    <3> SUFFICES ASSUME NEW M, Satisfies(M) PROVE \E l \in less : Holds(l, M)
      BY <2>2, FollowsIs
    <3>1. PICK l \in short : Holds(l, M)
      BY <1>8, FollowsIs
    <3>2. CASE l \in less
      BY <3>1, <3>2
    <3>3. CASE l \notin less
      <4>1. {uip, -l} \in DOMAIN watch
        BY <3>3 DEF Search!minimisationWithBinaryResolution
      <4>2. Follows(formula, {uip, -l})
        BY <4>1 DEF ClausesRight
      <4>3. Holds(uip, M) \/ Holds(-l, M)
        BY <4>2, FollowsIs
      <4>4. l \in Nonzero
        BY <1>2, <1>7, TrailFacts, FalseLiterals
      <4>5. Holds(uip, M)
        BY <3>1, <4>3, <4>4, HoldsNegation
      <4>6. uip \in less
        BY <1>7 DEF Search!minimisationWithBinaryResolution
      <4> QED
        BY <4>5, <4>6
    <3> QED
      BY <3>2, <3>3
  <2> QED
    BY <2>1, <2>2
<1> HIDE DEF C, short
<1>11. \A l \in C \ {uip} : Search!Level(l) \in 1 .. Len(trailLim) - 1
  <2> SUFFICES ASSUME NEW l \in C \ {uip} PROVE Search!Level(l) \in 1 .. Len(trailLim) - 1
    OBVIOUS
  <2>1. l \in cut /\ Search!Level(l) # Len(trailLim) /\ Search!Level(l) \in 1 .. Len(trailLim)
    BY <1>2, <1>4, <1>6, <1>7, <1>9
  <2> QED
    BY <1>5, <2>1
<1> QED
  BY <1>1, <1>2, <1>4, <1>6, <1>7, <1>9, <1>10, <1>11

\* analyzeFinal for an assumption that is false.
LEMMA FinalIs ==
  ASSUME TheTrail, NEW p \in FalseUpto(Len(trail))
  PROVE  /\ \A l \in Search!analyzeFinal(p) :
              l = -p \/ (l \in FalseUpto(Len(trail)) /\ Search!Reason(l) = {} /\ Search!Level(l) > 0)
         /\ Follows(formula, Search!analyzeFinal(p))
<1> DEFINE N == Len(trail)
           S == SUBSET FalseUpto(N)
           a == Search!AboveRoot({p})
           Next1(n, X) == X \union (IF -trail[N + 1 - n] \in X THEN Search!Causes(-trail[N + 1 - n])
                                    ELSE {})
           Is(t) == t = [n \in 0 .. N |-> IF n = 0 THEN a ELSE Next1(n, t[n - 1])]
           g == [x \in (1 .. N) \X S |-> Next1(x[1], x[2])]
           T == CHOOSE t : Is(t)
<1>1. Search!analyzeFinal(p) = {-p} \union { l \in T[N] : Search!Reason(l) = {} }
  BY DEF Search!analyzeFinal, Search!NoReason
<1>2. N \in Nat
  BY TrailFacts
<1>3. ASSUME NEW n \in 1 .. N, NEW X \in S
      PROVE  Next1(n, X) \in S
  <2>1. N + 1 - n \in 1 .. Len(trail) /\ (N + 1 - n) - 1 \in 0 .. Len(trail)
    BY <1>2
  <2>2. Search!Causes(-trail[N + 1 - n]) \subseteq FalseUpto((N + 1 - n) - 1)
    BY <2>1, CausesAre
  <2>3. FalseUpto((N + 1 - n) - 1) \subseteq FalseUpto(N)
    BY <2>1, FalseLiterals
  <2> QED
    BY <2>2, <2>3
<1>4. a \in S /\ \A l \in a : Search!Level(l) > 0
  <2>1. {p} \in SUBSET FalseUpto(Len(trail))
    OBVIOUS
  <2> QED
    BY <2>1 DEF Search!AboveRoot
<1> HIDE DEF a
<1>5. \E t : Is(t)
  <2>1. g \in [(1 .. N) \X S -> S]
    <3> HIDE DEF S, Next1
    <3> QED
      BY <1>3
  <2> HIDE DEF Next1
  <2>3. \A n \in 1 .. N, X \in S : g[<<n, X>>] = Next1(n, X)
    OBVIOUS
  <2> HIDE DEF g, S
  <2>4. PICK t \in Recursion(N, S, a, g) : TRUE
    <3>1. Recursion(N, S, a, g) # {}
      BY <1>2, <1>4, <2>1, RecursiveUpto
    <3> QED
      BY <3>1
  <2>5. t \in [0 .. N -> S] /\ t[0] = a /\ \A n \in 1 .. N : t[n] = g[<<n, t[n - 1]>>]
    BY <2>4 DEF Recursion
  <2>6. ASSUME NEW n \in 0 .. N
        PROVE  t[n] = IF n = 0 THEN a ELSE Next1(n, t[n - 1])
    <3>1. CASE n = 0
      BY <2>5, <3>1
    <3>2. CASE n # 0
      <4>1. n \in 1 .. N /\ n - 1 \in 0 .. N
        BY <1>2, <3>2
      <4>2. t[n - 1] \in S /\ t[n] = g[<<n, t[n - 1]>>]
        BY <2>5, <4>1
      <4> QED
        BY <2>3, <3>2, <4>1, <4>2
    <3> QED
      BY <3>1, <3>2
  <2>7. Is(t)
    BY <2>5, <2>6
  <2> HIDE DEF Is
  <2> QED
    BY <2>7
<1>6. Is(T)
  <2> HIDE DEF Is
  <2> QED
    BY <1>5
<1> HIDE DEF T
<1>7. T[0] = a /\ \A n \in 1 .. N : T[n] = Next1(n, T[n - 1])
  <2>1. 0 \in 0 .. N /\ \A n \in 1 .. N : n \in 0 .. N /\ n # 0
    BY <1>2
  <2> HIDE DEF Next1
  <2> QED
    BY <1>6, <2>1
<1> DEFINE Fine(n, X) ==
             /\ X \in S /\ a \subseteq X
             /\ \A l \in X : Search!Level(l) > 0
             /\ \A i \in N + 1 - n .. N : -trail[i] \in X => Search!Causes(-trail[i]) \subseteq X
           K == { n \in 0 .. N : Fine(n, T[n]) }
<1>8. 0 \in K
  <2>1. N + 1 - 0 .. N = {}
    BY <1>2
  <2> QED
    BY <1>2, <1>4, <1>7, <2>1
<1>9. ASSUME NEW n \in 1 .. N, n - 1 \in K
      PROVE  n \in K
  <2> DEFINE X == T[n - 1]
             m == N + 1 - n
  <2>1. /\ m \in 1 .. N /\ n \in 0 .. N /\ m - 1 \in 0 .. N
        /\ \A i \in m .. N : i \in 1 .. N /\ (i = m \/ i \in N + 1 - (n - 1) .. N)
    BY <1>2
  <2>2. Fine(n - 1, X)
    BY <1>9
  <2>3. T[n] = X \union (IF -trail[m] \in X THEN Search!Causes(-trail[m]) ELSE {})
    BY <1>7
  <2>4. /\ Search!Causes(-trail[m]) \subseteq FalseUpto(m - 1)
        /\ \A l \in Search!Causes(-trail[m]) : Search!Level(l) \in 1 .. Len(trailLim)
    BY <2>1, CausesAre
  <2>5. \A i \in m .. N : -trail[i] \notin FalseUpto(m - 1)
    <3> SUFFICES ASSUME NEW i \in m .. N, NEW j \in 1 .. m - 1, -trail[i] = -trail[j]
                 PROVE  FALSE
      BY DEF FalseUpto
    <3>1. i \in 1 .. N /\ j \in 1 .. N /\ i # j
      BY <1>2, <2>1
    <3>2. trail[i] \in Nonzero /\ trail[j] \in Nonzero
      BY <3>1, TrailFacts
    <3>3. trail[i] = trail[j]
      BY <3>2, VarsEqual
    <3>4. Search!VarOf(trail[i]) = Search!VarOf(trail[j])
      BY <3>3
    <3> QED
      BY <3>1, <3>4 DEF TheTrail, TrailRight, TrailType
  <2>6. T[n] \in S
    BY <1>3, <1>7, <2>2, SMTT(30)
  <2> HIDE DEF X, m
  <2>7. /\ a \subseteq T[n]
        /\ \A l \in T[n] : Search!Level(l) > 0
    BY <2>2, <2>3, <2>4, TrailFacts
  <2>8. ASSUME NEW i \in m .. N, -trail[i] \in T[n]
        PROVE  Search!Causes(-trail[i]) \subseteq T[n]
    <3>1. -trail[i] \in X
      BY <2>3, <2>4, <2>5, <2>8
    <3>2. CASE i = m
      BY <2>3, <3>1, <3>2
    <3>3. CASE i \in N + 1 - (n - 1) .. N
      BY <2>2, <2>3, <3>1, <3>3
    <3> QED
      BY <2>1, <3>2, <3>3
  <2>9. Fine(n, T[n])
    BY <2>6, <2>7, <2>8 DEF m
  <2> HIDE DEF Fine
  <2> QED
    BY <2>1, <2>9
<1>10. Fine(N, T[N])
  <2>1. 0 .. N \subseteq K
    <3> HIDE DEF K
    <3> QED
      BY <1>2, <1>8, <1>9, InductionUpto
  <2>2. N \in K
    BY <1>2, <2>1
  <2> HIDE DEF Fine
  <2> QED
    BY <2>2
<1>11. /\ T[N] \in SUBSET FalseUpto(N) /\ a \subseteq T[N]
       /\ \A l \in T[N] : Search!Level(l) > 0
       /\ \A i \in 1 .. N : -trail[i] \in T[N] => Search!Causes(-trail[i]) \subseteq T[N]
  <2>1. N + 1 - N = 1
    BY <1>2
  <2> QED
    BY <1>10, <2>1
<1>12. Follows(formula, Search!analyzeFinal(p))
  <2> SUFFICES ASSUME NEW M, Satisfies(M), \A l \in Search!analyzeFinal(p) : ~Holds(l, M)
               PROVE  FALSE
    BY FollowsIs
  <2>1. p \in Nonzero /\ Holds(p, M)
    <3>1. p \in Nonzero
      BY TrailFacts, FalseLiterals
    <3> QED
      BY <1>1, <3>1, HoldsNegation
  <2>2. p \in a
    <3>1. {p} \in SUBSET FalseUpto(Len(trail))
      OBVIOUS
    <3> QED
      BY <2>1, <3>1, AboveRootIs DEF a
  <2> DEFINE J == { n \in 0 .. N : \A i \in 1 .. n :
                      -trail[i] \in T[N] => ~Holds(-trail[i], M) }
  <2>3. 0 \in J
    BY <1>2
  <2>4. ASSUME NEW n \in 1 .. N, n - 1 \in J
        PROVE  n \in J
    <3>1. n \in 0 .. N /\ \A i \in 1 .. n : i = n \/ i \in 1 .. n - 1
      BY <1>2
    <3> SUFFICES ASSUME -trail[n] \in T[N] PROVE ~Holds(-trail[n], M)
      BY <2>4, <3>1
    <3>2. CASE Search!Reason(-trail[n]) = {}
      BY <1>1, <3>2
    <3>3. CASE Search!Reason(-trail[n]) # {}
      <4>1. /\ Search!Causes(-trail[n]) \subseteq FalseUpto(n - 1)
            /\ Holds(trail[n], M) \/ \E l \in Search!Causes(-trail[n]) : Holds(l, M)
        BY <3>3, CausesAre
      <4>2. \A l \in Search!Causes(-trail[n]) : ~Holds(l, M)
        <5> SUFFICES ASSUME NEW l \in Search!Causes(-trail[n]) PROVE ~Holds(l, M)
          OBVIOUS
        <5>1. PICK j \in 1 .. n - 1 : l = -trail[j]
          BY <4>1 DEF FalseUpto
        <5> QED
          BY <1>11, <2>4, <5>1
      <4> QED
        BY <4>1, <4>2, HoldsNegation, TrailFacts
    <3> QED
      BY <3>2, <3>3
  <2>5. N \in J
    <3>1. 0 .. N \subseteq J
      <4> HIDE DEF J
      <4> QED
        BY <1>2, <2>3, <2>4, InductionUpto
    <3> QED
      BY <1>2, <3>1
  <2>6. PICK i \in 1 .. N : p = -trail[i]
    BY DEF FalseUpto
  <2> QED
    BY <1>11, <2>1, <2>2, <2>5, <2>6
<1> QED
  BY <1>1, <1>11, <1>12

--------------------------------------------------------------------------------
(* What backtracking and assigning leave as it was. *)

\* The second trail continues the first one.
Continues(t, d, t2, d2) ==
  /\ Len(t) <= Len(t2)
  /\ \A i \in 1 .. Len(t) : t2[i] = t[i] /\ d2[Search!VarOf(t[i])] = d[Search!VarOf(t[i])]

\* What uncheckedEnqueue's callers see to.
Assignable(F, t, lim, data, lit, from) ==
  /\ lit \in Nonzero /\ Search!VarOf(lit) \notin DOMAIN data
  /\ from \in SUBSET Nonzero
  /\ from # {} =>
       /\ lit \in from
       /\ Follows(F, from)
       /\ \A l \in from \ {lit} : \E j \in 1 .. Len(t) : t[j] = -l
  /\ from = {} /\ Len(lim) > 0 =>
       \A j \in 1 .. Len(t) : data[Search!VarOf(t[j])].level < Len(lim)
  /\ Len(lim) = 0 => Follows(F, {lit})

\* uncheckedEnqueue of a literal that may be put on the trail keeps the trail right.
LEMMA EnqueueIs ==
  ASSUME NEW F, NEW t, NEW lim, NEW data, TrailRight(F, t, lim, data),
         NEW lit, NEW from, Assignable(F, t, lim, data, lit, from),
         Search!Enqueue(t, data, lit, from, Len(lim))
  PROVE  /\ TrailRight(F, trail', lim, vardata')
         /\ trail' = Append(t, lit)
         /\ Len(trail') = Len(t) + 1 /\ trail'[Len(t) + 1] = lit
         /\ OnTrail(trail', lit)
         /\ vardata'[Search!VarOf(lit)].level = Len(lim) /\ vardata'[Search!VarOf(lit)].reason = from
         /\ Continues(t, data, trail', vardata')
<1>0. lit \in Nonzero /\ Search!VarOf(lit) \notin DOMAIN data /\ from \in SUBSET Nonzero
  BY DEF Assignable
<1>1. trail' = Append(t, lit)
  BY DEF Search!Enqueue
<1>2. vardata' = [v \in DOMAIN data \union {Search!VarOf(lit)} |->
                    IF v = Search!VarOf(lit) THEN [level |-> Len(lim), reason |-> from] ELSE data[v]]
  BY DEF Search!Enqueue
<1>3. t \in Seq(Nonzero) /\ Len(t) \in Nat /\ Len(lim) \in Nat
  BY DEF TrailRight, TrailType
<1>4. Len(trail') = Len(t) + 1 /\ trail'[Len(t) + 1] = lit
      /\ \A i \in 1 .. Len(t) : trail'[i] = t[i]
  BY <1>0, <1>1, <1>3
<1>5. \A i \in 1 .. Len(t) : Search!VarOf(t[i]) \in DOMAIN data
  BY DEF TrailRight, TrailType
<1>6. \A i \in 1 .. Len(t) : vardata'[Search!VarOf(t[i])] = data[Search!VarOf(t[i])]
  BY <1>0, <1>2, <1>5
<1>7. /\ vardata'[Search!VarOf(lit)].level = Len(lim) /\ vardata'[Search!VarOf(lit)].reason = from
      /\ \A v \in DOMAIN data : vardata'[v] = data[v]
      /\ DOMAIN vardata' = DOMAIN data \union {Search!VarOf(lit)}
  BY <1>0, <1>2, <1>3
<1>8. Continues(t, data, trail', vardata')
  BY <1>3, <1>4, <1>6 DEF Continues
<1>9. TrailRight(F, trail', lim, vardata')
  <2>1. vardata' \in [DOMAIN vardata' -> [level : Nat, reason : SUBSET Nonzero]]
    <3>1. data \in [DOMAIN data -> [level : Nat, reason : SUBSET Nonzero]]
      BY DEF TrailRight, TrailType
    <3> QED
      BY <1>0, <1>2, <1>3, <3>1
  <2> QED
    BY <1>0, <1>1, <1>7, <2>1, EnqueueTrail, ZenonT(30) DEF Assignable
<1>10. OnTrail(trail', lit)
  BY <1>3, <1>4 DEF OnTrail
<1> QED
  BY <1>1, <1>4, <1>7, <1>8, <1>9, <1>10

\* cancelUntil keeps the trail up to the limit of the level.
LEMMA CutIs ==
  ASSUME TheTrail, NEW level \in 0 .. Len(trailLim)
  PROVE  /\ TrailRight(formula, Search!cancelUntil(level), SubSeq(trailLim, 1, level), Search!Kept(level))
         /\ Len(Search!cancelUntil(level)) \in 0 .. Len(trail)
         /\ Continues(Search!cancelUntil(level), Search!Kept(level), trail, vardata)
         /\ Len(SubSeq(trailLim, 1, level)) = level
         /\ \A j \in 1 .. level : SubSeq(trailLim, 1, level)[j] = trailLim[j]
         /\ level < Len(trailLim) => Len(Search!cancelUntil(level)) = trailLim[level + 1]
         /\ level = Len(trailLim) => Search!cancelUntil(level) = trail
         /\ \A i \in 1 .. Len(trail) :
              Search!Level(trail[i]) <= level <=> i \in 1 .. Len(Search!cancelUntil(level))
         /\ DOMAIN Search!Kept(level) = { v \in DOMAIN vardata : vardata[v].level <= level }
<1> DEFINE t == Search!cancelUntil(level)
           lim == SubSeq(trailLim, 1, level)
           d == Search!Kept(level)
<1>1. /\ TrailType(trail, trailLim, vardata)
      /\ LevelsRight(trail, trailLim, vardata)
  BY DEF TheTrail, TrailRight
<1>2. /\ Search!decisionLevel = Len(trailLim) /\ trail \in Seq(Nonzero) /\ trailLim \in Seq(Nat)
      /\ Len(trail) \in Nat /\ Len(trailLim) \in Nat
      /\ \A j \in 1 .. Len(trailLim) : trailLim[j] \in Nat /\ trailLim[j] <= Len(trail)
  BY <1>1, TrailFacts DEF LevelsRight
<1>3. /\ t = IF level < Len(trailLim) THEN SubSeq(trail, 1, trailLim[level + 1]) ELSE trail
      /\ d = [v \in { x \in DOMAIN vardata : vardata[x].level <= level } |-> vardata[v]]
  BY <1>2 DEF Search!cancelUntil, Search!Kept
<1>4. TrailRight(formula, t, lim, d)
  BY <1>3, CancelTrail DEF TheTrail
<1>5. Len(lim) = level /\ \A j \in 1 .. level : lim[j] = trailLim[j]
  BY <1>2
<1>6. /\ Len(t) \in 0 .. Len(trail)
      /\ \A i \in 1 .. Len(t) : t[i] = trail[i] /\ i \in 1 .. Len(trail)
      /\ level < Len(trailLim) => Len(t) = trailLim[level + 1]
      /\ level = Len(trailLim) => t = trail
  BY <1>2, <1>3
<1> HIDE DEF t, d, lim
<1>7. \A i \in 1 .. Len(t) : Search!VarOf(t[i]) \in DOMAIN d
  BY <1>4 DEF TrailRight, TrailType
<1>8. \A i \in 1 .. Len(t) : d[Search!VarOf(t[i])] = vardata[Search!VarOf(t[i])]
  BY <1>3, <1>7
<1>9. Continues(t, d, trail, vardata)
  BY <1>2, <1>6, <1>8 DEF Continues
<1>10. ASSUME NEW i \in 1 .. Len(trail)
       PROVE  Search!Level(trail[i]) <= level <=> i \in 1 .. Len(t)
  <2>1. Search!Level(trail[i]) \in 0 .. Len(trailLim)
    BY TrailFacts
  <2>2. CASE level < Len(trailLim)
    <3>1. level + 1 \in 1 .. Len(trailLim)
      BY <2>2, <1>2
    <3>2. trailLim[level + 1] < i <=> level + 1 <= Search!Level(trail[i])
      BY <1>1, <3>1 DEF LevelsRight, Search!Level
    <3> QED
      BY <2>1, <2>2, <3>1, <3>2, <1>2, <1>6
  <2>3. CASE level = Len(trailLim)
    BY <2>1, <2>3, <1>2, <1>6
  <2> QED
    BY <2>2, <2>3, <1>2
<1>11. DOMAIN d = { v \in DOMAIN vardata : vardata[v].level <= level }
  BY <1>3
<1> QED
  BY <1>4, <1>5, <1>6, <1>9, <1>10, <1>11 DEF t, d, lim

\* Watches stay right when literals are assigned.
LEMMA WatchEnqueue ==
  ASSUME NEW W, NEW t, NEW d, NEW q, NEW P, WatchesRight(W, t, d, q, P),
         NEW lim, NEW F, TrailRight(F, t, lim, d), q \in 0 .. Len(t),
         \A c \in DOMAIN W : c \in SUBSET Nonzero /\ W[c] \subseteq c,
         NEW t2, NEW d2, Continues(t, d, t2, d2), Len(t2) \in Nat
  PROVE  WatchesRight(W, t2, d2, q, P)
<1> SUFFICES ASSUME NEW c \in DOMAIN W, NEW w \in W[c], NEW i \in 1 .. q,
                    t2[i] = -w, ~(i = q /\ c \in P)
             PROVE  \E l \in c : OnTrail(t2, l) /\ d2[Search!VarOf(l)].level <= d2[Search!VarOf(w)].level
  BY DEF WatchesRight
<1>1. Len(t) \in Nat /\ i \in 1 .. Len(t)
  BY DEF TrailRight, TrailType
<1>2. t[i] = -w /\ d2[Search!VarOf(t[i])] = d[Search!VarOf(t[i])]
  BY <1>1 DEF Continues
<1>3. Search!VarOf(-w) = Search!VarOf(w)
  BY VarsEqual
<1>4. PICK l \in c : OnTrail(t, l) /\ d[Search!VarOf(l)].level <= d[Search!VarOf(w)].level
  BY <1>2 DEF WatchesRight
<1>5. PICK j \in 1 .. Len(t) : t[j] = l
  BY <1>4 DEF OnTrail
<1>6. j \in 1 .. Len(t2) /\ t2[j] = l /\ d2[Search!VarOf(l)] = d[Search!VarOf(l)]
  BY <1>1, <1>5 DEF Continues
<1> QED
  BY <1>2, <1>3, <1>4, <1>6 DEF OnTrail

\* cancelUntil leaves them as they are, and still right: a true literal that a false
\* one was given up for is no later than that one.
LEMMA WatchCut ==
  ASSUME TheTrail, ClausesRight, QueueRight, WatchedRight,
         NEW level \in 0 .. Len(trailLim), level < Len(trailLim) \/ pending = {}
  PROVE  WatchesRight(watch, Search!cancelUntil(level), Search!Kept(level),
                      IF level < Search!decisionLevel THEN Len(Search!cancelUntil(level)) ELSE qhead, {})
<1> DEFINE t == Search!cancelUntil(level)
           d == Search!Kept(level)
           q == IF level < Search!decisionLevel THEN Len(t) ELSE qhead
<1>1. /\ Len(t) \in 0 .. Len(trail)
      /\ Continues(t, d, trail, vardata)
      /\ level < Len(trailLim) => Len(t) = trailLim[level + 1]
      /\ level = Len(trailLim) => t = trail
      /\ \A i \in 1 .. Len(trail) : Search!Level(trail[i]) <= level <=> i \in 1 .. Len(t)
  BY CutIs
<1>2. /\ Search!decisionLevel = Len(trailLim) /\ Len(trailLim) \in Nat /\ Len(trail) \in Nat
      /\ qhead \in 0 .. Len(trail)
  BY TrailFacts DEF QueueRight
<1> HIDE DEF t, d
<1>3. q \in 0 .. Len(t)
  BY <1>1, <1>2
<1> SUFFICES ASSUME NEW c \in DOMAIN watch, NEW w \in watch[c], NEW i \in 1 .. q, t[i] = -w
             PROVE  \E l \in c : OnTrail(t, l) /\ d[Search!VarOf(l)].level <= d[Search!VarOf(w)].level
  BY DEF WatchesRight, t, d
<1>4. i \in 1 .. Len(t) /\ i \in 1 .. Len(trail) /\ trail[i] = -w
      /\ d[Search!VarOf(-w)] = vardata[Search!VarOf(-w)]
  BY <1>1, <1>3 DEF Continues
<1>5. i \in 1 .. qhead /\ ~(i = qhead /\ c \in pending)
  <2>1. CASE level < Len(trailLim)
    <3>1. level + 1 \in 1 .. Len(trailLim) /\ trailLim[level + 1] \in Nat
      BY <2>1, <1>2, TrailFacts, SMTT(30)
    <3>2. trailLim[level + 1] <= qhead /\ (pending # {} => trailLim[level + 1] < qhead)
      BY <3>1, <1>2 DEF QueueRight
    <3> QED
      BY <1>1, <1>2, <1>4, <2>1, <3>1, <3>2
  <2>2. CASE level = Len(trailLim)
    BY <1>2, <2>2
  <2> QED
    BY <2>1, <2>2, <1>2
<1>6. PICK l \in c : OnTrail(trail, l) /\ vardata[Search!VarOf(l)].level <= vardata[Search!VarOf(w)].level
  BY <1>4, <1>5 DEF WatchedRight, WatchesRight
<1>7. PICK j \in 1 .. Len(trail) : trail[j] = l
  BY <1>6 DEF OnTrail
<1>8. w \in Nonzero /\ Search!VarOf(-w) = Search!VarOf(w)
  <2>1. w \in Nonzero
    BY DEF ClausesRight
  <2> QED
    BY <2>1, VarsEqual
<1>9. Search!Level(trail[i]) = vardata[Search!VarOf(w)].level /\ Search!Level(trail[j]) = vardata[Search!VarOf(l)].level
      /\ Search!Level(trail[i]) \in Nat /\ Search!Level(trail[j]) \in Nat
      /\ Search!Level(trail[i]) <= level
  <2>1. Search!Level(trail[i]) \in Nat /\ Search!Level(trail[j]) \in Nat
    BY <1>4, TrailFacts, SMTT(30)
  <2> QED
    BY <2>1, <1>1, <1>4, <1>7, <1>8 DEF Search!Level
<1>10. j \in 1 .. Len(t)
  BY <1>1, <1>6, <1>9
<1>11. t[j] = l /\ d[Search!VarOf(l)] = vardata[Search!VarOf(l)]
  BY <1>1, <1>7, <1>10 DEF Continues
<1> QED
  BY <1>4, <1>6, <1>8, <1>10, <1>11 DEF OnTrail

\* What holds at level 0 and of the assumptions stays when the trail is cut, and when it grows.
LEMMA RootStays ==
  ASSUME TheTrail, NEW level \in 0 .. Len(trailLim),
         NEW l, OnTrail(trail, l), Search!Level(l) = 0
  PROVE  OnTrail(Search!cancelUntil(level), l) /\ Search!Kept(level)[Search!VarOf(l)].level = 0
<1>1. PICK i \in 1 .. Len(trail) : trail[i] = l
  BY DEF OnTrail
<1>2. i \in 1 .. Len(Search!cancelUntil(level))
  <2>1. Search!Level(trail[i]) <= level
    BY <1>1, TrailFacts
  <2> QED
    BY <2>1, CutIs
<1>3. Search!cancelUntil(level)[i] = l /\ Search!Kept(level)[Search!VarOf(l)] = vardata[Search!VarOf(l)]
  <2>1. Continues(Search!cancelUntil(level), Search!Kept(level), trail, vardata)
    BY CutIs
  <2> QED
    BY <1>1, <1>2, <2>1 DEF Continues
<1> QED
  BY <1>2, <1>3 DEF OnTrail, Search!Level

\* What is on a trail stays on it when a literal is appended.
LEMMA OnTrailGrows ==
  ASSUME NEW t, NEW d, NEW t2, NEW d2, Continues(t, d, t2, d2),
         Len(t) \in Nat, Len(t2) \in Nat, NEW l, OnTrail(t, l)
  PROVE  OnTrail(t2, l) /\ d2[Search!VarOf(l)] = d[Search!VarOf(l)]
BY DEF OnTrail, Continues

\* The assumptions of the levels kept stay on the trail (cancelUntil).
LEMMA AssumptionsCut ==
  ASSUME TheTrail, NEW level \in 0 .. Len(trailLim), assumptions \in Seq(Nonzero), AssumptionsRight
  PROVE  AssumptionsOn(assumptions, Search!cancelUntil(level), SubSeq(trailLim, 1, level), Search!Kept(level))
<1> DEFINE t == Search!cancelUntil(level)
           lim == SubSeq(trailLim, 1, level)
           d == Search!Kept(level)
<1>1. /\ Len(t) \in 0 .. Len(trail)
      /\ Continues(t, d, trail, vardata)
      /\ Len(lim) = level
      /\ \A i \in 1 .. Len(trail) : Search!Level(trail[i]) <= level <=> i \in 1 .. Len(t)
  BY CutIs
<1>2. Len(trailLim) \in Nat /\ Len(trail) \in Nat
      /\ \A i \in 1 .. Len(trail) : Search!Level(trail[i]) \in Nat
  BY TrailFacts
<1> HIDE DEF t, lim, d
<1>3. ASSUME NEW j \in 1 .. Len(assumptions), j <= Len(lim)
      PROVE  OnTrail(t, assumptions[j]) /\ d[Search!VarOf(assumptions[j])].level <= j
  <2>1. OnTrail(trail, assumptions[j]) /\ vardata[Search!VarOf(assumptions[j])].level <= j
        /\ j \in Nat
    BY <1>1, <1>2, <1>3 DEF AssumptionsRight, AssumptionsOn
  <2>2. PICK i \in 1 .. Len(trail) : trail[i] = assumptions[j]
    BY <2>1 DEF OnTrail
  <2>3. Search!Level(trail[i]) <= j /\ Search!Level(trail[i]) \in Nat
    BY <1>2, <2>1, <2>2 DEF Search!Level
  <2>4. i \in 1 .. Len(t)
    BY <1>1, <1>3, <2>1, <2>3
  <2>5. t[i] = assumptions[j] /\ d[Search!VarOf(t[i])] = vardata[Search!VarOf(t[i])]
    BY <1>1, <2>2, <2>4 DEF Continues
  <2> QED
    BY <2>1, <2>4, <2>5 DEF OnTrail
<1>4. ASSUME NEW i \in 1 .. Len(t), d[Search!VarOf(t[i])].reason = {},
             d[Search!VarOf(t[i])].level \in 1 .. Len(assumptions)
      PROVE  t[i] = assumptions[d[Search!VarOf(t[i])].level]
  <2>1. i \in 1 .. Len(trail) /\ t[i] = trail[i] /\ d[Search!VarOf(t[i])] = vardata[Search!VarOf(t[i])]
    BY <1>1 DEF Continues
  <2> QED
    BY <1>4, <2>1 DEF AssumptionsRight, AssumptionsOn
<1> QED
  BY <1>3, <1>4 DEF AssumptionsOn, t, lim, d

--------------------------------------------------------------------------------
(* The invariant holds initially, and every step keeps it. *)

\* The invariant holds of a new solver.
LEMMA SearchInit ==
  ASSUME Search!Init
  PROVE  SearchInv
<1>1. calls \in Seq(FiniteCall)
  <2>1. calls \in Seq(SearchCall) /\ \A i \in DOMAIN calls : calls[i].op = "add" => IsFiniteSet(calls[i].lits)
    BY SearchScriptsAssumption DEF Search!Init
  <2>2. \A i \in 1 .. Len(calls) : calls[i] \in FiniteCall
    BY <2>1 DEF FiniteCall
  <2> QED
    BY <2>1, <2>2
<1>2. /\ formula = {} /\ created = {} /\ clauses = {} /\ learnts = {} /\ ok = TRUE
      /\ trail = <<>> /\ trailLim = <<>> /\ vardata = <<>> /\ qhead = 0 /\ pending = {}
      /\ assumptions = <<>> /\ pc = "idle" /\ watch = <<>>
  BY DEF Search!Init
<1>3. Len(trail) = 0 /\ Len(trailLim) = 0 /\ DOMAIN vardata = {} /\ DOMAIN watch = {}
  BY <1>2
<1>4. vardata \in [DOMAIN vardata -> [level : Nat, reason : SUBSET Nonzero]]
  <2>1. vardata = [v \in DOMAIN vardata |-> vardata[v]]
    BY <1>2
  <2>2. \A v \in DOMAIN vardata : vardata[v] \in [level : Nat, reason : SUBSET Nonzero]
    BY <1>3
  <2> QED
    BY <2>1, <2>2
<1>5. TheTrail
  <2>1. TrailType(trail, trailLim, vardata)
    BY <1>2, <1>3, <1>4 DEF TrailType
  <2>2. LevelsRight(trail, trailLim, vardata)
    BY <1>3 DEF LevelsRight
  <2>3. ImpliedFromTrail(formula, trail, vardata)
    BY <1>3 DEF ImpliedFromTrail
  <2> QED
    BY <2>1, <2>2, <2>3 DEF TheTrail, TrailRight
<1>6. ClausesRight /\ WatchedRight
  BY <1>2, <1>3 DEF ClausesRight, WatchedRight, WatchesRight
<1>7. QueueRight
  BY <1>2, <1>3 DEF QueueRight, Search!decisionLevel
<1>8. FormulaKept
  BY <1>2 DEF FormulaKept
<1> QED
  BY <1>1, <1>2, <1>5, <1>6, <1>7, <1>8 DEF SearchInv, TheTrail

\* Each clause of the formula is kept, in a step that loses no clause and no literal of
\* level 0.
LEMMA FormulaStays ==
  ASSUME FormulaKept, formula' = formula, created \subseteq created', ok' = ok,
         clauses' = clauses,
         \A l : OnTrail(trail, l) /\ Search!Level(l) = 0 => OnTrail(trail', l) /\ Search!Level(l)' = 0
  PROVE  FormulaKept'
<1>1. ~ok' => Follows(formula', {})
  BY DEF FormulaKept
<1>2. ASSUME NEW x \in formula
      PROVE  /\ x[1] = 0
             /\ x[2] \in SUBSET Nonzero
             /\ \A l \in x[2] : Search!VarOf(l) \in created'
             /\ \/ ~ok'
                \/ \E l \in x[2] : -l \in x[2]
                \/ \E l \in x[2] : OnTrail(trail', l) /\ Search!Level(l)' = 0
                \/ \E c \in clauses' : c \subseteq x[2]
  <2>1. /\ x[1] = 0
        /\ x[2] \in SUBSET Nonzero
        /\ \A l \in x[2] : Search!VarOf(l) \in created
        /\ \/ ~ok
           \/ \E l \in x[2] : -l \in x[2]
           \/ \E l \in x[2] : OnTrail(trail, l) /\ Search!Level(l) = 0
           \/ \E c \in clauses : c \subseteq x[2]
    BY DEF FormulaKept
  <2> QED
    BY <2>1
<1> QED
  BY <1>1, <1>2 DEF FormulaKept

\* Cancelling all of the levels keeps the invariant.
LEMMA BacktrackInv ==
  ASSUME SearchInv, Search!Backtrack(0),
         UNCHANGED <<calls, formula, created, assumptions, clauses, learnts, watch>>,
         pending' = {}, pc' \in {"idle", "searching"},
         ok' \in BOOLEAN, ok' => ok /\ (Len(trailLim) > 0 \/ pending = {}),
         ~ok' => Follows(formula, {})
  PROVE  SearchInv'
<1>1. /\ TheTrail /\ ClausesRight /\ QueueRight /\ FormulaKept
      /\ ok => WatchedRight
      /\ Len(trailLim) \in Nat /\ 0 \in 0 .. Len(trailLim) /\ Search!decisionLevel = Len(trailLim)
  <2>1. TheTrail /\ ClausesRight /\ QueueRight /\ FormulaKept /\ (ok => WatchedRight)
    BY DEF SearchInv, TheTrail
  <2> QED
    BY <2>1, TrailFacts
<1>2. /\ trail' = Search!cancelUntil(0)
      /\ trailLim' = SubSeq(trailLim, 1, 0)
      /\ vardata' = Search!Kept(0)
      /\ qhead' = IF 0 < Search!decisionLevel THEN Len(Search!cancelUntil(0)) ELSE qhead
  BY DEF Search!Backtrack
<1>3. /\ TrailRight(formula, trail', trailLim', vardata')
      /\ Len(trailLim') = 0 /\ trailLim' = <<>>
      /\ Len(trail') \in 0 .. Len(trail)
      /\ 0 < Len(trailLim) => Len(trail') = trailLim[1]
      /\ 0 = Len(trailLim) => trail' = trail
  <2>1. SubSeq(trailLim, 1, 0) = <<>>
    BY <1>1, TrailFacts
  <2>2. /\ TrailRight(formula, Search!cancelUntil(0), SubSeq(trailLim, 1, 0), Search!Kept(0))
        /\ Len(Search!cancelUntil(0)) \in 0 .. Len(trail)
        /\ 0 < Len(trailLim) => Len(Search!cancelUntil(0)) = trailLim[0 + 1]
        /\ 0 = Len(trailLim) => Search!cancelUntil(0) = trail
    BY <1>1, CutIs
  <2>3. Len(trailLim') = 0
    BY <1>2, <2>1
  <2> QED
    BY <1>2, <2>1, <2>2, <2>3
<1>4. TheTrail'
  BY <1>3 DEF TheTrail
<1>5. ClausesRight'
  BY <1>1 DEF ClausesRight
<1>6. QueueRight'
  <2>1. qhead' \in 0 .. Len(trail')
    <3>1. qhead \in 0 .. Len(trail) /\ Len(trail) \in Nat
      BY <1>1, TrailFacts DEF QueueRight
    <3> QED
      BY <1>1, <1>2, <1>3, <3>1
  <2>2. Search!decisionLevel' = 0
    BY <1>3 DEF Search!decisionLevel
  <2> QED
    BY <2>1, <2>2 DEF QueueRight
<1>7. ok' => WatchedRight'
  <2> SUFFICES ASSUME ok' PROVE WatchedRight'
    OBVIOUS
  <2>1. WatchesRight(watch, Search!cancelUntil(0), Search!Kept(0),
                     IF 0 < Search!decisionLevel THEN Len(Search!cancelUntil(0)) ELSE qhead, {})
    BY <1>1, WatchCut
  <2> QED
    BY <1>2, <2>1 DEF WatchedRight
<1>8. FormulaKept'
  <2>1. \A l : OnTrail(trail, l) /\ Search!Level(l) = 0 => OnTrail(trail', l) /\ Search!Level(l)' = 0
    BY <1>1, <1>2, RootStays DEF Search!Level
  <2>2. ASSUME NEW x \in formula
        PROVE  /\ x[1] = 0
               /\ x[2] \in SUBSET Nonzero
               /\ \A l \in x[2] : Search!VarOf(l) \in created
               /\ \/ ~ok'
                  \/ \E l \in x[2] : -l \in x[2]
                  \/ \E l \in x[2] : OnTrail(trail', l) /\ Search!Level(l)' = 0
                  \/ \E c \in clauses : c \subseteq x[2]
    <3>1. /\ x[1] = 0
          /\ x[2] \in SUBSET Nonzero
          /\ \A l \in x[2] : Search!VarOf(l) \in created
          /\ \/ ~ok
             \/ \E l \in x[2] : -l \in x[2]
             \/ \E l \in x[2] : OnTrail(trail, l) /\ Search!Level(l) = 0
             \/ \E c \in clauses : c \subseteq x[2]
      BY <1>1 DEF FormulaKept
    <3> QED
      BY <2>1, <3>1
  <2> QED
    BY <2>2 DEF FormulaKept
<1>9. AssumptionsRight'
  <2>1. \A i \in 1 .. Len(trail') : vardata'[Search!VarOf(trail'[i])].level <= 0
                                    /\ vardata'[Search!VarOf(trail'[i])].level \in Nat
    BY <1>3 DEF TrailRight, LevelsRight, TrailType
  <2> QED
    BY <1>3, <2>1 DEF AssumptionsRight, AssumptionsOn
<1> QED
  BY <1>3, <1>4, <1>5, <1>6, <1>7, <1>8, <1>9 DEF SearchInv, TheTrail

\* Steps that end a query, and restarts.
LEMMA UnsatStep ==
  ASSUME SearchInv, NEW conflict, Search!ReturnUnsat(conflict),
         conflict # {} => pending = {},
         ok => ok \in BOOLEAN, conflict = {} => Follows(formula, {})
  PROVE  SearchInv'
<1>1. /\ Search!Backtrack(0) /\ pc' = "idle" /\ pending' = {}
      /\ ok' = (ok /\ conflict # {})
      /\ UNCHANGED <<calls, formula, created, assumptions, clauses, learnts, watch>>
  BY DEF Search!ReturnUnsat, Search!clauseVars
<1>2. ~ok => Follows(formula, {})
  BY DEF SearchInv, FormulaKept
<1> QED
  BY <1>1, <1>2, BacktrackInv

\* A call on a solver that knows its formula is contradictory.
LEMMA ContradictionStep ==
  ASSUME SearchInv, Search!SolveContradiction
  PROVE  SearchInv'
<1>1. Search!ReturnUnsat({}) /\ ~ok
  BY DEF Search!SolveContradiction
<1>2. Follows(formula, {})
  BY <1>1 DEF SearchInv, FormulaKept
<1> QED
  BY <1>1, <1>2, UnsatStep

\* A clause to visit: of its watched literals one has become false last.
LEMMA PendingIs ==
  ASSUME SearchInv, Search!Propagating, NEW c \in pending
  PROVE  /\ TheTrail /\ ClausesRight /\ QueueRight /\ WatchedRight /\ ok /\ pc # "idle"
         /\ qhead \in 1 .. Len(trail) /\ \A j \in 1 .. Len(trailLim) : trailLim[j] < qhead
         /\ c \in DOMAIN watch /\ c \in SUBSET Nonzero /\ Follows(formula, c)
         /\ Search!Level(-trail[qhead]) = Len(trailLim)
         /\ -trail[qhead] \in c /\ Search!False(-trail[qhead])
         /\ watch[c] = {-trail[qhead], Search!Other(c)} /\ Search!Other(c) \in c
         /\ Search!Other(c) # -trail[qhead]
<1>1. /\ TheTrail /\ ClausesRight /\ QueueRight /\ ok /\ WatchedRight /\ pc # "idle"
  BY DEF SearchInv, TheTrail, Search!Propagating
<1>2. c \in DOMAIN watch /\ -trail[qhead] \in watch[c]
      /\ qhead \in 1 .. Len(trail) /\ \A j \in 1 .. Len(trailLim) : trailLim[j] < qhead
  BY <1>1, TrailFacts DEF QueueRight
<1>3. c \in SUBSET Nonzero /\ Follows(formula, c) /\ -trail[qhead] \in c
  BY <1>1, <1>2 DEF ClausesRight
<1>4. watch[c] = {-trail[qhead], Search!Other(c)} /\ Search!Other(c) \in c /\ Search!Other(c) # -trail[qhead]
  <2>1. PICK a, b \in c : a # b /\ watch[c] = {a, b}
    BY <1>1, <1>2 DEF ClausesRight
  <2>2. \E l \in watch[c] : l # -trail[qhead]
    BY <2>1
  <2>3. Search!Other(c) \in watch[c] /\ Search!Other(c) # -trail[qhead]
    BY <2>2 DEF Search!Other
  <2> QED
    BY <1>2, <2>1, <2>3
<1>5. Search!Level(-trail[qhead]) = Len(trailLim)
  <2>1. Search!Level(-trail[qhead]) = Search!Level(trail[qhead]) /\ Search!Level(trail[qhead]) \in 0 .. Len(trailLim)
        /\ Len(trailLim) \in Nat
    BY <1>1, <1>2, TrailFacts
  <2>2. Len(trailLim) > 0 => Len(trailLim) <= Search!Level(trail[qhead])
    <3> SUFFICES ASSUME Len(trailLim) > 0 PROVE Len(trailLim) <= Search!Level(trail[qhead])
      OBVIOUS
    <3>1. Len(trailLim) \in 1 .. Len(trailLim)
      BY <2>1
    <3>2. trailLim[Len(trailLim)] < qhead <=> Len(trailLim) <= Search!Level(trail[qhead])
      BY <1>1, <1>2, <3>1 DEF TheTrail, TrailRight, LevelsRight, Search!Level
    <3> QED
      BY <1>2, <3>1, <3>2
  <2> QED
    BY <2>1, <2>2
<1>6. Search!False(-trail[qhead])
  BY <1>1, <1>2, <1>3, TrailFacts DEF FalseUpto
<1> QED
  BY <1>1, <1>2, <1>3, <1>4, <1>5, <1>6

\* A clause with only false literals, and some of the current level unless that is 0.
LEMMA ConflictIs ==
  ASSUME SearchInv, NEW c, Search!ConflictIn(c)
  PROVE  /\ TheTrail /\ ok /\ c \in DOMAIN watch
         /\ c \in SUBSET FalseUpto(Len(trail))
         /\ Follows(formula, c)
         /\ \E k \in c : Search!Level(k) = Len(trailLim)
<1>1. Search!Propagating /\ c \in pending /\ \A l \in c : Search!False(l)
  BY DEF Search!ConflictIn
<1>2. /\ TheTrail /\ ok /\ c \in DOMAIN watch /\ c \in SUBSET Nonzero /\ Follows(formula, c)
      /\ -trail[qhead] \in c /\ Search!Level(-trail[qhead]) = Len(trailLim)
  BY <1>1, PendingIs
<1> QED
  BY <1>1, <1>2, TrailFacts

\* A conflict without decisions makes the empty clause follow.
LEMMA RootConflict ==
  ASSUME SearchInv, NEW c, Search!ConflictIn(c), Len(trailLim) = 0
  PROVE  Follows(formula, {})
<1>1. TheTrail /\ c \in SUBSET FalseUpto(Len(trail)) /\ Follows(formula, c)
  BY ConflictIs
<1>2. Search!AboveRoot(c) = {}
  <2>1. \A l \in Search!AboveRoot(c) : Search!Level(l) \in 1 .. 0
    BY <1>1, AboveRootIs
  <2> QED
    BY <2>1
<1> SUFFICES ASSUME NEW M, Satisfies(M) PROVE FALSE
  BY FollowsIs
<1>3. PICK l \in c : Holds(l, M)
  BY <1>1, FollowsIs
<1> QED
  BY <1>1, <1>2, <1>3, AboveRootIs

\* The search ends with such a conflict.
LEMMA RootContradictionStep ==
  ASSUME SearchInv, NEW c, Search!Contradiction(c)
  PROVE  SearchInv'
<1>1. Search!ConflictIn(c) /\ Len(trailLim) = 0 /\ Search!ReturnUnsat({})
  BY DEF Search!Contradiction, Search!decisionLevel
<1>2. Follows(formula, {})
  BY <1>1, RootConflict
<1> QED
  BY <1>1, <1>2, UnsatStep

\* The search ends at an assumption that is false.
LEMMA AssumeFalseStep ==
  ASSUME SearchInv, Search!AssumeFalse
  PROVE  SearchInv'
<1>1. pending = {} /\ Search!ReturnUnsat(Search!analyzeFinal(assumptions[Search!decisionLevel + 1]))
  BY DEF Search!AssumeFalse, Search!NoConflict
<1>2. Search!analyzeFinal(assumptions[Search!decisionLevel + 1]) # {}
  BY DEF Search!analyzeFinal
<1> QED
  BY <1>1, <1>2, UnsatStep

\* The search ends with all variables assigned.
LEMMA ModelFoundStep ==
  ASSUME SearchInv, Search!ModelFound
  PROVE  SearchInv'
<1>1. /\ Search!Backtrack(0) /\ pc' = "idle" /\ pending = {} /\ ok
      /\ UNCHANGED <<calls, formula, created, assumptions, ok, clauses, learnts, watch, pending>>
  BY DEF Search!ModelFound, Search!NoConflict, Search!clauseVars
<1> QED
  BY <1>1, BacktrackInv

\* A restart cancels all levels.
LEMMA RestartStep ==
  ASSUME SearchInv, Search!Restart
  PROVE  SearchInv'
<1>1. /\ Search!Backtrack(0) /\ pc = "searching" /\ pending = {} /\ ok
      /\ UNCHANGED <<calls, formula, created, assumptions, ok, clauses, learnts, watch, pending, pc>>
  BY DEF Search!Restart, Search!NoConflict, Search!callVars, Search!clauseVars
<1> QED
  BY <1>1, BacktrackInv

--------------------------------------------------------------------------------
(* Propagation. *)

\* A call of solve begins.
LEMMA SolveStep ==
  ASSUME SearchInv, Search!Solve
  PROVE  SearchInv'
<1>1. /\ pc = "idle" /\ calls # <<>> /\ Head(calls).op = "solve" /\ calls' = Tail(calls)
      /\ assumptions' = Head(calls).lits
      /\ created' = created \union { Search!VarOf(l) : l \in Search!Range(Head(calls).lits) }
      /\ pc' = "searching"
      /\ UNCHANGED <<formula, ok, clauses, learnts, watch, trail, trailLim, vardata, qhead, pending>>
  BY DEF Search!Solve, Search!clauseVars, Search!trailVars
<1>2. Head(calls) \in FiniteCall /\ calls' \in Seq(FiniteCall)
  BY <1>1 DEF SearchInv
<1>3. assumptions' \in Seq(Nonzero)
  BY <1>1, <1>2 DEF FiniteCall, SearchCall, Nonzero
<1>4. created' \in SUBSET (Nat \ {0}) /\ created \subseteq created'
  <2>1. \A l \in Search!Range(Head(calls).lits) : l \in Nonzero
    BY <1>1, <1>3 DEF Search!Range
  <2>2. \A l \in Search!Range(Head(calls).lits) : Search!VarOf(l) \in Nat \ {0}
    BY <2>1, VarsEqual
  <2> QED
    BY <1>1, <2>2 DEF SearchInv
<1>5. TheTrail' /\ ClausesRight' /\ QueueRight' /\ (ok' => WatchedRight')
  <2>1. TheTrail'
    BY <1>1 DEF SearchInv, TheTrail
  <2>2. ClausesRight'
    BY <1>1 DEF SearchInv, ClausesRight
  <2>3. QueueRight'
    BY <1>1 DEF SearchInv, QueueRight, Search!decisionLevel
  <2>4. ok' => WatchedRight'
    BY <1>1 DEF SearchInv, WatchedRight
  <2> QED
    BY <2>1, <2>2, <2>3, <2>4
<1>6. FormulaKept'
  <2>1. FormulaKept
    BY DEF SearchInv
  <2> QED
    BY <1>1, <1>4, <2>1, FormulaStays DEF Search!Level
<1>7. AssumptionsRight'
  <2>1. trailLim = <<>> /\ TrailRight(formula, trail, trailLim, vardata)
    BY <1>1 DEF SearchInv
  <2>2. \A i \in 1 .. Len(trail) : vardata[Search!VarOf(trail[i])].level <= 0
                                   /\ vardata[Search!VarOf(trail[i])].level \in Nat
    BY <2>1 DEF TrailRight, LevelsRight, TrailType
  <2>3. Len(trailLim') = 0
    BY <1>1, <2>1
  <2> QED
    BY <1>1, <2>2, <2>3 DEF AssumptionsRight, AssumptionsOn
<1> QED
  BY <1>1, <1>2, <1>3, <1>4, <1>5, <1>6, <1>7 DEF SearchInv, TheTrail

\* A step that changes what is pending, the watches or what is visited, but no more.
LEMMA VisitInv ==
  ASSUME SearchInv, ok,
         UNCHANGED <<calls, formula, created, assumptions, ok, clauses, trail, trailLim, vardata, pc>>,
         pc # "idle", ClausesRight', QueueRight', WatchedRight'
  PROVE  SearchInv'
<1>1. TheTrail'
  BY DEF SearchInv, TheTrail
<1>2. FormulaKept'
  <2>1. FormulaKept
    BY DEF SearchInv
  <2> QED
    BY <2>1, FormulaStays DEF Search!Level
<1>3. pc' = "searching" => AssumptionsRight'
  BY DEF SearchInv, AssumptionsRight
<1> QED
  BY <1>1, <1>2, <1>3 DEF SearchInv, TheTrail

\* propagate takes the next literal off its queue.
LEMMA DequeueStep ==
  ASSUME SearchInv, Search!Dequeue
  PROVE  SearchInv'
<1>1. /\ ok /\ pc # "idle" /\ pending = {} /\ qhead < Len(trail) /\ qhead' = qhead + 1
      /\ pending' = { c \in DOMAIN watch : -trail[qhead + 1] \in watch[c] }
      /\ UNCHANGED <<calls, formula, created, assumptions, ok, clauses, learnts, watch, trail,
                     trailLim, vardata, pc>>
  BY
  DEF Search!Dequeue, Search!Propagating, Search!callVars, Search!clauseVars,
      SearchInv
<1>2. TheTrail /\ ClausesRight /\ QueueRight /\ WatchedRight
  BY <1>1 DEF SearchInv, TheTrail
<1>3. qhead \in Nat /\ Len(trail) \in Nat /\ Len(trailLim) \in Nat
      /\ \A j \in 1 .. Len(trailLim) : trailLim[j] \in Nat /\ trailLim[j] <= qhead
  BY <1>2, TrailFacts DEF QueueRight
<1>4. ClausesRight'
  BY <1>1, <1>2 DEF ClausesRight
<1>5. QueueRight'
  BY <1>1, <1>3 DEF QueueRight, Search!decisionLevel
<1>6. WatchedRight'
  <2> SUFFICES ASSUME NEW c \in DOMAIN watch, NEW w \in watch[c], NEW i \in 1 .. qhead + 1,
                      trail[i] = -w, ~(i = qhead + 1 /\ c \in pending')
               PROVE  \E l \in c : OnTrail(trail, l)
                                   /\ vardata[Search!VarOf(l)].level <= vardata[Search!VarOf(w)].level
    BY <1>1 DEF WatchedRight, WatchesRight
  <2>1. CASE i = qhead + 1
    <3>1. w \in Nonzero
      BY <1>2 DEF ClausesRight
    <3>2. -trail[qhead + 1] = w
      BY <2>1, <3>1, VarsEqual
    <3> QED
      BY <1>1, <2>1, <3>2
  <2>2. CASE i \in 1 .. qhead
    BY <1>1, <1>2, <2>2 DEF WatchedRight, WatchesRight
  <2> QED
    BY <1>3, <2>1, <2>2
<1> QED
  BY <1>1, <1>4, <1>5, <1>6, VisitInv

\* Enqueuing a literal, in the state.
LEMMA EnqueueInv ==
  ASSUME SearchInv, ok, NEW lit \in Nonzero, Search!Undef(lit), NEW from \in SUBSET Nonzero,
         Search!uncheckedEnqueue(lit, from),
         from # {} =>
           /\ lit \in from
           /\ Follows(formula', from)
           /\ \A l \in from \ {lit} : Search!False(l),
         from = {} => Len(trailLim) = 0,
         Len(trailLim) = 0 => Follows(formula', {lit}),
         formula \subseteq formula'
  PROVE  /\ TrailRight(formula', trail', trailLim, vardata')
         /\ Continues(trail, vardata, trail', vardata')
         /\ trail' = Append(trail, lit) /\ vardata'[Search!VarOf(lit)].level = Len(trailLim)
         /\ Len(trail') = Len(trail) + 1
         /\ OnTrail(trail', lit)
         /\ AssumptionsRight => AssumptionsOn(assumptions, trail', trailLim, vardata')
<1>1. TheTrail /\ TrailRight(formula', trail, trailLim, vardata)
  BY TrailMonotone DEF SearchInv, TheTrail
<1>2. Search!VarOf(lit) \notin DOMAIN vardata
  BY <1>1, TrailFacts DEF Search!Undef
<1>3. Search!Enqueue(trail, vardata, lit, from, Len(trailLim))
  BY DEF Search!uncheckedEnqueue, Search!decisionLevel
<1>4. \A l \in from \ {lit} : \E j \in 1 .. Len(trail) : trail[j] = -l
  <2> SUFFICES ASSUME from # {}, NEW l \in from \ {lit}
               PROVE  \E j \in 1 .. Len(trail) : trail[j] = -l
    OBVIOUS
  <2>1. Search!False(l)
    OBVIOUS
  <2>2. Search!True(-l)
    BY <2>1 DEF Search!True, Search!False
  <2> QED
    BY <1>1, <2>2, TrailFacts
<1>5. /\ TrailRight(formula', trail', trailLim, vardata')
      /\ trail' = Append(trail, lit)
      /\ Len(trail') = Len(trail) + 1 /\ trail'[Len(trail) + 1] = lit
      /\ OnTrail(trail', lit)
      /\ vardata'[Search!VarOf(lit)].level = Len(trailLim) /\ vardata'[Search!VarOf(lit)].reason = from
      /\ Continues(trail, vardata, trail', vardata')
  <2>1. Assignable(formula', trail, trailLim, vardata, lit, from)
    BY <1>2, <1>4 DEF Assignable
  <2> QED
    BY <1>1, <1>3, <2>1, EnqueueIs
<1>7. Len(trail) \in Nat /\ Len(trailLim) \in Nat
  BY <1>1, TrailFacts
<1>9. ASSUME AssumptionsRight
      PROVE  AssumptionsOn(assumptions, trail', trailLim, vardata')
  <2>1. AssumptionsOn(assumptions, trail, trailLim, vardata)
    BY <1>9 DEF AssumptionsRight
  <2>2. \A j \in 1 .. Len(assumptions) : j <= Len(trailLim) =>
          OnTrail(trail', assumptions[j]) /\ vardata'[Search!VarOf(assumptions[j])].level <= j
    BY <1>5, <1>7, <2>1, OnTrailGrows DEF AssumptionsOn
  <2>3. ASSUME NEW i \in 1 .. Len(trail'),
               vardata'[Search!VarOf(trail'[i])].reason = {},
               vardata'[Search!VarOf(trail'[i])].level \in 1 .. Len(assumptions)
        PROVE  trail'[i] = assumptions[vardata'[Search!VarOf(trail'[i])].level]
    <3>1. i # Len(trail) + 1
      <4> SUFFICES ASSUME i = Len(trail) + 1 PROVE FALSE
        OBVIOUS
      <4>1. trail'[i] = lit
        BY <1>5
      <4>2. from = {} /\ Len(trailLim) \in 1 .. Len(assumptions)
        BY <1>5, <2>3, <4>1
      <4> QED
        BY <4>2
    <3>2. i \in 1 .. Len(trail)
      BY <1>5, <1>7, <3>1
    <3>3. trail'[i] = trail[i] /\ vardata'[Search!VarOf(trail[i])] = vardata[Search!VarOf(trail[i])]
      BY <1>5, <3>2 DEF Continues
    <3> QED
      BY <2>1, <2>3, <3>2, <3>3 DEF AssumptionsOn
  <2> QED
    BY <2>2, <2>3 DEF AssumptionsOn
<1> QED
  BY <1>5, <1>9

\* A visited clause with another literal true.
LEMMA VisitSatisfiedStep ==
  ASSUME SearchInv, NEW c, Search!VisitSatisfied(c)
  PROVE  SearchInv'
<1>1. /\ Search!Propagating /\ c \in pending /\ (\E l \in c : Search!True(l)) /\ pending' = pending \ {c}
      /\ UNCHANGED <<calls, formula, created, assumptions, ok, clauses, learnts, watch, trail,
                     trailLim, vardata, qhead, pc>>
  BY DEF Search!VisitSatisfied, Search!Visit, Search!callVars, Search!clauseVars
<1>2. /\ TheTrail /\ ClausesRight /\ QueueRight /\ WatchedRight /\ ok /\ pc # "idle"
      /\ qhead \in 1 .. Len(trail) /\ c \in SUBSET Nonzero
      /\ Search!Level(-trail[qhead]) = Len(trailLim)
  BY <1>1, PendingIs
<1>3. ClausesRight'
  BY <1>1, <1>2 DEF ClausesRight
<1>4. QueueRight'
  BY <1>1, <1>2 DEF QueueRight, Search!decisionLevel
<1>5. WatchedRight'
  <2> SUFFICES ASSUME NEW d \in DOMAIN watch, NEW w \in watch[d], NEW i \in 1 .. qhead,
                      trail[i] = -w, ~(i = qhead /\ d \in pending')
               PROVE  \E l \in d : OnTrail(trail, l)
                                   /\ vardata[Search!VarOf(l)].level <= vardata[Search!VarOf(w)].level
    BY <1>1 DEF WatchedRight, WatchesRight
  <2>1. CASE i = qhead /\ d = c
    <3>1. w \in Nonzero
      BY <1>2 DEF ClausesRight
    <3>2. -trail[qhead] = w
      BY <2>1, <3>1, VarsEqual
    <3>3. PICK l \in c : Search!True(l)
      BY <1>1
    <3>4. PICK k \in 1 .. Len(trail) : trail[k] = l
      BY <1>2, <3>3, TrailFacts
    <3>5. Search!Level(l) \in 0 .. Len(trailLim) /\ Len(trailLim) \in Nat
      BY <1>2, <3>4, TrailFacts
    <3>6. Search!Level(l) <= Search!Level(w)
      BY <1>2, <3>2, <3>5
    <3> QED
      BY <2>1, <3>4, <3>6 DEF OnTrail, Search!Level
  <2>2. CASE ~(i = qhead /\ d = c)
    BY <1>1, <1>2, <2>2 DEF WatchedRight, WatchesRight
  <2> QED
    BY <2>1, <2>2
<1> QED
  BY <1>1, <1>2, <1>3, <1>4, <1>5, VisitInv

\* A visited clause that gets another literal to watch.
LEMMA VisitNewWatchStep ==
  ASSUME SearchInv, NEW c, Search!VisitNewWatch(c)
  PROVE  SearchInv'
<1>1. /\ Search!Propagating /\ c \in pending /\ pending' = pending \ {c}
      /\ UNCHANGED <<calls, formula, created, assumptions, ok, clauses, learnts, trail,
                     trailLim, vardata, qhead, pc>>
  BY DEF Search!VisitNewWatch, Search!Visit, Search!callVars
<1>2. PICK l \in c \ watch[c] : ~Search!False(l) /\ watch' = [watch EXCEPT ![c] = {Search!Other(c), l}]
  BY DEF Search!VisitNewWatch
<1>3. /\ TheTrail /\ ClausesRight /\ QueueRight /\ WatchedRight /\ ok /\ pc # "idle"
      /\ qhead \in 1 .. Len(trail) /\ c \in DOMAIN watch /\ c \in SUBSET Nonzero
      /\ watch[c] = {-trail[qhead], Search!Other(c)} /\ Search!Other(c) \in c
      /\ Search!Other(c) # -trail[qhead]
  BY <1>1, PendingIs
<1>4. /\ DOMAIN watch' = DOMAIN watch /\ watch'[c] = {Search!Other(c), l}
      /\ \A d \in DOMAIN watch \ {c} : watch'[d] = watch[d]
  BY <1>2, <1>3
<1>5. ClausesRight'
  <2>1. \A d \in DOMAIN watch : \E a, b \in d : a # b /\ watch'[d] = {a, b}
    <3> SUFFICES ASSUME NEW d \in DOMAIN watch PROVE \E a, b \in d : a # b /\ watch'[d] = {a, b}
      OBVIOUS
    <3>1. CASE d = c
      BY <1>2, <1>3, <1>4, <3>1
    <3>2. CASE d # c
      BY <1>3, <1>4, <3>2 DEF ClausesRight
    <3> QED
      BY <3>1, <3>2
  <2> QED
    BY <1>1, <1>3, <1>4, <2>1 DEF ClausesRight
<1>6. QueueRight'
  <2>1. \A d \in pending' : d \in DOMAIN watch' /\ -trail'[qhead'] \in watch'[d]
    BY <1>1, <1>3, <1>4 DEF QueueRight
  <2> QED
    BY <1>1, <1>3, <2>1 DEF QueueRight, Search!decisionLevel
<1>7. WatchedRight'
  <2> SUFFICES ASSUME NEW d \in DOMAIN watch, NEW w \in watch'[d], NEW i \in 1 .. qhead,
                      trail[i] = -w, ~(i = qhead /\ d \in pending')
               PROVE  \E k \in d : OnTrail(trail, k)
                                   /\ vardata[Search!VarOf(k)].level <= vardata[Search!VarOf(w)].level
    BY <1>1, <1>4 DEF WatchedRight, WatchesRight
  <2>1. CASE d # c
    BY <1>1, <1>3, <1>4, <2>1 DEF WatchedRight, WatchesRight
  <2>2. CASE d = c
    <3>1. i \in 1 .. Len(trail) /\ w \in Nonzero
      BY <1>2, <1>3, <1>4, <2>2, TrailFacts
    <3>2. w # l
      <4>1. Search!False(w)
        <5>1. -w \in Nonzero /\ Search!True(-w)
          BY <1>3, <2>2, <3>1, VarsEqual, TrailFacts
        <5> QED
          BY <5>1 DEF Search!True, Search!False
      <4> QED
        BY <1>2, <4>1
    <3>3. w = Search!Other(c) /\ w \in watch[c]
      BY <1>3, <1>4, <2>2, <3>2
    <3>4. i # qhead
      <4> SUFFICES ASSUME i = qhead PROVE FALSE
        OBVIOUS
      <4>1. -trail[qhead] = w
        BY <3>1, VarsEqual
      <4> QED
        BY <1>3, <3>3, <4>1
    <3> QED
      BY <1>3, <2>2, <3>3, <3>4 DEF WatchedRight, WatchesRight
  <2> QED
    BY <2>1, <2>2
<1> QED
  BY <1>1, <1>3, <1>5, <1>6, <1>7, VisitInv

\* A visited clause that implies its other watched literal.
LEMMA VisitUnitStep ==
  ASSUME SearchInv, NEW c, Search!VisitUnit(c)
  PROVE  SearchInv'
<1>1. /\ Search!Propagating /\ c \in pending /\ pending' = pending \ {c}
      /\ \A l \in c \ {Search!Other(c)} : Search!False(l)
      /\ Search!Undef(Search!Other(c)) /\ Search!uncheckedEnqueue(Search!Other(c), c)
      /\ UNCHANGED <<calls, formula, created, assumptions, ok, clauses, learnts, watch,
                     trailLim, qhead, pc>>
  BY DEF Search!VisitUnit, Search!Visit, Search!callVars, Search!clauseVars
<1>2. /\ TheTrail /\ ClausesRight /\ QueueRight /\ WatchedRight /\ ok /\ pc # "idle"
      /\ qhead \in 1 .. Len(trail) /\ c \in DOMAIN watch /\ c \in SUBSET Nonzero
      /\ Follows(formula, c)
      /\ Search!Level(-trail[qhead]) = Len(trailLim)
      /\ watch[c] = {-trail[qhead], Search!Other(c)} /\ Search!Other(c) \in c
      /\ Search!Other(c) # -trail[qhead]
  BY <1>1, PendingIs
<1>3. Len(trailLim) = 0 => Follows(formula, {Search!Other(c)})
  <2> SUFFICES ASSUME Len(trailLim) = 0, NEW M, Satisfies(M) PROVE Holds(Search!Other(c), M)
    BY FollowsIs
  <2>1. c \ {Search!Other(c)} \in SUBSET FalseUpto(Len(trail))
    BY <1>1, <1>2, TrailFacts
  <2>2. Search!AboveRoot(c \ {Search!Other(c)}) = {}
    <3> SUFFICES ASSUME NEW l \in Search!AboveRoot(c \ {Search!Other(c)}) PROVE FALSE
      OBVIOUS
    <3>1. Search!Level(l) \in 1 .. Len(trailLim)
      BY <1>2, <2>1, AboveRootIs
    <3> QED
      BY <3>1
  <2>3. PICK l \in c : Holds(l, M)
    BY <1>2, FollowsIs
  <2> QED
    BY <1>2, <2>1, <2>2, <2>3, AboveRootIs
<1>4. /\ TrailRight(formula, trail', trailLim, vardata')
      /\ Continues(trail, vardata, trail', vardata')
      /\ vardata'[Search!VarOf(Search!Other(c))].level = Len(trailLim)
      /\ Len(trail') = Len(trail) + 1
      /\ OnTrail(trail', Search!Other(c))
      /\ AssumptionsRight => AssumptionsOn(assumptions, trail', trailLim, vardata')
  <2>1. Search!Other(c) \in Nonzero /\ c # {} /\ formula \subseteq formula' /\ formula' = formula
    BY <1>1, <1>2
  <2> QED
    BY <1>1, <1>2, <1>3, <2>1, EnqueueInv
<1>5. Len(trail) \in Nat
  BY <1>2, TrailFacts
<1>6. ClausesRight'
  BY <1>1, <1>2 DEF ClausesRight
<1>7. QueueRight'
  <2>1. trail'[qhead] = trail[qhead]
    BY <1>2, <1>4 DEF Continues
  <2> QED
    BY <1>1, <1>2, <1>4, <1>5, <2>1 DEF QueueRight, Search!decisionLevel
<1>8. WatchedRight'
  <2>1. WatchesRight(watch, trail', vardata', qhead, pending)
    <3>1. \A d \in DOMAIN watch : d \in SUBSET Nonzero /\ watch[d] \subseteq d
      BY <1>2 DEF ClausesRight
    <3> QED
      BY <1>2, <1>4, <1>5, <3>1, WatchEnqueue DEF WatchedRight, TheTrail
  <2> SUFFICES ASSUME NEW d \in DOMAIN watch, NEW w \in watch[d], NEW i \in 1 .. qhead,
                      trail'[i] = -w, ~(i = qhead /\ d \in pending')
               PROVE  \E k \in d : OnTrail(trail', k)
                                   /\ vardata'[Search!VarOf(k)].level <= vardata'[Search!VarOf(w)].level
    BY <1>1 DEF WatchedRight, WatchesRight
  <2>2. CASE ~(i = qhead /\ d = c)
    BY <1>1, <2>1, <2>2 DEF WatchesRight
  <2>3. CASE i = qhead /\ d = c
    <3>1. w \in Nonzero
      BY <1>2 DEF ClausesRight
    <3>2. trail'[qhead] = trail[qhead] /\ vardata'[Search!VarOf(trail[qhead])] = vardata[Search!VarOf(trail[qhead])]
      BY <1>2, <1>4 DEF Continues
    <3>3. -trail[qhead] = w /\ Search!VarOf(w) = Search!VarOf(trail[qhead])
      <4>1. trail[qhead] = -w
        BY <2>3, <3>2
      <4> QED
        BY <3>1, <4>1, VarsEqual
    <3>4. vardata'[Search!VarOf(w)].level = Len(trailLim)
      BY <1>2, <3>2, <3>3 DEF Search!Level
    <3>5. Len(trailLim) \in Nat
      BY <1>2, TrailFacts
    <3> QED
      BY <1>2, <1>4, <2>3, <3>4, <3>5
  <2> QED
    BY <2>2, <2>3
<1>9. FormulaKept'
  <2>1. FormulaKept
    BY DEF SearchInv
  <2>2. \A l : OnTrail(trail, l) /\ Search!Level(l) = 0 => OnTrail(trail', l) /\ Search!Level(l)' = 0
    BY <1>4, <1>5, OnTrailGrows DEF Search!Level
  <2> QED
    BY <1>1, <2>1, <2>2, FormulaStays
<1>10. pc' = "searching" => AssumptionsRight'
  BY <1>1, <1>4 DEF SearchInv, AssumptionsRight
<1> QED
  BY <1>1, <1>2, <1>4, <1>6, <1>7, <1>8, <1>9, <1>10 DEF SearchInv, TheTrail

\* A conflict while a clause is being added.
LEMMA ConflictAddingStep ==
  ASSUME SearchInv, NEW c, Search!ConflictAdding(c)
  PROVE  SearchInv'
<1>1. /\ pc = "adding" /\ Search!ConflictIn(c) /\ ok' = FALSE
      /\ qhead' \in {qhead, Len(trail)}
      /\ pc' = "idle" /\ pending' = {}
      /\ UNCHANGED <<calls, formula, created, assumptions, clauses, learnts, watch, trail,
                     trailLim, vardata>>
  BY DEF Search!ConflictAdding, Search!callVars, Search!clauseVars
<1>2. TheTrail /\ ClausesRight /\ QueueRight /\ FormulaKept /\ trailLim = <<>>
  BY <1>1 DEF SearchInv, TheTrail
<1>3. Follows(formula, {})
  BY <1>1, <1>2, RootConflict
<1>4. ClausesRight' /\ TheTrail'
  BY <1>1, <1>2 DEF ClausesRight, TheTrail
<1>5. QueueRight'
  <2>1. Len(trail) \in Nat
    BY <1>2, TrailFacts
  <2> QED
    BY <1>1, <1>2, <2>1 DEF QueueRight, Search!decisionLevel
<1>6. FormulaKept'
  BY <1>1, <1>2, <1>3 DEF FormulaKept
<1> QED
  BY <1>1, <1>2, <1>4, <1>5, <1>6 DEF SearchInv, TheTrail

\* A clause was added and what it implies propagated.
LEMMA AddedStep ==
  ASSUME SearchInv, Search!Added
  PROVE  SearchInv'
<1>1. /\ pc = "adding" /\ pending = {} /\ pc' = "idle"
      /\ UNCHANGED <<calls, formula, created, assumptions, ok, clauses, learnts, watch, trail,
                     trailLim, vardata, qhead, pending>>
  BY DEF Search!Added, Search!callVars, Search!clauseVars, Search!trailVars
<1>2. TheTrail' /\ ClausesRight' /\ QueueRight' /\ (ok' => WatchedRight')
  <2>1. TheTrail'
    BY <1>1 DEF SearchInv, TheTrail
  <2>2. ClausesRight'
    BY <1>1 DEF SearchInv, ClausesRight
  <2>3. QueueRight'
    BY <1>1 DEF SearchInv, QueueRight, Search!decisionLevel
  <2>4. ok' => WatchedRight'
    BY <1>1 DEF SearchInv, WatchedRight
  <2> QED
    BY <2>1, <2>2, <2>3, <2>4
<1>3. FormulaKept'
  <2>1. FormulaKept
    BY DEF SearchInv
  <2> QED
    BY <1>1, <2>1, FormulaStays DEF Search!Level
<1> QED
  BY <1>1, <1>2, <1>3 DEF SearchInv, TheTrail

--------------------------------------------------------------------------------
(* Learning from a conflict. *)

\* A nonempty set of bounded numbers has a maximum, and Max chooses it.
LEMMA MaxIs ==
  ASSUME NEW n \in Nat, NEW S \in SUBSET (0 .. n), S # {}
  PROVE  Search!Max(S) \in S /\ \A y \in S : y <= Search!Max(S)
<1> DEFINE N == { n - x : x \in S }
<1>1. N \in SUBSET Nat /\ N # {}
  <2>1. \A x \in S : n - x \in Nat
    OBVIOUS
  <2>2. PICK x \in S : TRUE
    OBVIOUS
  <2>3. n - x \in N
    BY <2>2
  <2> QED
    BY <2>1, <2>3
<1>2. PICK m \in N : \A k \in N : m <= k
  BY <1>1, LeastNatural
<1>3. PICK x \in S : m = n - x
  BY <1>2
<1>4. \A y \in S : x >= y
  <2> SUFFICES ASSUME NEW y \in S PROVE x >= y
    OBVIOUS
  <2>1. n - y \in N
    OBVIOUS
  <2>2. m <= n - y
    BY <1>2, <2>1
  <2> QED
    BY <1>3, <2>2
<1>5. Search!Max(S) \in S /\ \A y \in S : Search!Max(S) >= y
  BY <1>4 DEF Search!Max
<1> QED
  BY <1>5

\* The level analyze backtracks to: the other literals of the clause stay false.
LEMMA BacktrackLevelIs ==
  ASSUME TheTrail, NEW C \in SUBSET FalseUpto(Len(trail)), NEW u \in C,
         Len(trailLim) > 0,
         \A l \in C \ {u} : Search!Level(l) \in 1 .. Len(trailLim) - 1
  PROVE  /\ Search!BacktrackLevel(u, C) \in 0 .. Len(trailLim) - 1
         /\ \A l \in C \ {u} : Search!Level(l) <= Search!BacktrackLevel(u, C)
         /\ C # {u} => Search!BacktrackLevel(u, C) > 0
<1> DEFINE S == { Search!Level(l) : l \in C \ {u} } \union {0}
<1>1. Len(trailLim) \in Nat /\ Len(trailLim) - 1 \in Nat
  BY TrailFacts
<1>2. S \in SUBSET (0 .. Len(trailLim) - 1) /\ S # {}
  BY <1>1
<1>3. Search!Max(S) \in S /\ \A y \in S : y <= Search!Max(S)
  BY <1>1, <1>2, MaxIs
<1>4. Search!BacktrackLevel(u, C) = Search!Max(S)
  BY DEF Search!BacktrackLevel
<1>5. \A l \in C \ {u} : Search!Level(l) <= Search!Max(S)
  BY <1>3
<1>6. C # {u} => Search!Max(S) > 0
  <2> SUFFICES ASSUME C # {u} PROVE Search!Max(S) > 0
    OBVIOUS
  <2>1. PICK l \in C \ {u} : TRUE
    OBVIOUS
  <2>2. Search!Level(l) \in 1 .. Len(trailLim) - 1 /\ Search!Level(l) <= Search!Max(S)
    BY <1>5, <2>1
  <2>3. Search!Max(S) \in 0 .. Len(trailLim) - 1
    BY <1>2, <1>3
  <2> QED
    BY <1>1, <2>2, <2>3
<1> QED
  BY <1>2, <1>3, <1>4, <1>5, <1>6

\* Backtracking until only one literal of a clause is not false, and assigning that.
LEMMA AssertedIs ==
  ASSUME TheTrail, NEW C \in SUBSET FalseUpto(Len(trail)), Follows(formula, C), NEW u \in C,
         Search!Level(u) = Len(trailLim), assumptions \in Seq(Nonzero), AssumptionsRight,
         NEW level \in 0 .. Len(trailLim) - 1, \A l \in C \ {u} : Search!Level(l) <= level,
         NEW from, Search!BacktrackAndEnqueue(level, u, from),
         \/ from = {} /\ level = 0 /\ C = {u}
         \/ from = C /\ level > 0
  PROVE  /\ TrailRight(formula, trail', trailLim', vardata')
         /\ Continues(Search!cancelUntil(level), Search!Kept(level), trail', vardata')
         /\ Len(Search!cancelUntil(level)) \in Nat
         /\ Len(trail') = Len(Search!cancelUntil(level)) + 1
         /\ trail'[Len(Search!cancelUntil(level)) + 1] = u
         /\ vardata'[Search!VarOf(u)].level = level
         /\ qhead' = Len(Search!cancelUntil(level))
         /\ Len(trailLim') = level
         /\ \A j \in 1 .. level : trailLim'[j] <= qhead'
         /\ AssumptionsOn(assumptions, trail', trailLim', vardata')
<1> DEFINE t == Search!cancelUntil(level)
           d == Search!Kept(level)
           lim == SubSeq(trailLim, 1, level)
<1>1. /\ Len(trailLim) \in Nat /\ Len(trail) \in Nat /\ level \in 0 .. Len(trailLim)
      /\ level < Len(trailLim)
  BY TrailFacts
<1>2. /\ TrailRight(formula, t, lim, d)
      /\ Len(t) \in 0 .. Len(trail)
      /\ Continues(t, d, trail, vardata)
      /\ Len(lim) = level
      /\ \A i \in 1 .. Len(trail) : Search!Level(trail[i]) <= level <=> i \in 1 .. Len(t)
      /\ DOMAIN d = { v \in DOMAIN vardata : vardata[v].level <= level }
  BY <1>1, CutIs
<1>3. AssumptionsOn(assumptions, t, lim, d)
  BY <1>1, AssumptionsCut
<1>4. /\ Search!Enqueue(t, d, u, from, Len(lim))
      /\ trailLim' = lim /\ qhead' = Len(t)
  BY <1>2 DEF Search!BacktrackAndEnqueue
<1> HIDE DEF t, d, lim
<1>5. C \in SUBSET Nonzero /\ u \in Nonzero
  <2>1. FalseUpto(Len(trail)) \in SUBSET Nonzero
    BY <1>1, FalseLiterals
  <2> QED
    BY <2>1
<1>6. Search!VarOf(u) \notin DOMAIN d
  <2>1. vardata[Search!VarOf(u)].level = Len(trailLim)
    BY DEF Search!Level
  <2> QED
    BY <1>1, <1>2, <2>1
<1>7. \A l \in C \ {u} : \E j \in 1 .. Len(t) : t[j] = -l
  <2> SUFFICES ASSUME NEW l \in C \ {u} PROVE \E j \in 1 .. Len(t) : t[j] = -l
    OBVIOUS
  <2>1. PICK j \in 1 .. Len(trail) : l = -trail[j]
    BY DEF FalseUpto
  <2>2. trail[j] \in Nonzero /\ l \in Nonzero
    BY <1>5, TrailFacts
  <2>3. trail[j] = -l /\ Search!Level(trail[j]) = Search!Level(l)
    <3>1. trail[j] = -l
      BY <2>1, <2>2, VarsEqual
    <3> QED
      BY <2>2, <3>1, TrailFacts
  <2>4. j \in 1 .. Len(t)
    BY <1>2, <2>3
  <2> QED
    BY <1>2, <2>3, <2>4 DEF Continues
<1>8. /\ TrailRight(formula, trail', lim, vardata')
      /\ Len(trail') = Len(t) + 1 /\ trail'[Len(t) + 1] = u
      /\ vardata'[Search!VarOf(u)].level = Len(lim) /\ vardata'[Search!VarOf(u)].reason = from
      /\ Continues(t, d, trail', vardata')
  <2>1. Assignable(formula, t, lim, d, u, from)
    <3>1. CASE from = {} /\ level = 0 /\ C = {u}
      BY <1>2, <1>5, <1>6, <3>1 DEF Assignable
    <3>2. CASE from = C /\ level > 0
      BY <1>2, <1>5, <1>6, <1>7, <3>2 DEF Assignable
    <3> QED
      BY <3>1, <3>2
  <2> QED
    BY <1>2, <1>4, <2>1, EnqueueIs
<1>9. \A j \in 1 .. level : lim[j] <= Len(t)
  BY <1>2 DEF TrailRight, LevelsRight
<1>10. AssumptionsOn(assumptions, trail', lim, vardata')
  <2>1. Len(t) \in Nat /\ Len(trail') \in Nat
    BY <1>1, <1>2, <1>8
  <2>2. \A j \in 1 .. Len(assumptions) : j <= Len(lim) =>
          OnTrail(trail', assumptions[j]) /\ vardata'[Search!VarOf(assumptions[j])].level <= j
    BY <1>3, <1>8, <2>1, OnTrailGrows, SMTT(30) DEF AssumptionsOn
  <2>3. ASSUME NEW i \in 1 .. Len(trail'),
               vardata'[Search!VarOf(trail'[i])].reason = {},
               vardata'[Search!VarOf(trail'[i])].level \in 1 .. Len(assumptions)
        PROVE  trail'[i] = assumptions[vardata'[Search!VarOf(trail'[i])].level]
    <3>1. i # Len(t) + 1
      <4> SUFFICES ASSUME i = Len(t) + 1 PROVE FALSE
        OBVIOUS
      <4>1. trail'[i] = u
        BY <1>8
      <4>2. from = {} /\ level \in 1 .. Len(assumptions)
        BY <1>2, <1>8, <2>3, <4>1
      <4> QED
        BY <4>2
    <3>2. i \in 1 .. Len(t)
      BY <1>8, <2>1, <3>1
    <3>3. trail'[i] = t[i] /\ vardata'[Search!VarOf(t[i])] = d[Search!VarOf(t[i])]
      BY <1>8, <3>2 DEF Continues
    <3> QED
      BY <1>3, <2>3, <3>2, <3>3 DEF AssumptionsOn
  <2> QED
    BY <2>2, <2>3 DEF AssumptionsOn
<1>11. Len(t) \in Nat
  BY <1>1, <1>2
<1> QED
  BY <1>2, <1>4, <1>8, <1>9, <1>10, <1>11 DEF t, d

\* A conflict is analysed, its levels cancelled and the clause learnt.
LEMMA LearnStep ==
  ASSUME SearchInv, NEW c, Search!Learn(c)
  PROVE  SearchInv'
<1>1. /\ pc = "searching" /\ Search!decisionLevel > 0 /\ Search!ConflictIn(c) /\ pending' = {}
      /\ UNCHANGED <<calls, formula, created, assumptions, ok, pc>>
  BY DEF Search!Learn, Search!callVars
<1>2. /\ TheTrail /\ ClausesRight /\ QueueRight /\ WatchedRight /\ FormulaKept /\ ok
      /\ assumptions \in Seq(Nonzero) /\ AssumptionsRight
      /\ Len(trailLim) \in Nat /\ Search!decisionLevel = Len(trailLim) /\ Len(trail) \in Nat
  <2>1. TheTrail /\ ok
    BY <1>1, ConflictIs
  <2> QED
    BY <1>1, <2>1, TrailFacts DEF SearchInv
<1>3. PICK u, C :
        /\ Search!analyze(c) = <<u, C>>
        /\ C \in SUBSET FalseUpto(Len(trail))
        /\ u \in C
        /\ Search!Level(u) = Len(trailLim)
        /\ \A l \in C \ {u} : Search!Level(l) \in 1 .. Len(trailLim) - 1
        /\ Follows(formula, C)
  <2>1. /\ c \in SUBSET FalseUpto(Len(trail)) /\ Follows(formula, c)
        /\ \E k \in c : Search!Level(k) = Len(trailLim)
    BY <1>1, ConflictIs
  <2> QED
    BY <1>1, <1>2, <2>1, AnalyzeIs
<1> DEFINE level == Search!BacktrackLevel(u, C)
<1>4. /\ level \in 0 .. Len(trailLim) - 1
      /\ \A l \in C \ {u} : Search!Level(l) <= level
      /\ C # {u} => level > 0
  BY <1>1, <1>2, <1>3, BacktrackLevelIs
<1> HIDE DEF level
<1>5. \/ /\ C = {u}
         /\ Search!BacktrackAndEnqueue(0, u, {})
         /\ UNCHANGED <<clauses, learnts, watch>>
      \/ /\ C # {u}
         /\ Search!BacktrackAndEnqueue(level, u, C)
         /\ learnts' = learnts \union {C}
         /\ \E l \in C \ {u} :
              /\ Search!Level(l) = level
              /\ watch' = Search!Watching(C, {u, l})
         /\ UNCHANGED clauses
  <2>1. PICK analyzed \in {Search!analyze(c)} :
          \/ /\ analyzed[2] = {analyzed[1]}
             /\ Search!BacktrackAndEnqueue(0, analyzed[1], Search!NoReason)
             /\ UNCHANGED Search!clauseVars
          \/ /\ analyzed[2] # {analyzed[1]}
             /\ Search!BacktrackAndEnqueue(Search!BacktrackLevel(analyzed[1], analyzed[2]), analyzed[1],
                                    analyzed[2])
             /\ learnts' = learnts \union {analyzed[2]}
             /\ \E l \in analyzed[2] \ {analyzed[1]} :
                  /\ Search!Level(l) = Search!BacktrackLevel(analyzed[1], analyzed[2])
                  /\ watch' = Search!Watching(analyzed[2], {analyzed[1], l})
             /\ UNCHANGED clauses
    BY DEF Search!Learn
  <2>2. analyzed[1] = u /\ analyzed[2] = C
    BY <1>3
  <2> QED
    BY <2>1, <2>2 DEF Search!NoReason, Search!clauseVars, level
<1>6. PICK n \in 0 .. Len(trailLim) - 1 :
        /\ TrailRight(formula, trail', trailLim', vardata')
        /\ Continues(Search!cancelUntil(n), Search!Kept(n), trail', vardata')
        /\ Len(Search!cancelUntil(n)) \in Nat
        /\ Len(trail') = Len(Search!cancelUntil(n)) + 1
        /\ trail'[Len(Search!cancelUntil(n)) + 1] = u
        /\ vardata'[Search!VarOf(u)].level = n
        /\ qhead' = Len(Search!cancelUntil(n))
        /\ Len(trailLim') = n
        /\ \A j \in 1 .. n : trailLim'[j] <= qhead'
        /\ AssumptionsOn(assumptions, trail', trailLim', vardata')
        /\ C # {u} => n = level
  <2>1. CASE /\ C = {u}
             /\ Search!BacktrackAndEnqueue(0, u, {})
    <3>1. 0 \in 0 .. Len(trailLim) - 1 /\ \A l \in C \ {u} : Search!Level(l) <= 0
      BY <1>1, <1>2, <2>1
    <3> QED
      BY <1>2, <1>3, <2>1, <3>1, AssertedIs
  <2>2. CASE /\ C # {u}
             /\ Search!BacktrackAndEnqueue(level, u, C)
    BY <1>2, <1>3, <1>4, <2>2, AssertedIs, SMTT(30)
  <2> QED
    BY <1>5, <2>1, <2>2
<1> DEFINE t == Search!cancelUntil(n)
           d == Search!Kept(n)
<1>7. /\ n \in 0 .. Len(trailLim) /\ n < Len(trailLim)
      /\ TrailRight(formula, t, SubSeq(trailLim, 1, n), d)
      /\ Continues(t, d, trail, vardata)
      /\ \A i \in 1 .. Len(trail) : Search!Level(trail[i]) <= n <=> i \in 1 .. Len(t)
  <2>1. n \in 0 .. Len(trailLim) /\ n < Len(trailLim)
    BY <1>2, <1>6
  <2> QED
    BY <1>2, <2>1, CutIs
<1>8. C \in SUBSET Nonzero /\ IsFiniteSet(C)
  <2>1. FalseUpto(Len(trail)) \in SUBSET Nonzero /\ IsFiniteSet(FalseUpto(Len(trail)))
    BY <1>2, FalseLiterals
  <2> QED
    BY <1>3, <2>1, FS_Subset
<1>9. WatchesRight(watch, trail', vardata', Len(t), {})
  <2>1. WatchesRight(watch, t, d, Len(t), {})
    BY <1>2, <1>7, WatchCut
  <2>2. \A e \in DOMAIN watch : e \in SUBSET Nonzero /\ watch[e] \subseteq e
    BY <1>2 DEF ClausesRight
  <2>3. Len(t) \in 0 .. Len(t) /\ Len(trail') \in Nat
    BY <1>6
  <2> HIDE DEF t, d
  <2>4. Continues(t, d, trail', vardata')
    BY <1>6 DEF t, d
  <2> QED
    BY <1>7, <2>1, <2>2, <2>3, <2>4, WatchEnqueue
<1>10. FormulaKept'
  <2>1. ASSUME NEW l, OnTrail(trail, l), Search!Level(l) = 0
        PROVE  OnTrail(trail', l) /\ Search!Level(l)' = 0
    <3>1. OnTrail(t, l) /\ d[Search!VarOf(l)].level = 0
      BY <1>2, <1>7, <2>1, RootStays
    <3>2. Len(t) \in Nat /\ Len(trail') \in Nat /\ Continues(t, d, trail', vardata')
      BY <1>6
    <3> HIDE DEF t, d
    <3>3. OnTrail(trail', l) /\ vardata'[Search!VarOf(l)] = d[Search!VarOf(l)]
      BY <3>1, <3>2, OnTrailGrows
    <3> QED
      BY <3>1, <3>3 DEF Search!Level
  <2>2. clauses' = clauses
    BY <1>5
  <2> QED
    BY <1>1, <1>2, <2>1, <2>2, FormulaStays
<1>11. QueueRight'
  <2>1. Search!decisionLevel' = n
    BY <1>6 DEF Search!decisionLevel
  <2> QED
    BY <1>1, <1>6, <2>1 DEF QueueRight
<1>12. ClausesRight' /\ WatchedRight'
  <2>1. CASE C = {u} /\ UNCHANGED <<clauses, learnts, watch>>
    BY <1>1, <1>2, <1>6, <1>9, <2>1 DEF ClausesRight, WatchedRight
  <2>2. CASE /\ C # {u}
             /\ learnts' = learnts \union {C}
             /\ \E l \in C \ {u} :
                  /\ Search!Level(l) = level
                  /\ watch' = Search!Watching(C, {u, l})
             /\ UNCHANGED clauses
    <3>1. PICK l \in C \ {u} : Search!Level(l) = level /\ watch' = Search!Watching(C, {u, l})
      BY <2>2
    <3>2. /\ DOMAIN watch' = DOMAIN watch \union {C}
          /\ \A e \in DOMAIN watch : watch'[e] = watch[e]
          /\ C \notin DOMAIN watch => watch'[C] = {u, l}
      BY <3>1 DEF Search!Watching
    <3>3. ClausesRight'
      <4>1. DOMAIN watch' = clauses' \union learnts'
        BY <1>2, <2>2, <3>2 DEF ClausesRight
      <4>2. ASSUME NEW e \in DOMAIN watch'
            PROVE  /\ e \in SUBSET Nonzero
                   /\ IsFiniteSet(e)
                   /\ Follows(formula', e)
                   /\ \E a, b \in e : a # b /\ watch'[e] = {a, b}
        <5>1. CASE e \in DOMAIN watch
          BY <1>1, <1>2, <3>2, <5>1 DEF ClausesRight
        <5>2. CASE e = C /\ C \notin DOMAIN watch
          BY <1>1, <1>3, <1>8, <3>1, <3>2, <5>2
        <5> QED
          BY <3>2, <5>1, <5>2
      <4> QED
        BY <4>1, <4>2 DEF ClausesRight
    <3>4. WatchedRight'
      <4> SUFFICES ASSUME NEW e \in DOMAIN watch', NEW w \in watch'[e], NEW i \in 1 .. Len(t),
                          trail'[i] = -w
                   PROVE  \E k \in e : OnTrail(trail', k)
                                       /\ vardata'[Search!VarOf(k)].level <= vardata'[Search!VarOf(w)].level
        BY <1>6 DEF WatchedRight, WatchesRight
      <4>1. CASE e \in DOMAIN watch
        BY <3>2, <4>1, <1>9 DEF WatchesRight
      <4>2. CASE e = C /\ C \notin DOMAIN watch
        <5>1. w \in {u, l} /\ w \in Nonzero /\ u \in Nonzero
          BY <1>3, <1>8, <3>1, <3>2, <4>2
        <5>2. OnTrail(trail', u)
          BY <1>6 DEF OnTrail
        <5>3. w # u
          <6> SUFFICES ASSUME w = u PROVE FALSE
            OBVIOUS
          <6>1. Search!VarOf(trail'[i]) = Search!VarOf(trail'[Len(t) + 1])
            BY <1>6, <5>1, VarsEqual
          <6>2. i \in 1 .. Len(trail') /\ Len(t) + 1 \in 1 .. Len(trail') /\ i # Len(t) + 1
            BY <1>6
          <6> QED
            BY <1>6, <6>1, <6>2 DEF TrailRight, TrailType
        <5>4. w = l
          BY <5>1, <5>3
        <5>5. vardata'[Search!VarOf(w)].level = n
          <6>1. i \in 1 .. Len(t) /\ Len(t) <= Len(trail') /\ trail'[i] = t[i]
                /\ vardata'[Search!VarOf(t[i])] = d[Search!VarOf(t[i])]
                /\ trail[i] = t[i] /\ vardata[Search!VarOf(t[i])] = d[Search!VarOf(t[i])]
            BY <1>6, <1>7 DEF Continues
          <6>2. Search!VarOf(w) = Search!VarOf(t[i])
            BY <5>1, <6>1, VarsEqual
          <6>3. vardata'[Search!VarOf(w)] = vardata[Search!VarOf(w)]
            BY <6>1, <6>2
          <6> QED
            BY <1>6, <2>2, <3>1, <5>4, <6>3 DEF Search!Level
        <5> QED
          BY <1>3, <1>6, <4>2, <5>2, <5>5
      <4> QED
        BY <3>2, <4>1, <4>2
    <3> QED
      BY <3>3, <3>4
  <2> QED
    BY <1>5, <2>1, <2>2
<1> QED
  BY <1>1, <1>2, <1>6, <1>10, <1>11, <1>12 DEF SearchInv, AssumptionsRight

--------------------------------------------------------------------------------
(* Decisions and housekeeping. *)

\* Learnt clauses that are no reason are removed.
LEMMA ReduceDBStep ==
  ASSUME SearchInv, Search!ReduceDB
  PROVE  SearchInv'
<1>1. PICK C \in SUBSET learnts : learnts' = learnts \ C /\ Search!Detach(C \ clauses)
  BY DEF Search!ReduceDB
<1>2. /\ ok /\ pc = "searching" /\ pending = {}
      /\ UNCHANGED <<calls, formula, created, assumptions, ok, clauses, trail, trailLim, vardata,
                     qhead, pending, pc>>
  BY DEF Search!ReduceDB, Search!NoConflict, Search!callVars, Search!trailVars
<1>3. ClausesRight /\ QueueRight /\ WatchedRight
  BY <1>2 DEF SearchInv
<1>4. /\ DOMAIN watch' = DOMAIN watch \ (C \ clauses)
      /\ \A c \in DOMAIN watch' : watch'[c] = watch[c]
  BY <1>1 DEF Search!Detach, Search!Restrict
<1>5. ClausesRight'
  <2>1. DOMAIN watch' = clauses' \union learnts'
    BY <1>1, <1>2, <1>3, <1>4 DEF ClausesRight
  <2> QED
    BY <1>2, <1>3, <1>4, <2>1 DEF ClausesRight
<1>6. QueueRight'
  BY <1>2, <1>3 DEF QueueRight, Search!decisionLevel
<1>7. WatchedRight'
  BY <1>2, <1>3, <1>4 DEF WatchedRight, WatchesRight
<1> QED
  BY <1>2, <1>5, <1>6, <1>7, VisitInv

\* newDecisionLevel with everything propagated.
LEMMA LevelInv ==
  ASSUME SearchInv, Search!NoConflict, trailLim' = Append(trailLim, Len(trail)),
         TrailRight(formula, trail', trailLim', vardata'),
         Continues(trail, vardata, trail', vardata'),
         AssumptionsOn(assumptions, trail', trailLim', vardata'),
         UNCHANGED <<calls, formula, created, assumptions, ok, clauses, learnts, watch, qhead,
                     pending, pc>>
  PROVE  SearchInv'
<1>1. /\ TheTrail /\ ClausesRight /\ QueueRight /\ WatchedRight /\ FormulaKept
      /\ ok /\ pc = "searching" /\ pending = {} /\ qhead = Len(trail)
  BY DEF SearchInv, TheTrail, Search!NoConflict
<1>2. /\ Len(trail) \in Nat /\ Len(trail') \in Nat /\ Len(trail) <= Len(trail')
      /\ trailLim \in Seq(Nat) /\ Len(trailLim) \in Nat
  BY <1>1, TrailFacts DEF Continues, TrailRight, TrailType
<1>3. ClausesRight'
  BY <1>1 DEF ClausesRight
<1>4. QueueRight'
  <2>1. \A j \in 1 .. Len(trailLim') : trailLim'[j] <= Len(trail)
    BY <1>1, <1>2 DEF QueueRight, Search!decisionLevel
  <2> QED
    BY <1>1, <1>2, <2>1 DEF QueueRight, Search!decisionLevel
<1>5. WatchedRight'
  <2>1. \A c \in DOMAIN watch : c \in SUBSET Nonzero /\ watch[c] \subseteq c
    BY <1>1 DEF ClausesRight
  <2>2. WatchesRight(watch, trail, vardata, qhead, pending) /\ qhead \in 0 .. Len(trail)
    BY <1>1, <1>2 DEF WatchedRight
  <2>3. WatchesRight(watch, trail', vardata', qhead, pending)
    BY <1>1, <1>2, <2>1, <2>2, WatchEnqueue DEF TheTrail
  <2> QED
    BY <2>3 DEF WatchedRight
<1>6. FormulaKept'
  <2>1. \A l : OnTrail(trail, l) /\ Search!Level(l) = 0 => OnTrail(trail', l) /\ Search!Level(l)' = 0
    BY <1>2, OnTrailGrows DEF Search!Level
  <2> QED
    BY <1>1, <2>1, FormulaStays
<1>7. AssumptionsRight'
  BY DEF AssumptionsRight
<1> QED
  BY <1>1, <1>3, <1>4, <1>5, <1>6, <1>7 DEF SearchInv

\* An assumption that is true has a level of its own.
LEMMA AssumeTrueStep ==
  ASSUME SearchInv, Search!AssumeTrue
  PROVE  SearchInv'
<1>1. /\ Search!NoConflict /\ Search!decisionLevel < Len(assumptions) /\ Search!True(assumptions[Search!decisionLevel + 1])
      /\ trailLim' = Append(trailLim, Len(trail))
      /\ UNCHANGED <<calls, formula, created, assumptions, ok, clauses, learnts, watch, trail,
                     vardata, qhead, pending, pc>>
  BY DEF Search!AssumeTrue, Search!callVars, Search!clauseVars
<1>2. TheTrail /\ AssumptionsRight /\ assumptions \in Seq(Nonzero)
  BY <1>1 DEF SearchInv, TheTrail, Search!NoConflict
<1>3. /\ Len(trailLim) \in Nat /\ Search!decisionLevel = Len(trailLim) /\ trailLim \in Seq(Nat)
      /\ Len(trail) \in Nat
      /\ \A i \in 1 .. Len(trail) : Search!Level(trail[i]) \in 0 .. Len(trailLim)
  BY <1>2, TrailFacts
<1>4. TrailRight(formula, trail', trailLim', vardata')
  BY <1>1, <1>2, NewLevelTrail DEF TheTrail
<1>5. Continues(trail, vardata, trail', vardata')
  BY <1>1, <1>3 DEF Continues
<1>6. Len(trailLim') = Len(trailLim) + 1
  BY <1>1, <1>3
<1>7. AssumptionsOn(assumptions, trail', trailLim', vardata')
  <2>1. PICK i \in 1 .. Len(trail) : trail[i] = assumptions[Len(trailLim) + 1]
    BY <1>1, <1>2, <1>3, TrailFacts
  <2>2. /\ OnTrail(trail, assumptions[Len(trailLim) + 1])
        /\ vardata[Search!VarOf(assumptions[Len(trailLim) + 1])].level <= Len(trailLim) + 1
    <3>1. OnTrail(trail, assumptions[Len(trailLim) + 1])
      BY <2>1 DEF OnTrail
    <3>2. Search!Level(trail[i]) <= Len(trailLim) + 1
      BY <1>3
    <3> QED
      BY <2>1, <3>1, <3>2 DEF Search!Level
  <2>3. ASSUME NEW j \in 1 .. Len(assumptions), j <= Len(trailLim')
        PROVE  OnTrail(trail, assumptions[j]) /\ vardata[Search!VarOf(assumptions[j])].level <= j
    <3>1. CASE j <= Len(trailLim)
      BY <1>2, <3>1 DEF AssumptionsRight, AssumptionsOn
    <3>2. CASE j = Len(trailLim) + 1
      BY <2>2, <3>2
    <3> QED
      BY <1>3, <1>6, <2>3, <3>1, <3>2
  <2> QED
    BY <1>1, <1>2, <2>3 DEF AssumptionsRight, AssumptionsOn
<1> QED
  BY <1>1, <1>4, <1>5, <1>7, LevelInv

\* A variable is decided.
LEMMA DecideStep ==
  ASSUME SearchInv, NEW l \in Search!Decisive, Search!Decide(l)
  PROVE  SearchInv'
<1>1. /\ Search!NoConflict /\ Search!Undef(l)
      /\ Search!Enqueue(trail, vardata, l, {}, Search!decisionLevel + 1)
      /\ trailLim' = Append(trailLim, Len(trail))
      /\ UNCHANGED <<calls, formula, created, assumptions, ok, clauses, learnts, watch, qhead,
                     pending, pc>>
  BY DEF Search!Decide, Search!callVars, Search!clauseVars, Search!NoReason
<1>2. TheTrail /\ AssumptionsRight /\ assumptions \in Seq(Nonzero) /\ created \in SUBSET (Nat \ {0})
  BY <1>1 DEF SearchInv, TheTrail, Search!NoConflict
<1>3. /\ Len(trailLim) \in Nat /\ Search!decisionLevel = Len(trailLim) /\ trailLim \in Seq(Nat)
      /\ Len(trail) \in Nat
      /\ \A i \in 1 .. Len(trail) : Search!Level(trail[i]) \in 0 .. Len(trailLim)
  BY <1>2, TrailFacts
<1>4. /\ l \in Nonzero
      /\ Len(trailLim) < Len(assumptions) => l = assumptions[Len(trailLim) + 1]
  <2>1. CASE Len(trailLim) < Len(assumptions)
    <3>1. l = assumptions[Len(trailLim) + 1]
      BY <1>3, <2>1 DEF Search!Decisive
    <3>2. Len(trailLim) + 1 \in 1 .. Len(assumptions)
      BY <1>2, <1>3, <2>1
    <3> QED
      BY <1>2, <3>1, <3>2
  <2>2. CASE ~(Len(trailLim) < Len(assumptions))
    <3>1. l \in Search!Literals
      BY <1>3, <2>2 DEF Search!Decisive
    <3> QED
      BY <1>2, <2>2, <3>1 DEF Search!Literals, Nonzero
  <2> QED
    BY <2>1, <2>2
<1> DEFINE lim == Append(trailLim, Len(trail))
<1>5. Len(lim) = Len(trailLim) + 1
  BY <1>3
<1>6. TrailRight(formula, trail, lim, vardata)
  BY <1>2, NewLevelTrail DEF TheTrail
<1> HIDE DEF lim
<1>7. Assignable(formula, trail, lim, vardata, l, {})
  <2>1. Search!VarOf(l) \notin DOMAIN vardata
    BY <1>1, <1>2, <1>4, TrailFacts DEF Search!Undef
  <2>2. \A j \in 1 .. Len(trail) : vardata[Search!VarOf(trail[j])].level < Len(lim)
    BY <1>3, <1>5 DEF Search!Level
  <2> QED
    BY <1>3, <1>4, <1>5, <2>1, <2>2 DEF Assignable
<1>8. /\ TrailRight(formula, trail', lim, vardata')
      /\ Len(trail') = Len(trail) + 1 /\ trail'[Len(trail) + 1] = l
      /\ OnTrail(trail', l)
      /\ vardata'[Search!VarOf(l)].level = Len(lim) /\ vardata'[Search!VarOf(l)].reason = {}
      /\ Continues(trail, vardata, trail', vardata')
  BY <1>1, <1>3, <1>5, <1>6, <1>7, EnqueueIs
<1>9. AssumptionsOn(assumptions, trail', lim, vardata')
  <2>1. ASSUME NEW j \in 1 .. Len(assumptions), j <= Len(lim)
        PROVE  OnTrail(trail', assumptions[j]) /\ vardata'[Search!VarOf(assumptions[j])].level <= j
    <3>1. CASE j <= Len(trailLim)
      <4>1. OnTrail(trail, assumptions[j]) /\ vardata[Search!VarOf(assumptions[j])].level <= j
        BY <1>2, <3>1 DEF AssumptionsRight, AssumptionsOn
      <4>2. Len(trail') \in Nat
        BY <1>3, <1>8
      <4> QED
        BY <1>3, <1>8, <4>1, <4>2, OnTrailGrows
    <3>2. CASE j = Len(trailLim) + 1
      <4>1. l = assumptions[j]
        BY <1>2, <1>3, <1>4, <3>2
      <4> QED
        BY <1>5, <1>8, <3>2, <4>1
    <3> QED
      BY <1>3, <1>5, <2>1, <3>1, <3>2
  <2>2. ASSUME NEW i \in 1 .. Len(trail'),
               vardata'[Search!VarOf(trail'[i])].reason = {},
               vardata'[Search!VarOf(trail'[i])].level \in 1 .. Len(assumptions)
        PROVE  trail'[i] = assumptions[vardata'[Search!VarOf(trail'[i])].level]
    <3>1. CASE i = Len(trail) + 1
      <4>1. trail'[i] = l
        BY <1>8, <3>1
      <4>2. Len(trailLim) + 1 \in 1 .. Len(assumptions)
        BY <1>5, <1>8, <2>2, <4>1
      <4>3. l = assumptions[Len(trailLim) + 1]
        BY <1>2, <1>3, <1>4, <4>2
      <4> QED
        BY <1>5, <1>8, <4>1, <4>3
    <3>2. CASE i \in 1 .. Len(trail)
      <4>1. trail'[i] = trail[i] /\ vardata'[Search!VarOf(trail[i])] = vardata[Search!VarOf(trail[i])]
        BY <1>8, <3>2 DEF Continues
      <4> QED
        BY <1>2, <2>2, <3>2, <4>1 DEF AssumptionsRight, AssumptionsOn
    <3> QED
      BY <1>3, <1>8, <3>1, <3>2
  <2> QED
    BY <2>1, <2>2 DEF AssumptionsOn
<1> QED
  BY <1>1, <1>8, <1>9, LevelInv DEF lim

\* With everything propagated, the literals watched in a clause that is not satisfied
\* are not false.
LEMMA WatchedNotFalse ==
  ASSUME SearchInv, Search!NoConflict, NEW c \in DOMAIN watch, \A l \in c : ~Search!True(l)
  PROVE  \A l \in watch[c] : ~Search!False(l)
<1>1. TheTrail /\ ClausesRight /\ WatchedRight /\ qhead = Len(trail) /\ pending = {}
  BY DEF SearchInv, TheTrail, Search!NoConflict
<1> SUFFICES ASSUME NEW w \in watch[c], Search!False(w) PROVE FALSE
  OBVIOUS
<1>2. w \in Nonzero
  BY <1>1 DEF ClausesRight
<1>3. PICK i \in 1 .. Len(trail) : w = -trail[i]
  BY <1>1, <1>2, TrailFacts DEF FalseUpto
<1>4. trail[i] = -w
  <2>1. trail[i] \in Nonzero
    BY <1>1, TrailFacts
  <2> QED
    BY <1>2, <1>3, <2>1, VarsEqual
<1>5. \E l \in c : OnTrail(trail, l)
  BY <1>1, <1>4 DEF WatchedRight, WatchesRight
<1> QED
  BY <1>1, <1>5, TrailFacts DEF OnTrail

\* simplify() keeps clauses with no true literal, and neither of the watched ones is false.
LEMMA SimplifyStep ==
  ASSUME SearchInv, Search!Simplify
  PROVE  SearchInv'
<1> DEFINE kept == DOMAIN watch \ Search!Satisfied(DOMAIN watch)
           trim == [c \in kept |-> Search!Trimmed(c)]
<1>1. /\ Search!NoConflict /\ Search!decisionLevel = 0
      /\ clauses' = { trim[c] : c \in clauses \intersect kept }
      /\ learnts' = { trim[c] : c \in learnts \intersect kept }
      /\ watch' = [d \in Search!Range(trim) |-> watch[CHOOSE c \in kept : trim[c] = d]]
      /\ Search!Unlock(Search!Satisfied(DOMAIN watch))
      /\ UNCHANGED <<calls, formula, created, assumptions, ok, trail, trailLim, qhead, pending, pc>>
  BY DEF Search!Simplify, Search!callVars
<1>2. /\ TheTrail /\ ClausesRight /\ QueueRight /\ WatchedRight /\ FormulaKept
      /\ ok /\ pc = "searching" /\ pending = {} /\ qhead = Len(trail)
  BY <1>1 DEF SearchInv, TheTrail, Search!NoConflict
<1>3. /\ Len(trail) \in Nat /\ Len(trailLim) = 0 /\ trail \in Seq(Nonzero)
      /\ \A i \in 1 .. Len(trail) : Search!Level(trail[i]) = 0
  <2>1. Len(trail) \in Nat /\ Len(trailLim) = 0 /\ trail \in Seq(Nonzero)
    BY <1>1, <1>2, TrailFacts
  <2>2. \A i \in 1 .. Len(trail) : Search!Level(trail[i]) \in 0 .. 0
    BY <1>2, <2>1, TrailFacts
  <2> QED
    BY <2>1, <2>2
<1>4. ASSUME NEW c \in kept
      PROVE  /\ c \in DOMAIN watch /\ c \in SUBSET Nonzero /\ IsFiniteSet(c) /\ Follows(formula, c)
             /\ \E a, b \in c : a # b /\ watch[c] = {a, b}
             /\ \A l \in c : ~Search!True(l)
             /\ trim[c] = Search!Trimmed(c) /\ watch[c] \subseteq trim[c] /\ trim[c] \subseteq c
             /\ \A l \in c \ trim[c] : Search!False(l)
             /\ \A l \in watch[c] : ~Search!False(l)
  <2>1. /\ c \in DOMAIN watch /\ c \in SUBSET Nonzero /\ IsFiniteSet(c) /\ Follows(formula, c)
        /\ \E a, b \in c : a # b /\ watch[c] = {a, b}
    BY <1>2 DEF ClausesRight
  <2>2. \A l \in c : ~Search!True(l)
    BY <2>1 DEF Search!Satisfied
  <2>3. /\ trim[c] = Search!Trimmed(c) /\ watch[c] \subseteq Search!Trimmed(c) /\ Search!Trimmed(c) \subseteq c
        /\ \A l \in c \ Search!Trimmed(c) : Search!False(l)
    <3>1. watch[c] \subseteq c
      BY <2>1
    <3> QED
      BY <3>1 DEF Search!Trimmed
  <2>4. \A l \in watch[c] : ~Search!False(l)
    BY <1>1, <2>1, <2>2, WatchedNotFalse
  <2> QED
    BY <2>1, <2>2, <2>3, <2>4
<1> HIDE DEF trim
<1>5. ASSUME NEW c \in kept
      PROVE  Follows(formula, trim[c])
  <2> SUFFICES ASSUME NEW M, Satisfies(M) PROVE \E l \in trim[c] : Holds(l, M)
    BY FollowsIs
  <2>1. PICK l \in c : Holds(l, M)
    BY <1>4, FollowsIs
  <2>2. l \in trim[c]
    <3> SUFFICES ASSUME l \notin trim[c] PROVE FALSE
      OBVIOUS
    <3>1. Search!False(l) /\ l \in Nonzero
      BY <1>4
    <3>2. {l} \in SUBSET FalseUpto(Len(trail))
      BY <1>2, <3>1, TrailFacts
    <3>3. l \in Search!AboveRoot({l})
      BY <1>2, <2>1, <3>2, AboveRootIs
    <3>4. Search!Level(l) \in 1 .. Len(trailLim)
      BY <1>2, <3>2, <3>3, AboveRootIs
    <3> QED
      BY <1>3, <3>4
  <2> QED
    BY <2>1, <2>2
<1>6. /\ DOMAIN watch' = { trim[c] : c \in kept }
      /\ \A d \in DOMAIN watch' : \E c \in kept : d = trim[c] /\ watch'[d] = watch[c]
  <2>1. Search!Range(trim) = { trim[c] : c \in kept }
    BY DEF Search!Range, trim
  <2>2. DOMAIN watch' = { trim[c] : c \in kept }
    BY <1>1, <2>1
  <2>3. ASSUME NEW d \in DOMAIN watch'
        PROVE  \E c \in kept : d = trim[c] /\ watch'[d] = watch[c]
    <3>1. \E c \in kept : trim[c] = d
      BY <2>2
    <3>2. (CHOOSE c \in kept : trim[c] = d) \in kept /\ trim[CHOOSE c \in kept : trim[c] = d] = d
      BY <3>1
    <3>3. watch'[d] = watch[CHOOSE c \in kept : trim[c] = d]
      BY <1>1, <2>1, <2>2
    <3> QED
      BY <3>2, <3>3
  <2> QED
    BY <2>2, <2>3
<1>7. ClausesRight'
  <2>1. DOMAIN watch' = clauses' \union learnts'
    <3>1. kept \subseteq clauses \union learnts
      BY <1>2 DEF ClausesRight
    <3> QED
      BY <1>1, <1>6, <3>1
  <2>2. ASSUME NEW d \in DOMAIN watch'
        PROVE  /\ d \in SUBSET Nonzero
               /\ IsFiniteSet(d)
               /\ Follows(formula', d)
               /\ \E a, b \in d : a # b /\ watch'[d] = {a, b}
    <3>1. PICK c \in kept : d = trim[c] /\ watch'[d] = watch[c]
      BY <1>6
    <3>2. /\ c \in SUBSET Nonzero /\ IsFiniteSet(c)
          /\ watch[c] \subseteq d /\ d \subseteq c
      BY <1>4, <3>1
    <3>3. PICK a, b \in c : a # b /\ watch[c] = {a, b}
      BY <1>4
    <3>4. Follows(formula', d)
      BY <1>1, <1>5, <3>1
    <3>5. IsFiniteSet(d)
      BY <3>2, FS_Subset
    <3> QED
      BY <3>1, <3>2, <3>3, <3>4, <3>5
  <2> QED
    BY <2>1, <2>2 DEF ClausesRight
<1>8. QueueRight'
  BY <1>1, <1>2, <1>3 DEF QueueRight, Search!decisionLevel
<1>9. WatchedRight'
  <2> SUFFICES ASSUME NEW d \in DOMAIN watch', NEW w \in watch'[d], NEW i \in 1 .. Len(trail),
                      trail[i] = -w
               PROVE  FALSE
    BY <1>1, <1>2 DEF WatchedRight, WatchesRight
  <2>1. PICK c \in kept : d = trim[c] /\ watch'[d] = watch[c]
    BY <1>6
  <2>2. ~Search!False(w) /\ w \in c /\ c \in SUBSET Nonzero
    BY <1>4, <2>1
  <2>3. Search!True(-w)
    BY <1>2, TrailFacts
  <2> QED
    BY <2>2, <2>3 DEF Search!True, Search!False
<1>10. /\ DOMAIN vardata' = DOMAIN vardata
       /\ \A v \in DOMAIN vardata :
            /\ vardata'[v].level = vardata[v].level
            /\ vardata'[v].reason = {} \/ vardata'[v].reason = vardata[v].reason
            /\ vardata'[v] \in [level : Nat, reason : SUBSET Nonzero]
       /\ vardata' \in [DOMAIN vardata' -> [level : Nat, reason : SUBSET Nonzero]]
  <2>1. vardata' = [v \in DOMAIN vardata |->
                      IF Search!Reason(v) \in Search!Satisfied(DOMAIN watch)
                      THEN [vardata[v] EXCEPT !.reason = {}] ELSE vardata[v]]
    BY <1>1 DEF Search!Unlock, Search!NoReason
  <2>2. \A v \in DOMAIN vardata : vardata[v] \in [level : Nat, reason : SUBSET Nonzero]
    BY <1>2 DEF TheTrail, TrailRight, TrailType
  <2> QED
    BY <2>1, <2>2
<1>11. \A i \in 1 .. Len(trail) :
         /\ Search!VarOf(trail[i]) \in DOMAIN vardata
         /\ vardata'[Search!VarOf(trail[i])].level = 0 /\ vardata[Search!VarOf(trail[i])].level = 0
  <2>1. \A i \in 1 .. Len(trail) : Search!VarOf(trail[i]) \in DOMAIN vardata
    BY <1>2 DEF TheTrail, TrailRight, TrailType
  <2> QED
    BY <1>3, <1>10, <2>1 DEF Search!Level
<1>12. TheTrail'
  <2>1. TrailType(trail, trailLim, vardata')
    <3>1. TrailType(trail, trailLim, vardata)
      BY <1>2 DEF TheTrail, TrailRight
    <3> QED
      BY <1>10, <3>1 DEF TrailType
  <2>2. LevelsRight(trail, trailLim, vardata')
    BY <1>3, <1>11 DEF LevelsRight
  <2>3. ImpliedFromTrail(formula, trail, vardata')
    <3> SUFFICES ASSUME NEW i \in 1 .. Len(trail) PROVE Justified(formula, trail, vardata', i)
      BY DEF ImpliedFromTrail
    <3>1. Justified(formula, trail, vardata, i)
      BY <1>2 DEF TheTrail, TrailRight, ImpliedFromTrail
    <3>2. /\ vardata'[Search!VarOf(trail[i])].level = 0 /\ vardata[Search!VarOf(trail[i])].level = 0
          /\ \/ vardata'[Search!VarOf(trail[i])].reason = {}
             \/ vardata'[Search!VarOf(trail[i])].reason = vardata[Search!VarOf(trail[i])].reason
      BY <1>10, <1>11
    <3>3. Follows(formula, {trail[i]})
      BY <3>1, <3>2 DEF Justified
    <3> QED
      BY <3>1, <3>2, <3>3 DEF Justified
  <2> QED
    BY <1>1, <2>1, <2>2, <2>3 DEF TheTrail, TrailRight
<1>13. FormulaKept'
  <2> SUFFICES ASSUME NEW x \in formula
               PROVE  /\ x[1] = 0
                      /\ x[2] \in SUBSET Nonzero
                      /\ \A l \in x[2] : Search!VarOf(l) \in created
                      /\ \/ \E l \in x[2] : -l \in x[2]
                         \/ \E l \in x[2] : OnTrail(trail, l) /\ vardata'[Search!VarOf(l)].level = 0
                         \/ \E c \in clauses' : c \subseteq x[2]
    BY <1>1, <1>2 DEF FormulaKept, Search!Level
  <2>1. /\ x[1] = 0
        /\ x[2] \in SUBSET Nonzero
        /\ \A l \in x[2] : Search!VarOf(l) \in created
        /\ \/ \E l \in x[2] : -l \in x[2]
           \/ \E l \in x[2] : OnTrail(trail, l) /\ Search!Level(l) = 0
           \/ \E c \in clauses : c \subseteq x[2]
    BY <1>2 DEF FormulaKept
  <2>2. \A l : OnTrail(trail, l) => vardata'[Search!VarOf(l)].level = 0
    BY <1>11 DEF OnTrail
  <2>3. ASSUME NEW c \in clauses, c \subseteq x[2]
        PROVE  \/ \E l \in x[2] : OnTrail(trail, l)
               \/ \E d \in clauses' : d \subseteq x[2]
    <3>1. c \in DOMAIN watch
      BY <1>2 DEF ClausesRight
    <3>2. CASE c \in kept
      BY <1>1, <1>4, <2>3, <3>2
    <3>3. CASE c \notin kept
      <4>1. PICK l \in c : Search!True(l)
        BY <3>1, <3>3 DEF Search!Satisfied
      <4>2. OnTrail(trail, l)
        BY <1>2, <4>1, TrailFacts DEF OnTrail
      <4> QED
        BY <2>3, <4>2
    <3> QED
      BY <3>2, <3>3
  <2> QED
    BY <2>1, <2>2, <2>3
<1>14. AssumptionsRight'
  BY <1>1, <1>3, <1>11 DEF AssumptionsRight, AssumptionsOn
<1> QED
  BY <1>1, <1>2, <1>7, <1>8, <1>9, <1>12, <1>13, <1>14 DEF SearchInv, TheTrail

--------------------------------------------------------------------------------
(* Clauses added. *)

\* attachClause watches two literals.
LEMMA FirstTwoAre ==
  ASSUME NEW c \in SUBSET Nonzero, IsFiniteSet(c), Search!Cardinality(c) > 1
  PROVE  \E a, b \in c : a # b /\ Search!FirstTwo(c) = {a, b}
<1>1. \A l, m \in Nonzero : Search!Index(l) \in Nat /\ (Search!Index(l) = Search!Index(m) => l = m)
  BY DEF Search!Index, Nonzero
<1>2. ASSUME NEW S \in SUBSET c, S # {}
      PROVE  \E a \in S : \A m \in S : m # a => Search!Index(a) < Search!Index(m)
  <2> DEFINE N == { Search!Index(m) : m \in S }
  <2>1. N \in SUBSET Nat /\ N # {}
    BY <1>1, <1>2
  <2>2. PICK n \in N : \A k \in N : n <= k
    BY <2>1, LeastNatural
  <2>3. PICK a \in S : n = Search!Index(a)
    BY <2>2
  <2>4. \A m \in S : m # a => Search!Index(a) < Search!Index(m)
    <3> SUFFICES ASSUME NEW m \in S, m # a PROVE Search!Index(a) < Search!Index(m)
      OBVIOUS
    <3>1. n <= Search!Index(m)
      BY <2>2
    <3>2. Search!Index(a) \in Nat /\ Search!Index(m) \in Nat /\ Search!Index(m) # Search!Index(a)
      BY <1>1
    <3> QED
      BY <2>3, <3>1, <3>2
  <2> QED
    BY <2>4
<1>3. c # {} /\ \A x \in c : \E y \in c : y # x
  <2>1. Cardinality(c) > 1 /\ \A x \in c : \E y \in c : y # x
    BY SmallSets
  <2>2. c # {}
    <3> SUFFICES ASSUME c = {} PROVE FALSE
      OBVIOUS
    <3>1. Cardinality(c) = 0
      BY FS_EmptySet
    <3> QED
      BY <2>1, <3>1
  <2> QED
    BY <2>1, <2>2
<1>4. PICK a \in c : \A m \in c : m # a => Search!Index(a) < Search!Index(m)
  BY <1>2, <1>3
<1>5. c \ {a} \in SUBSET c /\ c \ {a} # {}
  BY <1>3
<1>6. PICK b \in c \ {a} : \A m \in c \ {a} : m # b => Search!Index(b) < Search!Index(m)
  BY <1>2, <1>5
<1> DEFINE Before(l) == { m \in c : Search!Index(m) < Search!Index(l) }
<1>7. Search!FirstTwo(c) = { l \in c : Search!Cardinality(Before(l)) < 2 }
  BY DEF Search!FirstTwo
<1>8. ASSUME NEW l \in c
      PROVE  IsFiniteSet(Before(l)) /\ Search!Cardinality(Before(l)) = Cardinality(Before(l))
             /\ Cardinality(Before(l)) \in Nat
  <2>1. IsFiniteSet(Before(l))
    BY FS_Subset
  <2> QED
    BY <2>1, SmallSets
<1>9. Before(a) = {}
  <2> SUFFICES ASSUME NEW m \in Before(a) PROVE FALSE
    OBVIOUS
  <2>1. m \in c /\ Search!Index(m) < Search!Index(a) /\ Search!Index(m) \in Nat /\ Search!Index(a) \in Nat
    BY <1>1
  <2> QED
    BY <1>4, <2>1
<1>10. Before(b) = {a}
  <2>1. a \in Before(b)
    BY <1>4
  <2>2. \A m \in Before(b) : m = a
    <3> SUFFICES ASSUME NEW m \in Before(b), m # a PROVE FALSE
      OBVIOUS
    <3>1. m \in c \ {a} /\ Search!Index(m) < Search!Index(b) /\ Search!Index(m) \in Nat /\ Search!Index(b) \in Nat
      BY <1>1
    <3> QED
      BY <1>6, <3>1
  <2> QED
    BY <2>1, <2>2
<1>11. ASSUME NEW l \in c, l # a, l # b
       PROVE  Cardinality(Before(l)) > 1
  <2>1. a \in Before(l) /\ b \in Before(l) /\ a # b
    BY <1>4, <1>6, <1>11
  <2>2. IsFiniteSet(Before(l))
    BY <1>8
  <2> HIDE DEF Before
  <2> QED
    BY <2>1, <2>2, SmallSets
<1>12. Cardinality(Before(a)) = 0 /\ Cardinality(Before(b)) = 1
  BY <1>9, <1>10, FS_EmptySet, FS_Singleton
<1>13. \A l \in c : Search!Cardinality(Before(l)) < 2 <=> l = a \/ l = b
  <2> HIDE DEF Before
  <2> QED
    BY <1>8, <1>11, <1>12
<1> QED
  BY <1>6, <1>7, <1>13

\* A clause added is kept, in a step that loses no clause and no literal of level 0.
LEMMA FormulaGrows ==
  ASSUME FormulaKept, NEW ps \in SUBSET Nonzero, formula' = formula \union {<<0, ps>>},
         created \subseteq created', \A l \in ps : Search!VarOf(l) \in created',
         ok' => ok, clauses \subseteq clauses',
         \A l : OnTrail(trail, l) /\ Search!Level(l) = 0 => OnTrail(trail', l) /\ Search!Level(l)' = 0,
         \/ ~ok'
         \/ \E l \in ps : -l \in ps
         \/ \E l \in ps : OnTrail(trail', l) /\ Search!Level(l)' = 0
         \/ \E c \in clauses' : c \subseteq ps,
         ~ok' => Follows(formula', {})
  PROVE  FormulaKept'
<1>1. ASSUME NEW x \in formula'
      PROVE  /\ x[1] = 0
             /\ x[2] \in SUBSET Nonzero
             /\ \A l \in x[2] : Search!VarOf(l) \in created'
             /\ \/ ~ok'
                \/ \E l \in x[2] : -l \in x[2]
                \/ \E l \in x[2] : OnTrail(trail', l) /\ Search!Level(l)' = 0
                \/ \E c \in clauses' : c \subseteq x[2]
  <2>1. CASE x \in formula
    <3>1. /\ x[1] = 0
          /\ x[2] \in SUBSET Nonzero
          /\ \A l \in x[2] : Search!VarOf(l) \in created
          /\ \/ ~ok
             \/ \E l \in x[2] : -l \in x[2]
             \/ \E l \in x[2] : OnTrail(trail, l) /\ Search!Level(l) = 0
             \/ \E c \in clauses : c \subseteq x[2]
      BY <2>1 DEF FormulaKept
    <3> QED
      BY <3>1
  <2>2. CASE x = <<0, ps>>
    <3>1. x[1] = 0 /\ x[2] = ps
      BY <2>2
    <3> QED
      BY <3>1
  <2> QED
    BY <2>1, <2>2
<1> QED
  BY <1>1 DEF FormulaKept

\* What a clause that is added comes down to, at level 0.
LEMMA UnknownFollow ==
  ASSUME TheTrail, Len(trailLim) = 0, NEW ps \in SUBSET Nonzero,
         formula' = formula \union {<<0, ps>>}
  PROVE  Follows(formula', { l \in ps : ~Search!False(l) })
<1> DEFINE unknown == { l \in ps : ~Search!False(l) }
<1> SUFFICES ASSUME NEW M, \A x \in formula' : \E l \in x[2] : Holds(l, M)
             PROVE  \E l \in unknown : Holds(l, M)
  BY DEF Follows
<1>1. Satisfies(M)
  BY DEF Satisfies
<1>2. PICK l \in ps : Holds(l, M)
  <2>1. <<0, ps>> \in formula' /\ <<0, ps>>[2] = ps
    OBVIOUS
  <2> QED
    BY <2>1
<1>3. ~Search!False(l)
  <2> SUFFICES ASSUME Search!False(l) PROVE FALSE
    OBVIOUS
  <2>1. {l} \in SUBSET FalseUpto(Len(trail))
    BY TrailFacts
  <2>2. l \in Search!AboveRoot({l})
    BY <1>1, <1>2, <2>1, AboveRootIs
  <2>3. Search!Level(l) \in 1 .. Len(trailLim)
    BY <2>1, <2>2, AboveRootIs
  <2> QED
    BY <2>3
<1> QED
  BY <1>2, <1>3

\* addClause: a contradiction, a unit, a clause, or nothing to add.
LEMMA AddClauseStep ==
  ASSUME SearchInv, Search!AddClause
  PROVE  SearchInv'
<1> DEFINE ps == Head(calls).lits
           unknown == { l \in ps : ~Search!False(l) }
           satisfied == \E l \in ps : Search!True(l) \/ -l \in ps
<1>1. /\ pc = "idle" /\ calls # <<>> /\ Head(calls).op = "add" /\ calls' = Tail(calls)
      /\ formula' = formula \union {<<0, ps>>}
      /\ created' = created \union { Search!VarOf(l) : l \in ps }
      /\ UNCHANGED <<assumptions, pending>>
      /\ \/ /\ (~ok \/ satisfied)
            /\ UNCHANGED <<ok, clauses, learnts, watch, trail, trailLim, vardata, qhead, pc>>
         \/ /\ ok /\ ~satisfied /\ unknown = {}
            /\ ok' = FALSE
            /\ UNCHANGED <<clauses, learnts, watch, trail, trailLim, vardata, qhead, pc>>
         \/ /\ ok /\ ~satisfied
            /\ \E l \in unknown : unknown = {l} /\ Search!uncheckedEnqueue(l, {})
            /\ pc' = "adding"
            /\ UNCHANGED <<ok, clauses, learnts, watch, trailLim, qhead>>
         \/ /\ ok /\ ~satisfied /\ Search!Cardinality(unknown) > 1
            /\ clauses' = clauses \union {unknown}
            /\ watch' = Search!Watching(unknown, Search!FirstTwo(unknown))
            /\ UNCHANGED <<ok, learnts, trail, trailLim, vardata, qhead, pc>>
  BY
  DEF Search!AddClause, Search!clauseVars, Search!trailVars, Search!NoReason,
      Search!attachClause
<1>2. /\ TheTrail /\ ClausesRight /\ QueueRight /\ FormulaKept /\ (ok => WatchedRight)
      /\ trailLim = <<>> /\ Len(trailLim) = 0 /\ pending = {} /\ assumptions \in Seq(Nonzero)
      /\ created \in SUBSET (Nat \ {0}) /\ Len(trail) \in Nat
      /\ calls \in Seq(FiniteCall)
  <2>1. TheTrail /\ trailLim = <<>>
    BY <1>1 DEF SearchInv, TheTrail
  <2> QED
    BY <1>1, <2>1, TrailFacts DEF SearchInv
<1>3. ps \in SUBSET Nonzero /\ IsFiniteSet(ps) /\ calls' \in Seq(FiniteCall)
  <2>1. Head(calls) \in FiniteCall /\ calls' \in Seq(FiniteCall)
    BY <1>1, <1>2
  <2>2. ps \in SUBSET Nonzero
    BY <1>1, <2>1 DEF FiniteCall, SearchCall, Nonzero
  <2>3. IsFiniteSet(ps)
    BY <1>1, <2>1 DEF FiniteCall
  <2> QED
    BY <2>1, <2>2, <2>3
<1>4. /\ created' \in SUBSET (Nat \ {0}) /\ created \subseteq created'
      /\ \A l \in ps : Search!VarOf(l) \in created'
  <2>1. \A l \in ps : Search!VarOf(l) \in Nat \ {0}
    BY <1>3, VarsEqual
  <2> QED
    BY <1>1, <1>2, <2>1, ZenonT(30)
<1>5. unknown \in SUBSET Nonzero /\ IsFiniteSet(unknown) /\ Follows(formula', unknown)
      /\ unknown \subseteq ps
  <2>1. unknown \in SUBSET Nonzero /\ unknown \subseteq ps
    BY <1>3
  <2>2. IsFiniteSet(unknown)
    BY <1>3, <2>1, FS_Subset
  <2>3. Follows(formula', unknown)
    BY <1>1, <1>2, <1>3, UnknownFollow
  <2> QED
    BY <2>1, <2>2, <2>3
<1>6. /\ TrailRight(formula', trail, trailLim, vardata)
      /\ \A c \in DOMAIN watch : Follows(formula', c)
  <2>1. formula \subseteq formula'
    BY <1>1
  <2>2. TrailRight(formula', trail, trailLim, vardata)
    BY <1>2, <2>1, TrailMonotone DEF TheTrail
  <2>3. ASSUME NEW c \in DOMAIN watch PROVE Follows(formula', c)
    BY <1>2, <2>1, FollowsMonotone DEF ClausesRight
  <2> QED
    BY <2>2, <2>3
<1>7. \A l : Search!True(l) => OnTrail(trail, l) /\ Search!Level(l) = 0
  <2> SUFFICES ASSUME NEW l, Search!True(l) PROVE OnTrail(trail, l) /\ Search!Level(l) = 0
    OBVIOUS
  <2>1. PICK i \in 1 .. Len(trail) : trail[i] = l
    BY <1>2, TrailFacts
  <2>2. Search!Level(trail[i]) \in 0 .. 0
    BY <1>2, TrailFacts
  <2> QED
    BY <2>1, <2>2 DEF OnTrail
<1> HIDE DEF ps, unknown
<1>8. CASE /\ (~ok \/ satisfied)
           /\ UNCHANGED <<ok, clauses, learnts, watch, trail, trailLim, vardata, qhead, pc>>
  <2>1. TheTrail' /\ ClausesRight' /\ QueueRight' /\ (ok' => WatchedRight')
    <3>1. TheTrail'
      BY <1>6, <1>8 DEF TheTrail
    <3>2. ClausesRight'
      BY <1>2, <1>6, <1>8 DEF ClausesRight
    <3>3. QueueRight'
      BY <1>1, <1>2, <1>8 DEF QueueRight, Search!decisionLevel
    <3>4. ok' => WatchedRight'
      BY <1>1, <1>2, <1>8 DEF WatchedRight
    <3> QED
      BY <3>1, <3>2, <3>3, <3>4
  <2>2. FormulaKept'
    <3>1. ~ok' => Follows(formula', {})
      <4>1. ~ok => Follows(formula, {})
        BY <1>2 DEF FormulaKept
      <4> QED
        BY <1>1, <1>8, <4>1, FollowsMonotone
    <3>2. \/ ~ok'
          \/ \E l \in ps : -l \in ps
          \/ \E l \in ps : OnTrail(trail', l) /\ Search!Level(l)' = 0
      BY <1>7, <1>8 DEF Search!Level
    <3>3. \A l : OnTrail(trail, l) /\ Search!Level(l) = 0 => OnTrail(trail', l) /\ Search!Level(l)' = 0
      BY <1>8 DEF Search!Level
    <3> QED
      BY <1>1, <1>2, <1>3, <1>4, <1>8, <3>1, <3>2, <3>3, FormulaGrows
  <2> QED
    BY <1>1, <1>2, <1>3, <1>4, <1>8, <2>1, <2>2 DEF SearchInv, TheTrail
<1>9. CASE /\ ok /\ ~satisfied /\ unknown = {}
           /\ ok' = FALSE
           /\ UNCHANGED <<clauses, learnts, watch, trail, trailLim, vardata, qhead, pc>>
  <2>1. TheTrail' /\ ClausesRight' /\ QueueRight'
    <3>1. TheTrail'
      BY <1>6, <1>9 DEF TheTrail
    <3>2. ClausesRight'
      BY <1>2, <1>6, <1>9 DEF ClausesRight
    <3>3. QueueRight'
      BY <1>1, <1>2, <1>9 DEF QueueRight, Search!decisionLevel
    <3> QED
      BY <3>1, <3>2, <3>3
  <2>2. FormulaKept'
    <3>1. \A l : OnTrail(trail, l) /\ Search!Level(l) = 0 => OnTrail(trail', l) /\ Search!Level(l)' = 0
      BY <1>9 DEF Search!Level
    <3>2. ~ok' /\ Follows(formula', {})
      BY <1>5, <1>9
    <3> QED
      BY <1>1, <1>2, <1>3, <1>4, <1>9, <3>1, <3>2, FormulaGrows
  <2> QED
    BY <1>1, <1>2, <1>3, <1>4, <1>9, <2>1, <2>2 DEF SearchInv, TheTrail
<1>10. CASE /\ ok /\ ~satisfied
            /\ \E l \in unknown : unknown = {l} /\ Search!uncheckedEnqueue(l, {})
            /\ pc' = "adding"
            /\ UNCHANGED <<ok, clauses, learnts, watch, trailLim, qhead>>
  <2>1. PICK l \in unknown : unknown = {l} /\ Search!uncheckedEnqueue(l, {})
    BY <1>10
  <2>2. l \in Nonzero /\ Search!Undef(l) /\ l \in ps
    BY <1>5, <1>10 DEF unknown, Search!Undef
  <2>3. /\ TrailRight(formula', trail', trailLim, vardata')
        /\ Continues(trail, vardata, trail', vardata')
        /\ vardata'[Search!VarOf(l)].level = 0
        /\ Len(trail') = Len(trail) + 1
        /\ OnTrail(trail', l)
    <3>1. {} \in SUBSET Nonzero /\ formula \subseteq formula' /\ Follows(formula', {l})
      BY <1>1, <1>5, <2>1
    <3> QED
      BY <1>2, <1>10, <2>1, <2>2, <3>1, EnqueueInv
  <2>4. ClausesRight'
    BY <1>2, <1>6, <1>10 DEF ClausesRight
  <2>5. QueueRight'
    BY <1>1, <1>2, <1>10, <2>3 DEF QueueRight, Search!decisionLevel
  <2>6. WatchedRight'
    <3>1. \A d \in DOMAIN watch : d \in SUBSET Nonzero /\ watch[d] \subseteq d
      BY <1>2 DEF ClausesRight
    <3>2. WatchesRight(watch, trail, vardata, qhead, pending) /\ qhead \in 0 .. Len(trail)
          /\ Len(trail') \in Nat
      BY <1>2, <1>10, <2>3 DEF WatchedRight, QueueRight
    <3>3. WatchesRight(watch, trail', vardata', qhead, pending)
      BY <1>2, <2>3, <3>1, <3>2, WatchEnqueue DEF TheTrail
    <3> QED
      BY <1>1, <1>10, <3>3 DEF WatchedRight
  <2>7. FormulaKept'
    <3>1. \A k : OnTrail(trail, k) /\ Search!Level(k) = 0 => OnTrail(trail', k) /\ Search!Level(k)' = 0
      <4>1. Len(trail') \in Nat
        BY <1>2, <2>3
      <4> QED
        BY <1>2, <2>3, <4>1, OnTrailGrows DEF Search!Level
    <3>2. \E k \in ps : OnTrail(trail', k) /\ Search!Level(k)' = 0
      BY <2>2, <2>3 DEF Search!Level
    <3> QED
      BY <1>1, <1>2, <1>3, <1>4, <1>10, <3>1, <3>2, FormulaGrows
  <2> QED
    BY <1>1, <1>2, <1>3, <1>4, <1>10, <2>3, <2>4, <2>5, <2>6, <2>7 DEF SearchInv
<1>11. CASE /\ ok /\ ~satisfied /\ Search!Cardinality(unknown) > 1
            /\ clauses' = clauses \union {unknown}
            /\ watch' = Search!Watching(unknown, Search!FirstTwo(unknown))
            /\ UNCHANGED <<ok, learnts, trail, trailLim, vardata, qhead, pc>>
  <2>1. PICK a, b \in unknown : a # b /\ Search!FirstTwo(unknown) = {a, b}
    BY <1>5, <1>11, FirstTwoAre
  <2>2. /\ DOMAIN watch' = DOMAIN watch \union {unknown}
        /\ \A d \in DOMAIN watch : watch'[d] = watch[d]
        /\ unknown \notin DOMAIN watch => watch'[unknown] = {a, b}
    BY <1>11, <2>1 DEF Search!Watching
  <2>3. ClausesRight'
    <3>1. DOMAIN watch' = clauses' \union learnts'
      BY <1>2, <1>11, <2>2 DEF ClausesRight
    <3>2. ASSUME NEW d \in DOMAIN watch'
          PROVE  /\ d \in SUBSET Nonzero
                 /\ IsFiniteSet(d)
                 /\ Follows(formula', d)
                 /\ \E x, y \in d : x # y /\ watch'[d] = {x, y}
      <4>1. CASE d \in DOMAIN watch
        BY <1>2, <1>6, <2>2, <4>1 DEF ClausesRight
      <4>2. CASE d = unknown /\ unknown \notin DOMAIN watch
        BY <1>5, <2>1, <2>2, <4>2
      <4> QED
        BY <2>2, <4>1, <4>2
    <3> QED
      BY <3>1, <3>2 DEF ClausesRight
  <2>4. QueueRight'
    BY <1>1, <1>2, <1>11 DEF QueueRight, Search!decisionLevel
  <2>5. WatchedRight'
    <3> SUFFICES ASSUME NEW d \in DOMAIN watch', NEW w \in watch'[d], NEW i \in 1 .. qhead,
                        trail[i] = -w
                 PROVE  \E k \in d : OnTrail(trail, k)
                                     /\ vardata[Search!VarOf(k)].level <= vardata[Search!VarOf(w)].level
      BY <1>11 DEF WatchedRight, WatchesRight
    <3>1. CASE d \in DOMAIN watch
      BY <1>2, <1>11, <2>2, <3>1 DEF WatchedRight, WatchesRight
    <3>2. CASE d = unknown /\ unknown \notin DOMAIN watch
      <4>1. w \in unknown
        BY <2>1, <2>2, <3>2
      <4>2. ~Search!False(w)
        BY <4>1 DEF unknown
      <4>3. i \in 1 .. Len(trail)
        BY <1>2 DEF QueueRight
      <4>4. Search!True(-w)
        BY <1>2, <4>3, TrailFacts
      <4> QED
        BY <4>2, <4>4 DEF Search!True, Search!False
    <3> QED
      BY <2>2, <3>1, <3>2
  <2>6. FormulaKept'
    <3>1. \A l : OnTrail(trail, l) /\ Search!Level(l) = 0 => OnTrail(trail', l) /\ Search!Level(l)' = 0
      BY <1>11 DEF Search!Level
    <3>2. \E c \in clauses' : c \subseteq ps
      BY <1>5, <1>11
    <3> QED
      BY <1>1, <1>2, <1>3, <1>4, <1>11, <3>1, <3>2, FormulaGrows
  <2> QED
    BY <1>1, <1>2, <1>3, <1>4, <1>6, <1>11, <2>3, <2>4, <2>5, <2>6 DEF SearchInv
<1> QED
  BY <1>1, <1>8, <1>9, <1>10, <1>11

--------------------------------------------------------------------------------
(* The search is sound. *)

\* Steps that leave the state of the search as it is.
LEMMA SearchUnchanged ==
  ASSUME SearchInv,
         UNCHANGED <<calls, formula, created, assumptions, ok, clauses, learnts, watch, trail,
                     trailLim, vardata, qhead, pending, pc>>
  PROVE  SearchInv'
<1>1. TheTrail' /\ ClausesRight' /\ QueueRight' /\ (ok' => WatchedRight')
  <2>1. TheTrail'
    BY DEF SearchInv, TheTrail
  <2>2. ClausesRight'
    BY DEF SearchInv, ClausesRight
  <2>3. QueueRight'
    BY DEF SearchInv, QueueRight, Search!decisionLevel
  <2>4. ok' => WatchedRight'
    BY DEF SearchInv, WatchedRight
  <2> QED
    BY <2>1, <2>2, <2>3, <2>4
<1>2. FormulaKept'
  <2>1. FormulaKept
    BY DEF SearchInv
  <2> QED
    BY <2>1, FormulaStays DEF Search!Level
<1>3. pc' = "searching" => AssumptionsRight'
  BY DEF SearchInv, AssumptionsRight
<1> QED
  BY <1>1, <1>2, <1>3 DEF SearchInv, TheTrail

\* Every step of a search keeps the invariant.
LEMMA SearchStepInv ==
  ASSUME SearchInv, Search!Next
  PROVE  SearchInv'
<1>1. CASE Search!AddClause
  BY <1>1, AddClauseStep
<1>2. CASE Search!Solve
  BY <1>2, SolveStep
<1>3. CASE Search!SolveContradiction
  BY <1>3, ContradictionStep
<1>4. CASE Search!Dequeue
  BY <1>4, DequeueStep
<1>5. ASSUME NEW c \in pending,
             \/ Search!VisitSatisfied(c) \/ Search!VisitNewWatch(c) \/ Search!VisitUnit(c)
             \/ Search!ConflictAdding(c) \/ Search!Contradiction(c) \/ Search!Learn(c)
      PROVE  SearchInv'
  BY <1>5, VisitSatisfiedStep, VisitNewWatchStep, VisitUnitStep, ConflictAddingStep,
     RootContradictionStep, LearnStep
<1>6. CASE Search!Added
  BY <1>6, AddedStep
<1>7. CASE Search!Restart
  BY <1>7, RestartStep
<1>8. CASE Search!Simplify
  BY <1>8, SimplifyStep
<1>9. CASE Search!ReduceDB
  BY <1>9, ReduceDBStep
<1>10. CASE Search!AssumeTrue
  BY <1>10, AssumeTrueStep
<1>11. CASE Search!AssumeFalse
  BY <1>11, AssumeFalseStep
<1>12. CASE Search!ModelFound
  BY <1>12, ModelFoundStep
<1>13. ASSUME NEW l \in Search!Decisive, Search!Decide(l)
       PROVE  SearchInv'
  BY <1>13, DecideStep
<1> QED
  BY <1>1, <1>2, <1>3, <1>4, <1>5, <1>6, <1>7, <1>8, <1>9, <1>10, <1>11, <1>12, <1>13
     DEF Search!Next, Search!Search

\* Nothing but a search changes the variables of one.
LEMMA SearchInductive ==
  Spec => [](library = "search" => SearchInv)
<1>1. Init => (library = "search" => SearchInv)
  BY SearchInit DEF Init
<1>2. (library = "search" => SearchInv) /\ [Next]_vars => (library = "search" => SearchInv)'
  <2> SUFFICES ASSUME library = "search" => SearchInv, [Next]_vars, library' = "search"
               PROVE  SearchInv'
    OBVIOUS
  <2>1. CASE SearchStep
    BY <2>1, SearchStepInv DEF SearchStep
  <2>2. CASE SimplifierStep \/ AdaptorStep \/ AigerStep
    BY <2>2 DEF SimplifierStep, AdaptorStep, AigerStep
  <2>3. CASE UNCHANGED vars
    BY <2>3, SearchUnchanged DEF vars, backendVars, searchVars
  <2> QED
    BY <2>1, <2>2, <2>3 DEF Next
<1> QED
  BY <1>1, <1>2, PTL DEF Spec

\* What follows from the formula is implied by it.
LEMMA FollowsImplied ==
  ASSUME NEW C, Follows(formula, C)
  PROVE  Search!Implied(C)
BY DEF Search!Implied, Search!Models, Follows, Holds

\* Two watched literals are enough.
LEMMA NothingIsMissed ==
  ASSUME SearchInv
  PROVE  Search!NothingMissed
<1> SUFFICES ASSUME Search!NoConflict, NEW c \in DOMAIN watch, \A l \in c : ~Search!True(l)
             PROVE  Search!Cardinality({ l \in c : Search!Undef(l) }) > 1
  BY DEF Search!NothingMissed
<1>1. PICK a, b \in c : a # b /\ watch[c] = {a, b}
  BY DEF SearchInv, ClausesRight
<1>2. Search!Undef(a) /\ Search!Undef(b)
  BY <1>1, WatchedNotFalse DEF Search!Undef
<1>3. IsFiniteSet(c)
  BY DEF SearchInv, ClausesRight
<1>4. IsFiniteSet({ l \in c : Search!Undef(l) })
  BY <1>3, FS_Subset
<1>5. a \in { l \in c : Search!Undef(l) } /\ b \in { l \in c : Search!Undef(l) }
  BY <1>2
<1> QED
  BY <1>1, <1>4, <1>5, SmallSets

\* The invariant implies that no answer is wrong.
LEMMA SearchInvSound ==
  ASSUME SearchInv
  PROVE  Search!SearchSound
<1>1. TheTrail /\ ClausesRight
  BY DEF SearchInv, TheTrail
<1>2. DOMAIN trail = 1 .. Len(trail)
  BY <1>1, TrailFacts
<1>3. \A i \in 1 .. Len(trail) : Justified(formula, trail, vardata, i)
  BY <1>1 DEF TheTrail, TrailRight, ImpliedFromTrail
<1>4. Search!ReasonsRight
  BY <1>2, <1>3 DEF Search!ReasonsRight, Justified, Search!Reason, Search!NoReason
<1>5. Search!LearntImplied
  <2>1. \A c \in clauses \union learnts : Search!Implied(c)
    BY <1>1, FollowsImplied DEF ClausesRight
  <2>2. ASSUME pc = "idle", NEW i \in DOMAIN trail
        PROVE  Search!Implied({trail[i]})
    <3>1. Len(trailLim) = 0
      BY <2>2 DEF SearchInv
    <3>2. Search!Level(trail[i]) \in 0 .. 0
      BY <1>1, <1>2, <3>1, TrailFacts
    <3>3. Follows(formula, {trail[i]})
      BY <1>2, <1>3, <3>2 DEF Justified, Search!Level
    <3> QED
      BY <3>3, FollowsImplied
  <2> QED
    BY <2>1, <2>2 DEF Search!LearntImplied
<1> QED
  BY <1>4, <1>5, NothingIsMissed DEF Search!SearchSound

\* Solver::search of Minisat and of Glucose, whatever the clauses, assumptions and calls:
\* propagation misses no conflict and no unit clause, reasons imply what they are reasons
\* for, and what is learnt, kept or left out by simplify() and reduceDB() follows from the
\* clauses that were added.
THEOREM SearchIsSound == Spec => []SearchSound
<1>1. (library = "search" => SearchInv) => SearchSound
  BY SearchInvSound DEF SearchSound
<1> QED
  BY <1>1, SearchInductive, PTL

--------------------------------------------------------------------------------
(* The search implements a SAT solver. *)

\* Module SATSolver's query, of a search.
LEMMA QueryIs ==
  ASSUME library = "search", library' = "search"
  PROVE  /\ Abstract!Ask <=>
              /\ pc # "searching" /\ pc' = "searching"
              /\ UNCHANGED <<formula, answer>>
         /\ Abstract!AddClauses <=>
              /\ pc # "searching" /\ pc' # "searching"
              /\ formula \subseteq formula' /\ UNCHANGED answer
         /\ pc = "searching" /\ pc' # "searching" /\ UNCHANGED formula
              /\ Abstract!RightAnswer(Abstract!Clauses(0), Range(assumptions), answer')
            => Abstract!Answer
         /\ UNCHANGED <<formula, answer, assumptions, pc>> => UNCHANGED Abstract!vars
         /\ pc # "searching" /\ pc' # "searching" /\ UNCHANGED <<formula, answer>>
            => UNCHANGED Abstract!vars
BY DEF Abstract!Ask, Abstract!AddClauses, Abstract!Answer, Abstract!vars

\* An answer "unsat": the assumptions named in the final conflict contradict the clauses.
LEMMA UnsatIsRight ==
  ASSUME SearchInv, NEW conflict, Follows(formula, conflict), Search!ReturnUnsat(conflict),
         \A l \in conflict : -l \in Search!Range(assumptions) /\ l \in Nonzero
  PROVE  Abstract!RightAnswer(Abstract!Clauses(0), Range(assumptions), answer')
<1>1. answer' = [result |-> "unsat", lits |-> Search!Crits(conflict)]
  BY DEF Search!ReturnUnsat
<1>2. Search!Crits(conflict) \subseteq Search!Range(assumptions)
      /\ \A l \in conflict : -l \in Search!Crits(conflict)
  BY DEF Search!Crits
<1>3. Search!Range(assumptions) = Range(assumptions)
  BY DEF Search!Range, Range
<1>4. ASSUME NEW M,
             \A l \in Search!Crits(conflict) : Holds(l, M),
             \A c \in Abstract!Clauses(0) : \E l \in c : Holds(l, M)
      PROVE  FALSE
  <2>1. Satisfies(M)
    <3>1. \A x \in formula : x[1] = 0
      BY DEF SearchInv, FormulaKept
    <3> QED
      BY <1>4, <3>1 DEF Abstract!Clauses, Satisfies
  <2>2. PICK l \in conflict : Holds(l, M)
    BY <2>1, FollowsIs
  <2>3. Holds(-l, M)
    BY <1>2, <1>4
  <2> QED
    BY <2>2, <2>3, HoldsNegation
<1>5. ~Abstract!Satisfiable(Abstract!Clauses(0), Search!Crits(conflict))
  BY <1>4 DEF Abstract!Satisfiable, Holds
<1> QED
  BY <1>1, <1>2, <1>3, <1>5 DEF Abstract!RightAnswer

\* An answer "sat": a model of the clauses added, in which the assumptions are true.
LEMMA SatIsRight ==
  ASSUME SearchInv, Search!ModelFound
  PROVE  Abstract!RightAnswer(Abstract!Clauses(0), Range(assumptions), answer')
<1>1. /\ Search!NoConflict /\ Search!decisionLevel >= Len(assumptions)
      /\ \A v \in created : ~Search!Undef(v)
      /\ answer' = [result |-> "sat", lits |-> Search!Range(trail)]
  BY DEF Search!ModelFound
<1>2. /\ TheTrail /\ ClausesRight /\ FormulaKept /\ ok /\ pc = "searching" /\ AssumptionsRight
      /\ created \in SUBSET (Nat \ {0}) /\ assumptions \in Seq(Nonzero)
  BY <1>1 DEF SearchInv, TheTrail, Search!NoConflict
<1>3. /\ Len(trailLim) \in Nat /\ Search!decisionLevel = Len(trailLim) /\ trail \in Seq(Nonzero)
      /\ Len(assumptions) \in Nat
      /\ \A l : Search!True(l) <=> l \in Search!Range(trail)
      /\ \A l \in Nonzero : ~(Search!True(l) /\ Search!False(l))
      /\ Search!Range(trail) \in SUBSET Nonzero
  <2>1. \A l \in Search!Range(trail) : l \in Nonzero
    BY <1>2, TrailFacts DEF Search!True
  <2> QED
    BY <1>2, <2>1, TrailFacts DEF Search!True
<1>4. \A l \in Nonzero : Search!VarOf(l) \in created => Search!True(l) \/ Search!True(-l)
  <2> SUFFICES ASSUME NEW l \in Nonzero, Search!VarOf(l) \in created PROVE Search!True(l) \/ Search!True(-l)
    OBVIOUS
  <2>1. Search!True(Search!VarOf(l)) \/ Search!True(-Search!VarOf(l))
    BY <1>1 DEF Search!Undef, Search!True, Search!False
  <2> QED
    BY <2>1 DEF Search!VarOf, Nonzero
<1>5. ASSUME NEW x \in formula
      PROVE  \E l \in x[2] : Search!True(l)
  <2>1. /\ x[2] \in SUBSET Nonzero
        /\ \A l \in x[2] : Search!VarOf(l) \in created
        /\ \/ \E l \in x[2] : -l \in x[2]
           \/ \E l \in x[2] : OnTrail(trail, l) /\ Search!Level(l) = 0
           \/ \E c \in clauses : c \subseteq x[2]
    BY <1>2 DEF FormulaKept
  <2>2. CASE \E l \in x[2] : -l \in x[2]
    BY <1>4, <2>1, <2>2
  <2>3. CASE \E l \in x[2] : OnTrail(trail, l)
    BY <1>2, <2>3, TrailFacts DEF OnTrail
  <2>4. CASE \E c \in clauses : c \subseteq x[2]
    <3>1. PICK c \in clauses : c \subseteq x[2]
      BY <2>4
    <3>2. c \in DOMAIN watch
      BY <1>2 DEF ClausesRight
    <3> SUFFICES ASSUME \A l \in c : ~Search!True(l) PROVE FALSE
      BY <3>1
    <3>3. \A l \in watch[c] : ~Search!False(l)
      BY <1>1, <3>2, WatchedNotFalse
    <3>4. PICK a \in c : ~Search!False(a)
      BY <1>2, <3>2, <3>3 DEF ClausesRight
    <3>5. ~Search!True(-a)
      BY <3>4 DEF Search!True, Search!False
    <3> QED
      BY <1>4, <2>1, <3>1, <3>4, <3>5
  <2> QED
    BY <2>1, <2>2, <2>3, <2>4
<1>6. Range(assumptions) \subseteq Search!Range(trail)
  <2> SUFFICES ASSUME NEW j \in 1 .. Len(assumptions) PROVE Search!True(assumptions[j])
    BY <1>2, <1>3 DEF Range
  <2>1. OnTrail(trail, assumptions[j])
    BY <1>1, <1>2, <1>3 DEF AssumptionsRight, AssumptionsOn
  <2> QED
    BY <1>2, <2>1, TrailFacts DEF OnTrail
<1>7. Search!Range(trail) \intersect Abstract!Negation(Search!Range(trail)) = {}
  <2> SUFFICES ASSUME NEW l \in Search!Range(trail), -l \in Search!Range(trail) PROVE FALSE
    <3>1. \A l \in Search!Range(trail) : l \in Nonzero
      BY <1>3
    <3> QED
      BY <3>1, VarsEqual DEF Abstract!Negation
  <2>1. Search!True(l) /\ Search!False(l) /\ l \in Nonzero
    BY <1>3 DEF Search!True, Search!False
  <2> QED
    BY <1>3, <2>1
<1>8. \A c \in Abstract!Clauses(0) : c \intersect Search!Range(trail) # {}
  BY <1>3, <1>5 DEF Abstract!Clauses
<1> QED
  BY <1>1, <1>6, <1>7, <1>8 DEF Abstract!RightAnswer, Abstract!IsModel

\* analyzeFinal finds assumptions only.
LEMMA FalseAssumptionIsRight ==
  ASSUME SearchInv, Search!AssumeFalse
  PROVE  Abstract!RightAnswer(Abstract!Clauses(0), Range(assumptions), answer')
<1> DEFINE p == assumptions[Search!decisionLevel + 1]
<1>1. /\ Search!NoConflict /\ Search!decisionLevel < Len(assumptions) /\ Search!False(p)
      /\ Search!ReturnUnsat(Search!analyzeFinal(p))
  BY DEF Search!AssumeFalse
<1>2. TheTrail /\ AssumptionsRight /\ assumptions \in Seq(Nonzero)
  BY <1>1 DEF SearchInv, TheTrail, Search!NoConflict
<1>3. Len(trailLim) \in Nat /\ Search!decisionLevel = Len(trailLim) /\ Len(assumptions) \in Nat
  BY <1>2, TrailFacts
<1>4. p \in Nonzero /\ p \in Search!Range(assumptions) /\ p \in FalseUpto(Len(trail))
  <2>1. Search!decisionLevel + 1 \in 1 .. Len(assumptions)
    BY <1>1, <1>3
  <2>2. p \in Nonzero /\ p \in Search!Range(assumptions)
    BY <1>2, <2>1 DEF Search!Range
  <2> QED
    BY <1>1, <1>2, <2>2, TrailFacts
<1> HIDE DEF p
<1>5. /\ Follows(formula, Search!analyzeFinal(p))
      /\ \A l \in Search!analyzeFinal(p) :
           l = -p \/ (l \in FalseUpto(Len(trail)) /\ Search!Reason(l) = {} /\ Search!Level(l) > 0)
  BY <1>2, <1>4, FinalIs
<1>6. ASSUME NEW l \in Search!analyzeFinal(p)
      PROVE  -l \in Search!Range(assumptions) /\ l \in Nonzero
  <2>1. CASE l = -p
    BY <1>4, <2>1, VarsEqual
  <2>2. CASE l \in FalseUpto(Len(trail)) /\ Search!Reason(l) = {} /\ Search!Level(l) > 0
    <3>1. PICK i \in 1 .. Len(trail) : l = -trail[i]
      BY <2>2 DEF FalseUpto
    <3>2. /\ trail[i] \in Nonzero /\ l \in Nonzero /\ trail[i] = -l
          /\ Search!Level(trail[i]) \in 0 .. Len(trailLim)
      <4>1. trail[i] \in Nonzero /\ Search!Level(trail[i]) \in 0 .. Len(trailLim)
        BY <1>2, TrailFacts
      <4> QED
        BY <3>1, <4>1, VarsEqual
    <3>3. Search!Level(trail[i]) = Search!Level(l) /\ Search!Reason(trail[i]) = Search!Reason(l)
      BY <1>2, <3>2, TrailFacts
    <3>4. Search!Level(trail[i]) \in 1 .. Len(assumptions) /\ Search!Reason(trail[i]) = {}
      BY <1>1, <1>3, <2>2, <3>2, <3>3
    <3>5. trail[i] = assumptions[Search!Level(trail[i])]
      BY <1>2, <3>4 DEF AssumptionsRight, AssumptionsOn, Search!Level, Search!Reason
    <3>6. trail[i] \in Search!Range(assumptions)
      BY <1>2, <3>4, <3>5 DEF Search!Range
    <3> QED
      BY <3>2, <3>6
  <2> QED
    BY <1>5, <2>1, <2>2
<1> QED
  BY <1>1, <1>5, <1>6, UnsatIsRight DEF p

\* Every step of a search is one of a SAT solver, or none.
LEMMA SearchStepRefines ==
  ASSUME SearchInv, Search!Next, library = "search", library' = "search"
  PROVE  Abstract!Next \/ UNCHANGED Abstract!vars
<1>1. CASE Search!AddClause
  <2>1. /\ pc # "searching" /\ pc' # "searching" /\ formula \subseteq formula'
        /\ UNCHANGED answer
    BY <1>1 DEF Search!AddClause
  <2> QED
    BY <2>1, QueryIs DEF Abstract!Next
<1>2. CASE Search!Solve
  BY <1>2, QueryIs DEF Search!Solve, Abstract!Next
<1>3. ASSUME pc = "searching", NEW conflict, Search!ReturnUnsat(conflict),
             Abstract!RightAnswer(Abstract!Clauses(0), Range(assumptions), answer')
      PROVE  Abstract!Next
  <2>1. pc' # "searching" /\ UNCHANGED formula
    BY <1>3 DEF Search!ReturnUnsat
  <2> QED
    BY <1>3, <2>1, QueryIs DEF Abstract!Next
<1>4. CASE Search!SolveContradiction
  <2>1. pc = "searching" /\ Search!ReturnUnsat({}) /\ Follows(formula, {})
    BY <1>4 DEF Search!SolveContradiction, SearchInv, FormulaKept
  <2>2. Abstract!RightAnswer(Abstract!Clauses(0), Range(assumptions), answer')
    BY <2>1, UnsatIsRight
  <2> QED
    BY <1>3, <2>1, <2>2
<1>5. ASSUME NEW c \in pending, Search!Contradiction(c)
      PROVE  Abstract!Next
  <2>1. pc = "searching" /\ Search!ReturnUnsat({}) /\ Search!ConflictIn(c) /\ Len(trailLim) = 0
    BY <1>5 DEF Search!Contradiction, Search!decisionLevel
  <2>2. Follows(formula, {})
    BY <2>1, RootConflict
  <2>3. Abstract!RightAnswer(Abstract!Clauses(0), Range(assumptions), answer')
    BY <2>1, <2>2, UnsatIsRight
  <2> QED
    BY <1>3, <2>1, <2>3
<1>6. CASE Search!AssumeFalse
  <2>1. /\ pc = "searching"
        /\ Search!ReturnUnsat(Search!analyzeFinal(assumptions[Search!decisionLevel + 1]))
    BY <1>6 DEF Search!AssumeFalse, Search!NoConflict
  <2>2. Abstract!RightAnswer(Abstract!Clauses(0), Range(assumptions), answer')
    BY <1>6, FalseAssumptionIsRight
  <2> QED
    BY <1>3, <2>1, <2>2
<1>7. CASE Search!ModelFound
  <2>1. pc = "searching" /\ pc' # "searching" /\ UNCHANGED formula
    BY <1>7 DEF Search!ModelFound, Search!NoConflict
  <2>2. Abstract!RightAnswer(Abstract!Clauses(0), Range(assumptions), answer')
    BY <1>7, SatIsRight
  <2> QED
    BY <2>1, <2>2, QueryIs DEF Abstract!Next
<1>8. ASSUME UNCHANGED <<formula, answer, assumptions, pc>>
      PROVE  UNCHANGED Abstract!vars
  BY <1>8, QueryIs
<1>9. CASE Search!Dequeue
  BY <1>8, <1>9 DEF Search!Dequeue, Search!callVars
<1>10. ASSUME NEW c \in pending,
              Search!VisitSatisfied(c) \/ Search!VisitNewWatch(c) \/ Search!VisitUnit(c) \/ Search!Learn(c)
       PROVE  UNCHANGED Abstract!vars
  <2>1. UNCHANGED <<Search!callVars, pc>>
    BY <1>10
    DEF Search!VisitSatisfied, Search!VisitNewWatch, Search!VisitUnit, Search!Visit,
        Search!Learn
  <2> QED
    BY <1>8, <2>1 DEF Search!callVars
<1>11. ASSUME NEW c \in pending, Search!ConflictAdding(c)
       PROVE  UNCHANGED Abstract!vars
  <2>1. pc # "searching" /\ pc' # "searching" /\ UNCHANGED <<formula, answer>>
    BY <1>11 DEF Search!ConflictAdding, Search!callVars
  <2> QED
    BY <2>1, QueryIs
<1>12. CASE Search!Added
  <2>1. pc # "searching" /\ pc' # "searching" /\ UNCHANGED <<formula, answer>>
    BY <1>12 DEF Search!Added, Search!callVars
  <2> QED
    BY <2>1, QueryIs
<1>13. CASE Search!Restart \/ Search!Simplify \/ Search!ReduceDB \/ Search!AssumeTrue \/ \E l \in Search!Decisive : Search!Decide(l)
  <2>1. UNCHANGED <<Search!callVars, pc>>
    BY <1>13
    DEF Search!Restart, Search!Simplify, Search!ReduceDB, Search!AssumeTrue,
        Search!Decide
  <2> QED
    BY <1>8, <2>1 DEF Search!callVars
<1> QED
  BY <1>1, <1>2, <1>4, <1>5, <1>6, <1>7, <1>9, <1>10, <1>11, <1>12, <1>13
  DEF Search!Next, Search!Search

\* Minisat and Glucose answer every query as a SAT solver does: "sat" with a model of the
\* clauses added so far in which the assumptions are true, "unsat" with assumptions that
\* contradict the clauses, whatever was learnt in the queries before.
THEOREM SearchImplementsSAT ==
  Spec /\ library = "search" => Abstract!Init /\ [][Abstract!Next]_(Abstract!vars)
<1>1. Init /\ library = "search" => Abstract!Init
  BY DEF Init, Search!Init, Abstract!Init, Abstract!NoAnswer, Search!NoAnswer
<1>2. library = "search" /\ [Next]_vars => (library = "search")'
  BY DEF Next, SearchStep, SimplifierStep, AdaptorStep, AigerStep, vars
<1>3. (library = "search" => SearchInv) /\ library = "search" /\ [Next]_vars
      => [Abstract!Next]_(Abstract!vars)
  <2> SUFFICES ASSUME SearchInv, library = "search", [Next]_vars
               PROVE  Abstract!Next \/ UNCHANGED Abstract!vars
    OBVIOUS
  <2>1. library' = "search"
    BY <1>2
  <2>2. CASE SearchStep
    BY <2>1, <2>2, SearchStepRefines DEF SearchStep
  <2>3. CASE UNCHANGED vars
    BY <2>1, <2>3, QueryIs DEF vars
  <2> QED
    BY <2>2, <2>3 DEF Next, SimplifierStep, AdaptorStep, AigerStep
<1> QED
  BY <1>1, <1>2, <1>3, SearchInductive, PTL DEF Spec

================================================================================
