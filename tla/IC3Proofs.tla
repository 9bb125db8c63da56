------------------------------- MODULE IC3Proofs -------------------------------
(******************************************************************************)
(* The lemmas of IC3 hold of the states that can be reached, the assertions   *)
(* of the solver hold, and its answers to the debugger are right, whatever    *)
(* the systems and the number of calls.                                       *)
(*                                                                            *)
(* A step from frame n need not end in frame n + 1 (module IC3Debugger's      *)
(* StepsStayInFrames): generalization may put back a literal whose absence    *)
(* the last query relied on.  What does hold is about the states that steps   *)
(* from frame n reach from the initial states: a lemma of level n + 1         *)
(* excludes those.                                                            *)
(******************************************************************************)
EXTENDS IC3Debugger, SharedTheorems

--------------------------------------------------------------------------------
(* The inductive invariant. *)

\* X has the initial states, and what a step from a state of frame n in X leads to.
ClosedIn(n, X) ==
  /\ InitialStates \subseteq X
  /\ \A s \in X, i \in Input : InFrame(n, s, i) => sys.step[s][i] \in X

\* The states that can be reached by steps from states of frame n; those that can
\* be reached at all, when n is LevelInf.
Closure(n) == { s \in State : \A X \in SUBSET State : ClosedIn(n, X) => s \in X }

\* Cubes that hold in none of some states.
Avoids(X, c) == \A s \in X, i \in Input : ~Holds(c, s, i)

Cube == (SUBSET Literal) \ {{}}

\* The frame whose steps a lemma of level n, other than 0, is about.
FrameBelow(n) == IF n = LevelInf THEN LevelInf ELSE n - 1

TypeInv ==
  /\ sys \in Systems
  /\ DOMAIN trace \subseteq Cube
  /\ trace \in [DOMAIN trace -> 0 .. LevelInf]
  /\ k \in 1 .. LevelInf
  /\ queue \subseteq [cti : Cube, level : 0 .. k, path : Seq(State)]
  /\ cardinality \in 0 .. CardinalityInf
  /\ blocked \subseteq (SUBSET sys.debug) \ {{}}
  /\ over \subseteq sys.debug
  /\ pc \in {"idle", "restricted", "isSafe", "block", "generalize", "push", "pushed", "done"}

\* The restrictions are those of the client's settings, and are lemmas.
RestrictionsInv ==
  /\ restrictions = Restrictions(cardinality, blocked) \union OtherGates(over)
  /\ InitialCubes(restrictions) \subseteq DOMAIN trace
  /\ pc = "idle" => over = sys.debug

\* What the lemmas exclude.
TraceInv ==
  \A c \in DOMAIN trace :
    /\ Avoids(InitialStates, c)
    /\ trace[c] > 0 => Avoids(Closure(FrameBelow(trace[c])), c)

\* The lifter's lemmas hold everywhere.
LifterInv == lifter # <<>> => lifter[1] \subseteq Frame(LevelInf)

\* An obligation at level n > 0 has no state that n - 1 steps can reach; all that
\* can be reached of any obligation leads to a bad state.
QueueInv ==
  /\ pc \notin {"block", "generalize"} => queue = {}
  /\ \A o \in queue :
       /\ o.level > 0 => Avoids(Reached[o.level - 1], o.cti)
       /\ o.level = 0 => o.path # <<>> /\ o.path[1] \in InitialStates \intersect LeadToBad(sys)
       /\ \A s \in Closure(LevelInf), i \in Input : Holds(o.cti, s, i) => s \in LeadToBad(sys)

\* The cube that is generalized can become a lemma at any time.
GeneralizeInv ==
  pc = "generalize" =>
    /\ obl \in queue
    /\ obl.level > 0
    /\ ~syntacticBlock(obl)
    /\ gen \in Cube
    /\ gen \subseteq obl.cti
    /\ Avoids(InitialStates, gen)
    /\ Avoids(Closure(obl.level - 1), gen)

\* The target waits at level k until it is a lemma.
TargetInv ==
  /\ pc = "isSafe" => Avoids(Reached[k - 1], Target)
  /\ pc \in {"block", "generalize"} =>
       /\ k < LevelInf
       /\ [cti |-> Target, level |-> k, path |-> <<>>] \in queue \/ Target \in FullFrame(k)
  /\ pc \in {"push", "pushed"} => Target \in FullFrame(k)
  /\ pc = "push" => at \in Nat \ {0} /\ \A n \in 1 .. at - 1 : Frame(n) # {}

\* An answer is about the initial states and the bad ones.
AnswerInv ==
  pc = "done" =>
    IF result.answer = "safe" THEN InitialStates \intersect LeadToBad(sys) = {}
    ELSE result.cex[1] \in InitialStates \intersect LeadToBad(sys)

Inv ==
  /\ TypeInv
  /\ RestrictionsInv
  /\ TraceInv
  /\ LifterInv
  /\ QueueInv
  /\ GeneralizeInv
  /\ TargetInv
  /\ AnswerInv

--------------------------------------------------------------------------------
(* Steps, and the two functions defined by recursion. *)

\* Steps stay among the states; there are inputs.
LEMMA StepType ==
  ASSUME sys \in Systems
  PROVE  /\ \A s \in State, i \in Input : sys.step[s][i] \in State
         /\ {} \in Input
         /\ sys.debug \subseteq sys.latches
         /\ sys.latches \subseteq 0 .. MaxVar
         /\ IsFiniteSet(sys.debug)
<1>1. /\ sys.step \in [State -> [Input -> State]]
      /\ sys.debug \subseteq sys.latches /\ sys.latches \subseteq 0 .. MaxVar
  BY SystemsAssumption DEF State, Input
<1>2. IsFiniteSet(sys.debug)
  <2>1. IsFiniteSet(0 .. MaxVar)
    BY ConstantsAssumption, FS_Interval
  <2> QED
    BY <1>1, <2>1, FS_Subset
<1> QED
  BY <1>1, <1>2 DEF Input

\* The states that n steps can reach are defined for every n.
LEMMA ReachedIs ==
  ASSUME sys \in Systems
  PROVE  /\ Reached \in [Nat -> SUBSET State]
         /\ Reached[0] = InitialStates
         /\ \A n \in Nat : Reached[n + 1] =
              Reached[n] \union { sys.step[s][i] : s \in Reached[n], i \in Input }
<1> DEFINE After(X) == X \union { sys.step[s][i] : s \in X, i \in Input }
           step == [x \in Nat \X SUBSET State |-> After(x[2])]
           Is(R) == R = [n \in Nat |-> IF n = 0 THEN InitialStates ELSE After(R[n - 1])]
<1>1. step \in [Nat \X SUBSET State -> SUBSET State]
  BY StepType
<1>2. InitialStates \in SUBSET State
  BY DEF InitialStates
<1>3. PICK R : R \in Recursive(SUBSET State, InitialStates, step)
  <2> HIDE DEF step
  <2> QED
    BY <1>1, <1>2, RecursiveExists, ZenonT(30)
<1>4. Is(R)
  <2>1. \A n \in Nat, X \in SUBSET State : step[<<n, X>>] = After(X)
    <3> HIDE DEF After
    <3> QED
      OBVIOUS
  <2> HIDE DEF step, After
  <2>3. \A n \in Nat : R[n] \in SUBSET State /\ R[n + 1] = After(R[n])
    BY <1>3, <2>1 DEF Recursive
  <2>2. ASSUME NEW n \in Nat, n # 0
        PROVE  R[n] = After(R[n - 1])
    <3>1. n - 1 \in Nat /\ (n - 1) + 1 = n
      BY <2>2
    <3> QED
      BY <2>3, <3>1
  <2> QED
    BY <1>3, <2>2 DEF Recursive
<1>5. Reached = CHOOSE X : Is(X)
  BY DEF Reached
<1>6. Is(Reached)
  <2> HIDE DEF Is
  <2> QED
    BY <1>4, <1>5
<1>7. Reached[0] = InitialStates
  BY <1>6
<1>8. \A n \in Nat : Reached[n + 1] = After(Reached[n])
  <2> HIDE DEF After
  <2> QED
    BY <1>6
<1>9. Reached \in [Nat -> SUBSET State]
  <2> DEFINE N == { n \in Nat : Reached[n] \in SUBSET State }
  <2>1. 0 \in N
    BY <1>2, <1>7
  <2>2. \A n \in Nat : n \in N => n + 1 \in N
    BY <1>8, StepType
  <2>3. Nat \subseteq N
    <3> HIDE DEF N
    <3> QED
      BY <2>1, <2>2, NaturalInduction
  <2>4. \A n \in Nat : Reached[n] \in SUBSET State
    BY <2>3
  <2>5. Reached = [n \in Nat |-> Reached[n]]
    <3> HIDE DEF After
    <3> QED
      BY <1>6
  <2> QED
    BY <2>4, <2>5
<1> QED
  BY <1>7, <1>8, <1>9

\* Literals of latches do not depend on the inputs.
LEMMA LatchLiterals ==
  ASSUME NEW c, \A l \in c : l # Bad, NEW s, NEW i, NEW j
  PROVE  Holds(c, s, i) <=> Holds(c, s, j)
BY DEF Holds, LitHolds

\* What reinitiate returns.
LEMMA ReinitiateIs ==
  ASSUME NEW orig \in SUBSET Literal, NEW c \in SUBSET orig, initiation(orig)
  PROVE  /\ c \subseteq reinitiate(c, orig)
         /\ reinitiate(c, orig) \subseteq orig
         /\ initiation(reinitiate(c, orig))
<1> DEFINE Next1(n, X) ==
             IF n \in X \ c /\ initiation(X \ {n}) THEN X \ {n} ELSE X
           step == [x \in Nat \X SUBSET orig |-> Next1(x[1], x[2])]
           Is(t) == t = [n \in Nat |-> IF n = 0 THEN orig ELSE Next1(n - 1, t[n - 1])]
           T == CHOOSE t : Is(t)
<1>1. step \in [Nat \X SUBSET orig -> SUBSET orig]
  <2>1. \A n \in Nat, X \in SUBSET orig : Next1(n, X) \in SUBSET orig
    OBVIOUS
  <2> HIDE DEF Next1
  <2> QED
    BY <2>1
<1>2. PICK t : t \in Recursive(SUBSET orig, orig, step)
  <2>1. orig \in SUBSET orig
    OBVIOUS
  <2> HIDE DEF step
  <2> QED
    BY <1>1, <2>1, RecursiveExists, ZenonT(30)
<1>3. Is(t)
  <2> HIDE DEF Next1
  <2>1. \A n \in Nat, X \in SUBSET orig : step[<<n, X>>] = Next1(n, X)
    OBVIOUS
  <2> HIDE DEF step
  <2>3. \A n \in Nat : t[n + 1] = Next1(n, t[n])
    BY <1>2, <2>1 DEF Recursive
  <2>2. ASSUME NEW n \in Nat, n # 0
        PROVE  t[n] = Next1(n - 1, t[n - 1])
    <3>1. n - 1 \in Nat /\ (n - 1) + 1 = n
      BY <2>2
    <3> QED
      BY <2>3, <3>1
  <2> QED
    BY <1>2, <2>2 DEF Recursive
<1>4. Is(T)
  <2> HIDE DEF Is
  <2> QED
    BY <1>3
<1>5. reinitiate(c, orig) = T[Bad + 1]
  BY DEF reinitiate
<1> HIDE DEF T
<1> DEFINE N == { n \in Nat : c \subseteq T[n] /\ T[n] \subseteq orig /\ initiation(T[n]) }
<1>6. 0 \in N
  BY <1>4
<1>7. ASSUME NEW n \in Nat, n \in N
      PROVE  n + 1 \in N
  <2>1. T[n + 1] = Next1(n, T[n])
    <3> HIDE DEF Next1
    <3> QED
      BY <1>4
  <2> QED
    BY <1>7, <2>1
<1>8. Nat \subseteq N
  <2> HIDE DEF N
  <2> QED
    BY <1>6, <1>7, NaturalInduction
<1>9. Bad + 1 \in Nat
  BY ConstantsAssumption DEF Bad
<1> QED
  BY <1>5, <1>8, <1>9

--------------------------------------------------------------------------------
(* Cubes of literals of latches, and frame 0. *)

\* The literals of debug latches.
LEMMA DebugLiterals ==
  ASSUME sys \in Systems, NEW l \in sys.debug
  PROVE  /\ Lit(l) \in Literal
         /\ Lit(l) # Bad
         /\ \A s, i : LitHolds(Lit(l), s, i) <=> l \in s
<1>1. l \in 0 .. MaxVar
  BY StepType
<1>2. Lit(l) \in Literal /\ Lit(l) # Bad /\ VarOf(Lit(l)) = l /\ Lit(l) % 2 = 0
  BY <1>1, ConstantsAssumption DEF Literal, Bad, VarOf, Lit
<1>3. \A s, i : LitHolds(Lit(l), s, i) <=> (l \in s) = TRUE
  BY <1>2 DEF LitHolds
<1> QED
  BY <1>2, <1>3

\* The cube of some debug latches.
LEMMA BlockCubeIs ==
  ASSUME sys \in Systems, NEW D \in SUBSET sys.debug
  PROVE  /\ BlockCube(D) \in SUBSET Literal
         /\ BlockCube(D) = {} <=> D = {}
         /\ \A l \in BlockCube(D) : l # Bad
         /\ \A s, i : Holds(BlockCube(D), s, i) <=> D \subseteq s
<1>1. BlockCube(D) \in SUBSET Literal /\ \A l \in BlockCube(D) : l # Bad
  BY DebugLiterals DEF BlockCube
<1>2. BlockCube(D) = {} <=> D = {}
  BY DEF BlockCube
<1>3. ASSUME NEW s, NEW i
      PROVE  Holds(BlockCube(D), s, i) <=> D \subseteq s
  BY DebugLiterals DEF BlockCube, Holds
<1> QED
  BY <1>1, <1>2, <1>3

\* The restrictions as cubes of sets of debug latches.
LEMMA RestrictionCubes ==
  ASSUME sys \in Systems, NEW n \in Nat,
         NEW B \in SUBSET ((SUBSET sys.debug) \ {{}}), NEW G \in SUBSET sys.debug,
         NEW c \in Restrictions(n, B) \union OtherGates(G)
  PROVE  \E D \in (SUBSET sys.debug) \ {{}} :
           /\ c = BlockCube(D)
           /\ \/ n # CardinalityInf /\ Cardinality(D) = n + 1
              \/ D \in B
              \/ \E l \in sys.debug \ G : D = {l}
<1>1. CASE c \in CardinalityCubes(n)
  <2>1. n # CardinalityInf
    BY <1>1 DEF CardinalityCubes
  <2>2. PICK D \in SUBSET sys.debug : Cardinality(D) = n + 1 /\ c = BlockCube(D)
    BY <1>1, <2>1 DEF CardinalityCubes, BlockCube
  <2>3. D # {}
    <3>1. Cardinality({}) = 0
      BY FS_EmptySet
    <3>2. n + 1 # 0
      OBVIOUS
    <3> QED
      BY <2>2, <3>1, <3>2
  <2>4. D \in (SUBSET sys.debug) \ {{}}
    BY <2>3
  <2> QED
    BY <2>1, <2>2, <2>4
<1>2. CASE c \in BlockCubes(B)
  BY <1>2 DEF BlockCubes
<1>3. CASE c \in OtherGates(G)
  <2>1. PICK l \in sys.debug \ G : c = {Lit(l)}
    BY <1>3 DEF OtherGates
  <2>2. c = BlockCube({l})
    BY <2>1 DEF BlockCube
  <2> QED
    BY <2>2
<1> QED
  BY <1>1, <1>2, <1>3 DEF Restrictions

\* Initial cubes exclude states, whatever the inputs.
LEMMA InitialCubeIs ==
  ASSUME sys \in Systems, NEW n \in Nat,
         NEW B \in SUBSET ((SUBSET sys.debug) \ {{}}), NEW G \in SUBSET sys.debug,
         NEW c \in InitialCubes(Restrictions(n, B) \union OtherGates(G))
  PROVE  c \in Cube /\ \A l \in c : l # Bad
<1>1. CASE c \in sys.init
  <2>1. c \in SUBSET Literal /\ c # {} /\ \A l \in c : VarOf(l) \in sys.latches
    BY <1>1, SystemsAssumption
  <2>2. c \in Cube /\ \A l \in c : VarOf(l) \in 0 .. MaxVar
    BY <2>1, StepType DEF Cube
  <2>3. VarOf(Bad) \notin 0 .. MaxVar
    BY ConstantsAssumption DEF VarOf, Bad
  <2> QED
    BY <2>2, <2>3
<1>2. CASE c \in Restrictions(n, B) \union OtherGates(G)
  <2>1. PICK D \in (SUBSET sys.debug) \ {{}} : c = BlockCube(D)
    BY <1>2, RestrictionCubes, SMTT(30)
  <2> QED
    BY <2>1, BlockCubeIs DEF Cube
<1> QED
  BY <1>1, <1>2 DEF InitialCubes

\* The cubes that exclude initial states are about latches.
LEMMA InitialCubeLiterals ==
  ASSUME TypeInv, RestrictionsInv, NEW c \in InitialCubes(restrictions)
  PROVE  c \in Cube /\ \A l \in c : l # Bad
<1>1. /\ sys \in Systems /\ cardinality \in Nat /\ over \in SUBSET sys.debug
      /\ blocked \in SUBSET ((SUBSET sys.debug) \ {{}})
  BY DEF TypeInv
<1>2. c \in InitialCubes(Restrictions(cardinality, blocked) \union OtherGates(over))
  BY DEF RestrictionsInv
<1> QED
  BY <1>1, <1>2, InitialCubeIs

\* Frame 0 is the initial states.
LEMMA FrameZero ==
  ASSUME TypeInv, RestrictionsInv, TraceInv, NEW s \in State, NEW i \in Input
  PROVE  InFrame(0, s, i) <=> s \in InitialStates
<1>1. FullFrame(0) = DOMAIN trace
  <2>1. trace \in [DOMAIN trace -> 0 .. LevelInf]
    BY DEF TypeInv
  <2>2. \A c \in DOMAIN trace : trace[c] >= 0
    <3> SUFFICES ASSUME NEW c \in DOMAIN trace PROVE trace[c] >= 0
      OBVIOUS
    <3> QED
      BY <2>1, ConstantsAssumption
  <2> QED
    BY <2>2 DEF FullFrame
<1>2. ASSUME s \in InitialStates
      PROVE  InFrame(0, s, i)
  BY <1>1, <1>2 DEF InFrame, TraceInv, Avoids
<1>3. ASSUME InFrame(0, s, i), NEW c \in InitialCubes(restrictions), NEW j \in Input
      PROVE  ~Holds(c, s, j)
  BY <1>1, <1>3, InitialCubeLiterals, LatchLiterals DEF InFrame, RestrictionsInv
<1> QED
  BY <1>2, <1>3 DEF InitialStates

\* initiation asks frame 0, which is the initial states.
LEMMA InitiationIs ==
  ASSUME TypeInv, RestrictionsInv, TraceInv, NEW c
  PROVE  /\ Intersection(0, c) = {} <=> Avoids(InitialStates, c)
         /\ initiation(c) <=> c # {} /\ Avoids(InitialStates, c)
<1>1. InitialStates \subseteq State
  BY DEF InitialStates
<1>2. Intersection(0, c) = {} <=> Avoids(InitialStates, c)
  <2>1. ASSUME Intersection(0, c) = {}, NEW s \in InitialStates, NEW i \in Input
        PROVE  ~Holds(c, s, i)
    <3>1. <<s, i>> \notin Intersection(0, c) /\ <<s, i>> \in State \X Input
      BY <1>1, <2>1
    <3>2. InFrame(0, s, i)
      BY <1>1, FrameZero
    <3> QED
      BY <3>1, <3>2 DEF Intersection
  <2>2. ASSUME Avoids(InitialStates, c), NEW x \in Intersection(0, c)
        PROVE  FALSE
    BY <2>2, FrameZero DEF Intersection, Avoids
  <2> QED
    BY <2>1, <2>2 DEF Avoids
<1> QED
  BY <1>2 DEF initiation

--------------------------------------------------------------------------------
(* Closures: what the lemmas exclude excludes what steps can reach. *)

\* A closure is the least of the sets that are closed in its frame.
LEMMA ClosureIs ==
  ASSUME sys \in Systems, NEW n
  PROVE  /\ InitialStates \subseteq Closure(n)
         /\ Closure(n) \subseteq State
         /\ \A s \in Closure(n), i \in Input : InFrame(n, s, i) => sys.step[s][i] \in Closure(n)
         /\ \A X \in SUBSET State : ClosedIn(n, X) => Closure(n) \subseteq X
<1>1. InitialStates \subseteq State /\ Closure(n) \subseteq State
  BY DEF InitialStates, Closure
<1>2. \A X \in SUBSET State : ClosedIn(n, X) => Closure(n) \subseteq X
  BY DEF Closure
<1>3. InitialStates \subseteq Closure(n)
  BY <1>1 DEF Closure, ClosedIn
<1>4. ASSUME NEW s \in Closure(n), NEW i \in Input, InFrame(n, s, i),
             NEW X \in SUBSET State, ClosedIn(n, X)
      PROVE  sys.step[s][i] \in X
  BY <1>2, <1>4 DEF ClosedIn
<1>5. \A s \in Closure(n), i \in Input : sys.step[s][i] \in State
  BY <1>1, StepType
<1>6. \A s \in Closure(n), i \in Input : InFrame(n, s, i) => sys.step[s][i] \in Closure(n)
  BY <1>4, <1>5 DEF Closure
<1> QED
  BY <1>1, <1>2, <1>3, <1>6

\* Higher frames exclude less.
LEMMA ClosureMonotone ==
  ASSUME sys \in Systems, trace \in [DOMAIN trace -> 0 .. LevelInf],
         NEW m \in Nat, NEW n \in Nat, m <= n
  PROVE  Closure(m) \subseteq Closure(n)
<1>1. FullFrame(n) \subseteq FullFrame(m)
  <2> SUFFICES ASSUME NEW c \in DOMAIN trace, trace[c] >= n PROVE trace[c] >= m
    BY DEF FullFrame
  <2>1. trace[c] \in 0 .. LevelInf
    OBVIOUS
  <2> QED
    BY <2>1, ConstantsAssumption
<1>2. \A s, i : InFrame(m, s, i) => InFrame(n, s, i)
  BY <1>1 DEF InFrame
<1>3. \A X \in SUBSET State : ClosedIn(n, X) => ClosedIn(m, X)
  BY <1>2 DEF ClosedIn
<1> QED
  BY <1>3 DEF Closure

\* The part of the invariant that is about the trace.
Core == TypeInv /\ RestrictionsInv /\ TraceInv

\* What can be reached satisfies the lemmas that hold everywhere.
LEMMA ReachableInFrames ==
  ASSUME Core
  PROVE  /\ \A s \in Closure(LevelInf), i \in Input :
              InFrame(LevelInf, s, i) /\ sys.step[s][i] \in Closure(LevelInf)
         /\ \A c \in Frame(LevelInf) : Avoids(Closure(LevelInf), c)
<1>1. \A c \in FullFrame(LevelInf) : c \in DOMAIN trace /\ trace[c] = LevelInf
  <2> SUFFICES ASSUME NEW c \in DOMAIN trace, trace[c] >= LevelInf PROVE trace[c] = LevelInf
    BY DEF FullFrame
  <2>1. trace[c] \in 0 .. LevelInf
    BY DEF Core, TypeInv
  <2> QED
    BY <2>1, ConstantsAssumption
<1>2. \A c \in DOMAIN trace : trace[c] = LevelInf => Avoids(Closure(LevelInf), c)
  BY ConstantsAssumption DEF Core, TraceInv, FrameBelow
<1>3. \A s \in Closure(LevelInf), i \in Input : InFrame(LevelInf, s, i)
  BY <1>1, <1>2 DEF InFrame, Avoids
<1> QED
  BY <1>2, <1>3, ClosureIs DEF Frame, Core, TypeInv

\* The initial states of frame n - 1 and what n steps can reach is in its closure.
LEMMA ReachedInClosure ==
  ASSUME Core, NEW m \in Nat
  PROVE  \A n \in Nat : m <= n + 1 => Reached[m] \subseteq Closure(n)
<1> DEFINE N == { p \in Nat : \A n \in Nat : p <= n + 1 => Reached[p] \subseteq Closure(n) }
<1> USE DEF Core
<1>1. 0 \in N
  BY ReachedIs, ClosureIs DEF TypeInv
<1>2. ASSUME NEW p \in Nat, p \in N, NEW n \in Nat, p + 1 <= n + 1
      PROVE  Reached[p + 1] \subseteq Closure(n)
  <2>1. Reached[p] \subseteq Closure(n) /\ p <= n
    BY <1>2
  <2>2. Reached[p] \subseteq State
    BY ReachedIs DEF TypeInv
  <2>3. ASSUME NEW s \in Reached[p], NEW i \in Input, NEW c \in FullFrame(n)
        PROVE  ~Holds(c, s, i)
    <3>1. c \in DOMAIN trace /\ trace[c] >= n /\ trace[c] \in 0 .. LevelInf
      BY DEF FullFrame, TypeInv
    <3>2. CASE trace[c] = 0
      <4>1. p = 0
        BY <2>1, <3>1, <3>2
      <4> QED
        BY <3>1, <4>1, ReachedIs DEF TraceInv, Avoids, TypeInv
    <3>3. CASE trace[c] # 0
      <4>1. FrameBelow(trace[c]) \in Nat /\ p <= FrameBelow(trace[c]) + 1
        BY <2>1, <3>1, <3>3, ConstantsAssumption DEF FrameBelow
      <4>2. Reached[p] \subseteq Closure(FrameBelow(trace[c]))
        BY <1>2, <4>1
      <4>3. trace[c] > 0
        BY <3>1, <3>3
      <4> QED
        BY <3>1, <4>2, <4>3 DEF TraceInv, Avoids
    <3> QED
      BY <3>2, <3>3
  <2>4. \A s \in Reached[p], i \in Input : sys.step[s][i] \in Closure(n)
    BY <2>1, <2>3, ClosureIs DEF InFrame, TypeInv
  <2>5. Reached[p + 1] = Reached[p] \union { sys.step[s][i] : s \in Reached[p], i \in Input }
    BY ReachedIs DEF TypeInv
  <2> QED
    BY <2>1, <2>4, <2>5
<1>3. \A p \in Nat : p \in N => p + 1 \in N
  BY <1>2
<1>4. Nat \subseteq N
  <2> HIDE DEF N
  <2> QED
    BY <1>1, <1>3, NaturalInduction
<1> QED
  BY <1>4

\* A lemma of level n excludes what n steps can reach.
LEMMA LemmaAvoids ==
  ASSUME Core, NEW c \in DOMAIN trace
  PROVE  Avoids(Reached[trace[c]], c)
<1>1. trace[c] \in 0 .. LevelInf /\ sys \in Systems
  BY DEF Core, TypeInv
<1>2. CASE trace[c] = 0
  BY <1>1, <1>2, ReachedIs DEF Core, TraceInv
<1>3. CASE trace[c] # 0
  <2>1. FrameBelow(trace[c]) \in Nat /\ trace[c] <= FrameBelow(trace[c]) + 1 /\ trace[c] > 0
    BY <1>1, <1>3, ConstantsAssumption DEF FrameBelow
  <2>2. Reached[trace[c]] \subseteq Closure(FrameBelow(trace[c]))
    BY <1>1, <2>1, ReachedInClosure
  <2> QED
    BY <2>1, <2>2 DEF Core, TraceInv, Avoids
<1> QED
  BY <1>2, <1>3

--------------------------------------------------------------------------------
(* What cores and generalization give. *)

\* A core of a query about g and the frame n makes e, which has the literals of the
\* core, exclude what steps from frame n reach.  The initial states have to be
\* excluded by both, and e need not be a part of g.
LEMMA CoreAvoids ==
  ASSUME Core, NEW n, NEW g, NEW d \in Cores(n, g), NEW e, d \subseteq e,
         Avoids(InitialStates, g), Avoids(InitialStates, e)
  PROVE  Avoids(Closure(n), e)
<1> DEFINE X == { s \in State : \A i \in Input : ~Holds(g, s, i) /\ ~Holds(e, s, i) }
<1>1. sys \in Systems /\ d \subseteq g
  BY DEF Core, TypeInv, Cores
<1>2. InitialStates \subseteq X
  BY DEF Avoids, InitialStates
<1>3. ASSUME NEW s \in X, NEW i \in Input, InFrame(n, s, i)
      PROVE  sys.step[s][i] \in X
  <2>1. sys.step[s][i] \in State
    BY <1>1, StepType
  <2>2. <<s, i>> \in Outside(n, g)
    BY <1>3 DEF Outside
  <2>3. \A j \in NextInput(d) : ~Holds(d, sys.step[s][i], j)
    <3>1. \A j \in NextInput(d) : ~LeadsTo(<<s, i>>, j, d)
      BY <2>2 DEF Cores
    <3> QED
      BY <3>1 DEF LeadsTo
  <2>4. ASSUME NEW j \in Input
        PROVE  ~Holds(d, sys.step[s][i], j)
    <3>1. CASE Bad \in d
      BY <2>3, <3>1 DEF NextInput
    <3>2. CASE Bad \notin d
      <4>1. ~Holds(d, sys.step[s][i], {})
        BY <2>3, <3>2 DEF NextInput
      <4>2. \A l \in d : l # Bad
        BY <3>2
      <4> QED
        BY <4>1, <4>2, LatchLiterals
    <3> QED
      BY <3>1, <3>2
  <2>5. \A j \in Input : ~Holds(g, sys.step[s][i], j) /\ ~Holds(e, sys.step[s][i], j)
    BY <1>1, <2>4 DEF Holds
  <2> QED
    BY <2>1, <2>5
<1>4. X \in SUBSET State /\ ClosedIn(n, X)
  BY <1>2, <1>3 DEF ClosedIn
<1>5. Closure(n) \subseteq X
  <2> HIDE DEF X
  <2> QED
    BY <1>1, <1>4, ClosureIs
<1> QED
  BY <1>5 DEF Avoids

\* A lemma that holds in the next frame excludes what steps from its frame reach.
LEMMA ConsecutionAvoids ==
  ASSUME Core, NEW n, NEW c, consecution(n, c), Avoids(InitialStates, c)
  PROVE  Avoids(Closure(n), c)
<1>1. c \in Cores(n, c)
  BY DEF consecution, Cores
<1> QED
  BY <1>1, CoreAvoids

\* What initiate returns is between the core and the cube, and excludes the
\* initial states.
LEMMA InitiateIs ==
  ASSUME Core, NEW orig \in Cube, Avoids(InitialStates, orig), NEW c \in SUBSET orig
  PROVE  /\ c \subseteq initiate(c, orig)
         /\ initiate(c, orig) \subseteq orig
         /\ initiate(c, orig) \in Cube
         /\ Avoids(InitialStates, initiate(c, orig))
<1>1. initiation(orig)
  BY InitiationIs DEF Core, Cube
<1>2. orig \in SUBSET Literal
  BY DEF Cube
<1>3. /\ c \subseteq initiate(c, orig) /\ initiate(c, orig) \subseteq orig
      /\ initiation(initiate(c, orig))
  <2>1. CASE initiation(c)
    BY <2>1 DEF initiate
  <2>2. CASE ~initiation(c)
    BY <1>1, <1>2, <2>2, ReinitiateIs DEF initiate
  <2> QED
    BY <2>1, <2>2
<1>4. initiate(c, orig) # {} /\ Avoids(InitialStates, initiate(c, orig))
  BY <1>3, InitiationIs DEF Core
<1> QED
  BY <1>2, <1>3, <1>4 DEF Cube

--------------------------------------------------------------------------------
(* What a step changes of frames, closures and what can be reached. *)

\* Cubes mean the same before and after a step.
LEMMA SameSystem ==
  ASSUME sys' = sys
  PROVE  /\ State' = State
         /\ Input' = Input
         /\ \A c, s, i : Holds(c, s, i)' <=> Holds(c, s, i)
         /\ LeadToBad(sys)' = LeadToBad(sys)
<1>1. State' = State /\ Input' = Input /\ LeadToBad(sys)' = LeadToBad(sys)
  BY DEF State, Input
<1>2. \A c, s, i : Holds(c, s, i)' <=> Holds(c, s, i)
  BY DEF Holds, LitHolds
<1> QED
  BY <1>1, <1>2

\* The states that can be reached depend on the system and the restrictions.
LEMMA SameRestrictions ==
  ASSUME sys' = sys, restrictions' = restrictions
  PROVE  InitialStates' = InitialStates /\ Reached' = Reached
<1>1. InitialStates' = InitialStates
  BY SameSystem DEF InitialStates, InitialCubes
<1>2. sys.step' = sys.step /\ Input' = Input
  BY SameSystem
<1>3. Reached' = Reached
  BY ONLY <1>1, <1>2 DEF Reached
<1> QED
  BY <1>1, <1>3

\* With more lemmas, at higher levels, and fewer initial states, less is reached.
LEMMA ClosureShrinks ==
  ASSUME sys' = sys, sys \in Systems, InitialStates' \subseteq InitialStates,
         trace \in [DOMAIN trace -> 0 .. LevelInf], trace' \in [DOMAIN trace' -> 0 .. LevelInf],
         DOMAIN trace \subseteq DOMAIN trace', \A c \in DOMAIN trace : trace'[c] >= trace[c],
         NEW n \in Nat
  PROVE  Closure(n)' \subseteq Closure(n)
<1>1. \A c \in FullFrame(n) : c \in FullFrame(n)'
  <2> SUFFICES ASSUME NEW c \in DOMAIN trace, trace[c] >= n PROVE trace'[c] >= n
    BY DEF FullFrame
  <2>1. trace[c] \in 0 .. LevelInf /\ trace'[c] \in 0 .. LevelInf /\ trace'[c] >= trace[c]
    OBVIOUS
  <2> QED
    BY <2>1, ConstantsAssumption
<1>2. \A s, i : InFrame(n, s, i)' => InFrame(n, s, i)
  BY <1>1, SameSystem DEF InFrame
<1>3. \A X \in SUBSET State : ClosedIn(n, X) => ClosedIn(n, X)'
  BY <1>2, SameSystem DEF ClosedIn
<1> QED
  BY <1>3, SameSystem DEF Closure

\* The lemmas that keep their level stay right; only the others have to be looked at.
LEMMA TraceStep ==
  ASSUME Core, TypeInv', sys' = sys, InitialStates' \subseteq InitialStates,
         DOMAIN trace \subseteq DOMAIN trace', \A c \in DOMAIN trace : trace'[c] >= trace[c],
         \A c \in DOMAIN trace' : c \notin DOMAIN trace \/ trace'[c] # trace[c] =>
           /\ Avoids(InitialStates, c)'
           /\ trace'[c] > 0 => Avoids(Closure(FrameBelow(trace[c])), c)'
  PROVE  TraceInv'
<1> SUFFICES ASSUME NEW c \in DOMAIN trace'
             PROVE  /\ Avoids(InitialStates, c)'
                    /\ trace'[c] > 0 => Avoids(Closure(FrameBelow(trace[c])), c)'
  BY DEF TraceInv
<1>1. CASE c \notin DOMAIN trace \/ trace'[c] # trace[c]
  BY <1>1
<1>2. CASE c \in DOMAIN trace /\ trace'[c] = trace[c]
  <2>1. Avoids(InitialStates, c)'
    BY <1>2, SameSystem DEF Core, TraceInv, Avoids
  <2>2. ASSUME trace'[c] > 0
        PROVE  Avoids(Closure(FrameBelow(trace[c])), c)'
    <3> DEFINE n == FrameBelow(trace[c])
    <3>1. Avoids(Closure(n), c)
      BY <1>2, <2>2 DEF Core, TraceInv
    <3>2. n \in Nat /\ FrameBelow(trace[c])' = n
      <4>1. trace \in [DOMAIN trace -> 0 .. LevelInf]
        BY DEF Core, TypeInv
      <4>2. trace[c] \in 0 .. LevelInf
        BY <1>2, <4>1
      <4> QED
        BY <1>2, <2>2, <4>2, ConstantsAssumption DEF FrameBelow
    <3>3. \A m \in Nat : Closure(m)' \subseteq Closure(m)
      BY ClosureShrinks DEF Core, TypeInv
    <3> HIDE DEF n
    <3>4. PICK m \in Nat : m = n
      BY <3>2
    <3>5. Closure(FrameBelow(trace[c]))' = Closure(m)'
      BY <3>2, <3>4
    <3> QED
      BY <3>1, <3>3, <3>4, <3>5, SameSystem DEF Avoids
  <2> QED
    BY <2>1, <2>2
<1> QED
  BY <1>1, <1>2

\* Nothing changes for the logic when neither system, restrictions nor trace do.
LEMMA SameLogic ==
  ASSUME UNCHANGED <<sys, restrictions, trace>>
  PROVE  /\ InitialStates' = InitialStates
         /\ Reached' = Reached
         /\ \A n : Frame(n)' = Frame(n) /\ FullFrame(n)' = FullFrame(n) /\ Closure(n)' = Closure(n)
         /\ \A X, c : Avoids(X, c)' <=> Avoids(X, c)
<1>1. InitialStates' = InitialStates /\ Reached' = Reached
  BY SameRestrictions
<1>2. \A n : Frame(n)' = Frame(n) /\ FullFrame(n)' = FullFrame(n)
  BY DEF Frame, FullFrame
<1>3. \A X, c : Avoids(X, c)' <=> Avoids(X, c)
  BY SameSystem DEF Avoids
<1>4. ASSUME NEW n
      PROVE  Closure(n)' = Closure(n)
  <2>1. \A s, i : InFrame(n, s, i)' <=> InFrame(n, s, i)
    BY <1>2, SameSystem DEF InFrame
  <2>2. \A X : ClosedIn(n, X)' <=> ClosedIn(n, X)
    BY <1>1, <2>1, SameSystem DEF ClosedIn
  <2> QED
    BY <2>2, SameSystem DEF Closure
<1> QED
  BY <1>1, <1>2, <1>3, <1>4

\* What a step that leaves trace and restrictions alone preserves.
LEMMA SameTrace ==
  ASSUME Core, UNCHANGED <<sys, restrictions, trace, cardinality, blocked, over>>
  PROVE  /\ TraceInv'
         /\ (pc' = "idle" => over' = sys'.debug) => RestrictionsInv'
<1>1. TraceInv'
  <2> SUFFICES ASSUME NEW c \in DOMAIN trace
               PROVE  /\ Avoids(InitialStates, c)'
                      /\ trace[c] > 0 => Avoids(Closure(FrameBelow(trace[c])), c)'
    BY DEF TraceInv
  <2>1. Avoids(InitialStates, c)'
    BY SameLogic DEF Core, TraceInv, Avoids
  <2>2. FrameBelow(trace[c])' = FrameBelow(trace[c])
    BY DEF FrameBelow
  <2>3. Closure(FrameBelow(trace[c]))' = Closure(FrameBelow(trace[c]))
    BY <2>2, SameLogic
  <2> QED
    BY <2>1, <2>3, SameSystem DEF Core, TraceInv, Avoids
<1>2. Restrictions(cardinality, blocked)' = Restrictions(cardinality, blocked)
      /\ OtherGates(over)' = OtherGates(over)
  BY DEF Restrictions, CardinalityCubes, BlockCubes, OtherGates
<1>3. InitialCubes(restrictions)' = InitialCubes(restrictions)
  BY DEF InitialCubes
<1> QED
  BY <1>1, <1>2, <1>3 DEF Core, RestrictionsInv

--------------------------------------------------------------------------------
(* Answers and obligations. *)

\* The target holds in the bad states.
LEMMA TargetIs ==
  /\ Target \in Cube
  /\ \A s, i : Holds(Target, s, i) <=> <<s, i>> \in sys.bad
<1>1. Bad \in Literal
  BY ConstantsAssumption DEF Bad, Literal
<1> QED
  BY <1>1 DEF Target, Cube, Holds, LitHolds

\* The states that lead to bad ones.
LEMMA LeadToBadIs ==
  ASSUME sys \in Systems
  PROVE  /\ LeadToBad(sys) \subseteq State
         /\ \A s \in State, i \in Input : <<s, i>> \in sys.bad => s \in LeadToBad(sys)
         /\ \A s \in State, i \in Input : sys.step[s][i] \in LeadToBad(sys) => s \in LeadToBad(sys)
<1>1. \A s \in State, i \in Input : <<s, i>> \in sys.bad => s \in LeadToBad(sys)
  BY DEF LeadToBad, State, Input
<1>2. ASSUME NEW s \in State, NEW i \in Input, sys.step[s][i] \in LeadToBad(sys)
      PROVE  s \in LeadToBad(sys)
  BY <1>2 DEF LeadToBad, State, Input
<1> QED
  BY <1>1, <1>2 DEF LeadToBad, State

\* No initial state leads to a bad one when nothing that can be reached is bad.
LEMMA NothingBad ==
  ASSUME Core, Avoids(Closure(LevelInf), Target)
  PROVE  InitialStates \intersect LeadToBad(sys) = {}
<1> DEFINE X == State \ Closure(LevelInf)
<1>1. sys \in Systems
  BY DEF Core, TypeInv
<1>2. ASSUME NEW x \in sys.bad
      PROVE  x[1] \in X
  <2>1. x \in State \X Input
    BY <1>1, SystemsAssumption DEF State, Input
  <2>2. x = <<x[1], x[2]>> /\ x[1] \in State /\ x[2] \in Input
    BY <2>1
  <2>3. Holds(Target, x[1], x[2])
    BY <2>2, TargetIs
  <2> QED
    BY <2>2, <2>3 DEF Avoids
<1>3. ASSUME NEW u \in State, NEW i \in Input, sys.step[u][i] \in X
      PROVE  u \in X
  BY <1>3, ReachableInFrames
<1>4. LeadToBad(sys) \subseteq X
  <2>1. X \in SUBSET State
    OBVIOUS
  <2> HIDE DEF X
  <2> QED
    BY <1>2, <1>3, <2>1 DEF LeadToBad, State, Input
<1> QED
  BY <1>1, <1>4, ClosureIs

\* What the answer isSafe rests on.
LEMMA IsSafeIs ==
  ASSUME Core, isSafe
  PROVE  Avoids(Closure(LevelInf), Target)
<1>1. CASE Target \in Frame(LevelInf)
  BY <1>1, ReachableInFrames
<1>2. CASE Intersection(LevelInf, Target) = {}
  <2> SUFFICES ASSUME NEW s \in Closure(LevelInf), NEW i \in Input PROVE ~Holds(Target, s, i)
    BY DEF Avoids
  <2>1. s \in State /\ InFrame(LevelInf, s, i)
    BY ReachableInFrames, ClosureIs DEF Core, TypeInv
  <2>2. <<s, i>> \in State \X Input /\ <<s, i>> \notin Intersection(LevelInf, Target)
    BY <1>2, <2>1
  <2> QED
    BY <2>1, <2>2 DEF Intersection
<1> QED
  BY <1>1, <1>2 DEF isSafe

\* Obligations that stay are right as long as the trace is the same.
LEMMA SameQueue ==
  ASSUME QueueInv, UNCHANGED <<sys, restrictions, trace>>, NEW o \in queue
  PROVE  /\ (o.level > 0 => Avoids(Reached[o.level - 1], o.cti))'
         /\ (o.level = 0 => o.path # <<>> /\ o.path[1] \in InitialStates \intersect LeadToBad(sys))'
         /\ (\A s \in Closure(LevelInf), i \in Input : Holds(o.cti, s, i) => s \in LeadToBad(sys))'
<1>1. o.level > 0 => Avoids(Reached[o.level - 1], o.cti)
  BY DEF QueueInv
<1>2. o.level = 0 => o.path # <<>> /\ o.path[1] \in InitialStates \intersect LeadToBad(sys)
  BY DEF QueueInv
<1>3. \A s \in Closure(LevelInf), i \in Input : Holds(o.cti, s, i) => s \in LeadToBad(sys)
  BY DEF QueueInv
<1>4. (o.level > 0 => Avoids(Reached[o.level - 1], o.cti))'
  BY <1>1, SameLogic, SameSystem DEF Avoids
<1>5. (o.level = 0 => o.path # <<>> /\ o.path[1] \in InitialStates \intersect LeadToBad(sys))'
  BY <1>2, SameLogic, SameSystem
<1>6. (\A s \in Closure(LevelInf), i \in Input : Holds(o.cti, s, i) => s \in LeadToBad(sys))'
  BY <1>3, SameLogic, SameSystem
<1> QED
  BY <1>4, <1>5, <1>6

\* Obligations may go.
LEMMA SmallerQueue ==
  ASSUME QueueInv, UNCHANGED <<sys, restrictions, trace>>, queue' \subseteq queue,
         pc' \notin {"block", "generalize"} => queue' = {}
  PROVE  QueueInv'
BY SameQueue DEF QueueInv

--------------------------------------------------------------------------------
(* prove(): one lemma for each step. *)

\* The lifter keeps its lemmas as long as the trace does.
LEMMA SameLifter ==
  ASSUME LifterInv, UNCHANGED <<sys, restrictions, trace, lifter>>
  PROVE  LifterInv'
BY SameLogic DEF LifterInv

\* checkInitial: the steps that begin prove().
LEMMA CheckInitialStep ==
  ASSUME Inv, pc \in {"idle", "restricted"}, CheckInitial, UNCHANGED <<cardinality, blocked, over>>
  PROVE  Inv'
<1>1. UNCHANGED <<sys, restrictions, trace, lifter, queue>> /\ k' = 1 /\ queue = {}
  BY DEF CheckInitial, traceVars, Inv, QueueInv
<1>2. pc' \in {"isSafe", "done"}
  BY DEF CheckInitial
<1>3. Core /\ sys \in Systems
  BY DEF Inv, Core, TypeInv
<1>4. TypeInv'
  BY <1>1, <1>2, ConstantsAssumption DEF Inv, TypeInv, CardinalityInf
<1>5. TraceInv' /\ RestrictionsInv' /\ LifterInv'
  BY <1>1, <1>2, <1>3, SameTrace, SameLifter DEF Inv
<1>6. QueueInv' /\ GeneralizeInv'
  BY <1>1, <1>2, SmallerQueue DEF Inv, GeneralizeInv
<1>7. CASE Intersection(0, Target) = {}
  <2>1. Avoids(Reached[0], Target)
    BY <1>3, <1>7, InitiationIs, ReachedIs DEF Core
  <2>2. pc' = "isSafe" /\ k' - 1 = 0
    BY <1>1, <1>7 DEF CheckInitial
  <2>3. TargetInv'
    BY <1>1, <2>1, <2>2, SameLogic DEF TargetInv, Target
  <2> QED
    BY <1>4, <1>5, <1>6, <2>2, <2>3 DEF Inv, AnswerInv
<1>8. CASE Intersection(0, Target) # {}
  <2>1. PICK x \in Intersection(0, Target) :
          result' = [answer |-> "unsafe", cex |-> <<x[1]>>, proof |-> {}]
    BY <1>8 DEF CheckInitial
  <2>2. pc' = "done"
    BY <1>8 DEF CheckInitial
  <2>3. x \in State \X Input /\ InFrame(0, x[1], x[2]) /\ Holds(Target, x[1], x[2])
    BY DEF Intersection
  <2>4. x[1] \in InitialStates /\ x[1] \in LeadToBad(sys)
    BY <1>3, <2>3, FrameZero, TargetIs, LeadToBadIs DEF Core
  <2>5. result'.answer # "safe" /\ result'.cex[1] = x[1]
    BY <2>1
  <2>6. AnswerInv'
    BY <1>1, <2>4, <2>5, SameLogic, SameSystem DEF AnswerInv
  <2> QED
    BY <1>4, <1>5, <1>6, <2>2, <2>6 DEF Inv, TargetInv
<1> QED
  BY <1>7, <1>8

\* The bad states are in no frame or the target is a lemma: the answer is safe.
LEMMA ProvedStep ==
  ASSUME Inv, Proved, UNCHANGED debugVars
  PROVE  Inv'
<1>1. /\ UNCHANGED <<sys, restrictions, trace, lifter, queue, k, cardinality, blocked, over>>
      /\ queue = {} /\ pc' = "done" /\ result'.answer = "safe"
  BY DEF Proved, traceVars, workVars, debugVars, recordProof, Inv, QueueInv
<1>2. Core
  BY DEF Inv, Core
<1>3. InitialStates \intersect LeadToBad(sys) = {}
  BY <1>2, IsSafeIs, NothingBad DEF Proved
<1>4. TypeInv'
  BY <1>1 DEF Inv, TypeInv, CardinalityInf
<1>5. TraceInv' /\ RestrictionsInv' /\ LifterInv'
  BY <1>1, <1>2, SameTrace, SameLifter DEF Inv
<1>6. QueueInv' /\ GeneralizeInv' /\ TargetInv'
  BY <1>1, SmallerQueue DEF Inv, GeneralizeInv, TargetInv
<1>7. AnswerInv'
  BY <1>1, <1>3, SameLogic, SameSystem DEF AnswerInv
<1> QED
  BY <1>4, <1>5, <1>6, <1>7 DEF Inv

\* recursiveBlock begins with the target.
LEMMA BlockTargetStep ==
  ASSUME Inv, BlockTarget, UNCHANGED debugVars
  PROVE  Inv'
<1> DEFINE o == [cti |-> Target, level |-> k, path |-> <<>>]
<1>1. /\ UNCHANGED <<sys, restrictions, trace, lifter, k, cardinality, blocked, over>>
      /\ queue' = {o} /\ pc' = "block" /\ k < LevelInf /\ k \in 1 .. LevelInf
  BY DEF BlockTarget, traceVars, debugVars, Inv, TypeInv
<1>2. Core /\ sys \in Systems
  BY DEF Inv, Core, TypeInv
<1>3. TypeInv'
  <2>1. o \in [cti : Cube, level : 0 .. k, path : Seq(State)]
    BY <1>1, TargetIs, ConstantsAssumption
  <2> HIDE DEF o
  <2> QED
    BY <1>1, <2>1, SameSystem DEF Inv, TypeInv, CardinalityInf
<1>4. TraceInv' /\ RestrictionsInv' /\ LifterInv'
  BY <1>1, <1>2, SameTrace, SameLifter DEF Inv
<1>5. QueueInv'
  <2>1. o.level > 0 /\ o.level # 0 /\ o.cti = Target /\ o.level - 1 = k - 1
    BY <1>1, ConstantsAssumption
  <2>2. Avoids(Reached[k - 1], Target)
    BY DEF Inv, TargetInv, BlockTarget
  <2>3. Avoids(Reached[o.level - 1], o.cti)
    BY <2>1, <2>2
  <2>4. \A s \in Closure(LevelInf), i \in Input : Holds(Target, s, i) => s \in LeadToBad(sys)
    BY <1>2, TargetIs, LeadToBadIs, ClosureIs
  <2>5. \A s \in Closure(LevelInf), i \in Input : Holds(o.cti, s, i) => s \in LeadToBad(sys)
    BY <2>1, <2>4
  <2>6. o' = o
    BY <1>1 DEF Target
  <2> HIDE DEF o
  <2>7. (o.level > 0 => Avoids(Reached[o.level - 1], o.cti))'
    BY <1>1, <2>3, <2>6, SameLogic
  <2>8. (\A s \in Closure(LevelInf), i \in Input : Holds(o.cti, s, i) => s \in LeadToBad(sys))'
    BY <1>1, <2>5, <2>6, SameLogic, SameSystem
  <2> QED
    BY <1>1, <2>1, <2>6, <2>7, <2>8 DEF QueueInv
<1>6. GeneralizeInv' /\ TargetInv' /\ AnswerInv'
  BY <1>1 DEF GeneralizeInv, TargetInv, AnswerInv
<1> QED
  BY <1>3, <1>4, <1>5, <1>6 DEF Inv

\* An obligation at level 0 begins a path to a bad state.
LEMMA RefutedStep ==
  ASSUME Inv, Refuted, UNCHANGED debugVars
  PROVE  Inv'
<1>1. /\ UNCHANGED <<sys, restrictions, trace, lifter, k, cardinality, blocked, over>>
      /\ queue' = {} /\ pc' = "done"
  BY DEF Refuted, traceVars, debugVars
<1>2. Core
  BY DEF Inv, Core
<1>3. PICK o \in queue :
        o.level = 0 /\ result' = [answer |-> "unsafe", cex |-> o.path, proof |-> {}]
  BY DEF Refuted, Top
<1>4. o.path[1] \in InitialStates \intersect LeadToBad(sys)
  BY <1>3 DEF Inv, QueueInv
<1>5. result'.answer # "safe" /\ result'.cex[1] = o.path[1]
  BY <1>3
<1>6. AnswerInv'
  BY <1>1, <1>4, <1>5, SameLogic, SameSystem DEF AnswerInv
<1>7. TypeInv'
  BY <1>1 DEF Inv, TypeInv, CardinalityInf
<1>8. TraceInv' /\ RestrictionsInv' /\ LifterInv'
  BY <1>1, <1>2, SameTrace, SameLifter DEF Inv
<1>9. QueueInv' /\ GeneralizeInv' /\ TargetInv'
  BY <1>1, SmallerQueue DEF Inv, GeneralizeInv, TargetInv
<1> QED
  BY <1>6, <1>7, <1>8, <1>9 DEF Inv

\* An obligation that a lemma blocks goes.
LEMMA AlreadyBlockedStep ==
  ASSUME Inv, AlreadyBlocked, UNCHANGED debugVars
  PROVE  Inv'
<1>1. /\ UNCHANGED <<sys, restrictions, trace, lifter, k, cardinality, blocked, over>>
      /\ pc = "block" /\ pc' = "block"
  BY DEF AlreadyBlocked, traceVars, debugVars
<1>2. Core
  BY DEF Inv, Core
<1>3. PICK o \in queue : syntacticBlock(o) /\ queue' = queue \ {o}
  BY DEF AlreadyBlocked, Top
<1>4. TypeInv'
  BY <1>1, <1>3, SameSystem DEF Inv, TypeInv, CardinalityInf
<1>5. TraceInv' /\ RestrictionsInv' /\ LifterInv'
  BY <1>1, <1>2, SameTrace, SameLifter DEF Inv
<1>6. QueueInv'
  BY <1>1, <1>3, SmallerQueue DEF Inv
<1>7. TargetInv'
  <2> DEFINE t == [cti |-> Target, level |-> k, path |-> <<>>]
  <2>1. t \in queue \/ Target \in FullFrame(k)
    BY <1>1 DEF Inv, TargetInv
  <2>2. ASSUME o = t
        PROVE  Target \in FullFrame(k)
    <3>1. PICK c \in FullFrame(k) : c \subseteq Target
      BY <1>3, <2>2 DEF syntacticBlock
    <3>2. c # {}
      BY DEF Inv, TypeInv, FullFrame, Cube
    <3>3. c = Target
      BY <3>1, <3>2 DEF Target
    <3> QED
      BY <3>3
  <2>3. t \in queue' \/ Target \in FullFrame(k)
    BY <1>3, <2>1, <2>2
  <2>4. (Target \in FullFrame(k))' <=> Target \in FullFrame(k)
    BY <1>1, SameLogic DEF Target
  <2>5. t' = t
    BY <1>1 DEF Target
  <2> HIDE DEF t
  <2>6. (t \in queue \/ Target \in FullFrame(k))'
    BY <2>3, <2>4, <2>5
  <2> QED
    BY <1>1, <2>6 DEF Inv, TargetInv, t
<1>8. GeneralizeInv' /\ AnswerInv'
  BY <1>1 DEF GeneralizeInv, AnswerInv
<1> QED
  BY <1>4, <1>5, <1>6, <1>7, <1>8 DEF Inv

--------------------------------------------------------------------------------
(* A predecessor and its obligation. *)

\* What can be reached at first can be reached in n steps.
LEMMA InitialReached ==
  ASSUME sys \in Systems
  PROVE  \A n \in Nat : InitialStates \subseteq Reached[n]
<1> DEFINE N == { n \in Nat : InitialStates \subseteq Reached[n] }
<1>1. 0 \in N
  BY ReachedIs
<1>2. \A n \in Nat : n \in N => n + 1 \in N
  BY ReachedIs
<1>3. Nat \subseteq N
  <2> HIDE DEF N
  <2> QED
    BY <1>1, <1>2, NaturalInduction
<1> QED
  BY <1>3

\* Every state of a system without latches is initial.
LEMMA NoLatches ==
  ASSUME Core, sys.latches = {}
  PROVE  InitialStates = State
<1>1. sys \in Systems
  BY DEF Core, TypeInv
<1>2. sys.init = {}
  <2> SUFFICES ASSUME NEW c \in sys.init PROVE FALSE
    OBVIOUS
  <2>1. c # {} /\ \A l \in c : VarOf(l) \in sys.latches
    BY <1>1, SystemsAssumption
  <2> QED
    BY <2>1
<1>3. restrictions = {}
  <2> SUFFICES ASSUME NEW c \in restrictions PROVE FALSE
    OBVIOUS
  <2>1. /\ cardinality \in Nat /\ over \in SUBSET sys.debug
        /\ blocked \in SUBSET ((SUBSET sys.debug) \ {{}})
        /\ c \in Restrictions(cardinality, blocked) \union OtherGates(over)
    BY DEF Core, TypeInv, RestrictionsInv
  <2>2. PICK D \in (SUBSET sys.debug) \ {{}} : c = BlockCube(D)
    BY <1>1, <2>1, RestrictionCubes, SMTT(30)
  <2> QED
    BY <1>1, StepType
<1> QED
  BY <1>2, <1>3 DEF InitialStates, InitialCubes

\* What lift returns.
LEMMA LiftIs ==
  ASSUME Core, LifterInv, sys.latches # {}, NEW s \in State, NEW i \in Input, NEW j \in Input,
         NEW e, NEW c \in lift(s, i, j, e)
  PROVE  /\ c \in Cube
         /\ \A l \in c : l # Bad
         /\ \A u \in Closure(LevelInf) : Holds(c, u, i) => Holds(e, sys.step[u][i], j)
<1> DEFINE lemmas == IF lifter = <<>> THEN Frame(LevelInf) ELSE lifter[1]
           S == StateCube(s)
<1>1. sys \in Systems
  BY DEF Core, TypeInv
<1>2. PICK d \in LiftCores(s, i, j, e) : c = IF d = {} THEN {Min(S)} ELSE d
  BY DEF lift
<1>3. /\ d \subseteq S
      /\ \A u \in State : Holds(d, u, i) /\ (\A b \in lemmas : ~Holds(b, u, i))
           => Holds(e, sys.step[u][i], j)
  BY DEF LiftCores
<1>4. \A u \in Closure(LevelInf) : u \in State /\ \A b \in lemmas : ~Holds(b, u, i)
  BY <1>1, ReachableInFrames, ClosureIs DEF LifterInv, Avoids
<1>5. S \subseteq Literal /\ Bad \notin S /\ S # {}
  <2>1. ASSUME NEW l \in sys.latches
        PROVE  {Lit(l), negate(Lit(l))} \subseteq Literal \ {Bad}
    <3>1. l \in 0 .. MaxVar
      BY <1>1, <2>1, StepType
    <3> QED
      BY <3>1, ConstantsAssumption DEF Lit, negate, Literal, Bad
  <2> QED
    BY <2>1 DEF StateCube
<1> HIDE DEF S
<1>6. Min(S) \in S
  <2>1. S \in SUBSET Nat
    BY <1>5, ConstantsAssumption DEF Literal, Bad
  <2>2. \E m \in S : \A n \in S : m <= n
    BY <1>5, <2>1, LeastNatural
  <2> QED
    BY <2>2 DEF Min
<1>7. c \subseteq S /\ c # {} /\ d \subseteq c
  BY <1>2, <1>3, <1>6
<1>8. \A u : Holds(c, u, i) => Holds(d, u, i)
  BY <1>7 DEF Holds
<1> QED
  BY <1>3, <1>4, <1>5, <1>7, <1>8 DEF Cube

\* The obligation that block() adds for a predecessor.
LEMMA PredecessorIs ==
  ASSUME Inv, NEW o \in queue, o.level > 0, NEW p \in Predecessors(o.level - 1, o.cti),
         NEW c \in lift(p[1][1], p[1][2], p[2], o.cti)
  PROVE  /\ Predecessor(o, p[1][1], c) \in [cti : Cube, level : 0 .. k, path : Seq(State)]
         /\ o.level > 1 => Avoids(Reached[o.level - 2], c)
         /\ o.level = 1 => p[1][1] \in InitialStates \intersect LeadToBad(sys)
         /\ \A s \in Closure(LevelInf), i \in Input : Holds(c, s, i) => s \in LeadToBad(sys)
<1> DEFINE s == p[1][1]
           i == p[1][2]
           j == p[2]
<1>1. Core /\ sys \in Systems
  BY DEF Inv, Core, TypeInv
<1>2. o \in [cti : Cube, level : 0 .. k, path : Seq(State)] /\ k \in 1 .. LevelInf
  BY DEF Inv, TypeInv
<1>3. /\ s \in State /\ i \in Input /\ j \in Input
      /\ InFrame(o.level - 1, s, i) /\ Holds(o.cti, sys.step[s][i], j)
  <2>1. p \in Outside(o.level - 1, o.cti) \X NextInput(o.cti) /\ LeadsTo(p[1], p[2], o.cti)
    BY DEF Predecessors
  <2>2. /\ p[1] \in State \X Input /\ InFrame(o.level - 1, p[1][1], p[1][2])
        /\ p[2] \in NextInput(o.cti)
    BY <2>1 DEF Outside
  <2>3. NextInput(o.cti) \subseteq Input
    BY <1>1, StepType DEF NextInput
  <2> QED
    BY <2>1, <2>2, <2>3 DEF LeadsTo
<1>4. /\ Avoids(Reached[o.level - 1], o.cti)
      /\ \A u \in Closure(LevelInf), q \in Input : Holds(o.cti, u, q) => u \in LeadToBad(sys)
  BY DEF Inv, QueueInv
<1>5. o.level - 1 \in Nat
  BY <1>2
<1>6. sys.latches # {}
  <2> SUFFICES ASSUME sys.latches = {} PROVE FALSE
    OBVIOUS
  <2>1. sys.step[s][i] \in Reached[o.level - 1]
    BY <1>1, <1>3, <1>5, StepType, NoLatches, InitialReached
  <2> QED
    BY <1>3, <1>4, <2>1 DEF Avoids
<1> HIDE DEF s, i, j
<1>7. /\ c \in Cube
      /\ \A l \in c : l # Bad
      /\ \A u \in Closure(LevelInf) : Holds(c, u, i) => Holds(o.cti, sys.step[u][i], j)
  <2>1. c \in lift(s, i, j, o.cti)
    BY DEF s, i, j
  <2> QED
    BY <1>1, <1>3, <1>6, <2>1, LiftIs DEF Inv
<1>8. \A u, q : Holds(c, u, q) <=> Holds(c, u, i)
  BY <1>7, LatchLiterals
<1>9. Predecessor(o, s, c) \in [cti : Cube, level : 0 .. k, path : Seq(State)]
  <2>1. <<s>> \o o.path \in Seq(State)
    BY <1>2, <1>3
  <2>2. o.level - 1 \in 0 .. k
    BY <1>2, <1>5
  <2> QED
    BY <1>7, <2>1, <2>2 DEF Predecessor
<1>10. ASSUME o.level > 1
       PROVE  Avoids(Reached[o.level - 2], c)
  <2>1. o.level - 2 \in Nat /\ (o.level - 2) + 1 = o.level - 1
    BY <1>2, <1>10
  <2> DEFINE n == o.level - 2
  <2> HIDE DEF n
  <2>2. n \in Nat /\ n + 1 = o.level - 1
    BY <2>1 DEF n
  <2>3. n <= LevelInf + 1
    BY <1>2, <2>2, ConstantsAssumption
  <2>4. Reached[n] \subseteq Closure(LevelInf)
    BY <1>1, <2>2, <2>3, ReachedInClosure, ConstantsAssumption
  <2>5. \A u \in Reached[n] : sys.step[u][i] \in Reached[n + 1]
    BY <1>1, <1>3, <2>2, ReachedIs
  <2>6. \A u \in Reached[n] : ~Holds(o.cti, sys.step[u][i], j)
    BY <1>3, <1>4, <2>2, <2>5 DEF Avoids
  <2>7. Avoids(Reached[n], c)
    BY <1>7, <1>8, <2>4, <2>6 DEF Avoids
  <2> QED
    BY <2>7 DEF n
<1>11. \A u \in Closure(LevelInf), q \in Input : Holds(c, u, q) => u \in LeadToBad(sys)
  <2> SUFFICES ASSUME NEW u \in Closure(LevelInf), NEW q \in Input, Holds(c, u, q)
               PROVE  u \in LeadToBad(sys)
    OBVIOUS
  <2>1. u \in State /\ sys.step[u][i] \in Closure(LevelInf)
    BY <1>1, <1>3, ReachableInFrames, ClosureIs
  <2>2. Holds(o.cti, sys.step[u][i], j)
    BY <1>7, <1>8
  <2>3. sys.step[u][i] \in LeadToBad(sys)
    BY <1>3, <1>4, <2>1, <2>2
  <2> QED
    BY <1>1, <1>3, <2>1, <2>3, LeadToBadIs
<1>12. ASSUME o.level = 1
       PROVE  s \in InitialStates \intersect LeadToBad(sys)
  <2>1. s \in InitialStates
    BY <1>1, <1>3, <1>12, FrameZero DEF Core
  <2>2. s \in Closure(LevelInf)
    BY <1>1, <2>1, ClosureIs
  <2>3. sys.step[s][i] \in LeadToBad(sys)
    BY <1>1, <1>3, <1>4, <2>2, ReachableInFrames
  <2> QED
    BY <1>1, <1>3, <2>1, <2>3, LeadToBadIs
<1> QED
  BY <1>9, <1>10, <1>11, <1>12 DEF s

\* block() adds a predecessor's cube: all its states lead into the obligation's.
LEMMA AddPredecessorStep ==
  ASSUME Inv, AddPredecessor, UNCHANGED debugVars
  PROVE  Inv'
<1>1. /\ UNCHANGED <<sys, restrictions, trace, k, cardinality, blocked, over>>
      /\ pc = "block" /\ pc' = "block"
  BY DEF AddPredecessor, traceVars, debugVars
<1>2. Core /\ sys \in Systems
  BY DEF Inv, Core, TypeInv
<1>3. PICK o \in queue :
        /\ o.level > 0
        /\ \E p \in Predecessors(o.level - 1, o.cti) :
             \E c \in lift(p[1][1], p[1][2], p[2], o.cti) :
               queue' = queue \union {Predecessor(o, p[1][1], c)}
  BY DEF AddPredecessor, Top
<1>3a. PICK p \in Predecessors(o.level - 1, o.cti) :
        \E c \in lift(p[1][1], p[1][2], p[2], o.cti) :
          queue' = queue \union {Predecessor(o, p[1][1], c)}
  BY <1>3
<1>3b. PICK c \in lift(p[1][1], p[1][2], p[2], o.cti) :
        queue' = queue \union {Predecessor(o, p[1][1], c)}
  BY <1>3a
<1> DEFINE s == p[1][1]
           q == Predecessor(o, s, c)
<1>4. /\ q \in [cti : Cube, level : 0 .. k, path : Seq(State)]
      /\ o.level > 1 => Avoids(Reached[o.level - 2], c)
      /\ o.level = 1 => s \in InitialStates \intersect LeadToBad(sys)
      /\ \A u \in Closure(LevelInf), i \in Input : Holds(c, u, i) => u \in LeadToBad(sys)
  BY <1>3, PredecessorIs
<1>5. o.level \in Nat /\ o.path \in Seq(State)
  BY DEF Inv, TypeInv
<1>6. q.cti = c /\ q.level = o.level - 1 /\ q.path = <<s>> \o o.path
  BY DEF Predecessor
<1>7. q.level = 0 => q.path # <<>> /\ q.path[1] = s
  BY <1>5, <1>6
<1> HIDE DEF s
<1>8. q.level > 0 => Avoids(Reached[q.level - 1], q.cti)
  <2>1. q.level > 0 => o.level > 1 /\ q.level - 1 = o.level - 2
    BY <1>5, <1>6
  <2> QED
    BY <1>4, <1>6, <2>1
<1>9. q.level = 0 => q.path # <<>> /\ q.path[1] \in InitialStates \intersect LeadToBad(sys)
  BY <1>3, <1>4, <1>5, <1>6, <1>7
<1>10. \A u \in Closure(LevelInf), i \in Input : Holds(q.cti, u, i) => u \in LeadToBad(sys)
  BY <1>4, <1>6
<1>11. queue' = queue \union {q}
  BY <1>3b DEF s
<1> HIDE DEF q
<1>12. TypeInv'
  BY <1>1, <1>4, <1>11, SameSystem DEF Inv, TypeInv, CardinalityInf
<1>13. TraceInv' /\ RestrictionsInv'
  BY <1>1, <1>2, SameTrace
<1>14. LifterInv'
  <2>1. lifter' = IF lifter = <<>> THEN <<Frame(LevelInf)>> ELSE lifter
    BY DEF AddPredecessor, setUpLifter
  <2>2. Frame(LevelInf)' = Frame(LevelInf)
    BY <1>1, SameLogic
  <2> QED
    BY <2>1, <2>2 DEF Inv, LifterInv
<1>15. QueueInv'
  <2> SUFFICES ASSUME NEW x \in queue'
               PROVE  /\ (x.level > 0 => Avoids(Reached[x.level - 1], x.cti))'
                      /\ (x.level = 0 =>
                            x.path # <<>> /\ x.path[1] \in InitialStates \intersect LeadToBad(sys))'
                      /\ (\A u \in Closure(LevelInf), i \in Input :
                            Holds(x.cti, u, i) => u \in LeadToBad(sys))'
    BY <1>1 DEF QueueInv
  <2>1. CASE x \in queue
    BY <1>1, <2>1, SameQueue DEF Inv
  <2>2. CASE x = q
    <3>1. (x.level > 0 => Avoids(Reached[x.level - 1], x.cti))'
      BY <1>1, <1>8, <2>2, SameLogic
    <3>2. (x.level = 0 => x.path # <<>> /\ x.path[1] \in InitialStates \intersect LeadToBad(sys))'
      BY <1>1, <1>9, <2>2, SameLogic, SameSystem
    <3>3. (\A u \in Closure(LevelInf), i \in Input : Holds(x.cti, u, i) => u \in LeadToBad(sys))'
      BY <1>1, <1>10, <2>2, SameLogic, SameSystem
    <3> QED
      BY <3>1, <3>2, <3>3
  <2> QED
    BY <1>11, <2>1, <2>2
<1>16. TargetInv'
  <2> DEFINE t == [cti |-> Target, level |-> k, path |-> <<>>]
  <2>1. k < LevelInf /\ (t \in queue \/ Target \in FullFrame(k))
    BY <1>1 DEF Inv, TargetInv
  <2>2. (Target \in FullFrame(k))' <=> Target \in FullFrame(k)
    BY <1>1, SameLogic DEF Target
  <2>3. t' = t
    BY <1>1 DEF Target
  <2> HIDE DEF t
  <2>4. (t \in queue \/ Target \in FullFrame(k))'
    BY <1>11, <2>1, <2>2, <2>3
  <2> QED
    BY <1>1, <2>1, <2>4 DEF TargetInv, t
<1>17. GeneralizeInv' /\ AnswerInv'
  BY <1>1 DEF GeneralizeInv, AnswerInv
<1> QED
  BY <1>12, <1>13, <1>14, <1>15, <1>16, <1>17 DEF Inv

\* The target waits as before when queue, trace and level are the same.
LEMMA SameTarget ==
  ASSUME TargetInv, UNCHANGED <<sys, restrictions, trace, queue, k>>,
         pc \in {"block", "generalize"}, pc' \in {"block", "generalize"}
  PROVE  TargetInv'
<1>1. /\ k < LevelInf
      /\ [cti |-> Target, level |-> k, path |-> <<>>] \in queue \/ Target \in FullFrame(k)
  BY DEF TargetInv
<1>2. ([cti |-> Target, level |-> k, path |-> <<>>] \in queue \/ Target \in FullFrame(k))'
  BY <1>1, SameLogic DEF Target
<1> QED
  BY <1>1, <1>2 DEF TargetInv

\* What stays the same while a cube is generalized.
LEMMA GeneralizeStep ==
  ASSUME Inv, UNCHANGED <<sys, restrictions, trace, lifter, queue, k, cardinality, blocked, over>>,
         pc \in {"block", "generalize"}, pc' = "generalize", GeneralizeInv'
  PROVE  Inv'
<1>1. Core
  BY DEF Inv, Core
<1>2. TypeInv'
  BY SameSystem DEF Inv, TypeInv, CardinalityInf
<1>3. TraceInv' /\ RestrictionsInv' /\ LifterInv'
  BY <1>1, SameTrace, SameLifter DEF Inv
<1>4. QueueInv'
  BY SmallerQueue DEF Inv
<1>5. TargetInv' /\ AnswerInv'
  BY SameTarget DEF Inv, AnswerInv
<1> QED
  BY <1>2, <1>3, <1>4, <1>5 DEF Inv

\* block() finds no predecessor; the core excludes what the frame below leads to.
LEMMA StartGeneralizeStep ==
  ASSUME Inv, StartGeneralize, UNCHANGED debugVars
  PROVE  Inv'
<1>1. /\ UNCHANGED <<sys, restrictions, trace, lifter, queue, k, cardinality, blocked, over>>
      /\ pc = "block" /\ pc' = "generalize"
  BY DEF StartGeneralize, traceVars, debugVars
<1>2. Core /\ sys \in Systems
  BY DEF Inv, Core, TypeInv
<1>3. PICK o \in queue :
        /\ o.level > 0 /\ ~syntacticBlock(o) /\ obl' = o
        /\ \E c \in Cores(o.level - 1, o.cti) : gen' = initiate(c, o.cti)
  BY DEF StartGeneralize, Top
<1>3b. PICK c \in Cores(o.level - 1, o.cti) : gen' = initiate(c, o.cti)
  BY <1>3
<1>4. o \in [cti : Cube, level : 0 .. k, path : Seq(State)]
  BY DEF Inv, TypeInv
<1>5. o.level - 1 \in Nat
  BY <1>3, <1>4
<1>6. Avoids(Reached[o.level - 1], o.cti) /\ InitialStates \subseteq Reached[o.level - 1]
  BY <1>2, <1>3, <1>5, InitialReached DEF Inv, QueueInv
<1>7. Avoids(InitialStates, o.cti) /\ c \in SUBSET o.cti /\ o.cti \in Cube
  BY <1>4, <1>6 DEF Avoids, Cores
<1>8. /\ c \subseteq gen' /\ gen' \subseteq o.cti /\ gen' \in Cube /\ Avoids(InitialStates, gen')
  BY <1>2, <1>3b, <1>7, InitiateIs
<1>9. Avoids(Closure(o.level - 1), gen')
  BY <1>2, <1>7, <1>8, CoreAvoids
<1>10. ~syntacticBlock(obl)'
  BY <1>1, <1>3, SameLogic DEF syntacticBlock
<1>11. Avoids(InitialStates, gen)' /\ Avoids(Closure(obl.level - 1), gen)'
  BY <1>1, <1>3, <1>8, <1>9, SameLogic
<1>12. GeneralizeInv'
  BY <1>1, <1>3, <1>8, <1>10, <1>11 DEF GeneralizeInv
<1> QED
  BY <1>1, <1>12, GeneralizeStep

\* A literal goes, and what the core makes unnecessary.
LEMMA DropLiteralStep ==
  ASSUME Inv, DropLiteral, UNCHANGED debugVars
  PROVE  Inv'
<1>1. /\ UNCHANGED <<sys, restrictions, trace, lifter, queue, k, cardinality, blocked, over, obl>>
      /\ pc = "generalize" /\ pc' = "generalize"
  BY DEF DropLiteral, traceVars, debugVars
<1>2. Core
  BY DEF Inv, Core
<1> DEFINE g == gen \ {Min(Untried)}
<1>3. PICK c \in Shorter(g) : gen' = initiate(c, gen)
  BY DEF DropLiteral
<1>4. /\ obl \in queue /\ obl.level > 0 /\ ~syntacticBlock(obl)
      /\ gen \in Cube /\ gen \subseteq obl.cti /\ Avoids(InitialStates, gen)
  BY <1>1 DEF Inv, GeneralizeInv
<1>5. initiation(g) /\ c \in Cores(obl.level - 1, g)
  BY <1>3 DEF Shorter
<1>6. Avoids(InitialStates, g)
  BY <1>2, <1>5, InitiationIs DEF Core
<1>7. c \in SUBSET gen
  BY <1>5 DEF Cores
<1>8. /\ c \subseteq gen' /\ gen' \subseteq gen /\ gen' \in Cube /\ Avoids(InitialStates, gen')
  BY <1>2, <1>3, <1>4, <1>7, InitiateIs
<1>9. Avoids(Closure(obl.level - 1), gen')
  BY <1>2, <1>5, <1>6, <1>8, CoreAvoids
<1>10. ~syntacticBlock(obl)'
  BY <1>1, <1>4, SameLogic DEF syntacticBlock
<1>11. Avoids(InitialStates, gen)' /\ Avoids(Closure(obl.level - 1), gen)'
  BY <1>1, <1>8, <1>9, SameLogic
<1>12. GeneralizeInv'
  BY <1>1, <1>4, <1>8, <1>10, <1>11 DEF GeneralizeInv
<1> QED
  BY <1>1, <1>12, GeneralizeStep

\* A literal stays, or the literals are tried again.
LEMMA KeepGeneralizing ==
  ASSUME Inv, KeepLiteral \/ GeneralizeAgain, UNCHANGED debugVars
  PROVE  Inv'
<1>1. /\ UNCHANGED <<sys, restrictions, trace, lifter, queue, k, obl, gen>>
      /\ UNCHANGED <<cardinality, blocked, over>>
      /\ pc = "generalize" /\ pc' = "generalize"
  BY DEF KeepLiteral, GeneralizeAgain, traceVars, debugVars
<1>2. ~syntacticBlock(obl)'
  BY <1>1, SameLogic DEF syntacticBlock, Inv, GeneralizeInv
<1>3. Avoids(InitialStates, gen)' /\ Avoids(Closure(obl.level - 1), gen)'
  BY <1>1, SameLogic DEF Inv, GeneralizeInv
<1>4. GeneralizeInv'
  BY <1>1, <1>2, <1>3 DEF Inv, GeneralizeInv
<1> QED
  BY <1>1, <1>4, GeneralizeStep

\* No obligation is left, so the target is a lemma.
LEMMA TargetBlockedStep ==
  ASSUME Inv, TargetBlocked, UNCHANGED debugVars
  PROVE  Inv'
<1>1. /\ UNCHANGED <<sys, restrictions, trace, lifter, queue, k, cardinality, blocked, over>>
      /\ pc = "block" /\ pc' = "push" /\ queue = {} /\ at' = 1
  BY DEF TargetBlocked, traceVars, debugVars
<1>2. Core
  BY DEF Inv, Core
<1>3. TypeInv'
  BY <1>1, SameSystem DEF Inv, TypeInv, CardinalityInf
<1>4. TraceInv' /\ RestrictionsInv' /\ LifterInv'
  BY <1>1, <1>2, SameTrace, SameLifter DEF Inv
<1>5. QueueInv'
  BY <1>1, SmallerQueue DEF Inv
<1>6. TargetInv'
  <2>1. Target \in FullFrame(k)
    BY <1>1 DEF Inv, TargetInv
  <2>2. (Target \in FullFrame(k))'
    BY <1>1, <2>1, SameLogic DEF Target
  <2>3. \A n \in 1 .. at' - 1 : n \in {}
    BY <1>1
  <2> QED
    BY <1>1, <2>2, <2>3 DEF TargetInv
<1> QED
  BY <1>1, <1>3, <1>4, <1>5, <1>6 DEF Inv, GeneralizeInv, AnswerInv

\* pushLemmas has been through the frames.
LEMMA PushEndStep ==
  ASSUME Inv, PushEnd, UNCHANGED debugVars
  PROVE  Inv'
<1>1. /\ UNCHANGED <<sys, restrictions, trace, lifter, queue, k, cardinality, blocked, over>>
      /\ pc = "push" /\ pc' = "pushed" /\ queue = {}
  BY DEF PushEnd, traceVars, debugVars, Inv, QueueInv
<1>2. Core
  BY DEF Inv, Core
<1>3. TypeInv'
  BY <1>1, SameSystem DEF Inv, TypeInv, CardinalityInf
<1>4. TraceInv' /\ RestrictionsInv' /\ LifterInv'
  BY <1>1, <1>2, SameTrace, SameLifter DEF Inv
<1>5. QueueInv'
  BY <1>1, SmallerQueue DEF Inv
<1>6. TargetInv'
  <2>1. (Target \in FullFrame(k))'
    BY <1>1, SameLogic DEF Inv, TargetInv, Target
  <2> QED
    BY <1>1, <2>1 DEF TargetInv
<1> QED
  BY <1>1, <1>3, <1>4, <1>5, <1>6 DEF Inv, GeneralizeInv, AnswerInv

\* The new level of the target decides.
LEMMA NextLevelStep ==
  ASSUME Inv, NextLevel, UNCHANGED debugVars
  PROVE  Inv'
<1>1. /\ UNCHANGED <<sys, restrictions, trace, lifter, queue, cardinality, blocked, over>>
      /\ pc = "pushed" /\ queue = {} /\ pc' \in {"done", "isSafe"}
  BY DEF NextLevel, traceVars, debugVars, Inv, QueueInv
<1>2. Core /\ sys \in Systems
  BY DEF Inv, Core, TypeInv
<1>3. Target \in DOMAIN trace /\ trace[Target] \in 0 .. LevelInf
  <2>1. trace \in [DOMAIN trace -> 0 .. LevelInf]
    BY DEF Inv, TypeInv
  <2> QED
    BY <1>1, <2>1 DEF Inv, TargetInv, FullFrame
<1>4. TraceInv' /\ RestrictionsInv' /\ LifterInv'
  BY <1>1, <1>2, SameTrace, SameLifter DEF Inv
<1>5. QueueInv' /\ GeneralizeInv'
  BY <1>1, SmallerQueue DEF Inv, GeneralizeInv
<1>6. CASE trace[Target] = LevelInf
  <2>1. pc' = "done" /\ k' = k /\ result'.answer = "safe"
    BY <1>6 DEF NextLevel, recordProof
  <2>2. TypeInv'
    BY <1>1, <2>1 DEF Inv, TypeInv, CardinalityInf
  <2>3. Target \in Frame(LevelInf)
    BY <1>3, <1>6 DEF Frame
  <2>4. InitialStates \intersect LeadToBad(sys) = {}
    BY <1>2, <2>3, ReachableInFrames, NothingBad
  <2>5. AnswerInv'
    BY <1>1, <2>1, <2>4, SameLogic, SameSystem DEF AnswerInv
  <2> QED
    BY <1>4, <1>5, <2>1, <2>2, <2>5 DEF Inv, TargetInv
<1>7. CASE trace[Target] # LevelInf
  <2>1. pc' = "isSafe" /\ k' = trace[Target] + 1
    BY <1>7 DEF NextLevel
  <2>2. k' \in 1 .. LevelInf /\ k' - 1 = trace[Target]
    BY <1>3, <1>7, <2>1, ConstantsAssumption
  <2>3. TypeInv'
    BY <1>1, <2>1, <2>2 DEF Inv, TypeInv, CardinalityInf
  <2>4. Avoids(Reached[trace[Target]], Target)
    BY <1>2, <1>3, LemmaAvoids
  <2>5. Avoids(Reached[k - 1], Target)'
    BY <1>1, <2>2, <2>4, SameLogic DEF Target
  <2>6. TargetInv'
    BY <2>1, <2>5 DEF TargetInv
  <2> QED
    BY <1>4, <1>5, <2>1, <2>3, <2>6 DEF Inv, AnswerInv
<1> QED
  BY <1>6, <1>7

--------------------------------------------------------------------------------
(* Steps that change the trace. *)

\* More lemmas, at higher levels, as they are after a step of the solver.
LEMMA GrownTrace ==
  ASSUME Core, UNCHANGED <<sys, restrictions>>,
         trace' \in [DOMAIN trace' -> 0 .. LevelInf],
         DOMAIN trace \subseteq DOMAIN trace', \A c \in DOMAIN trace : trace'[c] >= trace[c]
  PROVE  /\ InitialStates' = InitialStates
         /\ Reached' = Reached
         /\ \A n \in Nat : Closure(n)' \subseteq Closure(n) /\ FullFrame(n) \subseteq FullFrame(n)'
         /\ Frame(LevelInf) \subseteq Frame(LevelInf)'
<1>1. InitialStates' = InitialStates /\ Reached' = Reached
  BY SameRestrictions
<1>2. sys \in Systems /\ trace \in [DOMAIN trace -> 0 .. LevelInf]
  BY DEF Core, TypeInv
<1>3. \A c \in DOMAIN trace : trace[c] \in 0 .. LevelInf /\ trace'[c] \in 0 .. LevelInf
  BY <1>2
<1>4. \A n \in Nat : FullFrame(n) \subseteq FullFrame(n)'
  <2> SUFFICES ASSUME NEW n \in Nat, NEW c \in DOMAIN trace, trace[c] >= n
               PROVE  trace'[c] >= n
    BY DEF FullFrame
  <2> QED
    BY <1>3, ConstantsAssumption
<1>5. Frame(LevelInf) \subseteq Frame(LevelInf)'
  <2> SUFFICES ASSUME NEW c \in DOMAIN trace, trace[c] = LevelInf
               PROVE  trace'[c] = LevelInf
    BY DEF Frame
  <2>1. trace'[c] \in 0 .. LevelInf /\ trace'[c] >= LevelInf
    BY <1>3
  <2> QED
    BY <2>1, ConstantsAssumption
<1>6. \A n \in Nat : Closure(n)' \subseteq Closure(n)
  BY <1>1, <1>2, ClosureShrinks
<1> QED
  BY <1>1, <1>4, <1>5, <1>6

\* Obligations stay right when less can be reached.
LEMMA GrownQueue ==
  ASSUME QueueInv, UNCHANGED <<sys, restrictions>>, Closure(LevelInf)' \subseteq Closure(LevelInf),
         NEW o \in queue
  PROVE  /\ (o.level > 0 => Avoids(Reached[o.level - 1], o.cti))'
         /\ (o.level = 0 => o.path # <<>> /\ o.path[1] \in InitialStates \intersect LeadToBad(sys))'
         /\ (\A s \in Closure(LevelInf), i \in Input : Holds(o.cti, s, i) => s \in LeadToBad(sys))'
<1>1. o.level > 0 => Avoids(Reached[o.level - 1], o.cti)
  BY DEF QueueInv
<1>2. o.level = 0 => o.path # <<>> /\ o.path[1] \in InitialStates \intersect LeadToBad(sys)
  BY DEF QueueInv
<1>3. \A s \in Closure(LevelInf), i \in Input : Holds(o.cti, s, i) => s \in LeadToBad(sys)
  BY DEF QueueInv
<1>4. (o.level > 0 => Avoids(Reached[o.level - 1], o.cti))'
  BY <1>1, SameRestrictions, SameSystem DEF Avoids
<1>5. (o.level = 0 => o.path # <<>> /\ o.path[1] \in InitialStates \intersect LeadToBad(sys))'
  BY <1>2, SameRestrictions, SameSystem
<1>6. (\A s \in Closure(LevelInf), i \in Input : Holds(o.cti, s, i) => s \in LeadToBad(sys))'
  BY <1>3, SameSystem
<1> QED
  BY <1>4, <1>5, <1>6

\* The restrictions stay lemmas.
LEMMA GrownRestrictions ==
  ASSUME RestrictionsInv, UNCHANGED <<sys, restrictions, cardinality, blocked, over>>,
         DOMAIN trace \subseteq DOMAIN trace', pc' # "idle"
  PROVE  RestrictionsInv'
<1>1. Restrictions(cardinality, blocked)' = Restrictions(cardinality, blocked)
      /\ OtherGates(over)' = OtherGates(over)
  BY DEF Restrictions, CardinalityCubes, BlockCubes, OtherGates
<1>2. InitialCubes(restrictions)' = InitialCubes(restrictions)
  BY DEF InitialCubes
<1> QED
  BY <1>1, <1>2 DEF RestrictionsInv

\* addLemma: the generalized cube excludes what the frame below can reach.
LEMMA LearnStep ==
  ASSUME Inv, Learn, UNCHANGED debugVars
  PROVE  Inv'
<1>0. PICK n, g, q : n = obl.level /\ g = gen /\ q = [obl EXCEPT !.level = @ + 1]
  OBVIOUS
<1>1. /\ UNCHANGED <<sys, restrictions, lifter, k, cardinality, blocked, over>>
      /\ pc = "generalize" /\ pc' = "block"
      /\ trace' = WithLemmas(trace, {g}, n)
      /\ queue' = (queue \ {obl}) \union (IF n < k THEN {q} ELSE {})
  BY <1>0 DEF Learn, addLemmas, debugVars
<1>2. Core /\ sys \in Systems
  BY DEF Inv, Core, TypeInv
<1>3. /\ obl \in queue /\ n > 0 /\ ~syntacticBlock(obl)
      /\ g \in Cube /\ g \subseteq obl.cti
      /\ Avoids(InitialStates, g) /\ Avoids(Closure(n - 1), g)
  BY <1>0, <1>1 DEF Inv, GeneralizeInv
<1>4. obl \in [cti : Cube, level : 0 .. k, path : Seq(State)] /\ k \in 1 .. LevelInf
  BY <1>3 DEF Inv, TypeInv
<1>5. k < LevelInf
  BY <1>1 DEF Inv, TargetInv
<1>6. n \in 0 .. LevelInf /\ n - 1 \in Nat /\ n < LevelInf /\ n <= k
  BY <1>0, <1>3, <1>4, <1>5, ConstantsAssumption
<1>7. trace \in [DOMAIN trace -> 0 .. LevelInf] /\ DOMAIN trace \subseteq Cube
  BY DEF Inv, TypeInv
<1>8. /\ DOMAIN trace' = {g} \union DOMAIN trace
      /\ trace' \in [DOMAIN trace' -> 0 .. LevelInf]
      /\ trace'[g] = n
      /\ \A c \in DOMAIN trace : c # g => trace'[c] = trace[c]
  <2>1. \A c \in DOMAIN trace : trace[c] \in 0 .. LevelInf
    BY <1>7
  <2>2. /\ DOMAIN trace' = {g} \union DOMAIN trace
        /\ trace' \in [DOMAIN trace' -> 0 .. LevelInf]
        /\ \A c \in {g} : trace'[c] = n
        /\ \A c \in DOMAIN trace \ {g} : trace'[c] = trace[c]
    BY <1>1, <1>6, <2>1 DEF WithLemmas
  <2> QED
    BY <2>2
<1>9. ASSUME g \in DOMAIN trace
      PROVE  trace[g] < n
  <2>1. g \notin FullFrame(n)
    BY <1>0, <1>3 DEF syntacticBlock
  <2>2. trace[g] \in 0 .. LevelInf
    BY <1>7, <1>9
  <2> QED
    BY <1>6, <1>9, <2>1, <2>2, ConstantsAssumption DEF FullFrame
<1>10. \A c \in DOMAIN trace : trace'[c] >= trace[c]
  <2> SUFFICES ASSUME NEW c \in DOMAIN trace PROVE trace'[c] >= trace[c]
    OBVIOUS
  <2>1. trace[c] \in 0 .. LevelInf
    BY <1>7
  <2> QED
    BY <1>6, <1>8, <1>9, <2>1, ConstantsAssumption
<1>11. /\ InitialStates' = InitialStates
       /\ Reached' = Reached
       /\ \A m \in Nat : Closure(m)' \subseteq Closure(m) /\ FullFrame(m) \subseteq FullFrame(m)'
       /\ Frame(LevelInf) \subseteq Frame(LevelInf)'
  BY <1>1, <1>2, <1>8, <1>10, GrownTrace
<1>12. TypeInv'
  <2>1. DOMAIN trace' \subseteq Cube
    BY <1>3, <1>7, <1>8
  <2>2. n < k => q \in [cti : Cube, level : 0 .. k, path : Seq(State)]
    BY <1>0, <1>4, <1>6
  <2>3. queue' \subseteq [cti : Cube, level : 0 .. k, path : Seq(State)]
    BY <1>1, <2>2 DEF Inv, TypeInv
  <2> QED
    BY <1>1, <1>8, <2>1, <2>3, SameSystem DEF Inv, TypeInv, CardinalityInf
<1>13. RestrictionsInv'
  BY <1>1, <1>8, GrownRestrictions DEF Inv
<1>14. TraceInv'
  <2>1. Avoids(InitialStates, g)'
    BY <1>1, <1>3, <1>11, SameSystem DEF Avoids
  <2>2. Avoids(Closure(FrameBelow(trace[g])), g)'
    <3>1. FrameBelow(trace[g])' = n - 1
      BY <1>6, <1>8 DEF FrameBelow
    <3>2. PICK m \in Nat : m = n - 1
      BY <1>6
    <3>3. Closure(FrameBelow(trace[g]))' = Closure(m)'
      BY <3>1, <3>2
    <3>4. Avoids(Closure(m), g)
      BY <1>3, <3>2
    <3> QED
      BY <1>1, <1>11, <3>3, <3>4, SameSystem DEF Avoids
  <2>3. \A c \in DOMAIN trace' : c \notin DOMAIN trace \/ trace'[c] # trace[c] => c = g
    BY <1>8
  <2> QED
    BY <1>1, <1>2, <1>8, <1>10, <1>11, <1>12, <2>1, <2>2, <2>3, TraceStep
<1>15. LifterInv'
  BY <1>1, <1>11 DEF Inv, LifterInv
<1>16. QueueInv'
  <2> SUFFICES ASSUME NEW x \in queue'
               PROVE  /\ (x.level > 0 => Avoids(Reached[x.level - 1], x.cti))'
                      /\ (x.level = 0 =>
                            x.path # <<>> /\ x.path[1] \in InitialStates \intersect LeadToBad(sys))'
                      /\ (\A u \in Closure(LevelInf), i \in Input :
                            Holds(x.cti, u, i) => u \in LeadToBad(sys))'
    BY <1>1 DEF QueueInv
  <2>1. Closure(LevelInf)' \subseteq Closure(LevelInf)
    BY <1>11, ConstantsAssumption
  <2>2. CASE x \in queue
    BY <1>1, <2>1, <2>2, GrownQueue DEF Inv
  <2>3. CASE x = q
    <3>1. x.level = n + 1 /\ x.cti = obl.cti /\ x.level - 1 = n /\ x.level # 0
      BY <1>0, <1>4, <1>6, <2>3
    <3>2. Reached[n] \subseteq Closure(n - 1)
      BY <1>2, <1>6, ReachedInClosure
    <3>3. Avoids(Reached[n], g)
      BY <1>3, <3>2 DEF Avoids
    <3>4. Avoids(Reached[n], obl.cti)
      BY <1>3, <3>3 DEF Avoids, Holds
    <3>5. (x.level > 0 => Avoids(Reached[x.level - 1], x.cti))'
      BY <1>1, <1>11, <3>1, <3>4, SameSystem DEF Avoids
    <3>6. \A u \in Closure(LevelInf), i \in Input : Holds(x.cti, u, i) => u \in LeadToBad(sys)
      BY <1>3, <3>1 DEF Inv, QueueInv
    <3>7. (\A u \in Closure(LevelInf), i \in Input : Holds(x.cti, u, i) => u \in LeadToBad(sys))'
      BY <1>1, <2>1, <3>6, SameSystem
    <3> QED
      BY <3>1, <3>5, <3>7
  <2> QED
    BY <1>1, <2>2, <2>3
<1>17. TargetInv'
  <2> DEFINE t == [cti |-> Target, level |-> k, path |-> <<>>]
  <2>1. t \in queue \/ Target \in FullFrame(k)
    BY <1>1 DEF Inv, TargetInv
  <2>2. FullFrame(k) \subseteq FullFrame(k)'
    <3>1. PICK m \in Nat : m = k
      BY <1>4, ConstantsAssumption
    <3>2. FullFrame(m)' = FullFrame(k)'
      BY <1>1, <3>1
    <3> QED
      BY <1>11, <3>1, <3>2
  <2>3. ASSUME obl = t
        PROVE  Target \in FullFrame(k)'
    <3>1. g \subseteq Target /\ g # {} /\ n = k
      BY <1>0, <1>3, <2>3 DEF Cube
    <3>2. g = Target
      BY <3>1 DEF Target
    <3> QED
      BY <1>1, <1>4, <1>8, <3>1, <3>2 DEF FullFrame
  <2>4. t \in queue' \/ Target \in FullFrame(k)'
    BY <1>1, <2>1, <2>2, <2>3
  <2>5. t' = t
    BY <1>1 DEF Target
  <2>6. (Target \in FullFrame(k))' <=> Target \in FullFrame(k)'
    BY DEF Target
  <2> HIDE DEF t
  <2>7. (t \in queue \/ Target \in FullFrame(k))'
    BY <2>4, <2>5, <2>6
  <2> QED
    BY <1>1, <1>5, <2>7 DEF TargetInv, t
<1> QED
  BY <1>1, <1>12, <1>13, <1>14, <1>15, <1>16, <1>17 DEF Inv, GeneralizeInv, AnswerInv

\* The steps of pushLemmas keep the lemmas and raise their levels.
LEMMA PushStep ==
  ASSUME Inv, UNCHANGED <<sys, restrictions, lifter, queue, k, cardinality, blocked, over>>,
         pc = "push", pc' \in {"push", "pushed"},
         DOMAIN trace' = DOMAIN trace, trace' \in [DOMAIN trace' -> 0 .. LevelInf],
         \A c \in DOMAIN trace : trace'[c] >= trace[c],
         \A c \in DOMAIN trace : trace'[c] # trace[c] =>
           Avoids(Closure(FrameBelow(trace[c])), c)',
         pc' = "push" => at' \in Nat \ {0} /\ \A n \in 1 .. at' - 1 : Frame(n)' # {}
  PROVE  Inv'
<1>1. Core /\ queue = {}
  BY DEF Inv, Core, QueueInv
<1>2. /\ InitialStates' = InitialStates
      /\ \A m \in Nat : Closure(m)' \subseteq Closure(m) /\ FullFrame(m) \subseteq FullFrame(m)'
      /\ Frame(LevelInf) \subseteq Frame(LevelInf)'
  BY <1>1, GrownTrace
<1>3. TypeInv'
  BY <1>1 DEF Inv, TypeInv, CardinalityInf
<1>4. RestrictionsInv'
  BY GrownRestrictions DEF Inv
<1>5. TraceInv'
  <2>1. \A c \in DOMAIN trace : Avoids(InitialStates, c)'
    BY <1>2, SameSystem DEF Inv, TraceInv, Avoids
  <2> QED
    BY <1>1, <1>2, <1>3, <2>1, TraceStep
<1>6. LifterInv' /\ QueueInv' /\ GeneralizeInv' /\ AnswerInv'
  BY <1>1, <1>2 DEF Inv, LifterInv, QueueInv, GeneralizeInv, AnswerInv
<1>7. TargetInv'
  <2>1. PICK m \in Nat : m = k
    BY ConstantsAssumption DEF Inv, TypeInv
  <2>2. FullFrame(m)' = FullFrame(k)'
    BY <2>1
  <2>3. (Target \in FullFrame(k))'
    BY <1>2, <2>1, <2>2 DEF Inv, TargetInv, Target
  <2>4. (pc = "push" => at \in Nat \ {0} /\ \A n \in 1 .. at - 1 : Frame(n) # {})'
    OBVIOUS
  <2> QED
    BY <2>3, <2>4 DEF TargetInv
<1> QED
  BY <1>3, <1>4, <1>5, <1>6, <1>7 DEF Inv

\* Some lemmas of the frame hold in the next.
LEMMA PushSomeStep ==
  ASSUME Inv, PushFrame, UNCHANGED debugVars, Pushed # Frame(at)
  PROVE  Inv'
<1>0. PICK n, C : n = at /\ C = Pushed
  OBVIOUS
<1>1. /\ UNCHANGED <<sys, restrictions, lifter, queue, k, cardinality, blocked, over>>
      /\ pc = "push" /\ pc' = "push" /\ at' = n + 1 /\ n + 1 < LevelInf
      /\ trace' = WithLemmas(trace, C, n + 1)
  BY <1>0 DEF PushFrame, pushToNext, debugVars
<1>2. Core /\ trace \in [DOMAIN trace -> 0 .. LevelInf]
  BY DEF Inv, Core, TypeInv
<1>3. n \in Nat \ {0} /\ \A m \in 1 .. n - 1 : Frame(m) # {}
  BY <1>0, <1>1 DEF Inv, TargetInv
<1>4. C \subseteq DOMAIN trace /\ \A c \in C : trace[c] = n /\ consecution(n, c)
  BY <1>0 DEF Pushed, Frame
<1>5. n + 1 \in 0 .. LevelInf
  BY <1>1, <1>3, ConstantsAssumption
<1>6. /\ DOMAIN trace' = DOMAIN trace
      /\ trace' \in [DOMAIN trace' -> 0 .. LevelInf]
      /\ \A c \in C : trace'[c] = n + 1
      /\ \A c \in DOMAIN trace \ C : trace'[c] = trace[c]
  <2>1. \A c \in DOMAIN trace : trace[c] \in 0 .. LevelInf
    BY <1>2
  <2> QED
    BY <1>1, <1>4, <1>5, <2>1 DEF WithLemmas
<1>7. \A c \in DOMAIN trace : trace'[c] >= trace[c]
  <2> SUFFICES ASSUME NEW c \in DOMAIN trace PROVE trace'[c] >= trace[c]
    OBVIOUS
  <2>1. trace[c] \in 0 .. LevelInf
    BY <1>2
  <2> QED
    BY <1>3, <1>4, <1>6, <2>1, ConstantsAssumption
<1>8. \A m \in Nat : Closure(m)' \subseteq Closure(m)
  BY <1>1, <1>2, <1>6, <1>7, GrownTrace
<1>9. ASSUME NEW c \in DOMAIN trace, trace'[c] # trace[c]
      PROVE  Avoids(Closure(FrameBelow(trace[c])), c)'
  <2>1. c \in C /\ trace'[c] = n + 1
    BY <1>6, <1>9
  <2>2. FrameBelow(trace[c])' = n
    BY <1>1, <1>3, <2>1 DEF FrameBelow
  <2>3. Closure(FrameBelow(trace[c]))' = Closure(n)'
    BY <2>2
  <2>4. Avoids(Closure(n), c)
    BY <1>2, <1>4, <2>1, ConsecutionAvoids DEF Core, TraceInv
  <2> QED
    BY <1>1, <1>3, <1>8, <2>3, <2>4, SameSystem DEF Avoids
<1>10. ASSUME NEW m \in 1 .. (n + 1) - 1
       PROVE  Frame(m)' # {}
  <2>1. CASE m = n
    <3>1. PICK c \in Frame(n) : c \notin C
      BY <1>0 DEF Pushed
    <3> QED
      BY <1>6, <2>1, <3>1 DEF Frame
  <2>2. CASE m # n
    <3>1. m \in 1 .. n - 1
      BY <1>3, <2>2
    <3>2. PICK c \in Frame(m) : TRUE
      BY <1>3, <3>1
    <3>3. c \in DOMAIN trace \ C /\ trace[c] = m
      BY <1>4, <2>2, <3>2 DEF Frame
    <3> QED
      BY <1>6, <3>3 DEF Frame
  <2> QED
    BY <2>1, <2>2
<1>11. at' \in Nat \ {0} /\ \A m \in 1 .. at' - 1 : Frame(m)' # {}
  BY <1>1, <1>3, <1>10
<1> QED
  BY <1>1, <1>6, <1>7, <1>9, <1>11, PushStep

\* All of them do: what is left of the trace holds everywhere.
LEMMA PushAllStep ==
  ASSUME Inv, PushFrame, UNCHANGED debugVars, Pushed = Frame(at)
  PROVE  Inv'
<1>0. PICK n, C : n = at /\ C = FullFrame(n)
  OBVIOUS
<1>1. /\ UNCHANGED <<sys, restrictions, lifter, queue, k, cardinality, blocked, over>>
      /\ pc = "push" /\ pc' = "pushed" /\ n + 1 < LevelInf
      /\ trace' = WithLemmas(trace, C, LevelInf)
  BY <1>0 DEF PushFrame, pushFrameToInf, debugVars
<1>2. Core /\ sys \in Systems /\ trace \in [DOMAIN trace -> 0 .. LevelInf]
  BY DEF Inv, Core, TypeInv
<1>3. n \in Nat \ {0}
  BY <1>0, <1>1 DEF Inv, TargetInv
<1>4. C \subseteq DOMAIN trace /\ \A c \in C : trace[c] \in n .. LevelInf
  BY <1>0, <1>2, <1>3, ConstantsAssumption DEF FullFrame
<1>5. /\ DOMAIN trace' = DOMAIN trace
      /\ trace' \in [DOMAIN trace' -> 0 .. LevelInf]
      /\ \A c \in C : trace'[c] = LevelInf
      /\ \A c \in DOMAIN trace \ C : trace'[c] = trace[c]
  <2>1. LevelInf \in 0 .. LevelInf /\ \A c \in DOMAIN trace : trace[c] \in 0 .. LevelInf
    BY <1>2, ConstantsAssumption
  <2> QED
    BY <1>1, <1>4, <2>1 DEF WithLemmas
<1>6. \A c \in DOMAIN trace : trace'[c] >= trace[c]
  <2> SUFFICES ASSUME NEW c \in DOMAIN trace PROVE trace'[c] >= trace[c]
    OBVIOUS
  <2>1. trace[c] \in 0 .. LevelInf
    BY <1>2
  <2> QED
    BY <1>5, <2>1, ConstantsAssumption
<1>7. \A c \in C : Avoids(Closure(n), c)
  <2> SUFFICES ASSUME NEW c \in C PROVE Avoids(Closure(n), c)
    OBVIOUS
  <2>1. CASE trace[c] = n
    <3>1. consecution(n, c)
      BY <1>0, <1>4, <2>1 DEF Pushed, Frame
    <3> QED
      BY <1>2, <1>4, <3>1, ConsecutionAvoids DEF Core, TraceInv
  <2>2. CASE trace[c] # n
    <3>1. FrameBelow(trace[c]) \in Nat /\ n <= FrameBelow(trace[c]) /\ trace[c] > 0
      BY <1>3, <1>4, <2>2, ConstantsAssumption DEF FrameBelow
    <3>2. Closure(n) \subseteq Closure(FrameBelow(trace[c]))
      BY <1>2, <1>3, <3>1, ClosureMonotone
    <3> QED
      BY <1>2, <1>4, <3>1, <3>2 DEF Core, TraceInv, Avoids
  <2> QED
    BY <2>1, <2>2
<1>8. Closure(LevelInf)' \subseteq Closure(n)
  <2>1. InitialStates' = InitialStates
    BY <1>1, SameRestrictions
  <2>2. \A c \in FullFrame(n) : c \in FullFrame(LevelInf)'
    BY <1>0, <1>5, ConstantsAssumption DEF FullFrame
  <2>3. \A s, i : InFrame(LevelInf, s, i)' => InFrame(n, s, i)
    BY <1>1, <2>2, SameSystem DEF InFrame
  <2>4. \A X \in SUBSET State : ClosedIn(n, X) => ClosedIn(LevelInf, X)'
    BY <1>1, <2>1, <2>3, SameSystem DEF ClosedIn
  <2> QED
    BY <1>1, <2>4, SameSystem DEF Closure
<1>9. ASSUME NEW c \in DOMAIN trace, trace'[c] # trace[c]
      PROVE  Avoids(Closure(FrameBelow(trace[c])), c)'
  <2>1. c \in C /\ trace'[c] = LevelInf
    BY <1>5, <1>9
  <2>2. FrameBelow(trace[c])' = LevelInf
    BY <2>1 DEF FrameBelow
  <2>3. Closure(FrameBelow(trace[c]))' = Closure(LevelInf)'
    BY <2>2
  <2>4. Avoids(Closure(n), c)
    BY <1>7, <2>1
  <2> QED
    BY <1>1, <1>8, <2>3, <2>4, SameSystem DEF Avoids
<1> QED
  BY <1>1, <1>5, <1>6, <1>9, PushStep

--------------------------------------------------------------------------------
(* The calls of the client: what is left of the trace when the initial states change. *)

\* A finite set has subsets of every smaller size.
LEMMA SubsetOfSize ==
  ASSUME NEW S, IsFiniteSet(S), NEW n \in Nat, n <= Cardinality(S)
  PROVE  \E T \in SUBSET S : Cardinality(T) = n
<1> DEFINE N == { m \in Nat : m >= n /\ \E T \in SUBSET S : Cardinality(T) = m }
<1>1. N # {}
  <2>1. Cardinality(S) \in Nat /\ S \in SUBSET S
    BY FS_CardinalityType
  <2> QED
    BY <2>1
<1>2. PICK m \in N : \A p \in N : m <= p
  <2>1. N \in SUBSET Nat
    OBVIOUS
  <2> HIDE DEF N
  <2> QED
    BY <1>1, <2>1, LeastNatural
<1>3. PICK T \in SUBSET S : Cardinality(T) = m
  OBVIOUS
<1>4. m \in Nat /\ m >= n
  OBVIOUS
<1>5. ASSUME m # n
      PROVE  FALSE
  <2>1. IsFiniteSet(T)
    BY FS_Subset
  <2>2. T # {}
    <3>1. Cardinality({}) = 0
      BY FS_EmptySet
    <3> QED
      BY <1>3, <1>4, <1>5, <3>1
  <2>3. PICK x \in T : TRUE
    BY <2>2
  <2>4. Cardinality(T \ {x}) = m - 1
    BY <1>3, <2>1, FS_RemoveElement
  <2>5. m - 1 \in Nat /\ m - 1 >= n
    BY <1>4, <1>5
  <2>6. m - 1 \in N
    BY <2>4, <2>5
  <2> QED
    BY <1>2, <1>4, <2>6
<1> QED
  BY <1>3, <1>5

\* The initial states that settings of the client leave.
Permitted(n, B, G) ==
  { s \in State :
      /\ \A c \in sys.init, i \in Input : ~Holds(c, s, i)
      /\ n = CardinalityInf \/ Cardinality(s \intersect sys.debug) <= n
      /\ \A D \in B : ~(D \subseteq s)
      /\ s \intersect sys.debug \subseteq G }

\* The restrictions leave the initial states that the settings do.
LEMMA PermittedIs ==
  ASSUME sys \in Systems, NEW n \in Nat,
         NEW B \in SUBSET ((SUBSET sys.debug) \ {{}}), NEW G \in SUBSET sys.debug,
         restrictions = Restrictions(n, B) \union OtherGates(G)
  PROVE  InitialStates = Permitted(n, B, G)
<1> SUFFICES ASSUME NEW s \in State
             PROVE  s \in InitialStates <=> s \in Permitted(n, B, G)
  BY DEF InitialStates, Permitted
<1> DEFINE E == s \intersect sys.debug
<1>1. IsFiniteSet(E) /\ Cardinality(E) \in Nat /\ {} \in Input
  BY StepType, FS_Subset, FS_CardinalityType
<1>2. s \in InitialStates <=>
        /\ \A c \in sys.init, i \in Input : ~Holds(c, s, i)
        /\ \A c \in restrictions, i \in Input : ~Holds(c, s, i)
  BY DEF InitialStates, InitialCubes
<1>3. ASSUME s \in InitialStates
      PROVE  s \in Permitted(n, B, G)
  <2>1. ASSUME NEW D \in SUBSET sys.debug, BlockCube(D) \in restrictions
        PROVE  ~(D \subseteq s)
    BY <1>1, <1>2, <1>3, <2>1, BlockCubeIs
  <2>2. ASSUME n # CardinalityInf, ~(Cardinality(E) <= n)
        PROVE  FALSE
    <3>1. n + 1 \in Nat /\ n + 1 <= Cardinality(E)
      BY <1>1, <2>2
    <3>2. PICK D \in SUBSET E : Cardinality(D) = n + 1
      BY <1>1, <3>1, SubsetOfSize
    <3>3. D \in SUBSET sys.debug /\ BlockCube(D) \in CardinalityCubes(n)
      BY <2>2, <3>2 DEF CardinalityCubes, BlockCube
    <3> QED
      BY <2>1, <3>2, <3>3 DEF Restrictions
  <2>3. ASSUME NEW D \in B
        PROVE  ~(D \subseteq s)
    BY <2>1 DEF Restrictions, BlockCubes
  <2>4. ASSUME NEW l \in E, l \notin G
        PROVE  FALSE
    <3>1. BlockCube({l}) \in OtherGates(G)
      BY <2>4 DEF BlockCube, OtherGates
    <3> QED
      BY <2>1, <3>1
  <2> QED
    BY <1>2, <1>3, <2>2, <2>3, <2>4 DEF Permitted
<1>4. ASSUME s \in Permitted(n, B, G), NEW c \in restrictions, NEW i \in Input
      PROVE  ~Holds(c, s, i)
  <2>1. PICK D \in (SUBSET sys.debug) \ {{}} :
          /\ c = BlockCube(D)
          /\ \/ n # CardinalityInf /\ Cardinality(D) = n + 1
             \/ D \in B
             \/ \E l \in sys.debug \ G : D = {l}
    <3>1. c \in Restrictions(n, B) \union OtherGates(G)
      BY <1>4
    <3> QED
      BY <3>1, RestrictionCubes, SMTT(30)
  <2>2. ~(D \subseteq s)
    <3>1. ASSUME n # CardinalityInf, Cardinality(D) = n + 1, D \subseteq s
          PROVE  FALSE
      <4>1. D \in SUBSET E /\ Cardinality(E) <= n
        BY <1>4, <3>1 DEF Permitted
      <4>2. Cardinality(D) <= Cardinality(E)
        BY <1>1, <4>1, FS_Subset
      <4> QED
        BY <1>1, <3>1, <4>1, <4>2
    <3>2. CASE D \in B
      BY <1>4, <3>2 DEF Permitted
    <3>3. CASE \E l \in sys.debug \ G : D = {l}
      BY <1>4, <3>3 DEF Permitted
    <3> QED
      BY <2>1, <3>1, <3>2, <3>3
  <2> QED
    BY <2>1, <2>2, BlockCubeIs
<1>5. s \in Permitted(n, B, G) => \A c \in sys.init, i \in Input : ~Holds(c, s, i)
  BY DEF Permitted
<1> QED
  BY <1>2, <1>3, <1>4, <1>5

\* Between calls, only the settings, the restrictions and the trace matter.
LEMMA ClientStep ==
  ASSUME Inv, pc \in {"idle", "done"}, pc' \in {"idle", "restricted"}, UNCHANGED <<sys, queue, k>>,
         TypeInv', RestrictionsInv', TraceInv', lifter' = <<>>
  PROVE  Inv'
<1>1. QueueInv'
  BY DEF Inv, QueueInv
<1> QED
  BY <1>1 DEF Inv, LifterInv, GeneralizeInv, TargetInv, AnswerInv

\* A restriction that excludes a set of debug latches excludes what is reached from
\* the states that remain: debug latches keep their values.
LEMMA DebugCubeAvoids ==
  ASSUME sys \in Systems, sys' = sys, NEW n, NEW D \in SUBSET sys.debug,
         NEW c, c = BlockCube(D), Avoids(InitialStates, c)'
  PROVE  Avoids(Closure(n), c)'
<1> DEFINE X == { s \in State : ~(D \subseteq s) }
<1>2. InitialStates' \subseteq X
  <2> SUFFICES ASSUME NEW s \in InitialStates' PROVE s \in State /\ ~(D \subseteq s)
    OBVIOUS
  <2>1. s \in State /\ {} \in Input
    BY StepType, SameSystem DEF InitialStates
  <2>2. ~Holds(c, s, {})'
    BY <2>1, SameSystem DEF Avoids
  <2> QED
    BY <2>1, <2>2, BlockCubeIs, SameSystem
<1>3. ASSUME NEW s \in X, NEW i \in Input
      PROVE  sys.step[s][i] \in X
  <2>1. sys.step[s][i] \in State
    BY <1>3, StepType
  <2>2. sys.step[s][i] \intersect sys.debug = s \intersect sys.debug
    BY <1>3, SystemsAssumption DEF State, Input
  <2> QED
    BY <1>3, <2>1, <2>2
<1>4. Closure(n)' \subseteq X
  <2>1. X \in SUBSET State /\ ClosedIn(n, X)'
    BY <1>2, <1>3, SameSystem DEF ClosedIn
  <2>2. PICK Y : Y = X
    OBVIOUS
  <2>3. X' = X
    BY SameSystem
  <2> HIDE DEF X
  <2>4. Y \in SUBSET State' /\ ClosedIn(n, Y)'
    BY <2>1, <2>2, <2>3, SameSystem
  <2> QED
    BY <2>2, <2>4 DEF Closure
<1>5. ASSUME NEW s \in X, NEW i
      PROVE  ~Holds(c, s, i)'
  BY BlockCubeIs, SameSystem
<1> QED
  BY <1>4, <1>5 DEF Avoids

\* The restrictions are as strong as the settings and no stronger.
LEMMA RestrictStep ==
  ASSUME Inv, pc = "idle", pc' \in {"idle", "restricted"}, UNCHANGED <<sys, queue, k>>,
         cardinality' \in 0 .. CardinalityInf,
         blocked' \in SUBSET ((SUBSET sys.debug) \ {{}}),
         over' \in SUBSET sys.debug,
         pc' = "idle" => over' = sys.debug,
         NEW r, r = Restrictions(cardinality', blocked') \union OtherGates(over'),
         NEW C, C \subseteq r, \A c \in C : \E D \in SUBSET sys.debug : c = BlockCube(D),
         initialStatesRestricted(r, C),
         InitialStates' \subseteq InitialStates
  PROVE  Inv'
<1> DEFINE new == InitialCubes(r) \ (C \union DOMAIN trace)
<1>1. sys \in Systems /\ trace \in [DOMAIN trace -> 0 .. LevelInf] /\ Core
  BY DEF Inv, Core, TypeInv
<1>2. restrictions' = r /\ lifter' = <<>> /\ InitialCubes(restrictions)' = InitialCubes(r)
  BY DEF initialStatesRestricted, InitialCubes
<1>3. C \subseteq InitialCubes(r)
  BY DEF InitialCubes
<1>4. /\ DOMAIN trace' = InitialCubes(r) \union DOMAIN trace
      /\ \A c \in DOMAIN trace' :
           trace'[c] = IF c \in new THEN 0 ELSE IF c \in C THEN LevelInf ELSE trace[c]
  <2>1. trace' = WithLemmas(WithLemmas(trace, C, LevelInf),
                            InitialCubes(r) \ DOMAIN WithLemmas(trace, C, LevelInf), 0)
    BY DEF initialStatesRestricted
  <2> DEFINE lemmas == WithLemmas(trace, C, LevelInf)
  <2>2. DOMAIN lemmas = C \union DOMAIN trace
    BY DEF WithLemmas
  <2>3. \A c \in DOMAIN lemmas : lemmas[c] = IF c \in C THEN LevelInf ELSE trace[c]
    BY DEF WithLemmas
  <2>4. trace' = [c \in new \union (C \union DOMAIN trace) |-> IF c \in new THEN 0 ELSE lemmas[c]]
    BY <2>1, <2>2 DEF WithLemmas
  <2>5. DOMAIN trace' = InitialCubes(r) \union DOMAIN trace
    BY <1>3, <2>4
  <2> HIDE DEF lemmas
  <2>6. \A c \in DOMAIN trace' : trace'[c] = IF c \in new THEN 0 ELSE lemmas[c]
    BY <2>4
  <2>7. \A c \in DOMAIN trace' : c \notin new => c \in C \union DOMAIN trace
    BY <2>5
  <2> HIDE DEF new
  <2> QED
    BY <2>2, <2>3, <2>5, <2>6, <2>7
<1>5. \A c \in InitialCubes(r) : c \in Cube
  <2>1. cardinality' \in Nat
    BY ConstantsAssumption DEF CardinalityInf
  <2> QED
    BY <1>1, <2>1, InitialCubeIs
<1>6. TypeInv'
  <2>1. DOMAIN trace' \subseteq Cube
    BY <1>4, <1>5 DEF Inv, TypeInv
  <2>2. trace' \in [DOMAIN trace' -> 0 .. LevelInf]
    <3>1. ASSUME NEW c \in DOMAIN trace'
          PROVE  trace'[c] \in 0 .. LevelInf
      <4>1. c \notin new /\ c \notin C => c \in DOMAIN trace
        BY <1>4
      <4>2. trace'[c] = IF c \in new THEN 0 ELSE IF c \in C THEN LevelInf ELSE trace[c]
        BY <1>4
      <4> HIDE DEF new
      <4> QED
        BY <1>1, <4>1, <4>2, ConstantsAssumption
    <3>2. trace' = [c \in DOMAIN trace' |-> trace'[c]]
      BY DEF initialStatesRestricted, WithLemmas
    <3> QED
      BY <3>1, <3>2
  <2> QED
    BY <2>1, <2>2, SameSystem DEF Inv, TypeInv, CardinalityInf, Cube
<1>7. RestrictionsInv'
  <2>1. Restrictions(cardinality, blocked)' = Restrictions(cardinality', blocked')
        /\ OtherGates(over)' = OtherGates(over')
    BY
    DEF Restrictions, CardinalityCubes, BlockCubes, OtherGates, BlockCube,
        CardinalityInf
  <2> QED
    BY <1>2, <1>4, <2>1 DEF RestrictionsInv
<1>8. TraceInv'
  <2>1. \A c \in DOMAIN trace : c \in DOMAIN trace' /\ trace'[c] >= trace[c]
    <3> SUFFICES ASSUME NEW c \in DOMAIN trace
                 PROVE  c \in DOMAIN trace' /\ trace'[c] >= trace[c]
      OBVIOUS
    <3>1. c \in DOMAIN trace' /\ c \notin new
      BY <1>4
    <3>2. trace'[c] = IF c \in C THEN LevelInf ELSE trace[c]
      BY <1>4, <3>1
    <3>3. trace[c] \in 0 .. LevelInf
      BY <1>1
    <3> QED
      BY <3>1, <3>2, <3>3, ConstantsAssumption
  <2>2. ASSUME NEW c \in DOMAIN trace', c \notin DOMAIN trace \/ trace'[c] # trace[c]
        PROVE  /\ Avoids(InitialStates, c)'
               /\ trace'[c] > 0 => Avoids(Closure(FrameBelow(trace[c])), c)'
    <3>1. c \in InitialCubes(r)
      BY <1>3, <1>4, <2>2
    <3>2. Avoids(InitialStates, c)'
      BY <1>2, <3>1 DEF Avoids, InitialStates
    <3>3. ASSUME trace'[c] > 0
          PROVE  Avoids(Closure(FrameBelow(trace[c])), c)'
      <4>1. c \in C
        <5>1. trace'[c] = IF c \in new THEN 0 ELSE IF c \in C THEN LevelInf ELSE trace[c]
          BY <1>4
        <5>2. c \notin new
          <6> HIDE DEF new
          <6> QED
            BY <3>3, <5>1
        <5>3. c \in DOMAIN trace \/ c \in C
          BY <3>1, <5>2
        <5> HIDE DEF new
        <5> QED
          BY <2>2, <5>1, <5>2, <5>3
      <4>2. PICK D \in SUBSET sys.debug : c = BlockCube(D)
        BY <4>1
      <4>3. PICK n : n = FrameBelow(trace[c])'
        OBVIOUS
      <4>4. Avoids(Closure(n), c)'
        BY <1>1, <3>2, <4>2, DebugCubeAvoids
      <4>5. Closure(FrameBelow(trace[c]))' = Closure(n)'
        BY <4>3
      <4> QED
        BY <4>4, <4>5 DEF Avoids
    <3> QED
      BY <3>2, <3>3
  <2> QED
    BY <1>1, <1>6, <2>1, <2>2, TraceStep
<1> QED
  BY <1>2, <1>6, <1>7, <1>8, ClientStep

\* Restrictions that go take the lemmas with them.
LEMMA ExpandStep ==
  ASSUME Inv, pc \in {"idle", "done"}, pc' = "idle", UNCHANGED <<sys, queue, k>>,
         cardinality' \in 0 .. CardinalityInf,
         blocked' \in SUBSET ((SUBSET sys.debug) \ {{}}),
         over' = sys.debug,
         NEW r, r = Restrictions(cardinality', blocked'),
         initialStatesExpanded(r)
  PROVE  Inv'
<1>1. sys \in Systems /\ cardinality' \in Nat
  BY ConstantsAssumption DEF Inv, TypeInv, CardinalityInf
<1>2. /\ restrictions' = r /\ lifter' = <<>> /\ InitialCubes(restrictions)' = InitialCubes(r)
      /\ DOMAIN trace' = InitialCubes(r)
      /\ \A c \in DOMAIN trace' : trace'[c] = 0
  BY DEF initialStatesExpanded, InitialCubes
<1>3. OtherGates(sys.debug) = {}
  BY DEF OtherGates
<1>4. \A c \in InitialCubes(r) : c \in Cube
  <2>1. r = Restrictions(cardinality', blocked') \union OtherGates(sys.debug)
    BY <1>3
  <2>2. sys.debug \in SUBSET sys.debug
    OBVIOUS
  <2> QED
    BY <1>1, <2>1, <2>2, InitialCubeIs
<1>5. TypeInv'
  <2>1. trace' \in [DOMAIN trace' -> 0 .. LevelInf]
    BY ConstantsAssumption DEF initialStatesExpanded
  <2> QED
    BY <1>2, <1>4, <2>1, SameSystem DEF Inv, TypeInv, CardinalityInf, Cube
<1>6. RestrictionsInv'
  <2>1. Restrictions(cardinality, blocked)' = Restrictions(cardinality', blocked')
        /\ OtherGates(over)' = OtherGates(sys.debug)
    BY
    DEF Restrictions, CardinalityCubes, BlockCubes, OtherGates, BlockCube,
        CardinalityInf
  <2> QED
    BY <1>2, <1>3, <2>1 DEF RestrictionsInv
<1>7. TraceInv'
  <2> SUFFICES ASSUME NEW c \in DOMAIN trace'
               PROVE  /\ Avoids(InitialStates, c)'
                      /\ trace'[c] > 0 => Avoids(Closure(FrameBelow(trace[c])), c)'
    BY DEF TraceInv
  <2>1. Avoids(InitialStates, c)'
    BY <1>2 DEF Avoids, InitialStates
  <2> QED
    BY <1>2, <2>1
<1> QED
  BY <1>2, <1>5, <1>6, <1>7, ClientStep

\* The numbers of debug latches that setCardinality is given.
LEMMA CardinalityType ==
  ASSUME sys \in Systems
  PROVE  0 .. Cardinality(sys.debug) \subseteq 0 .. CardinalityInf - 1
<1>1. IsFiniteSet(0 .. MaxVar) /\ Cardinality(0 .. MaxVar) = MaxVar + 1
  BY ConstantsAssumption, FS_Interval
<1>2. sys.debug \subseteq 0 .. MaxVar
  BY StepType
<1>3. Cardinality(sys.debug) \in Nat /\ Cardinality(sys.debug) <= MaxVar + 1
  BY <1>1, <1>2, ConstantsAssumption, FS_Subset, FS_CardinalityType
<1> QED
  BY <1>3, ConstantsAssumption DEF CardinalityInf

\* Without gates left out, the restrictions are those of the settings.
LEMMA NoOtherGates ==
  ASSUME TypeInv, RestrictionsInv, pc = "idle"
  PROVE  /\ restrictions = Restrictions(cardinality, blocked)
         /\ OtherGates(sys.debug) = {}
<1>1. OtherGates(sys.debug) = {}
  BY DEF OtherGates
<1> QED
  BY <1>1 DEF RestrictionsInv

\* More restrictions leave fewer initial states.
LEMMA FewerStates ==
  ASSUME sys' = sys, \A s \in State : (\A c \in restrictions', i \in Input : ~Holds(c, s, i))
                                      => \A c \in restrictions, i \in Input : ~Holds(c, s, i)
  PROVE  InitialStates' \subseteq InitialStates
<1> SUFFICES ASSUME NEW s \in InitialStates' PROVE s \in InitialStates
  OBVIOUS
<1>1. s \in State /\ \A c \in sys.init \union restrictions', i \in Input : ~Holds(c, s, i)
  BY SameSystem DEF InitialStates, InitialCubes
<1>2. \A c \in restrictions, i \in Input : ~Holds(c, s, i)
  BY <1>1
<1> QED
  BY <1>1, <1>2 DEF InitialStates, InitialCubes

\* debugOverGates: the debug latches of the other gates become unset.
LEMMA DebugOverGatesStep ==
  ASSUME Inv, debugOverGates
  PROVE  Inv'
<1>1. PICK G \in SUBSET sys.debug :
        over' = G /\ initialStatesRestricted(restrictions \union OtherGates(G), OtherGates(G))
  BY DEF debugOverGates
<1>2. /\ UNCHANGED <<sys, queue, k, cardinality, blocked>> /\ pc = "idle" /\ pc' = "restricted"
  BY DEF debugOverGates, Call, workVars
<1>3. PICK r : r = restrictions \union OtherGates(G)
  OBVIOUS
<1>4. PICK C : C = OtherGates(G)
  OBVIOUS
<1>5. r = Restrictions(cardinality', blocked') \union OtherGates(over') /\ C \subseteq r
  BY <1>1, <1>2, <1>3, <1>4, NoOtherGates DEF Inv
<1>6. \A c \in C : \E D \in SUBSET sys.debug : c = BlockCube(D)
  <2> SUFFICES ASSUME NEW c \in C PROVE \E D \in SUBSET sys.debug : c = BlockCube(D)
    OBVIOUS
  <2>1. PICK l \in sys.debug : c = {Lit(l)}
    BY <1>4 DEF OtherGates
  <2>2. {l} \in SUBSET sys.debug /\ c = BlockCube({l})
    BY <2>1 DEF BlockCube
  <2> QED
    BY <2>2
<1>7. initialStatesRestricted(r, C)
  BY <1>1, <1>3, <1>4
<1>8. InitialStates' \subseteq InitialStates
  <2>1. restrictions \subseteq restrictions'
    BY <1>3, <1>7 DEF initialStatesRestricted
  <2> QED
    BY <1>2, <2>1, FewerStates
<1>9. /\ cardinality' \in 0 .. CardinalityInf
      /\ blocked' \in SUBSET ((SUBSET sys.debug) \ {{}})
      /\ over' \in SUBSET sys.debug
  BY <1>1, <1>2 DEF Inv, TypeInv
<1> QED
  BY <1>2, <1>5, <1>6, <1>7, <1>8, <1>9, RestrictStep

\* blockSolution: the initial states with all of a solution's latches set go.
LEMMA BlockSolutionStep ==
  ASSUME Inv, blockSolution
  PROVE  Inv'
<1>1. PICK D \in sys.solutions \ ({{}} \union blocked) :
        /\ blocked' = blocked \union {D}
        /\ initialStatesRestricted(restrictions \union {BlockCube(D)}, {BlockCube(D)})
  BY DEF blockSolution
<1>2. UNCHANGED <<sys, queue, k, cardinality, over>> /\ pc = "idle" /\ pc' = "idle"
  BY DEF blockSolution, Call, workVars
<1>3. D \in (SUBSET sys.debug) \ {{}} /\ over = sys.debug
  <2>1. sys.solutions \subseteq SUBSET sys.debug
    BY SystemsAssumption DEF Inv, TypeInv
  <2> QED
    BY <1>2, <2>1 DEF Inv, RestrictionsInv
<1>4. PICK r : r = restrictions \union {BlockCube(D)}
  OBVIOUS
<1>5. PICK C : C = {BlockCube(D)}
  OBVIOUS
<1>6. r = Restrictions(cardinality', blocked') \union OtherGates(over') /\ C \subseteq r
  <2>1. BlockCubes(blocked') = BlockCubes(blocked) \union {BlockCube(D)}
    BY <1>1 DEF BlockCubes
  <2> QED
    BY <1>2, <1>3, <1>4, <1>5, <2>1, NoOtherGates DEF Restrictions, Inv
<1>7. \A c \in C : \E E \in SUBSET sys.debug : c = BlockCube(E)
  BY <1>3, <1>5
<1>8. initialStatesRestricted(r, C)
  BY <1>1, <1>4, <1>5
<1>9. InitialStates' \subseteq InitialStates
  <2>1. restrictions \subseteq restrictions'
    BY <1>4, <1>8 DEF initialStatesRestricted
  <2> QED
    BY <1>2, <2>1, FewerStates
<1>10. /\ cardinality' \in 0 .. CardinalityInf
       /\ blocked' \in SUBSET ((SUBSET sys.debug) \ {{}})
       /\ over' \in SUBSET sys.debug
  BY <1>1, <1>2, <1>3 DEF Inv, TypeInv
<1> QED
  BY <1>2, <1>3, <1>6, <1>7, <1>8, <1>9, <1>10, RestrictStep

\* A smaller number of latches excludes whatever a larger one does.
LEMMA SmallerCardinality ==
  ASSUME sys \in Systems, NEW m \in Nat, NEW n \in Nat, n < m, n # CardinalityInf,
         NEW B, NEW s,
         \A c \in Restrictions(n, B), i \in Input : ~Holds(c, s, i)
  PROVE  \A c \in Restrictions(m, B), i \in Input : ~Holds(c, s, i)
<1> SUFFICES ASSUME NEW c \in Restrictions(m, B), NEW i \in Input, Holds(c, s, i)
             PROVE  FALSE
  OBVIOUS
<1>1. CASE c \in BlockCubes(B)
  BY <1>1 DEF Restrictions
<1>2. CASE c \in CardinalityCubes(m)
  <2>1. PICK D \in SUBSET sys.debug : Cardinality(D) = m + 1 /\ c = BlockCube(D)
    BY <1>2 DEF CardinalityCubes, BlockCube
  <2>2. IsFiniteSet(D)
    BY StepType, FS_Subset
  <2>3. n + 1 \in Nat /\ n + 1 <= Cardinality(D)
    BY <2>1
  <2>4. PICK E \in SUBSET D : Cardinality(E) = n + 1
    BY <2>2, <2>3, SubsetOfSize
  <2>5. BlockCube(E) \in Restrictions(n, B) /\ E \in SUBSET sys.debug
    BY <2>4 DEF Restrictions, CardinalityCubes, BlockCube
  <2>6. D \subseteq s
    BY <2>1, BlockCubeIs
  <2> QED
    BY <2>5, <2>6, BlockCubeIs
<1> QED
  BY <1>1, <1>2 DEF Restrictions

\* setCardinality, which restricts the initial states or expands them.
LEMMA SetCardinalityStep ==
  ASSUME Inv, setCardinality
  PROVE  Inv'
<1>1. PICK n \in 0 .. Cardinality(sys.debug) - 1 :
        /\ n # cardinality
        /\ cardinality' = n
        /\ IF cardinality < n
           THEN initialStatesExpanded(Restrictions(n, blocked))
           ELSE initialStatesRestricted(Restrictions(n, blocked), BlockCubes(blocked))
  BY DEF setCardinality
<1>2. UNCHANGED <<sys, queue, k, blocked, over>> /\ pc = "idle" /\ pc' = "idle"
  BY DEF setCardinality, Call, workVars
<1>3. sys \in Systems /\ cardinality \in Nat /\ over = sys.debug
  BY <1>2, ConstantsAssumption DEF Inv, TypeInv, RestrictionsInv, CardinalityInf
<1>4. n \in Nat /\ n < CardinalityInf /\ n \in 0 .. CardinalityInf
  <2>1. Cardinality(sys.debug) \in Nat
    BY <1>3, StepType, FS_CardinalityType
  <2>2. n \in 0 .. Cardinality(sys.debug)
    BY <2>1
  <2>3. n \in 0 .. CardinalityInf - 1 /\ CardinalityInf \in Nat
    BY <1>3, <2>2, CardinalityType, ConstantsAssumption DEF CardinalityInf
  <2> QED
    BY <2>3
<1>5. blocked' \in SUBSET ((SUBSET sys.debug) \ {{}}) /\ over' \in SUBSET sys.debug
  BY <1>2, <1>3 DEF Inv, TypeInv
<1>6. PICK r : r = Restrictions(n, blocked)
  OBVIOUS
<1>7. CASE cardinality < n
  <2>1. initialStatesExpanded(r)
    BY <1>1, <1>6, <1>7
  <2> QED
    BY <1>1, <1>2, <1>3, <1>4, <1>5, <1>6, <2>1, ExpandStep
<1>8. CASE ~(cardinality < n)
  <2>1. PICK C : C = BlockCubes(blocked)
    OBVIOUS
  <2>2. initialStatesRestricted(r, C)
    BY <1>1, <1>6, <1>8, <2>1
  <2>3. r = Restrictions(cardinality', blocked') \union OtherGates(over') /\ C \subseteq r
    BY <1>1, <1>2, <1>3, <1>6, <2>1, NoOtherGates DEF Restrictions, Inv
  <2>4. \A c \in C : \E D \in SUBSET sys.debug : c = BlockCube(D)
    BY <2>1 DEF BlockCubes, Inv, TypeInv
  <2>5. InitialStates' \subseteq InitialStates
    <3>1. /\ restrictions' = Restrictions(n, blocked)
          /\ restrictions = Restrictions(cardinality, blocked)
      BY <1>2, <1>6, <2>2, NoOtherGates DEF initialStatesRestricted, Inv
    <3>2. n < cardinality /\ n # CardinalityInf
      BY <1>1, <1>3, <1>4, <1>8
    <3>3. \A s \in State : (\A c \in restrictions', i \in Input : ~Holds(c, s, i))
                           => \A c \in restrictions, i \in Input : ~Holds(c, s, i)
      BY <1>3, <1>4, <3>1, <3>2, SmallerCardinality
    <3> QED
      BY <1>2, <3>3, FewerStates
  <2> QED
    BY <1>1, <1>2, <1>3, <1>4, <1>5, <2>2, <2>3, <2>4, <2>5, RestrictStep
<1> QED
  BY <1>7, <1>8

\* clearCardinality: only solutions stay blocked.
LEMMA ClearCardinalityStep ==
  ASSUME Inv, clearCardinality
  PROVE  Inv'
<1>1. /\ UNCHANGED <<sys, queue, k, blocked, over>> /\ pc = "idle" /\ pc' = "idle"
      /\ cardinality' = CardinalityInf
      /\ initialStatesExpanded(BlockCubes(blocked))
  BY DEF clearCardinality, Call, workVars
<1>2. PICK r : r = BlockCubes(blocked)
  OBVIOUS
<1>3. r = Restrictions(cardinality', blocked')
  BY <1>1, <1>2 DEF Restrictions, CardinalityCubes
<1>4. cardinality' \in 0 .. CardinalityInf
  BY <1>1, ConstantsAssumption DEF CardinalityInf
<1>5. blocked' \in SUBSET ((SUBSET sys.debug) \ {{}}) /\ over' = sys.debug
  BY <1>1 DEF Inv, TypeInv, RestrictionsInv
<1> QED
  BY <1>1, <1>2, <1>3, <1>4, <1>5, ExpandStep

\* The end of a call.
LEMMA ReturnStep ==
  ASSUME Inv, Return
  PROVE  Inv'
<1>1. /\ UNCHANGED <<sys, queue, k, cardinality, blocked>> /\ pc = "done" /\ pc' = "idle"
      /\ over' = sys.debug
  BY DEF Return, workVars
<1>2. Core
  BY DEF Inv, Core
<1>3. cardinality' \in 0 .. CardinalityInf /\ blocked' \in SUBSET ((SUBSET sys.debug) \ {{}})
  BY <1>1 DEF Inv, TypeInv
<1>4. CASE over = sys.debug
  <2>1. UNCHANGED <<trace, restrictions, lifter, over>>
    BY <1>1, <1>4 DEF Return, traceVars
  <2>2. TraceInv' /\ RestrictionsInv' /\ LifterInv'
    BY <1>1, <1>2, <2>1, SameTrace, SameLifter DEF Inv
  <2>3. TypeInv'
    BY <1>1, <2>1, SameSystem DEF Inv, TypeInv, CardinalityInf, Cube
  <2>4. QueueInv'
    BY <1>1 DEF Inv, QueueInv
  <2> QED
    BY <1>1, <2>2, <2>3, <2>4 DEF Inv, GeneralizeInv, TargetInv, AnswerInv
<1>5. CASE over # sys.debug
  <2>1. PICK r : r = Restrictions(cardinality, blocked)
    OBVIOUS
  <2>2. initialStatesExpanded(r) /\ r = Restrictions(cardinality', blocked')
    BY <1>1, <1>5, <2>1 DEF Return
  <2> QED
    BY <1>1, <1>3, <2>2, ExpandStep
<1> QED
  BY <1>4, <1>5

--------------------------------------------------------------------------------
(* The theorems. *)

\* The constructor: the lemmas are the cubes that the initial states avoid.
LEMMA InitInv ==
  ASSUME Init
  PROVE  Inv
<1>1. /\ sys \in Systems /\ blocked = {} /\ over = sys.debug
      /\ SolverInit(CardinalityCubes(cardinality))
  BY DEF Init
<1>2. cardinality \in 0 .. CardinalityInf /\ cardinality \in Nat
  BY ConstantsAssumption DEF Init, CardinalityInf
<1>3. restrictions = Restrictions(cardinality, blocked) \union OtherGates(over)
  BY <1>1 DEF SolverInit, Restrictions, BlockCubes, OtherGates
<1>4. restrictions = CardinalityCubes(cardinality)
  BY <1>1 DEF SolverInit
<1>5. DOMAIN trace = InitialCubes(restrictions) /\ \A c \in DOMAIN trace : trace[c] = 0
  BY <1>1, <1>4 DEF SolverInit
<1>6. TypeInv
  <2>1. blocked \in SUBSET ((SUBSET sys.debug) \ {{}}) /\ over \in SUBSET sys.debug
    BY <1>1
  <2>2. DOMAIN trace \subseteq Cube
    BY <1>1, <1>2, <1>3, <1>5, <2>1, InitialCubeIs
  <2>3. trace \in [DOMAIN trace -> 0 .. LevelInf]
    BY <1>1, ConstantsAssumption DEF SolverInit
  <2> QED
    BY <1>1, <1>2, <2>1, <2>2, <2>3, ConstantsAssumption DEF TypeInv, SolverInit
<1>7. RestrictionsInv
  BY <1>1, <1>3, <1>5 DEF RestrictionsInv
<1>8. TraceInv
  BY <1>5 DEF TraceInv, Avoids, InitialStates
<1>9. LifterInv /\ QueueInv /\ GeneralizeInv /\ TargetInv /\ AnswerInv
  BY <1>1 DEF SolverInit, LifterInv, QueueInv, GeneralizeInv, TargetInv, AnswerInv
<1> QED
  BY <1>6, <1>7, <1>8, <1>9 DEF Inv

\* The answers are about initial states, which stay the same.
LEMMA StutterStep ==
  ASSUME Inv, UNCHANGED vars
  PROVE  Inv'
<1>1. /\ UNCHANGED <<sys, restrictions, trace, lifter, queue, k, obl, gen, at, result, pc>>
      /\ UNCHANGED <<cardinality, blocked, over>>
  BY DEF vars, solverVars, debugVars, traceVars, workVars
<1>2. Core
  BY DEF Inv, Core
<1>3. TypeInv'
  BY <1>1, SameSystem DEF Inv, TypeInv, CardinalityInf, Cube
<1>4. TraceInv' /\ RestrictionsInv' /\ LifterInv'
  BY <1>1, <1>2, SameTrace, SameLifter DEF Inv, RestrictionsInv
<1>5. QueueInv'
  BY <1>1, SmallerQueue DEF Inv, QueueInv
<1>6. GeneralizeInv'
  <2> SUFFICES ASSUME pc = "generalize" PROVE GeneralizeInv'
    BY <1>1 DEF GeneralizeInv
  <2>1. GeneralizeInv
    BY DEF Inv
  <2>2. syntacticBlock(obl)' <=> syntacticBlock(obl)
    BY <1>1, SameLogic DEF syntacticBlock
  <2>3. Avoids(InitialStates, gen)' /\ Avoids(Closure(obl.level - 1), gen)'
    BY <1>1, <2>1, SameLogic DEF GeneralizeInv
  <2> QED
    BY <1>1, <2>1, <2>2, <2>3 DEF GeneralizeInv
<1>7. TargetInv'
  <2>1. Avoids(Reached[k - 1], Target)' <=> Avoids(Reached[k - 1], Target)
    BY <1>1, SameLogic, SameSystem DEF Avoids, Target
  <2>2. \A n : (Frame(n)' = Frame(n) /\ FullFrame(n)' = FullFrame(n))
    BY <1>1, SameLogic
  <2> QED
    BY <1>1, <2>1, <2>2 DEF Inv, TargetInv, Target
<1>8. AnswerInv'
  BY <1>1, SameLogic, SameSystem DEF Inv, AnswerInv
<1> QED
  BY <1>3, <1>4, <1>5, <1>6, <1>7, <1>8 DEF Inv

\* Every step preserves the invariant: the client's calls and the loop of prove()
\* (ic3_debugger.cpp, ic3_solver.cpp).
LEMMA NextInv ==
  ASSUME Inv, [Next]_vars
  PROVE  Inv'
<1>1. CASE debug
  BY <1>1, CheckInitialStep DEF debug, Call
<1>2. CASE debugOverGates
  BY <1>2, DebugOverGatesStep
<1>3. CASE ProveRestricted
  BY <1>3, CheckInitialStep DEF ProveRestricted, debugVars
<1>4. CASE Return
  BY <1>4, ReturnStep
<1>5. CASE setCardinality
  BY <1>5, SetCardinalityStep
<1>6. CASE clearCardinality
  BY <1>6, ClearCardinalityStep
<1>7. CASE blockSolution
  BY <1>7, BlockSolutionStep
<1>8. CASE SolverNext /\ UNCHANGED debugVars
  <2>1. CASE Proved
    BY <1>8, <2>1, ProvedStep
  <2>2. CASE BlockTarget
    BY <1>8, <2>2, BlockTargetStep
  <2>3. CASE Refuted
    BY <1>8, <2>3, RefutedStep
  <2>4. CASE AlreadyBlocked
    BY <1>8, <2>4, AlreadyBlockedStep
  <2>5. CASE AddPredecessor
    BY <1>8, <2>5, AddPredecessorStep
  <2>6. CASE StartGeneralize
    BY <1>8, <2>6, StartGeneralizeStep
  <2>7. CASE DropLiteral
    BY <1>8, <2>7, DropLiteralStep
  <2>8. CASE KeepLiteral \/ GeneralizeAgain
    BY <1>8, <2>8, KeepGeneralizing
  <2>9. CASE Learn
    BY <1>8, <2>9, LearnStep
  <2>10. CASE TargetBlocked
    BY <1>8, <2>10, TargetBlockedStep
  <2>11. CASE PushFrame
    BY <1>8, <2>11, PushSomeStep, PushAllStep
  <2>12. CASE PushEnd
    BY <1>8, <2>12, PushEndStep
  <2>13. CASE NextLevel
    BY <1>8, <2>13, NextLevelStep
  <2> QED
    BY <1>8, <2>1, <2>2, <2>3, <2>4, <2>5, <2>6, <2>7, <2>8, <2>9, <2>10, <2>11,
       <2>12, <2>13
       DEF SolverNext
<1>9. CASE UNCHANGED vars
  BY <1>9, StutterStep
<1> QED
  BY <1>1, <1>2, <1>3, <1>4, <1>5, <1>6, <1>7, <1>8, <1>9 DEF Next

\* The invariant of the solver and its client: whichever cores and models the SAT
\* solvers return, and in whichever order the client calls.
THEOREM Invariance == Spec => []Inv
<1>1. Init => Inv
  BY InitInv
<1>2. Inv /\ [Next]_vars => Inv'
  BY NextInv
<1> QED
  BY <1>1, <1>2, PTL DEF Spec

\* Frame n excludes no state that n steps can reach.
THEOREM LemmasAreSound == Spec => []LemmasHold
<1>1. ASSUME Inv
      PROVE  LemmasHold
  <2> SUFFICES ASSUME NEW n, NEW s \in Reached[n], NEW i \in Input, NEW c \in Frame(n)
               PROVE  ~Holds(c, s, i)
    BY DEF LemmasHold
  <2>1. c \in DOMAIN trace /\ trace[c] = n
    BY DEF Frame
  <2>2. Avoids(Reached[trace[c]], c)
    BY <1>1, <2>1, LemmaAvoids DEF Inv, Core
  <2> QED
    BY <2>1, <2>2 DEF Avoids
<1> QED
  BY <1>1, Invariance, PTL

\* The assertions of ic3_solver.cpp never fail.
THEOREM AssertionsNeverFail == Spec => []AssertionsHold
<1>1. ASSUME Inv
      PROVE  AssertionsHold
  <2>1. Core /\ sys \in Systems
    BY <1>1 DEF Inv, Core, TypeInv
  <2>2. ASSUME NEW o \in queue, o.level > 0
        PROVE  initiation(o.cti)
    <3>1. o.cti \in Cube /\ o.level \in 0 .. k /\ k \in Nat
      BY <1>1, ConstantsAssumption DEF Inv, TypeInv
    <3>2. Avoids(Reached[o.level - 1], o.cti)
      BY <1>1, <2>2 DEF Inv, QueueInv
    <3>3. InitialStates \subseteq Reached[o.level - 1]
      BY <2>1, <2>2, <3>1, InitialReached
    <3>4. Avoids(InitialStates, o.cti) /\ o.cti # {}
      BY <3>1, <3>2, <3>3 DEF Avoids, Cube
    <3> QED
      BY <2>1, <3>4, InitiationIs DEF Core
  <2>3. ASSUME pc = "generalize"
        PROVE  initiation(gen) /\ (gen \in DOMAIN trace => trace[gen] <= obl.level)
    <3>1. GeneralizeInv
      BY <1>1 DEF Inv
    <3>2. initiation(gen)
      BY <2>1, <2>3, <3>1, InitiationIs DEF Core, GeneralizeInv, Cube
    <3>3. ASSUME gen \in DOMAIN trace
          PROVE  trace[gen] <= obl.level
      <4>1. gen \notin FullFrame(obl.level)
        BY <2>3, <3>1 DEF GeneralizeInv, syntacticBlock
      <4>2. trace[gen] \in 0 .. LevelInf /\ obl.level \in 0 .. k /\ k \in 1 .. LevelInf
        BY <1>1, <2>3, <3>1, <3>3 DEF Inv, TypeInv, GeneralizeInv
      <4> QED
        BY <3>3, <4>1, <4>2, ConstantsAssumption DEF FullFrame
    <3> QED
      BY <3>2, <3>3
  <2>4. /\ pc = "pushed" => Target \in DOMAIN trace /\ trace[Target] >= k
        /\ pc = "push" => \A n \in 1 .. at - 1 : Frame(n) # {}
    BY <1>1 DEF Inv, TargetInv, FullFrame
  <2> QED
    BY <2>2, <2>3, <2>4 DEF AssertionsHold
<1> QED
  BY <1>1, Invariance, PTL

\* The solutions that the client's settings leave are those of the initial states
\* that lead to a bad one.
LEMMA SolutionsAre ==
  ASSUME Inv, SolutionsRight, NEW D
  PROVE  D \in { E \in sys.solutions :
                   /\ E \subseteq over
                   /\ Cardinality(E) <= cardinality
                   /\ \A B \in blocked : ~(B \subseteq E) }
           <=> \E s \in InitialStates \intersect LeadToBad(sys) : D = s \intersect sys.debug
<1> DEFINE First(u) == \A c \in sys.init : \E l \in c : (VarOf(l) \in u) # (l % 2 = 0)
<1>1. /\ sys \in Systems /\ cardinality \in Nat /\ cardinality \in 0 .. CardinalityInf
      /\ blocked \in SUBSET ((SUBSET sys.debug) \ {{}})
      /\ over \in SUBSET sys.debug
      /\ restrictions = Restrictions(cardinality, blocked) \union OtherGates(over)
  BY ConstantsAssumption DEF Inv, TypeInv, RestrictionsInv, CardinalityInf
<1>2. InitialStates = Permitted(cardinality, blocked, over)
  BY <1>1, PermittedIs
<1>3. D \in sys.solutions <=> \E s \in LeadToBad(sys) : First(s) /\ D = s \intersect sys.debug
  BY <1>1 DEF SolutionsRight
<1>4. ASSUME NEW s \in State
      PROVE  First(s) <=> \A c \in sys.init, i \in Input : ~Holds(c, s, i)
  <2>1. ASSUME NEW c \in sys.init, NEW l \in c, NEW i
        PROVE  LitHolds(l, s, i) <=> ~((VarOf(l) \in s) # (l % 2 = 0))
    <3>1. l # Bad
      <4>1. VarOf(l) \in 0 .. MaxVar
        BY <1>1, SystemsAssumption, StepType
      <4>2. VarOf(Bad) \notin 0 .. MaxVar
        BY ConstantsAssumption DEF VarOf, Bad
      <4> QED
        BY <4>1, <4>2
    <3> QED
      BY <3>1 DEF LitHolds
  <2>2. {} \in Input
    BY <1>1, StepType
  <2> QED
    BY <2>1, <2>2 DEF Holds
<1>5. ASSUME NEW s \in State
      PROVE  (cardinality = CardinalityInf \/ Cardinality(s \intersect sys.debug) <= cardinality)
               <=> Cardinality(s \intersect sys.debug) <= cardinality
  <2>1. /\ Cardinality(s \intersect sys.debug) \in Nat /\ Cardinality(sys.debug) \in Nat
        /\ Cardinality(s \intersect sys.debug) <= Cardinality(sys.debug)
    BY <1>1, StepType, FS_Subset, FS_CardinalityType
  <2>2. Cardinality(sys.debug) \in 0 .. CardinalityInf - 1
    BY <1>1, <2>1, CardinalityType
  <2> QED
    BY <1>1, <2>1, <2>2
<1>6. ASSUME NEW s \in State
      PROVE  s \in InitialStates <=>
               /\ First(s)
               /\ s \intersect sys.debug \subseteq over
               /\ Cardinality(s \intersect sys.debug) <= cardinality
               /\ \A B \in blocked : ~(B \subseteq s \intersect sys.debug)
  <2>1. \A B \in blocked : B \subseteq s <=> B \subseteq s \intersect sys.debug
    BY <1>1
  <2> HIDE DEF First
  <2> QED
    BY <1>2, <1>4, <1>5, <2>1 DEF Permitted
<1>7. LeadToBad(sys) \subseteq State
  BY <1>1, LeadToBadIs
<1> HIDE DEF First
<1> QED
  BY <1>3, <1>6, <1>7

\* debug and debugOverGates find a correction set exactly when there is one that
\* the restrictions in force leave (ic3_debugger.cpp), in every system whose
\* solutions are those of the circuit.
THEOREM AnswersAreExact == SolutionsRight => (Spec => []AnswersExact)
<1> SUFFICES ASSUME SolutionsRight PROVE Spec => []AnswersExact
  OBVIOUS
<1>1. ASSUME Inv
      PROVE  AnswersExact
  <2> DEFINE solutions == { D \in sys.solutions :
               /\ D \subseteq over
               /\ Cardinality(D) <= cardinality
               /\ \A B \in blocked : ~(B \subseteq D) }
  <2>1. \A D : D \in solutions <=>
           \E s \in InitialStates \intersect LeadToBad(sys) : D = s \intersect sys.debug
    BY <1>1, SolutionsAre
  <2>2. ASSUME pc = "done"
        PROVE  IF result.answer = "safe" THEN solutions = {}
               ELSE result.cex[1] \intersect sys.debug \in solutions
    <3> HIDE DEF solutions
    <3> QED
      BY <1>1, <2>1, <2>2 DEF Inv, AnswerInv
  <2> QED
    BY <2>2 DEF AnswersExact
<1> QED
  BY <1>1, Invariance, PTL

\* The lemmas at the highest level exclude no state that can be reached at all.
ProofHolds == \A n \in Nat : \A c \in Frame(LevelInf) : Avoids(Reached[n], c)

\* What recordProof takes for a proof (ic3_solver.cpp:246) holds in every state that
\* can be reached, though it need not be inductive.
THEOREM ProofIsSound == Spec => []ProofHolds
<1>1. ASSUME Inv
      PROVE  ProofHolds
  <2> DEFINE N == { n \in Nat : Reached[n] \subseteq Closure(LevelInf) }
  <2>1. Core /\ sys \in Systems
    BY <1>1 DEF Inv, Core, TypeInv
  <2>2. 0 \in N
    BY <2>1, ReachedIs, ClosureIs
  <2>3. \A n \in Nat : n \in N => n + 1 \in N
    BY <2>1, ReachedIs, ReachableInFrames
  <2>4. Nat \subseteq N
    <3> HIDE DEF N
    <3> QED
      BY <2>2, <2>3, NaturalInduction
  <2>5. \A n \in Nat : Reached[n] \subseteq Closure(LevelInf)
    BY <2>4
  <2> QED
    BY <2>1, <2>5, ReachableInFrames DEF ProofHolds, Avoids
<1> QED
  BY <1>1, Invariance, PTL

================================================================================
