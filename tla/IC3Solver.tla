-------------------------------- MODULE IC3Solver --------------------------------
(******************************************************************************)
(* IC3Solver: prove() finds an inductive proof of the property or a           *)
(* counterexample.  It blocks the bad states at one level after another:      *)
(* obligations wait in a priority queue, each a cube of states that lead to   *)
(* bad; one that no state of the frame below leads to is generalized into a   *)
(* lemma, another makes an obligation of a predecessor, one level down.       *)
(* Lemmas are pushed to higher frames, and a frame that is left empty makes   *)
(* those above it hold everywhere.                                            *)
(*                                                                            *)
(* The client restricts the initial states by cubes that exclude the others.  *)
(* What stays of the trace when it does, or when it lifts the restrictions,   *)
(* is here too; module IC3Debugger is a client.  What it rests on comes       *)
(* first: TransitionRelation, which makes a system of an AIG, InductiveTrace, *)
(* and FrameSolver and UNSATCoreLifter, the two SAT solvers of IC3 that know  *)
(* the trace.                                                                 *)
(******************************************************************************)
EXTENDS Integers, FiniteSetsExt, Functions, SequencesExt

--------------------------------------------------------------------------------
(* TransitionRelation and DebugTransitionRelation: the clauses of an AIG.     *)
(* A relation has gates, [g -> <<rhs0, rhs1>>], latches, [l -> [next, reset]],*)
(* input variables and a bad literal.  The partial relation over some of the  *)
(* gates makes the others inputs; the debug relation has a debug latch and a  *)
(* debug input for each gate, which takes the input's value while the latch   *)
(* is set.                                                                    *)
(*                                                                            *)
(* A literal is twice its variable, plus one when negated.  Constraints of    *)
(* the AIG are left out.                                                      *)

ID_FALSE == -2
ID_TRUE == -1
ID_NULL == -4

negate(l) == IF l % 2 = 0 THEN l + 1 ELSE l - 1
strip(l) == l - (l % 2)
VarOf(l) == l \div 2
Lit(v) == 2 * v

--------------------------------------------------------------------------------
(* The partial relation over the gates in G.  What the copied gates read is   *)
(* relevant, and so is the bad literal (with its sign); a latch that is       *)
(* relevant is copied and makes its next state relevant; whatever else is     *)
(* relevant becomes an input.                                                 *)

LatchesIn(t, R) == { l \in DOMAIN t.latches : Lit(l) \in R }
NextOf(t, R) == { strip(t.latches[l].next) : l \in LatchesIn(t, R) }

Relevant(t, R) ==
  LET Round[n \in Nat] ==
        IF n = 0 THEN R ELSE LET X == Round[n - 1] IN X \union NextOf(t, X)
  IN  Round[Cardinality(DOMAIN t.latches)]

Partial(t, G) ==
  LET read     == UNION { {strip(t.gates[g][1]), strip(t.gates[g][2])} : g \in G }
      relevant == Relevant(t, {t.bad} \union read)
      latches  == LatchesIn(t, relevant)
      copied   == { Lit(v) : v \in latches \union G }
  IN  [ gates   |-> Restrict(t.gates, G),
        latches |-> Restrict(t.latches, latches),
        inputs  |-> { VarOf(l) : l \in relevant \ (copied \union {ID_FALSE, ID_NULL}) },
        bad     |-> t.bad,
        debug   |-> <<>> ]

--------------------------------------------------------------------------------
(* The debug relation.  New variables are those after the ones that are used: *)
(* debug |-> [debug latch -> gate], and a gate's input is the variable after. *)

Variables(t) == DOMAIN t.gates \union DOMAIN t.latches \union t.inputs

NewVar(t) == 1 + Max({-1} \union Variables(t))

createDebugFor(t, g) ==
  LET dl == NewVar(t) IN
    [t EXCEPT !.latches = (dl :> [next |-> Lit(dl), reset |-> ID_NULL]) @@ @,
              !.inputs  = @ \union {dl + 1},
              !.debug   = (dl :> g) @@ @]

Debug(t) == FoldLeft(createDebugFor, t, SetToSortSeq(DOMAIN t.gates, <))

--------------------------------------------------------------------------------
(* The clauses.                                                               *)

AndCNF(g, rhs0, rhs1) ==
  { {negate(Lit(g)), rhs0}, {negate(Lit(g)), rhs1}, {Lit(g), negate(rhs0), negate(rhs1)} }

DebugCNF(t, g) ==
  UNION { { C \union {Lit(d)} : C \in AndCNF(g, t.gates[g][1], t.gates[g][2]) }
            \union { {Lit(g), negate(Lit(d + 1)), negate(Lit(d))},
                     {negate(Lit(g)), Lit(d + 1), negate(Lit(d))} }
          : d \in { e \in DOMAIN t.debug : t.debug[e] = g } }

GateCNF(t, g) ==
  IF t.debug = <<>> THEN AndCNF(g, t.gates[g][1], t.gates[g][2]) ELSE DebugCNF(t, g)

toCNF(t) == UNION { GateCNF(t, g) : g \in DOMAIN t.gates }

\* A literal in the assignment that makes the variables in A true.
LitTrue(l, A) ==
  \/ l = ID_TRUE
  \/ l \notin {ID_FALSE, ID_NULL} /\ (VarOf(l) \in A) = (l % 2 = 0)

Satisfies(A, cnf) == \A C \in cnf : \E l \in C : LitTrue(l, A)

\* unroll: the assignments of one time frame with latches s and inputs i.
Frames(t, s, i) ==
  { A \in { s \union i \union B : B \in SUBSET (DOMAIN t.gates \ t.inputs) } :
      Satisfies(A, toCNF(t)) }

\* addTimeFrame: the latches' next states.
NextState(t, A) == { l \in DOMAIN t.latches : LitTrue(t.latches[l].next, A) }

\* initState, each clause as the cube it excludes.
initState(t) ==
  { { IF t.latches[l].reset = ID_TRUE THEN negate(Lit(l)) ELSE Lit(l) } :
      l \in { m \in DOMAIN t.latches : t.latches[m].reset # ID_NULL } }

\* A relation as the solvers see it: its initial states as cubes that exclude
\* the others, its steps, its bad states and inputs, its debug latches.  The
\* gates of an AIG form no cycle: each state and inputs have one time frame.
System(t) ==
  LET states == SUBSET DOMAIN t.latches
      inputs == SUBSET t.inputs
      frame  == [s \in states |-> [i \in inputs |-> CHOOSE A \in Frames(t, s, i) : TRUE]]
  IN  [ latches |-> DOMAIN t.latches,
        inputs  |-> t.inputs,
        init    |-> initState(t),
        step    |-> [s \in states |-> [i \in inputs |-> NextState(t, frame[s][i])]],
        bad     |-> { x \in states \X inputs : LitTrue(t.bad, frame[x[1]][x[2]]) },
        debug   |-> DOMAIN t.debug ]

--------------------------------------------------------------------------------
(* What the relations are for: whether the AIG t can reach a bad state when   *)
(* the gates in D take any value.                                             *)

FreedFrames(t, D) ==
  { A \in SUBSET Variables(t) : Satisfies(A, UNION { GateCNF(t, g) : g \in DOMAIN t.gates \ D }) }

BadWhenFree(t, D) ==
  LET frames == FreedFrames(t, D)
      State(A) == A \intersect DOMAIN t.latches
      R[n \in Nat] ==
        IF n = 0 THEN { A \in frames : \A c \in initState(t) : \E l \in c : ~LitTrue(l, A) }
        ELSE LET X == { NextState(t, A) : A \in R[n - 1] }
             IN  R[n - 1] \union { A \in frames : State(A) \in X }
  IN  \E A \in R[2 ^ Cardinality(DOMAIN t.latches)] : LitTrue(t.bad, A)

\* A partial relation is unsafe when the AIG is, with the other gates free.
PartialSystem(t, G) ==
  [solutions |-> IF BadWhenFree(t, DOMAIN t.gates \ G) THEN {{}} ELSE {}] @@ System(Partial(t, G))

\* The solutions of the debug relation: the latches of sets of gates to free.
DebugSystem(t) ==
  LET d == Debug(t)
  IN  [solutions |-> { D \in SUBSET DOMAIN d.debug : BadWhenFree(t, { d.debug[l] : l \in D }) }]
        @@ System(d)

--------------------------------------------------------------------------------
(* InductiveTrace: the lemmas of IC3.  A lemma is a cube, a set of literals   *)
(* that excludes the states it holds in, and has a level: frame k is the      *)
(* lemmas at level k, and a lemma at level k holds in the frames below k too. *)
(* No caller deletes a lemma.                                                 *)

CONSTANTS
  MaxVar,       \* the largest variable of a latch
  LevelInf      \* LEVEL_INF, beyond the frames there can be

ASSUME ConstantsAssumption == MaxVar \in Nat /\ LevelInf \in Nat \ {0}

\* The literals of latches, and the property's, m_tr.bad().
Bad == 2 * MaxVar + 2
Literal == 0 .. Bad

VARIABLES
  trace,        \* the level of each lemma, by its cube
  numFrames     \* the frames there are

traceVars == <<trace, numFrames>>

Frame(k) == { c \in DOMAIN trace : trace[c] = k }
FullFrame(k) == { c \in DOMAIN trace : trace[c] >= k }

\* getMutableFrame makes the frames up to level k.
FramesFor(k) == IF k < LevelInf /\ numFrames < k + 1 THEN k + 1 ELSE numFrames

\* addLemma, for the cubes in C; one that exists moves to its new level.
WithLemmas(t, C, k) == [c \in C \union DOMAIN t |-> IF c \in C THEN k ELSE t[c]]

addLemmas(C, k) ==
  /\ trace' = WithLemmas(trace, C, k)
  /\ numFrames' = IF C = {} THEN numFrames ELSE FramesFor(k)

\* pushLemmas' step for frame k when only the lemmas in C hold in the next one.
pushToNext(C, k) ==
  /\ trace' = WithLemmas(trace, C, k + 1)
  /\ numFrames' = IF C = {} THEN numFrames ELSE FramesFor(k + 1)

\* clearUnusedFrames, when no lemma is left at level k or above.
UsedFrames(k) == 1 + Max({0} \union { trace[c] : c \in DOMAIN trace \ FullFrame(k) })

pushFrameToInf(k) ==
  /\ trace' = WithLemmas(trace, FullFrame(k), LevelInf)
  /\ numFrames' = UsedFrames(k)

--------------------------------------------------------------------------------
(* FrameSolver and UNSATCoreLifter: queries about the frames and one step of  *)
(* the transition relation, and the unsatisfiable cores of their answers.  A  *)
(* core is any subset of the assumptions that is enough for the answer.       *)
(* FrameSolver's clauses are those of the trace (one that is left at an older *)
(* level is implied); the lifter's are the lemmas that held everywhere when   *)
(* it was set up.  AIG constraints are left out.                              *)

CONSTANT Systems    \* the systems considered, as System makes them

ASSUME SystemsAssumption ==
  \A y \in Systems :
    /\ y.latches \subseteq 0 .. MaxVar
    /\ y.init \subseteq SUBSET Literal
    /\ \A c \in y.init : c # {} /\ \A l \in c : VarOf(l) \in y.latches
    /\ y.step \in [SUBSET y.latches -> [SUBSET y.inputs -> SUBSET y.latches]]
    /\ y.bad \subseteq (SUBSET y.latches) \X (SUBSET y.inputs)
    /\ y.debug \subseteq y.latches
    /\ \A s \in SUBSET y.latches, i \in SUBSET y.inputs :
         y.step[s][i] \intersect y.debug = s \intersect y.debug
    /\ y.solutions \subseteq SUBSET y.debug

VARIABLES
  sys,      \* the system
  lifter    \* the lemmas of the lifter's solver, <<>> before it is set up

State == SUBSET sys.latches
Input == SUBSET sys.inputs

LitHolds(l, s, i) ==
  IF l = Bad THEN <<s, i>> \in sys.bad ELSE (VarOf(l) \in s) = (l % 2 = 0)

Holds(c, s, i) == \A l \in c : LitHolds(l, s, i)

\* The cube of a state: extractPredecessor.
StateCube(s) == { IF l \in s THEN Lit(l) ELSE negate(Lit(l)) : l \in sys.latches }

InFrame(k, s, i) == \A c \in FullFrame(k) : ~Holds(c, s, i)

\* intersectionFull: states and inputs in frame k and c.
Intersection(k, c) ==
  { x \in State \X Input : InFrame(k, x[1], x[2]) /\ Holds(c, x[1], x[2]) }

\* F_k & ~c
Outside(k, c) ==
  { x \in State \X Input : InFrame(k, x[1], x[2]) /\ ~Holds(c, x[1], x[2]) }

\* d' after a step from x with the next inputs j, which matter to the property only.
LeadsTo(x, j, d) == Holds(d, sys.step[x[1]][x[2]], j)
NextInput(d) == IF Bad \in d THEN Input ELSE {{}}

\* Models of F_k & ~c & T & c': a state and inputs, and the next inputs.
Predecessors(k, c) == { p \in Outside(k, c) \X NextInput(c) : LeadsTo(p[1], p[2], c) }

consecution(k, c) == \A x \in Outside(k, c), j \in NextInput(c) : ~LeadsTo(x, j, c)

\* consecutionCore
Cores(k, c) ==
  LET outside == Outside(k, c)
  IN  { d \in SUBSET c : \A x \in outside, j \in NextInput(d) : ~LeadsTo(x, j, d) }

\* lift: literals of a state s that lead to c under inputs i and next inputs j.
\* An empty core becomes an arbitrary literal of s.
LiftCores(s, i, j, c) ==
  LET lemmas == IF lifter = <<>> THEN Frame(LevelInf) ELSE lifter[1]
  IN  { d \in SUBSET StateCube(s) :
          \A u \in State :
            /\ Holds(d, u, i)
            /\ \A b \in lemmas : ~Holds(b, u, i)
            => Holds(c, sys.step[u][i], j) }

lift(s, i, j, c) ==
  { IF d = {} THEN {Min(StateCube(s))} ELSE d : d \in LiftCores(s, i, j, c) }

setUpLifter == lifter' = IF lifter = <<>> THEN <<Frame(LevelInf)>> ELSE lifter

--------------------------------------------------------------------------------
(* IC3Solver.                                                                 *)

VARIABLES
  restrictions,   \* m_init_constraints
  queue,          \* the obligations: [cti, level, path]
  k,              \* target_level
  obl,            \* the obligation being blocked
  gen,            \* the cube being generalized
  at,             \* the last literal generalizeIteration tried, or pushLemmas' frame
  size,           \* the size of the cube when the iteration began
  result,         \* the last SafetyResult: [answer, cex, proof]
  pc              \* where prove() is

workVars == <<queue, k, obl, gen, at, size>>
solverVars == <<traceVars, sys, lifter, restrictions, workVars, result, pc>>

Target == {Bad}

\* An obligation's path: the concrete states of the obligations from it to the
\* target's, which has none.  Their inputs are left out.
NoObligation == [cti |-> Target, level |-> 0, path |-> <<>>]
NoResult == [answer |-> "none", cex |-> <<>>, proof |-> {}]

\* initialize(): the initial cubes, but not those that are lemmas already.
InitialCubes(r) == sys.init \union r

--------------------------------------------------------------------------------
(* The client's calls.                                                        *)

\* The constructor, and the restrictions that the client begins with.
SolverInit(r) ==
  /\ restrictions = r
  /\ trace = [c \in InitialCubes(r) |-> 0]
  /\ numFrames = (IF InitialCubes(r) = {} THEN 0 ELSE 1)
  /\ lifter = <<>>
  /\ queue = {}
  /\ k = 1
  /\ obl = NoObligation
  /\ gen = {}
  /\ at = -1
  /\ size = 0
  /\ result = NoResult
  /\ pc = "idle"

\* Faulty: the trace is kept as if the states had been restricted.
initialStatesExpanded_Keep(r) ==
  /\ restrictions' = r
  /\ addLemmas(InitialCubes(r) \ DOMAIN trace, 0)
  /\ lifter' = <<>>

\* The restrictions become r: clearRestrictions, restrictInitialStates and
\* initialStatesExpanded, which starts the trace afresh.
initialStatesExpanded(r) ==
  /\ restrictions' = r
  /\ trace' = [c \in InitialCubes(r) |-> 0]
  /\ numFrames' = IF InitialCubes(r) = {} THEN 0 ELSE 1
  /\ lifter' = <<>>

\* As above with initialStatesRestricted, which keeps the trace.  The client has
\* added the cubes in C as lemmas that hold everywhere.
initialStatesRestricted(r, C) ==
  LET lemmas == WithLemmas(trace, C, LevelInf)
      new    == InitialCubes(r) \ DOMAIN lemmas
  IN  /\ restrictions' = r
      /\ trace' = WithLemmas(lemmas, new, 0)
      /\ numFrames' = IF new = {} THEN numFrames ELSE FramesFor(0)
      /\ lifter' = <<>>

\* prove(): checkInitial looks for a bad initial state.
CheckInitial ==
  /\ IF Intersection(0, Target) = {}
     THEN /\ pc' = "isSafe"
          /\ result' = NoResult
     ELSE \E x \in Intersection(0, Target) :
            /\ result' = [answer |-> "unsafe", cex |-> <<x[1]>>, proof |-> {}]
            /\ pc' = "done"
  /\ k' = 1
  /\ UNCHANGED <<traceVars, sys, lifter, restrictions, queue, obl, gen, at, size>>

--------------------------------------------------------------------------------
(* The loop of prove().                                                       *)

recordProof == [answer |-> "safe", cex |-> <<>>, proof |-> Frame(LevelInf)]

isSafe == Target \in Frame(LevelInf) \/ Intersection(LevelInf, Target) = {}

Proved ==
  /\ pc = "isSafe"
  /\ isSafe
  /\ result' = recordProof
  /\ pc' = "done"
  /\ UNCHANGED <<traceVars, sys, lifter, restrictions, workVars>>

\* recursiveBlock begins with the target at level k.  LevelInf bounds the levels.
BlockTarget ==
  /\ pc = "isSafe"
  /\ ~isSafe
  /\ k < LevelInf
  /\ queue' = {[cti |-> Target, level |-> k, path |-> <<>>]}
  /\ pc' = "block"
  /\ UNCHANGED <<traceVars, sys, lifter, restrictions, k, obl, gen, at, size, result>>

\* ObligationComparator: the lowest level first, then the shortest cube, then the
\* least in the order of the literals.
Less(a, b) ==
  \/ a.level < b.level
  \/ a.level = b.level /\ Cardinality(a.cti) < Cardinality(b.cti)
  \/ /\ a.level = b.level
     /\ Cardinality(a.cti) = Cardinality(b.cti)
     /\ a.cti # b.cti
     /\ Min((a.cti \ b.cti) \union (b.cti \ a.cti)) \in a.cti

Top == { o \in queue : \A p \in queue : ~Less(p, o) }

syntacticBlock(o) == \E c \in FullFrame(o.level) : c \subseteq o.cti

\* An obligation at level 0 has an initial state.
Refuted ==
  /\ pc = "block"
  /\ \E o \in Top :
       /\ o.level = 0
       /\ result' = [answer |-> "unsafe", cex |-> o.path, proof |-> {}]
  /\ pc' = "done"
  /\ queue' = {}
  /\ UNCHANGED <<traceVars, sys, lifter, restrictions, k, obl, gen, at, size>>

AlreadyBlocked ==
  /\ pc = "block"
  /\ \E o \in Top :
       /\ o.level > 0
       /\ syntacticBlock(o)
       /\ queue' = queue \ {o}
  /\ UNCHANGED <<traceVars, sys, lifter, restrictions, k, obl, gen, at, size,
                 result, pc>>

Predecessor(o, s, c) == [cti |-> c, level |-> o.level - 1, path |-> <<s>> \o o.path]

\* block() finds a predecessor x in the frame below, and lifts it to a cube.
AddPredecessor ==
  /\ pc = "block"
  /\ \E o \in Top :
       /\ o.level > 0
       /\ ~syntacticBlock(o)
       /\ \E p \in Predecessors(o.level - 1, o.cti) :
            \E c \in lift(p[1][1], p[1][2], p[2], o.cti) :
              queue' = queue \union {Predecessor(o, p[1][1], c)}
  /\ setUpLifter
  /\ UNCHANGED <<traceVars, sys, restrictions, k, obl, gen, at, size, result, pc>>

--------------------------------------------------------------------------------
(* Generalization.                                                            *)

initiation(c) == c # {} /\ Intersection(0, c) = {}

\* reinitiate: literals of orig that are not in c go, the least first, as long as
\* no initial state is left in the cube.  t[n] is the cube when those below n have
\* been tried.
reinitiate(c, orig) ==
  LET t[n \in Nat] ==
        IF n = 0 THEN orig
        ELSE LET d == t[n - 1] IN
             IF n - 1 \in d \ c /\ initiation(d \ {n - 1}) THEN d \ {n - 1} ELSE d
  IN  t[Bad + 1]

\* Faulty: the core may hold in initial states.
initiate_None(c, orig) == c

initiate(c, orig) == IF initiation(c) THEN c ELSE reinitiate(c, orig)

\* block() finds no predecessor; the core is to be generalized.
StartGeneralize ==
  /\ pc = "block"
  /\ \E o \in Top :
       /\ o.level > 0
       /\ ~syntacticBlock(o)
       /\ consecution(o.level - 1, o.cti)
       /\ obl' = o
       /\ \E c \in Cores(o.level - 1, o.cti) :
            /\ gen' = initiate(c, o.cti)
            /\ size' = Cardinality(gen')
  /\ at' = -1
  /\ pc' = "generalize"
  /\ UNCHANGED <<traceVars, sys, lifter, restrictions, queue, k, result>>

\* The literals generalizeIteration has still to try.
Untried == IF Cardinality(gen) > 1 THEN { l \in gen : l > at } ELSE {}

\* Cores of a cube without one literal, if it still excludes the initial states
\* and no state of the frame below leads to it.
Shorter(c) == IF initiation(c) THEN Cores(obl.level - 1, c) ELSE {}

\* The literal goes, and what the core makes unnecessary.
DropLiteral ==
  /\ pc = "generalize"
  /\ Untried # {}
  /\ LET l == Min(Untried) IN
       /\ \E c \in Shorter(gen \ {l}) : gen' = initiate(c, gen)
       /\ at' = l
  /\ UNCHANGED <<traceVars, sys, lifter, restrictions, queue, k, obl, size, result, pc>>

KeepLiteral ==
  /\ pc = "generalize"
  /\ Untried # {}
  /\ Shorter(gen \ {Min(Untried)}) = {}
  /\ at' = Min(Untried)
  /\ UNCHANGED <<traceVars, sys, lifter, restrictions, queue, k, obl, gen, size,
                 result, pc>>

\* Faulty: generalization starts again although nothing was dropped.
GeneralizeAgain_Always ==
  /\ pc = "generalize"
  /\ Untried = {}
  /\ Cardinality(gen) <= size
  /\ size' = Cardinality(gen)
  /\ at' = -1
  /\ UNCHANGED <<traceVars, sys, lifter, restrictions, queue, k, obl, gen, result, pc>>

GeneralizeAgain ==
  /\ pc = "generalize"
  /\ Untried = {}
  /\ Cardinality(gen) < size
  /\ size' = Cardinality(gen)
  /\ at' = -1
  /\ UNCHANGED <<traceVars, sys, lifter, restrictions, queue, k, obl, gen, result, pc>>

\* The cube becomes a lemma, and its obligation comes back one level up.
Learn ==
  /\ pc = "generalize"
  /\ Untried = {}
  /\ Cardinality(gen) = size
  /\ addLemmas({gen}, obl.level)
  /\ queue' = (queue \ {obl}) \union
              (IF obl.level < k THEN {[obl EXCEPT !.level = @ + 1]} ELSE {})
  /\ pc' = "block"
  /\ gen' = {} /\ at' = -1 /\ size' = 0 /\ obl' = NoObligation
  /\ UNCHANGED <<sys, lifter, restrictions, k, result>>

--------------------------------------------------------------------------------
(* pushLemmas and the next level.                                             *)

TargetBlocked ==
  /\ pc = "block"
  /\ queue = {}
  /\ at' = 1
  /\ pc' = "push"
  /\ UNCHANGED <<traceVars, sys, lifter, restrictions, queue, k, obl, gen, size, result>>

\* Faulty: consecution is checked from the frame before.
Pushed_Below == { c \in Frame(at) : consecution(at - 1, c) }

\* The lemmas of a frame that hold in the next; pushing one changes no other's.
Pushed == { c \in Frame(at) : consecution(at, c) }

PushFrame ==
  /\ pc = "push"
  /\ at < numFrames
  /\ at + 1 < LevelInf
  /\ IF Pushed = Frame(at)
     THEN pushFrameToInf(at) /\ at' = -1 /\ pc' = "pushed"
     ELSE pushToNext(Pushed, at) /\ at' = at + 1 /\ pc' = "push"
  /\ UNCHANGED <<sys, lifter, restrictions, queue, k, obl, gen, size, result>>

PushEnd ==
  /\ pc = "push"
  /\ at >= numFrames
  /\ at' = -1
  /\ pc' = "pushed"
  /\ UNCHANGED <<traceVars, sys, lifter, restrictions, queue, k, obl, gen, size, result>>

\* The property's new level decides.
NextLevel ==
  /\ pc = "pushed"
  /\ IF trace[Target] = LevelInf
     THEN result' = recordProof /\ pc' = "done" /\ k' = k
     ELSE k' = trace[Target] + 1 /\ pc' = "isSafe" /\ result' = result
  /\ UNCHANGED <<traceVars, sys, lifter, restrictions, queue, obl, gen, at, size>>

SolverNext ==
  \/ Proved
  \/ BlockTarget
  \/ Refuted
  \/ AlreadyBlocked
  \/ AddPredecessor
  \/ StartGeneralize
  \/ DropLiteral
  \/ KeepLiteral
  \/ GeneralizeAgain
  \/ Learn
  \/ TargetBlocked
  \/ PushFrame
  \/ PushEnd
  \/ NextLevel

================================================================================
