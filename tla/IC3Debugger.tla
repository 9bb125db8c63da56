------------------------------ MODULE IC3Debugger ------------------------------
(******************************************************************************)
(* IC3Debugger: correction sets by IC3.  A debug latch keeps its value, and   *)
(* while it is set its gate is free; a counterexample's first state names the *)
(* gates to free.  Restrictions of the initial states say how many debug      *)
(* latches may be set (m_cardinality), which (debugOverGates) and which       *)
(* solutions are blocked.  They come and go between calls of the same solver, *)
(* which keeps its lemmas when there are fewer initial states than before.    *)
(*                                                                            *)
(* A gate is its debug latch.  The client calls the operations in any order,  *)
(* at most MaxCalls times.                                                    *)
(******************************************************************************)
EXTENDS IC3Solver

CONSTANT MaxCalls       \* a bound on the calls of the client

ASSUME MaxCallsAssumption == MaxCalls \in Nat

VARIABLES
  cardinality,    \* m_cardinality, CardinalityInf at first
  blocked,        \* the solutions of m_blocking_clauses
  over,           \* the gates of the call of debugOverGates that is under way
  calls           \* the number of calls made

debugVars == <<cardinality, blocked, over, calls>>
vars == <<solverVars, debugVars>>

CardinalityInf == MaxVar + 2

\* Faulty: so many latches are excluded already.
CardinalityCubes_ThatMany(n) ==
  IF n = CardinalityInf THEN {}
  ELSE { { Lit(l) : l \in D } : D \in { E \in SUBSET sys.debug : Cardinality(E) = n } }

\* addCardinalityCNF, without the auxiliary variables: no n + 1 latches are set.
CardinalityCubes(n) ==
  IF n = CardinalityInf THEN {}
  ELSE { { Lit(l) : l \in D } : D \in { E \in SUBSET sys.debug : Cardinality(E) = n + 1 } }

\* The clause that blocks a solution, as a cube.
BlockCube(D) == { Lit(l) : l \in D }
BlockCubes(B) == { BlockCube(D) : D \in B }

\* onlyTheseGates
OtherGates(G) == { {Lit(l)} : l \in sys.debug \ G }

\* setupInitialStates
Restrictions(n, B) == CardinalityCubes(n) \union BlockCubes(B)

\* The first call of many clients is setCardinality; 0 stands for a number that is
\* too small.
Init ==
  /\ sys \in Systems
  /\ cardinality \in IF sys.debug = {} THEN {CardinalityInf} ELSE {0, CardinalityInf}
  /\ SolverInit(CardinalityCubes(cardinality))
  /\ blocked = {}
  /\ over = sys.debug
  /\ calls = 0

\* A system without debug latches is proved once.
Call ==
  /\ pc = "idle"
  /\ calls < IF sys.debug = {} THEN 1 ELSE MaxCalls
  /\ calls' = calls + 1

debug ==
  /\ Call
  /\ CheckInitial
  /\ UNCHANGED <<cardinality, blocked, over>>

\* debugOverGates restricts the initial states to some of the debug latches; prove()
\* is called next.
debugOverGates ==
  /\ Call
  /\ \E G \in (SUBSET sys.debug) \ {sys.debug} :
       /\ over' = G
       /\ initialStatesRestricted(restrictions \union OtherGates(G), OtherGates(G))
  /\ pc' = "restricted"
  /\ UNCHANGED <<sys, workVars, result, cardinality, blocked>>

ProveRestricted ==
  /\ pc = "restricted"
  /\ CheckInitial
  /\ UNCHANGED debugVars

\* Both return, and debugOverGates takes its restrictions away.
Return ==
  /\ pc = "done"
  /\ IF over = sys.debug
     THEN UNCHANGED <<traceVars, restrictions, lifter>>
     ELSE initialStatesExpanded(Restrictions(cardinality, blocked))
  /\ over' = sys.debug
  /\ pc' = "idle"
  /\ result' = NoResult
  /\ UNCHANGED <<sys, workVars, cardinality, blocked, calls>>

setCardinality ==
  /\ Call
  /\ \E n \in 0 .. Cardinality(sys.debug) - 1 :
       /\ n # cardinality
       /\ cardinality' = n
       /\ IF cardinality < n
          THEN initialStatesExpanded(Restrictions(n, blocked))
          ELSE initialStatesRestricted(Restrictions(n, blocked), BlockCubes(blocked))
  /\ UNCHANGED <<sys, workVars, result, pc, blocked, over>>

clearCardinality ==
  /\ Call
  /\ cardinality < CardinalityInf
  /\ cardinality' = CardinalityInf
  /\ initialStatesExpanded(BlockCubes(blocked))
  /\ UNCHANGED <<sys, workVars, result, pc, blocked, over>>

--------------------------------------------------------------------------------
(* What the answers should be.                                                *)

\* The states that can be reached in at most n steps, and at all.
InitialStates == { s \in State : \A c \in InitialCubes(restrictions) :
                                   \A i \in Input : ~Holds(c, s, i) }
Reached ==
  LET R[n \in Nat] ==
        IF n = 0 THEN InitialStates
        ELSE LET X == R[n - 1] IN X \union { sys.step[s][i] : s \in X, i \in Input }
  IN  R

\* The states of a system from which it can reach a bad one: they are in every set
\* that has the bad states and whatever leads into the set.
LeadToBad(y) ==
  { s \in SUBSET y.latches :
      \A X \in SUBSET SUBSET y.latches :
        /\ \A x \in y.bad : x[1] \in X
        /\ \A u \in SUBSET y.latches, i \in SUBSET y.inputs : y.step[u][i] \in X => u \in X
        => s \in X }

\* The solutions of a system, which are about the AIG, are those of its initial
\* states that can reach a bad one.
SolutionsRight ==
  \A y \in Systems :
    y.solutions = { s \intersect y.debug :
      s \in { u \in LeadToBad(y) :
                \A c \in y.init : \E l \in c : (VarOf(l) \in u) # (l % 2 = 0) } }

\* ProofChecker, of a proof given by the cubes that its clauses negate.
InProof(P, s, i) == \A c \in P : ~Holds(c, s, i)
checkInitiation(P) == \A s \in InitialStates, i \in Input : InProof(P, s, i)
checkInduction(P) ==
  \A s \in State, i \in Input, j \in Input :
    InProof(P, s, i) /\ <<s, i>> \notin sys.bad => InProof(P, sys.step[s][i], j)
checkSafety(P) == \A x \in sys.bad : ~InProof(P, x[1], x[2])
checkInductiveStrengthening(P) ==
  \A s \in State, i \in Input, j \in Input :
    InProof(P, s, i) /\ <<s, i>> \notin sys.bad => <<sys.step[s][i], j>> \notin sys.bad

checkProof(P) ==
  /\ checkInitiation(P)
  /\ checkInduction(P)
  /\ checkSafety(P) \/ checkInductiveStrengthening(P)

\* blockSolution is given correction sets, found here or by another debugger.
blockSolution ==
  /\ Call
  /\ \E D \in sys.solutions \ ({{}} \union blocked) :
       /\ blocked' = blocked \union {D}
       /\ initialStatesRestricted(restrictions \union {BlockCube(D)}, {BlockCube(D)})
  /\ UNCHANGED <<sys, workVars, result, pc, cardinality, over>>

Next ==
  \/ debug
  \/ debugOverGates
  \/ ProveRestricted
  \/ Return
  \/ setCardinality
  \/ clearCardinality
  \/ blockSolution
  \/ SolverNext /\ UNCHANGED debugVars

\* A call runs on until it returns; the client need not call.
Spec == Init /\ [][Next]_vars /\ WF_vars(ProveRestricted \/ Return \/ (SolverNext /\ UNCHANGED debugVars))

--------------------------------------------------------------------------------
(* Properties.                                                                *)

\* A lemma at level n excludes no state that can be reached in n steps, whichever
\* cores the solvers give and whatever the client restricted before.  (The trace
\* stays the same while a cube is generalized.)
LemmasHold ==
  pc # "generalize" =>
    \A n \in { trace[c] : c \in DOMAIN trace } :
      \A s \in Reached[n], i \in Input, c \in Frame(n) : ~Holds(c, s, i)

\* The frames are what pushLemmas takes them for: a step from frame n ends in
\* frame n + 1.  Lemmas at the highest level are a proof.
StepsStayInFrames ==
  pc # "generalize" =>
    \A c \in DOMAIN trace : trace[c] > 0 =>
      consecution(IF trace[c] = LevelInf THEN LevelInf ELSE trace[c] - 1, c)

\* The assertions of the solver.  No obligation above level 0 has an initial
\* state, so reinitiate can end (:509, :553); the cube that becomes a lemma has
\* none (:402), and no lemma of a higher level is moved down by it
\* (inductive_trace.cpp:49); the target is a lemma of its level when it has been
\* blocked (:214), and the frames below one that is left empty are not (:634).
AssertionsHold ==
  /\ \A o \in queue : o.level > 0 => initiation(o.cti)
  /\ pc = "generalize" => /\ initiation(gen)
                          /\ gen \in DOMAIN trace => trace[gen] <= obl.level
  /\ pc = "pushed" => Target \in DOMAIN trace /\ trace[Target] >= k
  /\ pc = "push" => \A n \in 1 .. at - 1 : Frame(n) # {}

\* A safe answer comes with a proof that passes ProofChecker.
ProofInductive == result.answer = "safe" => checkProof(result.proof)

\* debug and debugOverGates answer for the restrictions in force: there is a
\* correction set in reach of them exactly when one is found.
AnswersExact ==
  pc = "done" =>
    LET solutions == { D \in sys.solutions :
          /\ D \subseteq over
          /\ Cardinality(D) <= cardinality
          /\ \A B \in blocked : ~(B \subseteq D) }
    IN  IF result.answer = "safe" THEN solutions = {}
        ELSE result.cex[1] \intersect sys.debug \in solutions

\* Every call returns.
Termination == pc # "idle" ~> pc = "idle"

================================================================================
