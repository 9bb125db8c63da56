---------------------------------- MODULE IVC ----------------------------------
(******************************************************************************)
(* Inductive validity cores: which gates of a model make its property hold.   *)
(* A TransitionRelation built over a set of gates turns the others into       *)
(* inputs.  What BMC and IC3 say of it depends on the counterexamples of the  *)
(* model only: each one has a length and a cut, the gates whose values in it  *)
(* are not those the gates compute, and it is a counterexample of every       *)
(* partial model that leaves the cut out.                                     *)
(******************************************************************************)
EXTENDS ClauseMap, Sequences

CONSTANTS
  NumGates,         \* the number of gates of the model
  Counterexamples   \* its counterexamples: [depth, cut]

Gate == 0 .. NumGates - 1

ASSUME GatesAssumption == NumGates \in Nat

\* The model as a whole satisfies the property, and no partial model without
\* gates does (the output is no constant).
ASSUME CounterexamplesAssumption ==
  /\ Counterexamples \subseteq [depth : Nat, cut : (SUBSET Gate) \ {{}}]
  /\ Counterexamples # {}

Refutes(x, S) == x.cut \intersect S = {}

\* The counterexamples of the partial model over S of at most k steps.
Refuters(S, k) == { x \in Counterexamples : Refutes(x, S) /\ x.depth <= k }

Shortest(X) == { x \in X : \A y \in X : x.depth <= y.depth }

Safe(S) == \A x \in Counterexamples : ~Refutes(x, S)

\* The minimal inductive validity cores, and the smallest of them.
IVCs     == { S \in SUBSET Gate : Safe(S) }
MIVC     == { S \in IVCs : \A g \in S : ~Safe(S \ {g}) }
SmallestIVC  == Smallest(IVCs)

\* A proof of S is a set of clauses: all are inductive together over some of the
\* gates of S, and a part of them that includes the property may be over others.
\* Of the gates only the extremes are taken: all of S, or no more than needed.
Extremes(S)   == { P \in MIVC \union {S} : P \subseteq S }
ProofsOver ==
  [ S \in IVCs |-> UNION { [all : {P}, part : MIVC \union {P}] : P \in Extremes(S) } ]
Inductive(p, S) == p.all \subseteq S
Proves(p, S)    == Inductive(p, S) \/ p.part \subseteq S

\* Gates without which the property fails; over some of the gates, of at most n
\* gates and with a counterexample of one of the depths in K.
Corrects(C)  == ~Safe(Gate \ C)
MCS          == { C \in SUBSET Gate : Corrects(C) /\ \A g \in C : ~Corrects(C \ {g}) }

\* The solutions of a debugger: blocked is what blockSolution has excluded.
DebugSolutions(blocked, gates, n, K) ==
  { C \in SUBSET gates :
      /\ Cardinality(C) <= n
      /\ \E x \in Counterexamples : x.depth \in K /\ x.cut \subseteq C
      /\ \A B \in blocked : ~(B \subseteq C) }

================================================================================
