------------------------- MODULE CardinalityConstraint -------------------------
(******************************************************************************)
(* CardinalityConstraint and its subclasses: constraints over a growing list  *)
(* of inputs whose outputs count the inputs that are true, as far as the      *)
(* cardinality asked for; and the networks of sorting_network.cpp below them. *)
(* The totalizer's clauses can be had incrementally: only those about outputs *)
(* added since the last time.                                                 *)
(*                                                                            *)
(* The caller gives the clauses of CNFize to a new solver and adds those of   *)
(* incrementalCNFize to the solver it has.                                    *)
(******************************************************************************)
EXTENDS Integers, Sequences, FiniteSets

LOCAL INSTANCE FiniteSetsExt
LOCAL INSTANCE TLC

--------------------------------------------------------------------------------
(* The networks of sorting_network.cpp: clauses over literals (an integer and *)
(* its negative) whose outputs count the inputs that are true.  A network is  *)
(* a record of its outputs, its clauses and the next unused variable; with le *)
(* alone its clauses only make outputs true, with ge alone only false.  The   *)
(* assertions of the code are the assertions here.                            *)

Network(outputs, cnf, next) == [outputs |-> outputs, cnf |-> cnf, next |-> next]

\* takeOdd and takeEven, whose positions count from 0.
takeOdd(vec) == [i \in 1 .. (Len(vec) \div 2) |-> vec[2 * i]]
takeEven(vec) == [i \in 1 .. ((Len(vec) + 1) \div 2) |-> vec[2 * i - 1]]

\* y is the disjunction of x1 and x2.
partialComp(x1, x2, y, le, ge) ==
  (IF le THEN {{-x1, y}, {-x2, y}} ELSE {})
    \union (IF ge THEN {{x1, x2, -y}} ELSE {})

\* y1 is the larger and y2 the smaller of x1 and x2.
comp(x1, x2, y1, y2, le, ge) ==
  partialComp(x1, x2, y1, le, ge)
    \union (IF le THEN {{-x1, -x2, y2}} ELSE {})
    \union (IF ge THEN {{x1, -y2}, {x2, -y2}} ELSE {})

\* Compares the pairs <<x1, x2>> of a sequence; their outputs follow those of net.
CompareAll(pairs, net, le, ge) ==
  LET y(i) == net.next + i - 1
  IN  Network(net.outputs \o [i \in 1 .. 2 * Len(pairs) |-> y(i)],
              net.cnf \union UNION { comp(pairs[i][1], pairs[i][2], y(2 * i - 1), y(2 * i), le, ge) :
                                       i \in DOMAIN pairs },
              net.next + 2 * Len(pairs))

\* Faulty: the lengths a and b are both odd and the position where two elements
\* of even meet is forgotten.
zipperMerge_Alternates(even, odd, a, b) ==
  [k \in 1 .. Len(even) + Len(odd) |->
     IF k = Len(even) + Len(odd) THEN even[Len(even)]
     ELSE IF k % 2 = 1 THEN even[(k + 1) \div 2] ELSE odd[k \div 2]]

\* Elements in turn from even and odd.  When a and b are odd, two of even meet
\* where the elements of a end.
zipperMerge(even, odd, a, b) ==
  LET diff == Len(even) - Len(odd)
      meet == IF diff = 2 THEN a + 1 ELSE Len(even) + Len(odd)
  IN  IF Assert(CASE diff = 0 -> a % 2 = 0 /\ b % 2 = 0
                  [] diff = 1 -> a % 2 # b % 2
                  [] diff = 2 -> a % 2 = 1
                  [] OTHER -> FALSE, "zipperMerge")
      THEN [k \in 1 .. Len(even) + Len(odd) |->
              CASE k <= meet /\ k % 2 = 1 -> even[(k + 1) \div 2]
                [] k <= meet /\ k % 2 = 0 -> odd[k \div 2]
                [] k = meet + 1           -> even[k \div 2 + 1]
                [] k > meet + 1 /\ k % 2 = 0 -> even[k \div 2 + 1]
                [] k > meet + 1 /\ k % 2 = 1 -> odd[k \div 2]]
      ELSE <<>>

\* The functions of the code call themselves: here they are recursive functions of
\* the literals and of the next unused variable, one for each le and ge.
Literals == Seq(Int)

\* Merges two sorted sequences.
mergeNetwork(le, ge) ==
  LET merge[inputsA \in Literals, inputsB \in Literals, next \in Nat] ==
        LET aVec == IF Len(inputsA) <= Len(inputsB) THEN inputsA ELSE inputsB
            bVec == IF Len(inputsA) <= Len(inputsB) THEN inputsB ELSE inputsA
            a == Len(aVec)
            b == Len(bVec)
            odd == merge[takeOdd(aVec), takeOdd(bVec), next]
            even == merge[takeEven(aVec), takeEven(bVec), odd.next]
            z == zipperMerge(even.outputs, odd.outputs, a, b)
            compared ==
              CompareAll([i \in 1 .. ((Len(z) - 1) \div 2) |-> <<z[2 * i], z[2 * i + 1]>>],
                         Network(<<z[1]>>, odd.cnf \union even.cnf, even.next), le, ge)
        IN  IF a = 1 /\ b = 1
            THEN CompareAll(<<<<aVec[1], bVec[1]>>>>, Network(<<>>, {}, next), le, ge)
            ELSE IF a = 0
            THEN Network(bVec, {}, next)
            ELSE IF (a + b) % 2 = 0
            THEN [compared EXCEPT !.outputs = Append(@, z[Len(z)])]
            ELSE compared
  IN  merge

\* The inputs split in the middle.
LeftHalf(inputs) == SubSeq(inputs, 1, Len(inputs) \div 2)
RightHalf(inputs) == SubSeq(inputs, Len(inputs) \div 2 + 1, Len(inputs))

sortingNetwork(le, ge) ==
  LET sort[inputs \in Literals, next \in Nat] ==
        LET left == sort[LeftHalf(inputs), next]
            right == sort[RightHalf(inputs), left.next]
            merged == mergeNetwork(le, ge)[left.outputs, right.outputs, right.next]
        IN  IF Len(inputs) = 1
            THEN Network(inputs, {}, next)
            ELSE [merged EXCEPT !.cnf = @ \union left.cnf \union right.cnf]
  IN  sort

\* How many of the first c outputs come from the even positions.
EvenSize(c) == c \div 2 + 1

\* The first c outputs of a merge.
simpMergeNetwork(le, ge) ==
  LET Or(x1, x2, net) ==
        Network(Append(net.outputs, net.next),
                net.cnf \union partialComp(x1, x2, net.next, le, ge), net.next + 1)
      merge[inputsA \in Literals, inputsB \in Literals, c \in Nat, next \in Nat] ==
        LET First(vec) == SubSeq(vec, 1, Min({c, Len(vec)}))
            aVec == First(IF Len(inputsA) <= Len(inputsB) THEN inputsA ELSE inputsB)
            bVec == First(IF Len(inputsA) <= Len(inputsB) THEN inputsB ELSE inputsA)
            odd == merge[takeOdd(aVec), takeOdd(bVec), c \div 2, next]
            even == merge[takeEven(aVec), takeEven(bVec), EvenSize(c), odd.next]
            compared ==
              CompareAll([i \in 1 .. ((c - 1) \div 2) |-> <<even.outputs[i + 1], odd.outputs[i]>>],
                         Network(<<even.outputs[1]>>, odd.cnf \union even.cnf, even.next), le, ge)
        IN  IF Len(aVec) = 0
            THEN Network(bVec, {}, next)
            ELSE IF Len(aVec) = 1 /\ Len(bVec) = 1 /\ c = 1
            THEN Or(aVec[1], bVec[1], Network(<<>>, {}, next))
            ELSE IF Len(aVec) + Len(bVec) <= c
            THEN mergeNetwork(le, ge)[aVec, bVec, next]
            ELSE IF Assert(/\ Len(even.outputs) = EvenSize(c)
                           /\ Len(odd.outputs) = c \div 2, "simpMergeNetwork")
            THEN IF c % 2 = 0
                 THEN Or(even.outputs[Len(even.outputs)], odd.outputs[Len(odd.outputs)], compared)
                 ELSE compared
            ELSE compared
  IN  merge

\* The m largest inputs, sorted.
cardinalityNetwork(m, le, ge) ==
  LET network[inputs \in Literals, next \in Nat] ==
        LET left == network[LeftHalf(inputs), next]
            right == network[RightHalf(inputs), left.next]
            merged == simpMergeNetwork(le, ge)[left.outputs, right.outputs, m, right.next]
        IN  IF Len(inputs) <= m
            THEN sortingNetwork(le, ge)[inputs, next]
            ELSE [merged EXCEPT !.cnf = @ \union left.cnf \union right.cnf]
  IN  network

--------------------------------------------------------------------------------
(* The constraints.                                                           *)

CONSTANTS
  MaxInputs,         \* inputs of the constraints
  MaxTotalized       \* inputs of the totalizer

VARIABLES
  kind,          \* the class: [totalizer, le, ge : BOOLEAN]
  inputs,        \* m_inputs
  cardinality,   \* m_cardinality
  outputs,       \* m_outputs
  nodes,         \* the totalizer's tree, see below
  nextVar,       \* the next variable not in use
  cnf,           \* the clauses the solver has
  current        \* has the solver all the clauses the constraint would give it?

vars == <<kind, inputs, cardinality, outputs, nodes, nextVar, cnf, current>>

\* Each input added becomes the right leaf of a new root with the old root on its
\* left, so that the tree is the sequence of its roots: the first is a leaf.
Node(outs) == [outputs |-> outs, dirty |-> {}]

Kinds ==
  { k \in [totalizer : BOOLEAN, le : BOOLEAN, ge : BOOLEAN] :
      (k.le \/ k.ge) /\ (k.totalizer => k.le /\ k.ge) }

Init ==
  /\ kind \in Kinds
  /\ inputs = <<>>
  /\ cardinality = 0
  /\ outputs = <<>>
  /\ nodes = <<>>
  /\ nextVar = MaxInputs + 1
  /\ cnf = {}
  /\ current = FALSE

--------------------------------------------------------------------------------
(* The totalizer.                                                             *)

\* addOutputs: node k with outputs for all its inputs, up to the cardinality n.
Grow(ns, k, n, next) ==
  LET size == Len(ns[k].outputs)
      target == Min({n, Len(ns[k - 1].outputs) + 1})
      new == [i \in 1 .. target - size |-> next + i - 1]
  IN  IF target <= size THEN ns
      ELSE [ns EXCEPT ![k] = [outputs |-> @.outputs \o new,
                              dirty   |-> @.dirty \union { new[i] : i \in DOMAIN new }]]

\* The variables that m_vars has given away since the first was next.
NextAfter(before, after, next) ==
  FoldSet(LAMBDA k, sum : sum + Len(after[k].outputs) - Len(before[k].outputs),
          next, DOMAIN before)

\* increaseNodeCardinality, from the leaves to the root.
increaseNodeCardinality(ns, n, next) ==
  LET grown[k \in 1 .. Len(ns)] ==
        IF k = 1 THEN ns
        ELSE Grow(grown[k - 1], k, n, NextAfter(ns, grown[k - 1], next))
  IN  grown[Len(ns)]

true == 0
false == MaxInputs * 1000   \* no variable has this number
Negated(lit) == IF lit = true THEN false ELSE IF lit = false THEN true ELSE -lit

\* The clauses about the sums of the outputs of node k - 1 and of the k-th input.
NodeClauses(ns, k) ==
  LET a == <<true>> \o ns[k - 1].outputs \o <<false>>
      b == <<true, inputs[k], false>>
      r == <<true>> \o ns[k].outputs \o <<false>>
      sums == { s \in (1 .. Len(a) - 1) \X (1 .. Len(b) - 1) : s[1] + s[2] <= Len(r) }
      theta(s) == s[1] + s[2] - 1
  IN  { {Negated(a[s[1]]), Negated(b[s[2]]), r[theta(s)]} :
          s \in { s \in sums : a[s[1]] # false /\ b[s[2]] # false /\ r[theta(s)] # true } }
      \union
      { {a[s[1] + 1], b[s[2] + 1], Negated(r[theta(s) + 1])} :
          s \in { s \in sums : /\ a[s[1] + 1] # true /\ b[s[2] + 1] # true
                               /\ r[theta(s) + 1] # false } }

isDirtyClause(cls, node) == \E lit \in cls : lit \in node.dirty \/ -lit \in node.dirty

\* The nodes toCNF visits: down from the root to a clean one or the leaf.
Visited(ns) == { k \in 2 .. Len(ns) : \A j \in k .. Len(ns) : ns[j].dirty # {} }

\* toCNF.  The literal false is no help in a clause.
toCNF(ns) ==
  UNION { { cls \ {false} : cls \in { c \in NodeClauses(ns, k) : isDirtyClause(c, ns[k]) } } :
            k \in Visited(ns) }

markClean(ns) ==
  [k \in DOMAIN ns |-> IF k \in Visited(ns) THEN [ns[k] EXCEPT !.dirty = {}] ELSE ns[k]]

\* clearIncrementality
markDirty(ns) ==
  [k \in DOMAIN ns |->
     [ns[k] EXCEPT !.dirty = { ns[k].outputs[i] : i \in DOMAIN ns[k].outputs }]]

--------------------------------------------------------------------------------
(* The calls.                                                                 *)

\* addInput, with the inputs in the order of their variables.
AddInput ==
  LET id == Len(inputs) + 1
      root == Append(nodes, Node(IF nodes = <<>> THEN <<id>> ELSE <<>>))
  IN  /\ id <= (IF kind.totalizer THEN MaxTotalized ELSE MaxInputs)
      /\ inputs' = Append(inputs, id)
      /\ IF kind.totalizer
         THEN /\ nodes' = IF nodes = <<>> THEN root ELSE Grow(root, id, cardinality, nextVar)
              /\ nextVar' = NextAfter(root, nodes', nextVar)
              /\ outputs' = nodes'[id].outputs
         ELSE UNCHANGED <<nodes, nextVar, outputs>>
      /\ current' = FALSE
      /\ UNCHANGED <<kind, cardinality, cnf>>

\* setCardinality; the totalizer's never falls.
SetCardinality(n) ==
  /\ IF kind.totalizer THEN n > cardinality ELSE n # cardinality
  /\ cardinality' = n
  /\ IF kind.totalizer /\ nodes # <<>>
     THEN /\ nodes' = increaseNodeCardinality(nodes, n, nextVar)
          /\ nextVar' = NextAfter(nodes, nodes', nextVar)
          /\ outputs' = nodes'[Len(nodes)].outputs
     ELSE UNCHANGED <<nodes, nextVar, outputs>>
  /\ current' = FALSE
  /\ UNCHANGED <<kind, inputs, cnf>>

\* CNFize, for a new solver.  The networks' variables are new with each call; the
\* new solver knows none of those before, whose numbers are taken again here.
CNFize ==
  /\ inputs # <<>>
  /\ cardinality > 0
  /\ ~current
  /\ IF kind.totalizer
     THEN /\ cnf' = toCNF(markDirty(nodes))
          /\ nodes' = markClean(markDirty(nodes))
          /\ UNCHANGED outputs
     ELSE LET net == cardinalityNetwork(cardinality, kind.le, kind.ge)[inputs, nextVar]
          IN  /\ cnf' = net.cnf
              /\ outputs' = net.outputs
              /\ UNCHANGED nodes
  /\ current' = TRUE
  /\ UNCHANGED <<kind, inputs, cardinality, nextVar>>

\* incrementalCNFize, for the solver that has the clauses returned before.
IncrementalCNFize ==
  /\ kind.totalizer
  /\ inputs # <<>>
  /\ ~current
  /\ cnf' = cnf \union toCNF(nodes)
  /\ nodes' = markClean(nodes)
  /\ current' = TRUE
  /\ UNCHANGED <<kind, inputs, cardinality, outputs, nextVar>>

Next ==
  \/ AddInput
  \/ \E n \in 1 .. MaxInputs : SetCardinality(n)
  \/ CNFize
  \/ IncrementalCNFize

Spec == Init /\ [][Next]_vars

--------------------------------------------------------------------------------
(* The assumptions that callers make.  Outside of their ranges they throw.    *)

getOutputCardinality ==
  IF kind.totalizer THEN Len(outputs) ELSE Min({cardinality, Len(inputs)})

\* The first n outputs, those from n on, and all inputs.
FirstOutputs(n) == { outputs[i] : i \in 1 .. n }
NoneAfter(n) == { -outputs[i] : i \in n + 1 .. Len(outputs) }
AllInputs == { inputs[i] : i \in DOMAIN inputs }

IsAll(n) == n = Len(inputs) /\ n = getOutputCardinality
InRange(n) == n < getOutputCardinality

assumeEq(n) == IF IsAll(n) THEN AllInputs ELSE FirstOutputs(n) \union NoneAfter(n)
assumeLEq(n) == IF IsAll(n) THEN {} ELSE NoneAfter(n)
assumeLT(n) == NoneAfter(n - 1)
assumeGEq(n) == IF IsAll(n) THEN AllInputs ELSE FirstOutputs(n)
assumeGT(n) == FirstOutputs(n + 1)

--------------------------------------------------------------------------------
(* Properties.                                                                *)

\* What unit propagation makes of some literals.  The clauses are Horn, or Horn
\* with all literals negated, or force every variable, so that it finds every
\* contradiction.
Propagated[lits \in SUBSET Int] ==
  LET more == { lit \in (UNION cnf) \ lits :
                  \E cls \in cnf : /\ lit \in cls
                                   /\ \A other \in cls \ {lit} : -other \in lits }
  IN  IF more = {} THEN lits ELSE Propagated[lits \union more]

\* With the clauses in the solver, an assumption about the count holds exactly of
\* the assignments to the inputs that have such a count, whatever calls built up
\* the constraint and in whichever pieces the solver got its clauses.
AssumptionsCount ==
  current =>
    \A S \in SUBSET (1 .. Len(inputs)) :
      LET forced == Propagated[S \union { -i : i \in (1 .. Len(inputs)) \ S }]
          Allows(lits) == \A lit \in lits : -lit \notin forced
          count == Cardinality(S)
      IN  /\ \A lit \in forced : -lit \notin forced
          /\ \A n \in 0 .. MaxInputs :
               /\ InRange(n) \/ IsAll(n) =>
                    /\ kind.le => (Allows(assumeLEq(n)) <=> count <= n)
                    /\ kind.ge => (Allows(assumeGEq(n)) <=> count >= n)
                    /\ kind.le /\ kind.ge => (Allows(assumeEq(n)) <=> count = n)
               /\ kind.ge /\ InRange(n) => (Allows(assumeGT(n)) <=> count > n)
               /\ kind.le /\ n > 0 /\ (n <= getOutputCardinality) =>
                    (Allows(assumeLT(n)) <=> count < n)

================================================================================
