----------------------------- MODULE MCIC3Debugger -----------------------------
(* Small systems for IC3Debugger.                                             *)
EXTENDS IC3Debugger

Aig(latches, inputs, gates, bad) ==
  [gates |-> gates, latches |-> latches, inputs |-> inputs, bad |-> bad, debug |-> <<>>]

Latch(next) == [next |-> next, reset |-> ID_FALSE]

\* Latch 0 keeps its value unless gate 1, its next state, is free; gate 2, the
\* output, can be free as well.
Either == Aig(0 :> Latch(Lit(1)), {}, 1 :> <<0, 0>> @@ 2 :> <<0, 0>>, Lit(2))

\* The output, gate 4, is latch 2, which gets the value that latch 0 had two steps
\* before.  Gate 3 keeps latch 0 at 0; it reads gate 5, which does not matter.
Shift == Aig(0 :> Latch(Lit(3)) @@ 1 :> Latch(0) @@ 2 :> Latch(2), {6},
             3 :> <<0, Lit(5)>> @@ 4 :> <<4, 4>> @@ 5 :> <<1, Lit(6)>>, Lit(4))

--------------------------------------------------------------------------------
(* Systems without debug latches, given by the number of the state that       *)
(* follows each: latch l is the digit of weight 2 ^ l.                        *)

Latches == 0 .. 2
Of(n) == { l \in Latches : (n \div 2 ^ l) % 2 = 1 }
Number(s) == FoldSet(LAMBDA l, n : n + 2 ^ l, 0, s)

Plain(next, init, bad, solutions) ==
  [ latches   |-> Latches,
    inputs    |-> {},
    init      |-> init,
    step      |-> [s \in SUBSET Latches |-> [i \in {{}} |-> Of(next[Number(s) + 1])]],
    bad       |-> { <<Of(bad), {}>> },
    debug     |-> {},
    solutions |-> solutions ]

AllZero == { {Lit(l)} : l \in Latches }

\* Safe: some of the steps from the initial state have to be told from those to
\* the bad one.
Safe == Plain(<<7, 5, 6, 4, 2, 5, 2, 1>>, AllZero, 6, {})

\* The bad state is the last of eight.
Long == Plain(<<7, 3, 4, 2, 6, 1, 4, 5>>, AllZero, 6, {{}})

\* Safe; a core that holds in the initial state is made to exclude it again by a
\* literal that generalization had dropped before.
Redropped == Plain(<<5, 0, 5, 6, 0, 5, 0, 1>>, {{0}, {3}, {4}}, 1, {})

AllSystems ==
  {DebugSystem(Either), Safe, Long}
    \union { PartialSystem(Shift, G) : G \in SUBSET DOMAIN Shift.gates }

RedroppedSystem == {Redropped}

\* What the theorems about the answers assume holds of these systems.
ASSUME SolutionsAssumption == SolutionsRight

================================================================================
