----------------------------- MODULE MCMinimizers -----------------------------
(* Proofs of six clauses, clause 1 the property; the first four are one too.  *)
EXTENDS Minimizers

CTI(before, after) == [pre |-> before, post |-> after]

\* The property needs clause 0, 2 or 4; clause 0 needs 2 or 3; clause 2 needs 3 or
\* 5; clause 4 needs 5; clause 5 needs 2 or 4.  Two of the steps falsify several
\* clauses, so that the outcome of a query decides which of them go together.
Chains == {
  CTI({1, 3, 5}, {3, 5}),              CTI({0, 1, 4, 5}, {1, 4, 5}),
  CTI({0, 1, 2, 4}, {0, 1, 4}),        CTI({0, 1, 2, 3, 4}, {0, 1, 2, 3}),
  CTI({0, 1, 3, 5}, {0, 1, 3}),        CTI({1, 2, 4}, {1}),
  CTI({0, 1}, {}) }

FirstFour == 0 .. 3

================================================================================
