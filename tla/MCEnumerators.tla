----------------------------- MODULE MCEnumerators -----------------------------
(* Proofs of five clauses, clause 0 the property.                             *)
EXTENDS Enumerators

CTI(before, after) == [pre |-> before, post |-> after]

\* Four minimal safe inductive subsets of two and three clauses; the whole is
\* inductive, and clauses besides the property need others too.
FourProofs == {
  CTI({0, 1}, {2, 3, 4}),   CTI({0, 1, 4}, {0, 2, 3, 4}),
  CTI({0, 2}, {2}),         CTI({0, 3}, {1}),
  CTI({1, 3}, {0, 1, 3}),   CTI({1, 4}, {0, 3}) }

\* The settings in Marco!SoundOptions.
SupportedOptions ==
  { o \in [marco_direction_up : BOOLEAN, marco_direction_down : BOOLEAN,
           marco_mcs : BOOLEAN, marco_collapse : BOOLEAN] :
      /\ o.marco_mcs \/ o.marco_collapse
      /\ o.marco_mcs /\ o.marco_collapse => o.marco_direction_up \/ o.marco_direction_down }

ASSUME SupportedAreSound == SupportedOptions = Marco!SoundOptions

================================================================================
