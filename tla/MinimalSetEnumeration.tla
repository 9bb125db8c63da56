------------------------- MODULE MinimalSetEnumeration -------------------------
(******************************************************************************)
(* What a complete minimizer of proofs (ProofMinimizer's interface) and a     *)
(* complete finder of inductive validity cores (IVCFinder's) promise to their *)
(* caller: they report minimal sets one after the other, never the same one   *)
(* twice; they may at any time announce one of those already reported as the  *)
(* minimum, once and correctly; and they return only when every one has been  *)
(* reported and a minimum is announced.                                       *)
(******************************************************************************)
EXTENDS Sequences

CONSTANTS
  Minimal,      \* the minimal sets: safe inductive subsets or cores
  LeastSize     \* those of the smallest size

VARIABLES
  reported,     \* the sequence getProof(0), ... or getMIVC(0), ...
  announced,    \* getMinimumProof() or getMinimumIVC(), {} while unknown
  returned      \* has minimize() or findIVCs() returned?

vars == <<reported, announced, returned>>

Reported == { reported[i] : i \in DOMAIN reported }

Init ==
  /\ reported = <<>>
  /\ announced = {}
  /\ returned = FALSE

\* A minimum may be announced in the step that reports it, or later.
Announcement(found) ==
  \/ announced' = announced
  \/ announced = {} /\ announced' \in found \intersect LeastSize

Report ==
  /\ ~returned
  /\ \E S \in Minimal \ Reported :
       /\ reported' = Append(reported, S)
       /\ Announcement(Reported \union {S})
  /\ returned' = FALSE

Announce ==
  /\ ~returned
  /\ announced = {}
  /\ announced' \in Reported \intersect LeastSize
  /\ UNCHANGED <<reported, returned>>

Return ==
  /\ ~returned
  /\ Minimal \subseteq Reported
  /\ Announcement(Reported)
  /\ announced' # {}
  /\ returned' = TRUE
  /\ UNCHANGED reported

Next == Report \/ Announce \/ Return

Spec == Init /\ [][Next]_vars

================================================================================
