--------------------------------- MODULE SISI ---------------------------------
(******************************************************************************)
(* SISIMinimizer and BruteForceMinimizer: reduce the proof to one minimal     *)
(* safe inductive subset, clause by clause.  SISI first narrows the search    *)
(* from both sides, NEC holding clauses no proof can do without and FEAS the  *)
(* clauses still considered; the brute-force minimizer goes straight to the   *)
(* last phase.  Sets are visited in increasing order of clause.               *)
(******************************************************************************)
EXTENDS Consecution

VARIABLES
  nec, feas,       \* m_nec, m_feas
  it,              \* the iterator of the phase: what is below it was visited
  knownInd,        \* refineFEAS: known_ind
  keep, rest,      \* bruteForceMinimize: keep, and its own copy of FEAS
  minimalProofs,   \* m_minimalProofs
  pc               \* the phase: "nec1", "feas", "nec2", "brute", "done"

vars == <<nec, feas, it, knownInd, keep, rest, minimalProofs, pc>>

\* SISIMinimizer starts with refineNEC, BruteForceMinimizer with the last phase.
Init ==
  /\ nec = {Property}
  /\ feas = ClauseID
  /\ it = 0
  /\ knownInd = {}
  /\ minimalProofs = {}
  /\ \/ pc = "nec1"  /\ keep = {}  /\ rest = {}
     \/ pc = "brute" /\ keep = nec /\ rest = feas

\* Faulty: asks only whether the clauses themselves are a proof.
FindSIS_Itself(S) == nec \subseteq S /\ IsSIS(S)

\* Faulty: asks only whether they support the property.
FindSIS_PropertyOnly(S) == nec \subseteq S /\ Solve(S, Property)

\* findSIS(vec), that is findSafeMIS(vec, NEC).
FindSIS(S) == nec \subseteq LargestInductive(S)

\* The iterator over S points at id, or at the end.
IsCurrent(id, S) == id \in S /\ it <= id /\ \A c \in S : it <= c => id <= c
AtEnd(S) == \A c \in S : c < it

SmallestOf(S) == CHOOSE id \in S : \A c \in S : id <= c

--------------------------------------------------------------------------------

\* refineNEC: without this clause there is no proof.
ClauseNecessary(id) ==
  /\ pc \in {"nec1", "nec2"}
  /\ IsCurrent(id, feas)
  /\ nec' = IF id \in nec \/ FindSIS(feas \ {id}) THEN nec ELSE nec \union {id}
  /\ it' = id + 1
  /\ UNCHANGED <<feas, knownInd, keep, rest, minimalProofs, pc>>

\* After the first pass FEAS starts over from NEC; after the second the brute
\* force phase starts, with copies of both.
RefineNECEnd ==
  /\ pc \in {"nec1", "nec2"}
  /\ AtEnd(feas)
  /\ it' = 0
  /\ IF pc = "nec1"
     THEN /\ feas' = nec
          /\ pc' = "feas"
          /\ UNCHANGED <<keep, rest>>
     ELSE /\ keep' = nec
          /\ rest' = feas
          /\ pc' = "brute"
          /\ UNCHANGED feas
  /\ UNCHANGED <<nec, knownInd, minimalProofs>>

\* refineFEAS: FEAS supports the clause, now or since it was last asked.
ClauseSupported(id) ==
  /\ pc = "feas"
  /\ IsCurrent(id, feas)
  /\ id \in knownInd \/ Solve(feas, id)
  /\ knownInd' = knownInd \union {id}
  /\ it' = id + 1
  /\ UNCHANGED <<nec, feas, keep, rest, minimalProofs, pc>>

\* It does not: add a support of the clause.  The iterator is put on the first
\* clause of FEAS, which the loop then steps over.
ClauseUnsupported(id) ==
  /\ pc = "feas"
  /\ IsCurrent(id, feas)
  /\ id \notin knownInd
  /\ ~Solve(feas, id)
  /\ \E support \in Supports(ClauseID, id) :
       \E minimized \in MinimizedSupports(support, id) :
         feas' = feas \union minimized
  /\ knownInd' = knownInd \union {id}
  /\ it' = SmallestOf(feas') + 1
  /\ UNCHANGED <<nec, keep, rest, minimalProofs, pc>>

AllKnown == Cardinality(knownInd) >= Cardinality(feas)

\* The end of a sweep over FEAS; another one while some clause is not known to
\* be supported.
RefineFEASEnd ==
  /\ pc = "feas"
  /\ AtEnd(feas)
  /\ it' = 0
  /\ pc' = IF AllKnown THEN "nec2" ELSE "feas"
  /\ UNCHANGED <<nec, feas, knownInd, keep, rest, minimalProofs>>

--------------------------------------------------------------------------------

\* The loop condition of bruteForceMinimize.
BruteForce == pc = "brute" /\ Cardinality(keep) < Cardinality(rest)

\* bruteForceMinimize: step over a clause to keep.
SkipClause(id) ==
  /\ BruteForce
  /\ IsCurrent(id, rest)
  /\ id \in keep
  /\ it' = id + 1
  /\ UNCHANGED <<nec, feas, knownInd, keep, rest, minimalProofs, pc>>

\* There is a proof without the clause: go on inside it, from its start.
DropClause(id) ==
  /\ BruteForce
  /\ IsCurrent(id, rest)
  /\ id \notin keep
  /\ FindSIS(rest \ {id})
  /\ rest' = LargestInductive(rest \ {id})
  /\ it' = 0
  /\ UNCHANGED <<nec, feas, knownInd, keep, minimalProofs, pc>>

\* There is none: keep the clause.
KeepClause(id) ==
  /\ BruteForce
  /\ IsCurrent(id, rest)
  /\ id \notin keep
  /\ ~FindSIS(rest \ {id})
  /\ keep' = keep \union {id}
  /\ it' = id + 1
  /\ UNCHANGED <<nec, feas, knownInd, rest, minimalProofs, pc>>

\* addMinimalProof
AddMinimalProof ==
  /\ pc = "brute"
  /\ ~BruteForce
  /\ minimalProofs' = minimalProofs \union {keep}
  /\ pc' = "done"
  /\ UNCHANGED <<nec, feas, it, knownInd, keep, rest>>

Terminating == pc = "done" /\ UNCHANGED vars

Next ==
  \/ \E id \in ClauseID : ClauseNecessary(id)
  \/ RefineNECEnd
  \/ \E id \in ClauseID : ClauseSupported(id) \/ ClauseUnsupported(id)
  \/ RefineFEASEnd
  \/ \E id \in ClauseID : SkipClause(id) \/ DropClause(id) \/ KeepClause(id)
  \/ AddMinimalProof
  \/ Terminating

Spec == Init /\ [][Next]_vars /\ WF_vars(Next)

--------------------------------------------------------------------------------
(* Properties.                                                                *)

\* The variables have the types of the members and locals they stand for, and
\* the iterator of bruteForceMinimize is never dereferenced at the end.
TypeOK ==
  /\ {nec, feas, knownInd, keep, rest} \subseteq SUBSET ClauseID
  /\ it \in 0 .. NumClauses
  /\ minimalProofs \subseteq SUBSET ClauseID
  /\ pc \in {"nec1", "feas", "nec2", "brute", "done"}
  /\ BruteForce => ~AtEnd(rest)

\* NEC holds only clauses of every proof still considered: all proofs at first,
\* the ones within FEAS after refineFEAS, which throws others away.  This is
\* why findSIS may give up when a clause of NEC goes.
NECNecessary ==
  LET considered == IF pc \in {"nec1", "feas"} THEN ClauseID ELSE feas
  IN  \A M \in SIS : M \subseteq considered => nec \subseteq M

\* A clause once found supported stays so while FEAS grows, so that FEAS is a
\* safe inductive subset when refineFEAS ends.
KnownSupported ==
  /\ \A c \in knownInd : Solve(feas, c)
  /\ pc \in {"nec2", "brute"} => IsSIS(feas)

\* The assertion new_size > old_size in refineFEAS: the support of a clause that
\* FEAS does not support has a clause FEAS lacks.
FEASGrows == [][\A c \in knownInd' \ knownInd : ~Solve(feas, c) => feas # feas']_vars

\* A kept clause stays necessary although the set it was tested in shrinks.
KeptNecessary ==
  pc = "brute" =>
    /\ keep \subseteq rest
    /\ IsSIS(rest)
    /\ \A M \in SIS : M \subseteq rest => keep \subseteq M

\* The result is a minimal safe inductive subset of the proof.
FoundAreMSISes == minimalProofs \subseteq MSIS

\* A run of minimize() ends, with one proof.
Termination == <>(pc = "done" /\ Cardinality(minimalProofs) = 1)

================================================================================
